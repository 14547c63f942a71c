------------------------- MODULE PacketFramingProofs ------------------------
(***************************************************************************)
(* For every choice of packet kinds, pool classes, size limits and junk,    *)
(* and for every way the network cuts the stream: what the delegate         *)
(* receives is a prefix of what the server sent.                            *)
(***************************************************************************)
EXTENDS PacketFraming, SequenceTheorems, TLAPS

-----------------------------------------------------------------------------
(* What the buffer operations preserve and copy, for buffers of any size    *)

\* A pool buffer is large enough and starts out empty (getFreeBuffer).
LEMMA GetFreeBufferFits ==
    ASSUME NEW size \in Nat
    PROVE  LET b == GetFreeBuffer(size)
           IN  /\ WellFormed(b) /\ ~ b.freed
               /\ b.pos = 0 /\ b.lim = size
               /\ \A i \in 0 .. b.cap - 1 : b.bytes[i] = Stale
<1>1. CapacityFor(size) \in Nat /\ CapacityFor(size) >= size
  <2>. DEFINE fit == {c \in Classes : size <= c}
  <2>1. CASE fit = {}
    BY <2>1 DEF CapacityFor
  <2>2. CASE fit # {}
    <3>1. \E c \in fit : \A d \in fit : c <= d
      BY <2>2, ClassesAssumption
    <3>2. CapacityFor(size) = CHOOSE c \in fit : \A d \in fit : c <= d
      BY <2>2 DEF CapacityFor
    <3>3. CapacityFor(size) \in fit
      BY <3>1, <3>2
    <3> QED BY <3>3, ClassesAssumption
  <2> QED BY <2>1, <2>2
<1> QED BY <1>1 DEF GetFreeBuffer, WellFormed, Stale

\* A slice of the stream carries exactly the bytes it names.
LEMMA SliceCarries ==
    ASSUME NEW first \in Nat, NEW n \in Nat
    PROVE  LET b == Slice(first, n)
           IN  /\ WellFormed(b) /\ ~ b.freed
               /\ b.pos = 0 /\ b.lim = n /\ b.cap = n
               /\ \A i \in 0 .. n - 1 : b.bytes[i] = first + i
BY DEF Slice, WellFormed

\* writeBytes keeps both buffers in order; when the source fits it lands
\* behind the destination's position and everything else stays.
LEMMA WriteBytesCopies ==
    ASSUME NEW dst, NEW src, WellFormed(dst), WellFormed(src)
    PROVE  /\ WellFormed(WriteBytes(dst, src))
           /\ WriteBytes(dst, src).lim = dst.lim
           /\ WriteBytes(dst, src).cap = dst.cap
           /\ WriteBytes(dst, src).freed = dst.freed
           /\ Fits(dst, src) =>
                /\ WriteBytes(dst, src).pos = dst.pos + Remaining(src)
                /\ \A i \in 0 .. dst.cap - 1 :
                     WriteBytes(dst, src).bytes[i] =
                       IF dst.pos <= i /\ i < dst.pos + Remaining(src)
                       THEN src.bytes[src.pos + (i - dst.pos)]
                       ELSE dst.bytes[i]
           /\ ~ Fits(dst, src) => WriteBytes(dst, src) = dst
<1>1. ASSUME Fits(dst, src) PROVE
        /\ WellFormed(WriteBytes(dst, src))
        /\ WriteBytes(dst, src).lim = dst.lim
        /\ WriteBytes(dst, src).cap = dst.cap
        /\ WriteBytes(dst, src).freed = dst.freed
        /\ WriteBytes(dst, src).pos = dst.pos + Remaining(src)
        /\ \A i \in 0 .. dst.cap - 1 :
             WriteBytes(dst, src).bytes[i] =
               IF dst.pos <= i /\ i < dst.pos + Remaining(src)
               THEN src.bytes[src.pos + (i - dst.pos)]
               ELSE dst.bytes[i]
  <2>. DEFINE w == WriteBytes(dst, src)
              copied == [i \in 0 .. dst.cap - 1 |->
                           IF dst.pos <= i /\ i < dst.pos + Remaining(src)
                           THEN src.bytes[src.pos + (i - dst.pos)]
                           ELSE dst.bytes[i]]
  <2>1. /\ w.bytes = copied /\ w.pos = dst.pos + Remaining(src)
        /\ w.lim = dst.lim /\ w.cap = dst.cap /\ w.freed = dst.freed
    BY <1>1 DEF WriteBytes
  <2>2. copied \in [0 .. dst.cap - 1 -> Int]
    <3>1. ASSUME NEW i \in 0 .. dst.cap - 1 PROVE copied[i] \in Int
      <4>1. CASE dst.pos <= i /\ i < dst.pos + Remaining(src)
        <5>1. src.pos + (i - dst.pos) \in 0 .. src.cap - 1
          <6>1. /\ dst.pos \in Nat /\ src.pos \in Nat /\ src.lim \in Nat
                /\ src.cap \in Nat /\ src.lim <= src.cap /\ dst.cap \in Nat
            BY DEF WellFormed
          <6>2. i \in Int /\ dst.pos <= i /\ i < dst.pos + (src.lim - src.pos)
            BY <4>1, <6>1 DEF Remaining
          <6>. HIDE DEF w, copied
          <6> QED BY <6>1, <6>2
        <5> QED BY <4>1, <5>1 DEF WellFormed
      <4>2. CASE ~ (dst.pos <= i /\ i < dst.pos + Remaining(src))
        BY <4>2 DEF WellFormed
      <4> QED BY <4>1, <4>2
    <3> QED BY <3>1
  <2>3. WellFormed(w)
    <3>1. w.pos \in Nat /\ w.pos <= w.lim
      BY <1>1, <2>1 DEF WellFormed, Fits, Remaining
    <3>2. w.bytes \in [0 .. w.cap - 1 -> Int]
      BY <2>1, <2>2
    <3> QED BY <2>1, <3>1, <3>2 DEF WellFormed
  <2> QED BY <2>1, <2>3
<1>2. CASE ~ Fits(dst, src)
  BY <1>2 DEF WriteBytes
<1> QED BY <1>1, <1>2

\* Moving position and limit within the capacity keeps a buffer in order.
LEMMA MovedWellFormed ==
    ASSUME NEW b, WellFormed(b), NEW p \in Nat, NEW l \in Nat, p <= l, l <= b.cap
    PROVE  /\ WellFormed(Moved(b, p, l))
           /\ Moved(b, p, l).bytes = b.bytes
           /\ Moved(b, p, l).pos = p /\ Moved(b, p, l).lim = l
           /\ Moved(b, p, l).cap = b.cap /\ Moved(b, p, l).freed = b.freed
BY DEF Moved, WellFormed

\* limit(l) never breaks a buffer, whatever l.
LEMMA LimitWellFormed ==
    ASSUME NEW b, WellFormed(b), NEW l \in Nat
    PROVE  WellFormed(Limit(b, l))
<1>1. CASE l > b.cap
  BY <1>1 DEF Limit
<1>2. CASE ~ (l > b.cap)
  <2>. DEFINE q == IF b.pos > l THEN l ELSE b.pos
  <2>1. q \in Nat /\ q <= l /\ l <= b.cap
    BY <1>2 DEF WellFormed
  <2>2. Limit(b, l) = Moved(b, q, l)
    BY <1>2 DEF Limit
  <2> QED BY <2>1, <2>2, MovedWellFormed
<1> QED BY <1>1, <1>2

\* compact() keeps what remains, moved to the front.
LEMMA CompactKeeps ==
    ASSUME NEW b, WellFormed(b)
    PROVE  /\ WellFormed(Compact(b))
           /\ Compact(b).cap = b.cap /\ Compact(b).freed = b.freed
           /\ HasRemaining(b) =>
                /\ Compact(b).pos = Remaining(b)
                /\ Compact(b).lim = b.cap
                /\ \A i \in 0 .. Remaining(b) - 1 :
                     Compact(b).bytes[i] = b.bytes[b.pos + i]
           /\ \A i \in 0 .. b.cap - 1 :
                Compact(b).bytes[i] = b.bytes[i]
                  \/ \E j \in 0 .. b.cap - 1 : Compact(b).bytes[i] = b.bytes[j]
<1>1. CASE b.pos = b.lim
  BY <1>1 DEF Compact, HasRemaining, WellFormed
<1>2. CASE b.pos # b.lim
  <2>. DEFINE c == Compact(b)
              moved == [i \in 0 .. b.cap - 1 |->
                          IF i < Remaining(b) THEN b.bytes[b.pos + i] ELSE b.bytes[i]]
  <2>1. /\ c.bytes = moved /\ c.pos = Remaining(b)
        /\ c.lim = b.cap /\ c.cap = b.cap /\ c.freed = b.freed
    BY <1>2 DEF Compact
  <2>2. \A i \in 0 .. b.cap - 1 : i < Remaining(b) => b.pos + i \in 0 .. b.cap - 1
    BY DEF WellFormed, Remaining
  <2>3. moved \in [0 .. b.cap - 1 -> Int]
    BY <2>2 DEF WellFormed
  <2>4. WellFormed(c)
    BY <2>1, <2>3 DEF WellFormed, Remaining
  <2>5. \A i \in 0 .. Remaining(b) - 1 : i \in 0 .. b.cap - 1 /\ i < Remaining(b)
    BY DEF WellFormed, Remaining
  <2> QED BY <2>1, <2>2, <2>4, <2>5
<1> QED BY <1>1, <1>2

-----------------------------------------------------------------------------
(* The buffers of the heap                                                  *)

Sound(b) == WellFormed(b) /\ InStream(b)

HeapOK(h) == h = [id \in BufferIds |-> h[id]] /\ \A id \in BufferIds : Sound(h[id])

\* The names of buffers are distinct, and Fresh picks one not in use.
LEMMA Names ==
    /\ Null \notin BufferIds /\ "chunk" \notin PoolIds
    /\ PoolIds \subseteq BufferIds /\ "chunk" \in BufferIds
    /\ \A u : Fresh(u) \in PoolIds /\ Fresh(u) # u
BY DEF Null, BufferIds, PoolIds, Fresh

\* The empty buffer is well formed and holds nothing.
LEMMA NoBufferSound == Sound(NoBuffer) /\ ~ NoBuffer.freed
BY DEF Sound, NoBuffer, Slice, WellFormed, InStream

\* The chunk wrapped by SerializedBuffer(data, length) is well formed and holds
\* the stream's next bytes.
LEMMA SliceSound ==
    ASSUME TypeOK, NEW n \in Nat, received + n <= total
    PROVE  Sound(Slice(received, n)) /\ received \in Nat
<1>1. received \in Nat /\ total \in Nat /\ total <= MaxBytes
  BY BoundAssumption DEF TypeOK
<1>. DEFINE b == Slice(received, n)
<1>2. WellFormed(b) /\ b.cap = n /\ \A i \in 0 .. n - 1 : b.bytes[i] = received + i
  BY <1>1, SliceCarries
<1>3. \A i \in 0 .. n - 1 : received + i \in Offsets
  BY <1>1, BoundAssumption DEF Offsets, Stale
<1> QED BY <1>1, <1>2, <1>3 DEF Sound, InStream

\* getFreeBuffer returns a well-formed buffer of stale bytes.
LEMMA FreeBufferSound ==
    ASSUME NEW size \in Nat
    PROVE  Sound(GetFreeBuffer(size))
BY GetFreeBufferFits, BoundAssumption DEF Sound, InStream, Offsets, Stale

\* writeBytes keeps a buffer well formed and its bytes in the stream.
LEMMA WriteSound ==
    ASSUME NEW dst, NEW src, Sound(dst), Sound(src)
    PROVE  Sound(WriteBytes(dst, src))
<1>1. WellFormed(dst) /\ WellFormed(src)
  BY DEF Sound
<1>2. CASE Fits(dst, src)
  <2>1. ASSUME NEW i \in 0 .. dst.cap - 1
        PROVE  WriteBytes(dst, src).bytes[i] \in Offsets
    <3>1. CASE dst.pos <= i /\ i < dst.pos + Remaining(src)
      <4>1. src.pos + (i - dst.pos) \in 0 .. src.cap - 1
        <5>1. /\ dst.pos \in Nat /\ src.pos \in Nat /\ src.lim \in Nat
              /\ src.cap \in Nat /\ src.lim <= src.cap
          BY <1>1 DEF WellFormed
        <5> QED BY <3>1, <5>1 DEF Remaining
      <4> QED BY <1>1, <1>2, <3>1, <4>1, WriteBytesCopies DEF Sound, InStream
    <3>2. CASE ~ (dst.pos <= i /\ i < dst.pos + Remaining(src))
      BY <1>1, <1>2, <3>2, WriteBytesCopies DEF Sound, InStream
    <3> QED BY <3>1, <3>2
  <2> QED BY <1>1, <2>1, WriteBytesCopies DEF Sound, InStream
<1>3. CASE ~ Fits(dst, src)
  BY <1>1, <1>3, WriteBytesCopies DEF Sound
<1> QED BY <1>2, <1>3

\* Moving position and limit within the capacity keeps a buffer well formed.
LEMMA MovedSound ==
    ASSUME NEW b, Sound(b), NEW p \in Nat, NEW l \in Nat, p <= l, l <= b.cap
    PROVE  Sound(Moved(b, p, l))
BY MovedWellFormed DEF Sound, InStream

\* limit() keeps a buffer well formed.
LEMMA LimitSound ==
    ASSUME NEW b, Sound(b), NEW l \in Nat
    PROVE  Sound(Limit(b, l))
<1>1. Limit(b, l).bytes = b.bytes /\ Limit(b, l).cap = b.cap
  BY DEF Limit, Moved
<1> QED BY <1>1, LimitWellFormed DEF Sound, InStream

\* position() keeps a buffer well formed.
LEMMA PositionSound ==
    ASSUME NEW b, Sound(b), NEW p \in Nat
    PROVE  Sound(Position(b, p))
<1>1. b.lim \in Nat /\ b.lim <= b.cap
  BY DEF Sound, WellFormed
<1> QED BY <1>1, MovedSound DEF Position

\* rewind() keeps a buffer well formed.
LEMMA RewindSound ==
    ASSUME NEW b, Sound(b)
    PROVE  Sound(Rewind(b))
<1>1. b.lim \in Nat /\ b.lim <= b.cap
  BY DEF Sound, WellFormed
<1> QED BY <1>1, MovedSound DEF Rewind

\* Reading all that remains keeps a buffer well formed.
LEMMA DrainSound ==
    ASSUME NEW dst, NEW src, Sound(src)
    PROVE  Sound(Drain(dst, src))
<1>1. src.lim \in Nat /\ src.lim <= src.cap
  BY DEF Sound, WellFormed
<1> QED BY <1>1, MovedSound DEF Drain

\* compact(), limit(position()), position(0) keep a buffer well formed.
LEMMA CompactedSound ==
    ASSUME NEW b, Sound(b)
    PROVE  Sound(Compacted(b))
<1>. DEFINE c == Compact(b)
<1>1. WellFormed(b)
  BY DEF Sound
<1>2. Sound(c)
  BY <1>1, CompactKeeps DEF Sound, InStream
<1>3. c.pos \in Nat
  BY <1>2 DEF Sound, WellFormed
<1>4. Sound(Limit(c, c.pos))
  BY <1>2, <1>3, LimitSound
<1> QED BY <1>4, PositionSound DEF Compacted

\* A buffer given back stays well formed, whether kept or deleted.
LEMMA ReuseSound ==
    ASSUME NEW b, Sound(b)
    PROVE  Sound(Reuse(b))
BY DEF Reuse, Sound, WellFormed, InStream

\* Replacing one buffer of a sound heap by a sound one.
LEMMA HeapUpdate ==
    ASSUME NEW h, HeapOK(h), NEW id \in BufferIds, NEW b, Sound(b)
    PROVE  /\ HeapOK([h EXCEPT ![id] = b])
           /\ [h EXCEPT ![id] = b][id] = b
           /\ \A j \in BufferIds : j # id => [h EXCEPT ![id] = b][j] = h[j]
BY DEF HeapOK

\* The fields of a sent packet have their types.
LEMMA SentTyped ==
    ASSUME TypeOK, NEW k \in DOMAIN sent
    PROVE  /\ sent[k] \in [at : Nat, hdr : {1, 4}, len : Nat]
           /\ sent[k].at \in Nat /\ sent[k].hdr \in {1, 4} /\ sent[k].len \in Nat
<1>. DEFINE P == [at : Nat, hdr : {1, 4}, len : Nat]
<1>1. sent \in Seq(P)
  BY DEF TypeOK
<1>2. sent[k] \in P
  <2>. HIDE DEF P
  <2> QED BY <1>1
<1> QED BY <1>2

\* What the parser takes for a header always has a header's shape.
LEMMA HeaderTyped ==
    ASSUME TypeOK, BytesOK, NEW id \in BufferIds, HasRemaining(heap[id])
    PROVE  HeaderAt(heap[id]).hdr \in {1, 4} /\ HeaderAt(heap[id]).len \in Nat
<1>. DEFINE b == heap[id]
            o == b.bytes[b.pos]
<1>1. WellFormed(b) /\ InStream(b)
  BY DEF TypeOK, BytesOK
<1>2. o \in Offsets
  BY <1>1 DEF WellFormed, InStream, HasRemaining
<1>3. Junk[o].hdr \in {1, 4} /\ Junk[o].len \in Nat
  BY <1>2, JunkAssumption, BoundAssumption DEF Offsets, Stale
<1>4. CASE sync # "garbled" /\ \E k \in DOMAIN sent : sent[k].at = o
  <2>1. PICK k \in DOMAIN sent : HeaderAt(b) = sent[k]
    BY <1>4 DEF HeaderAt
  <2> QED BY <2>1, SentTyped
<1>5. CASE ~ (sync # "garbled" /\ \E k \in DOMAIN sent : sent[k].at = o)
  BY <1>3, <1>5 DEF HeaderAt
<1> QED BY <1>4, <1>5

\* Appending to a sequence of anything: its length and its elements.
LEMMA AppendToSeq ==
    ASSUME NEW s, IsSeq(s), NEW x
    PROVE  LET t == Append(s, x)
           IN  /\ IsSeq(t)
               /\ Len(s) \in Nat /\ Len(t) = Len(s) + 1
               /\ \A k \in 1 .. Len(s) : t[k] = s[k]
               /\ t[Len(s) + 1] = x
<1>. DEFINE S == {s[k] : k \in DOMAIN s} \cup {x}
            t == Append(s, x)
<1>1. s \in Seq(S) /\ x \in S
  BY SeqMonotonic DEF IsSeq
<1>2. /\ t \in Seq(S) /\ Len(t) = Len(s) + 1
      /\ \A k \in 1 .. Len(s) : t[k] = s[k]
      /\ t[Len(s) + 1] = x
  <2>. HIDE DEF S
  <2> QED BY <1>1, AppendProperties
<1>3. Len(s) \in Nat
  <2>. HIDE DEF S
  <2> QED BY <1>1, LenProperties
<1>4. DOMAIN t = 1 .. Len(t) /\ Len(t) \in Nat
  <2>. HIDE DEF S, t
  <2> QED BY <1>2, LenProperties
<1>5. t \in Seq({t[k] : k \in DOMAIN t})
  <2>. DEFINE T == {t[k] : k \in DOMAIN t}
  <2>1. t \in [1 .. Len(t) -> T]
    <3>1. t = [k \in 1 .. Len(t) |-> t[k]]
      <4>. HIDE DEF S, t
      <4> QED BY <1>2, LenProperties
    <3> QED BY <1>4, <3>1
  <2>. HIDE DEF T, t
  <2>2. Seq(T) = UNION {[1 .. n -> T] : n \in Nat}
    BY SeqDef
  <2>3. t \in Seq(T)
    BY <1>4, <2>1, <2>2
  <2> QED BY <2>3 DEF T
<1> QED BY <1>2, <1>3, <1>5 DEF IsSeq

-----------------------------------------------------------------------------
(* Type correctness: every step keeps the buffers in order.                 *)

\* Returning keeps unprocessedData and drops every other buffer.
LEMMA ReturnKeeps ==
    ASSUME NEW h, HeapOK(h), NEW u \in PoolIds \cup {Null}, Return(h, u)
    PROVE  /\ HeapOK(heap')
           /\ u # Null => heap'[u] = h[u]
           /\ unp' = u /\ buf' = "chunk" /\ later' = FALSE /\ pc' = "idle"
<1>1. heap' = [id \in BufferIds |-> IF id = u THEN h[id] ELSE NoBuffer]
  BY DEF Return
<1>2. \A id \in BufferIds : Sound(heap'[id])
  BY <1>1, NoBufferSound DEF HeapOK
<1> QED BY <1>1, <1>2, Names DEF HeapOK, Return

\* What a step of the handler must establish for TypeOK and BytesOK.
LEMMA HandlerTyped ==
    ASSUME TypeOK, HeapOK(heap'), sent' = sent, total' = total,
           received' \in 0 .. total,
           unp' \in PoolIds \cup {Null}, lpl' \in Nat, buf' \in BufferIds,
           later' \in BOOLEAN, pc' \in {"idle", "loop", "undefined"},
           sync' \in {"ok", "lost", "garbled"},
           IsSeq(delivered')
    PROVE  TypeOK' /\ BytesOK'
BY DEF TypeOK, BytesOK, HeapOK, Sound

\* The typed state has a sound heap.
LEMMA HeapIsOK == TypeOK /\ BytesOK => HeapOK(heap)
BY DEF TypeOK, BytesOK, HeapOK, Sound

\* The prologue of onConnectionReceivedData keeps the types.
LEMMA ReceiveTyped ==
    ASSUME TypeOK, BytesOK, NEW n \in 1 .. MaxBytes,
           ReceiveFresh(n) \/ ReceiveAppend(n) \/ ReceiveGrow(n) \/ ReceiveBody(n)
    PROVE  TypeOK' /\ BytesOK'
<1>. DEFINE c == Slice(received, n)
            u == heap[unp]
<1>1. /\ n \in Nat /\ received + n <= total /\ received' = received + n
      /\ sent' = sent /\ total' = total /\ sync' = sync /\ delivered' = delivered
      /\ lpl' = lpl
  <2>1. n \in Nat
    BY BoundAssumption
  <2>2. Receive(n) /\ lpl' = lpl
    BY DEF ReceiveFresh, ReceiveAppend, ReceiveGrow, ReceiveBody
  <2> QED BY <2>1, <2>2 DEF Receive
<1>2. received' \in 0 .. total
  BY <1>1 DEF TypeOK
<1>3. HeapOK(heap) /\ Sound(c) /\ c.lim = n /\ c.cap = n
  BY <1>1, HeapIsOK, SliceSound, SliceCarries
<1>4. unp # Null => unp \in PoolIds /\ unp \in BufferIds /\ Sound(u) /\ u.pos \in Nat /\ u.lim \in Nat
  BY <1>3, Names DEF TypeOK, HeapOK, Sound, WellFormed
<1>5. ASSUME HeapOK(heap'), unp' \in PoolIds \cup {Null}, buf' \in BufferIds,
             later' \in BOOLEAN, pc' \in {"idle", "loop"}
      PROVE  TypeOK' /\ BytesOK'
  <2>1. lpl' \in Nat /\ sync' \in {"ok", "lost", "garbled"}
        /\ IsSeq(delivered')
    BY <1>1 DEF TypeOK
  <2> QED BY <1>1, <1>2, <1>5, <2>1, HandlerTyped
<1>6. CASE ReceiveFresh(n)
  BY <1>3, <1>5, <1>6, HeapUpdate, Names DEF ReceiveFresh, Loop, TypeOK
<1>7. CASE ReceiveAppend(n)
  <2>1. Sound(Rewind(WriteBytes(Limit(u, u.pos + n), c)))
    BY <1>1, <1>3, <1>4, <1>7, LimitSound, WriteSound, RewindSound DEF ReceiveAppend
  <2> QED BY <1>3, <1>4, <1>5, <1>7, <2>1, HeapUpdate DEF ReceiveAppend, Loop
<1>8. CASE ReceiveGrow(n)
  <2>. DEFINE joined == WriteBytes(WriteBytes(GetFreeBuffer(u.lim + n), Rewind(u)), c)
  <2>1. Sound(Rewind(joined)) /\ Sound(Reuse(u))
    BY <1>1, <1>3, <1>4, <1>8, FreeBufferSound, WriteSound, RewindSound, ReuseSound DEF ReceiveGrow
  <2>. DEFINE h == [heap EXCEPT ![Fresh(unp)] = Rewind(joined)]
  <2>2. heap' = [h EXCEPT ![unp] = Reuse(u)]
    BY <1>8 DEF ReceiveGrow, Loop
  <2>3. Fresh(unp) \in BufferIds /\ Fresh(unp) \in PoolIds
    BY Names
  <2>4. HeapOK(h)
    BY <1>3, <2>1, <2>3, HeapUpdate
  <2>5. HeapOK(heap')
    <3>. HIDE DEF h
    <3> QED BY <1>4, <1>8, <2>1, <2>2, <2>4, HeapUpdate DEF ReceiveGrow
  <2> QED BY <1>5, <1>8, <2>3, <2>5 DEF ReceiveGrow, Loop
<1>9. CASE ReceiveBody(n)
  <2>. DEFINE len == IF u.pos <= lpl /\ lpl - u.pos <= n THEN lpl - u.pos ELSE n
              part == Limit(c, len)
              u1 == WriteBytes(u, part)
              rest == Limit(Drain(u, part), n)
              h1 == [heap EXCEPT ![unp] = u1]
              h == [h1 EXCEPT !["chunk"] = rest]
  <2>1. unp # Null /\ lpl \in Nat
    BY <1>9 DEF ReceiveBody, TypeOK
  <2>2. len \in Nat
    BY <1>1, <1>4, <2>1
  <2>3. Sound(part) /\ Sound(u1) /\ Sound(rest) /\ Sound(Rewind(u1))
    BY <1>1, <1>3, <1>4, <2>1, <2>2, LimitSound, WriteSound, DrainSound, RewindSound
  <2>4. HeapOK(h1)
    BY <1>3, <1>4, <2>1, <2>3, HeapUpdate
  <2>5. HeapOK(h)
    <3>. HIDE DEF h1, rest
    <3> QED BY <2>3, <2>4, HeapUpdate, Names
  <2>6. h = [heap EXCEPT ![unp] = u1, !["chunk"] = rest]
    OBVIOUS
  <2>7. \/ Loop([h EXCEPT ![unp] = Rewind(u1)], unp, unp, HasRemaining(rest))
        \/ Return(h, unp)
    BY <1>9, <2>6 DEF ReceiveBody
  <2>. HIDE DEF h, u1, rest
  <2>8. CASE Loop([h EXCEPT ![unp] = Rewind(u1)], unp, unp, HasRemaining(rest))
    <3>1. HeapOK(heap')
      BY <1>4, <2>1, <2>3, <2>5, <2>8, HeapUpdate DEF Loop
    <3> QED BY <1>4, <1>5, <2>1, <2>8, <3>1 DEF Loop, HasRemaining
  <2>9. CASE Return(h, unp)
    <3>1. /\ HeapOK(heap')
          /\ unp' = unp /\ buf' = "chunk" /\ later' = FALSE /\ pc' = "idle"
      BY <1>4, <2>1, <2>5, <2>9, ReturnKeeps
    <3> QED BY <1>4, <1>5, <2>1, <3>1, Names
  <2> QED BY <2>7, <2>8, <2>9
<1> QED BY <1>6, <1>7, <1>8, <1>9

\* Each turn of the parsing loop keeps the types.
LEMMA LoopTyped ==
    ASSUME TypeOK, BytesOK, LoopStep
    PROVE  TypeOK' /\ BytesOK'
<1>. DEFINE b == heap[buf]
            p == HeaderAt(b)
<1>1. /\ sent' = sent /\ total' = total /\ received' = received
      /\ received \in 0 .. total
  BY DEF LoopStep, LoopEnds, CutHeader, InvalidLength, CutBody, Deliver, ReadFreed,
         Turn, stream, TypeOK
<1>2. HeapOK(heap) /\ buf \in BufferIds /\ Sound(b)
  BY HeapIsOK DEF TypeOK, HeapOK
<1>3. /\ b.pos \in Nat /\ b.lim \in Nat /\ b.cap \in Nat
      /\ b.pos <= b.lim /\ b.lim <= b.cap
  BY <1>2 DEF Sound, WellFormed
<1>4. unp \in PoolIds \cup {Null}
      /\ (unp # Null => unp \in BufferIds /\ Sound(heap[unp]))
  BY <1>2, Names DEF TypeOK, HeapOK
<1>5. HasRemaining(b) => p.hdr \in {1, 4} /\ p.len \in Nat
  BY <1>2, HeaderTyped
<1>6. ASSUME HeapOK(heap'), unp' \in PoolIds \cup {Null}, buf' \in BufferIds,
             later' \in BOOLEAN, pc' \in {"idle", "loop", "undefined"}, lpl' \in Nat,
             sync' \in {"ok", "lost", "garbled"}, delivered' = delivered
      PROVE  TypeOK' /\ BytesOK'
  <2>1. IsSeq(delivered')
    BY <1>6 DEF TypeOK
  <2> QED BY <1>1, <1>6, <2>1, HandlerTyped
<1>7. ASSUME NEW h, HeapOK(h), NEW u \in PoolIds \cup {Null}, Return(h, u),
             lpl' \in Nat, sync' \in {"ok", "lost", "garbled"}, delivered' = delivered
      PROVE  TypeOK' /\ BytesOK'
  <2>1. /\ HeapOK(heap') /\ unp' = u
        /\ buf' = "chunk" /\ later' = FALSE /\ pc' = "idle"
    BY <1>7, ReturnKeeps
  <2> QED BY <1>6, <1>7, <2>1, Names
<1>8. lpl \in Nat /\ sync \in {"ok", "lost", "garbled"}
  BY DEF TypeOK
<1>9. CASE LoopEnds
  BY <1>2, <1>4, <1>7, <1>8, <1>9 DEF LoopEnds
<1>10. CASE CutHeader
  <2>. DEFINE saved == WriteBytes(GetFreeBuffer(PartialSize), b)
              new == [heap EXCEPT ![Fresh(unp)] = Limit(saved, saved.pos)]
              old == [heap EXCEPT ![unp] = Position(heap[unp], heap[unp].lim)]
  <2>1. Sound(saved)
    BY <1>2, FreeBufferSound, WriteSound, SizesAssumption
  <2>2. Sound(Limit(saved, saved.pos))
    <3>1. saved.pos \in Nat
      BY <2>1 DEF Sound, WellFormed
    <3> QED BY <2>1, <3>1, LimitSound
  <2>3. HeapOK(new) /\ Fresh(unp) \in PoolIds
    BY <1>2, <2>2, HeapUpdate, Names
  <2>4. unp # Null => HeapOK(old)
    <3>1. unp # Null => Sound(Position(heap[unp], heap[unp].lim))
      <4>1. unp # Null => heap[unp].lim \in Nat
        BY <1>4 DEF Sound, WellFormed
      <4> QED BY <1>4, <4>1, PositionSound
    <3> QED BY <1>2, <1>4, <3>1, HeapUpdate
  <2>5. /\ sync' = sync /\ delivered' = delivered
        /\ \/ Return(new, Fresh(unp)) /\ lpl' = 0
           \/ unp # Null /\ Return(old, unp) /\ lpl' = lpl
    BY <1>10 DEF CutHeader
  <2>. HIDE DEF new, old
  <2> QED BY <1>4, <1>7, <1>8, <2>3, <2>4, <2>5
<1>11. CASE InvalidLength
  <2>. DEFINE h == [heap EXCEPT ![buf] = Moved(b, b.pos + p.hdr, b.lim)]
  <2>1. HasRemaining(b) /\ HeaderWhole(b, p) /\ Return(h, unp)
        /\ lpl' = lpl /\ delivered' = delivered /\ sync' \in {"ok", "lost", "garbled"}
    BY <1>8, <1>11 DEF InvalidLength, Turn
  <2>2. b.pos + p.hdr \in Nat /\ b.pos + p.hdr <= b.lim
    BY <1>3, <1>5, <2>1 DEF HasRemaining, HeaderWhole, Remaining
  <2>3. Sound(Moved(b, b.pos + p.hdr, b.lim))
    BY <1>2, <1>3, <2>2, MovedSound
  <2>4. HeapOK(h)
    BY <1>2, <2>3, HeapUpdate
  <2>. HIDE DEF h
  <2> QED BY <1>4, <1>7, <1>8, <2>1, <2>4
<1>12. CASE CutBody
  <2>. DEFINE len == p.len + p.hdr
              u == IF buf = unp THEN Moved(b, b.pos + p.hdr, b.lim) ELSE heap[unp]
              new == [heap EXCEPT ![Fresh(unp)] = WriteBytes(GetFreeBuffer(len), b)]
              old == [heap EXCEPT ![unp] = Limit(Position(u, u.lim), len)]
  <2>1. HasRemaining(b) /\ HeaderWhole(b, p)
        /\ sync' = sync /\ delivered' = delivered /\ lpl' = len
    BY <1>12 DEF CutBody, Turn
  <2>2. len \in Nat
    BY <1>5, <2>1
  <2>3. HeapOK(new) /\ Fresh(unp) \in PoolIds
    BY <1>2, <2>2, FreeBufferSound, WriteSound, HeapUpdate, Names
  <2>4. unp # Null => HeapOK(old)
    <3>1. b.pos + p.hdr \in Nat /\ b.pos + p.hdr <= b.lim
      BY <1>3, <1>5, <2>1 DEF HasRemaining, HeaderWhole, Remaining
    <3>2. unp # Null => Sound(u)
      BY <1>2, <1>3, <1>4, <3>1, MovedSound
    <3>3. unp # Null => u.lim \in Nat
      BY <3>2 DEF Sound, WellFormed
    <3>. HIDE DEF u
    <3>4. unp # Null => Sound(Limit(Position(u, u.lim), len))
      BY <2>2, <3>2, <3>3, PositionSound, LimitSound
    <3> QED BY <1>2, <1>4, <3>4, HeapUpdate
  <2>5. \/ Return(new, Fresh(unp))
        \/ unp # Null /\ Return(old, unp)
    BY <1>12 DEF CutBody
  <2>. HIDE DEF new, old, len
  <2> QED BY <1>4, <1>7, <1>8, <2>1, <2>2, <2>3, <2>4, <2>5
<1>13. CASE Deliver
  <2>. DEFINE first == b.pos + p.hdr
              h == [heap EXCEPT ![buf] = Moved(b, first + p.len, b.lim)]
              next == IF later THEN "chunk" ELSE buf
              x == [i \in 0 .. p.len - 1 |-> b.bytes[first + i]]
  <2>1. /\ HasRemaining(b) /\ HeaderWhole(b, p) /\ BodyWhole(b, p)
        /\ lpl' = lpl /\ sync' = sync
        /\ delivered' = Append(delivered, x)
        /\ \/ unp = Null /\ Loop(h, unp, next, FALSE)
           \/ unp # Null /\ Loop([h EXCEPT ![unp] = Reuse(h[unp])], Null, next, FALSE)
           \/ unp # Null /\ Loop([h EXCEPT ![unp] = Compacted(h[unp])], unp, next, FALSE)
    BY <1>13 DEF Deliver, Turn
  <2>2. first + p.len \in Nat /\ first + p.len <= b.lim
    <3>1. /\ p.hdr \in {1, 4} /\ p.len \in Nat /\ b.pos < b.lim
          /\ p.hdr = 1 \/ b.lim - b.pos >= 4
          /\ p.len <= (b.lim - b.pos) - p.hdr
      BY <1>5, <2>1 DEF HasRemaining, HeaderWhole, BodyWhole, Remaining
    <3>. HIDE DEF b, p
    <3> QED BY <1>3, <3>1
  <2>3. HeapOK(h)
    BY <1>2, <1>3, <2>2, MovedSound, HeapUpdate
  <2>4. IsSeq(delivered')
    <3>1. IsSeq(delivered)
      BY DEF TypeOK
    <3>. DEFINE t == Append(delivered, x)
    <3>. HIDE DEF x
    <3>2. IsSeq(t)
      BY <3>1, AppendToSeq
    <3>3. delivered' = t
      BY <2>1
    <3>. HIDE DEF t
    <3> QED BY <3>2, <3>3
  <2>. HIDE DEF h, x
  <2>5. unp # Null => Sound(h[unp])
    BY <1>4, <2>3 DEF HeapOK
  <2>6. HeapOK(heap') /\ unp' \in PoolIds \cup {Null}
        /\ buf' = next /\ later' = FALSE /\ pc' = "loop"
    BY <1>4, <2>1, <2>3, <2>5, ReuseSound, CompactedSound, HeapUpdate DEF Loop
  <2>7. next \in BufferIds
    BY <1>2, Names
  <2> QED BY <1>1, <1>8, <2>1, <2>4, <2>6, <2>7, HandlerTyped
<1>14. CASE ReadFreed
  <2>1. lpl' = lpl /\ sync' = sync /\ delivered' = delivered
    BY <1>14 DEF ReadFreed
  <2>2. CASE Return(heap, unp)
    BY <1>2, <1>4, <1>7, <1>8, <2>1, <2>2
  <2>3. CASE pc' = "undefined" /\ UNCHANGED <<heap, unp, buf, later>>
    BY <1>2, <1>6, <1>8, <2>1, <2>3 DEF TypeOK
  <2> QED BY <1>14, <2>2, <2>3 DEF ReadFreed
<1> QED BY <1>9, <1>10, <1>11, <1>12, <1>13, <1>14 DEF LoopStep

\* The server's sends and the two resets keep the types.
LEMMA EnvironmentTyped ==
    ASSUME TypeOK, BytesOK,
           \/ \E kind \in Kinds : ServerSend(kind)
           \/ NewConnection
           \/ ResetMidStream
    PROVE  TypeOK' /\ BytesOK'
<1>1. ASSUME NEW kind \in Kinds, ServerSend(kind) PROVE TypeOK' /\ BytesOK'
  <2>. DEFINE P == [at : Nat, hdr : {1, 4}, len : Nat]
              q == [at |-> total, hdr |-> kind.hdr, len |-> kind.len]
  <2>1. kind.hdr \in {1, 4} /\ kind.len \in Nat
    BY KindsAssumption
  <2>2. total \in Nat /\ received \in Nat /\ received <= total
    BY DEF TypeOK
  <2>3. Size(kind) \in Nat
    BY <2>1 DEF Size
  <2>4. total' \in 0 .. MaxBytes /\ received' \in 0 .. total'
    BY <1>1, <2>2, <2>3, BoundAssumption DEF ServerSend
  <2>5. sent' \in Seq(P)
    <3>1. q \in P /\ sent \in Seq(P) /\ sent' = Append(sent, q)
      BY <1>1, <2>1, <2>2 DEF ServerSend, TypeOK
    <3>. HIDE DEF P, q
    <3> QED BY <3>1, AppendProperties
  <2>6. UNCHANGED <<heap, unp, lpl, buf, later, pc, sync, delivered>>
    BY <1>1 DEF ServerSend
  <2>7. TypeOK'
    BY <2>4, <2>5, <2>6 DEF TypeOK
  <2>8. BytesOK'
    BY <2>6 DEF BytesOK
  <2> QED BY <2>7, <2>8
<1>2. ASSUME DropUnprocessed PROVE
        /\ heap' = [id \in BufferIds |-> heap'[id]]
        /\ \A id \in BufferIds : WellFormed(heap'[id]) /\ InStream(heap'[id])
        /\ unp' \in PoolIds \cup {Null} /\ lpl' \in Nat
  BY <1>2, NoBufferSound DEF DropUnprocessed, Sound
<1>3. CASE NewConnection
  <2>1. /\ sent' = <<>> /\ total' = 0 /\ received' = 0 /\ delivered' = <<>>
        /\ sync' = "ok" /\ buf' = buf /\ later' = later /\ pc' = pc /\ DropUnprocessed
    BY <1>3 DEF NewConnection
  <2>2. IsSeq(delivered')
    BY <2>1, EmptySeq DEF IsSeq
  <2>3. sent' \in Seq([at : Nat, hdr : {1, 4}, len : Nat])
    BY <2>1
  <2> QED BY <1>2, <2>1, <2>2, <2>3, BoundAssumption DEF TypeOK, BytesOK
<1>4. CASE ResetMidStream
  BY <1>2, <1>4 DEF ResetMidStream, stream, TypeOK, BytesOK
<1> QED BY <1>1, <1>3, <1>4

\* The handler starts with nothing kept and an empty heap.
LEMMA InitTyped == ASSUME Init PROVE TypeOK /\ BytesOK
<1>1. IsSeq(delivered)
  BY EmptySeq DEF Init, IsSeq
<1>2. sent \in Seq([at : Nat, hdr : {1, 4}, len : Nat])
  BY DEF Init
<1>3. /\ heap = [id \in BufferIds |-> heap[id]]
      /\ \A id \in BufferIds : WellFormed(heap[id]) /\ InStream(heap[id])
  BY NoBufferSound DEF Init, Sound
<1>4. "chunk" \in BufferIds
  BY Names
<1>5. total \in 0 .. MaxBytes /\ received \in 0 .. total /\ lpl \in Nat
  BY BoundAssumption DEF Init
<1>6. /\ unp \in PoolIds \cup {Null} /\ buf \in BufferIds /\ later \in BOOLEAN
      /\ pc \in {"idle", "loop", "undefined"} /\ sync \in {"ok", "lost", "garbled"}
  BY <1>4 DEF Init
<1> QED BY <1>1, <1>2, <1>3, <1>5, <1>6 DEF TypeOK, BytesOK

\* In every reachable state the handler's variables have their types and its
\* buffers are well formed and hold bytes of this connection or stale memory.
THEOREM Typed == Spec => [](TypeOK /\ BytesOK)
<1>1. Init => TypeOK /\ BytesOK
  BY InitTyped
<1>2. (TypeOK /\ BytesOK) /\ [Next]_vars => (TypeOK /\ BytesOK)'
  <2>. SUFFICES ASSUME TypeOK, BytesOK, [Next]_vars PROVE TypeOK' /\ BytesOK'
    OBVIOUS
  <2>1. CASE UNCHANGED vars
    BY <2>1 DEF vars, TypeOK, BytesOK
  <2>2. CASE Next
    BY <2>2, EnvironmentTyped, ReceiveTyped, LoopTyped DEF Next, ReceiveSome
  <2> QED BY <2>1, <2>2
<1> QED BY <1>1, <1>2, PTL DEF Spec

-----------------------------------------------------------------------------
(* The packets in the stream, and where the parser stands in it.            *)

\* Every packet takes at least one byte of the stream.
LEMMA SizeTyped ==
    ASSUME TypeOK, NEW k \in 1 .. Len(sent)
    PROVE  /\ Size(sent[k]) \in Nat /\ Size(sent[k]) >= 1
           /\ sent[k].at \in Nat
           /\ ~ Oversize(sent[k]) => Size(sent[k]) = sent[k].hdr + sent[k].len
<1>1. k \in DOMAIN sent
  BY DEF TypeOK
<1> QED BY <1>1, SentTyped DEF Size

\* The packets sent form a finite sequence.
LEMMA SentLength == TypeOK => Len(sent) \in Nat /\ DOMAIN sent = 1 .. Len(sent)
BY DEF TypeOK

\* Where the next packet starts, and that undelivered bytes belong to one.
LEMMA ConsumedFacts ==
    ASSUME TypeOK, StreamOK, Len(delivered) <= Len(sent)
    PROVE  /\ Consumed \in Nat /\ Len(delivered) \in Nat
           /\ Consumed < total => Pending
           /\ Pending => /\ Len(delivered) + 1 \in 1 .. Len(sent)
                         /\ Awaited.at = Consumed
                         /\ Awaited.hdr \in {1, 4} /\ Awaited.len \in Nat
                         /\ Size(Awaited) \in Nat /\ Size(Awaited) >= 1
                         /\ ~ Oversize(Awaited) => Size(Awaited) = Awaited.hdr + Awaited.len
<1>1. Len(delivered) \in Nat /\ Len(sent) \in Nat
  <2>1. delivered \in Seq({delivered[k] : k \in DOMAIN delivered})
    BY DEF TypeOK, IsSeq
  <2> QED BY <2>1, LenProperties, SentLength
<1>2. Pending => Len(delivered) + 1 \in 1 .. Len(sent)
  BY <1>1 DEF Pending
<1>3. Pending => /\ Awaited.at \in Nat /\ Awaited.at = Consumed
                 /\ Awaited.hdr \in {1, 4} /\ Awaited.len \in Nat
                 /\ Size(Awaited) \in Nat /\ Size(Awaited) >= 1
                 /\ ~ Oversize(Awaited) => Size(Awaited) = Awaited.hdr + Awaited.len
  BY <1>2, SizeTyped, SentTyped, SentLength DEF Awaited, Consumed
<1>4. ~ Pending => Consumed = total /\ total \in Nat
  BY DEF Consumed, TypeOK
<1> QED BY <1>1, <1>2, <1>3, <1>4

\* At the offset of the next packet the parser reads that packet's header.
LEMMA HeaderIsAwaited ==
    ASSUME TypeOK, StreamOK, sync = "ok", Len(delivered) <= Len(sent), Pending,
           NEW b, b.bytes[b.pos] = Consumed
    PROVE  HeaderAt(b) = Awaited
<1>. DEFINE n == Len(delivered) + 1
<1>1. n \in 1 .. Len(sent) /\ sent[n].at = Consumed
  BY ConsumedFacts DEF Awaited
<1>2. DOMAIN sent = 1 .. Len(sent)
  BY SentLength
<1>3. ASSUME NEW k \in DOMAIN sent, sent[k].at = Consumed PROVE k = n
  <2>1. Size(sent[k]) >= 1 /\ Size(sent[n]) >= 1
        /\ Size(sent[k]) \in Nat /\ Size(sent[n]) \in Nat
        /\ sent[k].at \in Nat /\ sent[n].at \in Nat
    BY <1>1, <1>2, SizeTyped
  <2>2. ~ (k < n) /\ ~ (n < k)
    <3>1. /\ k < n => sent[k].at + Size(sent[k]) <= sent[n].at
          /\ n < k => sent[n].at + Size(sent[n]) <= sent[k].at
      BY <1>1, <1>2 DEF StreamOK
    <3>2. sent[k].at = sent[n].at
      BY <1>1, <1>3
    <3> QED BY <2>1, <3>1, <3>2
  <2> QED BY <1>1, <1>2, <2>2, SentLength
<1>4. (CHOOSE k \in DOMAIN sent : sent[k].at = Consumed) = n
  BY <1>1, <1>2, <1>3
<1> QED BY <1>1, <1>2, <1>4 DEF HeaderAt, Awaited

\* Delivering the awaited packet moves on to the one behind it.
LEMMA DeliveryAdvances ==
    ASSUME TypeOK, StreamOK, Len(delivered) <= Len(sent), Pending,
           sent' = sent, total' = total, NEW x, delivered' = Append(delivered, x)
    PROVE  /\ Consumed' = Consumed + Size(Awaited)
           /\ Len(delivered') = Len(delivered) + 1
<1>. DEFINE n == Len(delivered) + 1
<1>1. n \in 1 .. Len(sent) /\ Awaited.at = Consumed /\ Len(delivered) \in Nat
  BY ConsumedFacts
<1>2. Len(delivered') = n
  <2>1. IsSeq(delivered)
    BY DEF TypeOK
  <2> QED BY <2>1, AppendToSeq
<1>3. sent[n].at + Size(sent[n]) = IF n = Len(sent) THEN total ELSE sent[n + 1].at
  BY <1>1 DEF StreamOK
<1>4. Consumed' = IF n < Len(sent) THEN sent[n + 1].at ELSE total
  BY <1>2 DEF Consumed, Pending, Awaited
<1>5. Len(sent) \in Nat /\ Awaited = sent[n]
  BY SentLength DEF Awaited
<1>6. n < Len(sent) \/ n = Len(sent)
  BY <1>1, <1>5
<1> QED BY <1>1, <1>2, <1>3, <1>4, <1>5, <1>6

\* A step that leaves stream and deliveries alone leaves the place alone.
LEMMA NothingMoves ==
    ASSUME sent' = sent, total' = total, delivered' = delivered
    PROVE  Consumed' = Consumed /\ Pending' = Pending /\ Awaited' = Awaited
BY DEF Consumed, Pending, Awaited

\* Sending appends to the stream and moves nothing in it.
LEMMA SendKeepsStream ==
    ASSUME IndInv, NEW kind \in Kinds, ServerSend(kind)
    PROVE  IndInv'
<1>. DEFINE P == [at : Nat, hdr : {1, 4}, len : Nat]
            q == [at |-> total, hdr |-> kind.hdr, len |-> kind.len]
            n == Len(sent)
<1>1. TypeOK' /\ BytesOK'
  BY EnvironmentTyped DEF IndInv
<1>2. UNCHANGED <<received, heap, unp, lpl, buf, later, pc, sync, delivered>>
  BY DEF ServerSend
<1>3. kind.hdr \in {1, 4} /\ kind.len \in Nat /\ total \in Nat
  BY KindsAssumption DEF IndInv, TypeOK
<1>4. Size(q) = Size(kind) /\ Size(q) \in Nat
  BY <1>3 DEF Size, Oversize
<1>5. n \in Nat /\ Len(sent') = n + 1 /\ sent'[n + 1] = q
      /\ \A k \in 1 .. n : sent'[k] = sent[k]
  <2>1. q \in P /\ sent \in Seq(P) /\ sent' = Append(sent, q)
    BY <1>3 DEF ServerSend, IndInv, TypeOK
  <2>. HIDE DEF P, q
  <2> QED BY <2>1, AppendProperties, LenProperties
<1>6. total' = total + Size(q) /\ q.at = total
  BY <1>4 DEF ServerSend
<1>7. \A k \in 1 .. n : Size(sent[k]) \in Nat /\ sent[k].at \in Nat /\ Size(sent[k]) >= 1
  BY SizeTyped DEF IndInv
<1>8. \A k \in 1 .. n : sent[k].at + Size(sent[k]) <= total
  <2>1. ASSUME NEW k \in 1 .. n PROVE sent[k].at + Size(sent[k]) <= total
    <3>1. sent[n].at + Size(sent[n]) = total /\ n \in 1 .. n
      BY <1>5, <1>3 DEF IndInv, StreamOK
    <3>2. k < n => sent[k].at + Size(sent[k]) <= sent[n].at
      BY <3>1 DEF IndInv, StreamOK
    <3> QED BY <1>3, <1>5, <1>7, <3>1, <3>2
  <2> QED BY <2>1
<1>9. StreamOK'
  <2>1. ASSUME NEW k \in 1 .. n + 1
        PROVE  sent'[k].at + Size(sent'[k]) =
                 IF k = n + 1 THEN total' ELSE sent'[k + 1].at
    <3>1. CASE k = n + 1
      BY <1>3, <1>4, <1>5, <1>6, <3>1
    <3>2. CASE k = n
      BY <1>3, <1>5, <1>6, <3>2 DEF IndInv, StreamOK
    <3>3. CASE k \in 1 .. n - 1
      BY <1>5, <3>3 DEF IndInv, StreamOK
    <3> QED BY <1>5, <3>1, <3>2, <3>3
  <2>2. ASSUME NEW j \in 1 .. n + 1, NEW k \in 1 .. n + 1, j < k
        PROVE  sent'[j].at + Size(sent'[j]) <= sent'[k].at
    <3>1. CASE k = n + 1
      BY <1>5, <1>6, <1>8, <2>2, <3>1
    <3>2. CASE k \in 1 .. n
      BY <1>5, <2>2, <3>2 DEF IndInv, StreamOK
    <3> QED BY <1>5, <3>1, <3>2
  <2>3. Len(sent') # 0 /\ sent'[1].at = 0
    <3>1. CASE n = 0
      BY <1>5, <1>6, <3>1 DEF IndInv, StreamOK
    <3>2. CASE n # 0
      BY <1>5, <3>2 DEF IndInv, StreamOK
    <3> QED BY <3>1, <3>2
  <2> QED BY <1>5, <2>1, <2>2, <2>3 DEF StreamOK, Size, Oversize
<1>10. DeliveredIsPrefix'
  <2>. SUFFICES ASSUME sync = "ok" PROVE DeliveredIsPrefix'
    BY <1>2 DEF DeliveredIsPrefix
  <2>1. /\ Len(delivered) <= n /\ Len(delivered) \in Nat
        /\ \A k \in 1 .. Len(delivered) : delivered[k] = Body(sent[k])
    BY ConsumedFacts DEF IndInv, DeliveredIsPrefix
  <2>2. \A k \in 1 .. Len(delivered) : k \in 1 .. n
    BY <1>5, <2>1
  <2>3. \A k \in 1 .. Len(delivered) : delivered[k] = Body(sent'[k])
    BY <1>5, <2>1, <2>2
  <2>4. Len(delivered) <= Len(sent')
    BY <1>5, <2>1
  <2> QED BY <1>2, <2>3, <2>4 DEF DeliveredIsPrefix, Body
<1>11. SyncOK'
  <2>. SUFFICES ASSUME sync = "ok" PROVE SyncOK'
    BY <1>2 DEF SyncOK
  <2>1. Len(delivered) <= n
    BY DEF IndInv, DeliveredIsPrefix
  <2>2. Len(delivered) \in Nat
    BY <2>1, ConsumedFacts DEF IndInv
  <2>3. Pending => Pending' /\ Awaited' = Awaited /\ Consumed' = Consumed
    BY <1>2, <1>5, <2>2 DEF Pending, Awaited, Consumed
  <2>4. ~ Pending => Consumed' = Consumed
    <3>1. ~ Pending => Len(delivered) = n
      BY <1>5, <2>1, <2>2 DEF Pending
    <3> QED BY <1>2, <1>5, <1>6, <3>1 DEF Pending, Awaited, Consumed
  <2>5. IdleOK => IdleOK'
    BY <1>2, <2>3, <2>4 DEF IdleOK, Carries, Size, Oversize
  <2>6. LoopOK => LoopOK'
    BY <1>2, <2>3, <2>4 DEF LoopOK, Carries, Size, Oversize, HasRemaining, Remaining
  <2> QED BY <1>2, <2>5, <2>6 DEF IndInv, SyncOK
<1> QED BY <1>1, <1>9, <1>10, <1>11 DEF IndInv

-----------------------------------------------------------------------------
(* The handler keeps its place in the stream.                               *)

\* A step that leaves the stream and the deliveries alone.
LEMMA QuietStep ==
    ASSUME IndInv, TypeOK', BytesOK', sent' = sent, total' = total,
           delivered' = delivered, sync' = "ok" => sync = "ok", SyncOK'
    PROVE  IndInv'
<1>1. StreamOK'
  BY DEF IndInv, StreamOK, Size, Oversize
<1>2. DeliveredIsPrefix'
  BY DEF IndInv, DeliveredIsPrefix, Body
<1> QED BY <1>1, <1>2 DEF IndInv

\* Writing what follows in the stream behind what a buffer carries.
LEMMA JoinCarries ==
    ASSUME NEW dst, NEW src, WellFormed(dst), WellFormed(src), Fits(dst, src),
           NEW o \in Nat, Carries(dst, 0, dst.pos, o),
           Carries(src, src.pos, src.lim, o + dst.pos)
    PROVE  LET w == WriteBytes(dst, src)
           IN  /\ WellFormed(w) /\ w.pos = dst.pos + Remaining(src)
               /\ w.lim = dst.lim /\ w.cap = dst.cap /\ w.freed = dst.freed
               /\ Carries(w, 0, w.pos, o)
<1>. DEFINE w == WriteBytes(dst, src)
<1>1. /\ dst.pos \in Nat /\ dst.lim \in Nat /\ dst.cap \in Nat /\ dst.lim <= dst.cap
      /\ src.pos \in Nat /\ src.lim \in Nat
      /\ src.pos <= src.lim /\ Remaining(src) = src.lim - src.pos
      /\ dst.pos + (src.lim - src.pos) <= dst.lim
  BY DEF WellFormed, Fits, Remaining
<1>2. /\ WellFormed(w) /\ w.pos = dst.pos + Remaining(src)
      /\ w.lim = dst.lim /\ w.cap = dst.cap /\ w.freed = dst.freed
      /\ \A i \in 0 .. dst.cap - 1 :
           w.bytes[i] = IF dst.pos <= i /\ i < dst.pos + Remaining(src)
                        THEN src.bytes[src.pos + (i - dst.pos)]
                        ELSE dst.bytes[i]
  BY WriteBytesCopies
<1>. HIDE DEF w
<1>3. ASSUME NEW i \in 0 .. w.pos - 1 PROVE w.bytes[i] = o + (i - 0)
  <2>1. i \in 0 .. dst.cap - 1 /\ i < dst.pos + Remaining(src)
    BY <1>1, <1>2
  <2>2. CASE dst.pos <= i
    <3>. DEFINE j == src.pos + (i - dst.pos)
    <3>1. j \in src.pos .. src.lim - 1
      BY <1>1, <2>1, <2>2
    <3>2. src.bytes[j] = (o + dst.pos) + (j - src.pos)
      BY <3>1 DEF Carries
    <3>3. w.bytes[i] = src.bytes[j]
      BY <1>2, <2>1, <2>2
    <3> QED BY <1>1, <3>1, <3>2, <3>3
  <2>3. CASE ~ (dst.pos <= i)
    <3>1. i \in 0 .. dst.pos - 1
      BY <1>1, <2>1, <2>3
    <3>2. w.bytes[i] = dst.bytes[i]
      BY <1>2, <2>1, <2>3
    <3> QED BY <3>1, <3>2 DEF Carries
  <2> QED BY <2>2, <2>3
<1>4. Carries(w, 0, w.pos, o)
  BY <1>3 DEF Carries
<1> QED BY <1>2, <1>4 DEF w

\* A buffer from the pool takes what a chunk still has, from the front.
LEMMA SaveCarries ==
    ASSUME NEW size \in Nat, NEW src, WellFormed(src), Remaining(src) <= size,
           NEW o \in Nat, Carries(src, src.pos, src.lim, o)
    PROVE  LET w == WriteBytes(GetFreeBuffer(size), src)
           IN  /\ WellFormed(w) /\ w.pos = Remaining(src)
               /\ w.lim = size /\ ~ w.freed
               /\ Carries(w, 0, w.pos, o)
<1>. DEFINE g == GetFreeBuffer(size)
<1>1. WellFormed(g) /\ ~ g.freed /\ g.pos = 0 /\ g.lim = size
  BY GetFreeBufferFits
<1>. HIDE DEF g
<1>2. Carries(g, 0, g.pos, o) /\ o + g.pos = o
  BY <1>1 DEF Carries
<1>3. Remaining(src) \in Nat
  BY DEF Remaining, WellFormed
<1>4. Fits(g, src)
  BY <1>1, <1>3 DEF Fits
<1> QED BY <1>1, <1>2, <1>3, <1>4, JoinCarries DEF g

\* Whatever the chunk is joined to, the buffers go on carrying exactly the
\* bytes from the first undelivered packet on.
LEMMA ReceiveKeepsPlace ==
    ASSUME IndInv, NEW n \in 1 .. MaxBytes,
           ReceiveFresh(n) \/ ReceiveAppend(n) \/ ReceiveGrow(n) \/ ReceiveBody(n)
    PROVE  IndInv'
<1>. DEFINE c == Slice(received, n)
            u == heap[unp]
<1>1. TypeOK' /\ BytesOK'
  BY ReceiveTyped DEF IndInv
<1>2. Receive(n) /\ lpl' = lpl /\ n \in Nat /\ n >= 1
  <2>1. n \in Nat /\ n >= 1
    BY BoundAssumption
  <2>2. Receive(n) /\ lpl' = lpl
    BY DEF ReceiveFresh, ReceiveAppend, ReceiveGrow, ReceiveBody
  <2> QED BY <2>1, <2>2
<1>3. /\ sent' = sent /\ total' = total /\ delivered' = delivered /\ sync' = sync
      /\ received' = received + n /\ received + n <= total /\ pc = "idle"
  BY <1>2 DEF Receive
<1>4. SUFFICES ASSUME sync = "ok" PROVE SyncOK'
  BY <1>1, <1>3, QuietStep DEF SyncOK
<1>5. /\ IdleOK
      /\ Consumed' = Consumed /\ Pending' = Pending /\ Awaited' = Awaited
      /\ Consumed \in Nat /\ received \in Nat
      /\ Pending => Size(Awaited) \in Nat
      /\ Len(delivered) <= Len(sent)
  BY <1>3, <1>4, NothingMoves, ConsumedFacts
     DEF IndInv, SyncOK, DeliveredIsPrefix, TypeOK
<1>6. /\ WellFormed(c) /\ ~ c.freed /\ c.pos = 0 /\ c.lim = n /\ c.cap = n
      /\ Remaining(c) = n
      /\ \A i \in 0 .. n - 1 : c.bytes[i] = received + i
  <2>1. /\ WellFormed(c) /\ ~ c.freed /\ c.pos = 0 /\ c.lim = n /\ c.cap = n
        /\ \A i \in 0 .. n - 1 : c.bytes[i] = received + i
    BY <1>2, <1>5, SliceCarries
  <2> QED BY <1>2, <2>1 DEF Remaining
<1>7. HeapOK(heap)
  BY HeapIsOK DEF IndInv
<1>8. unp # Null => /\ unp \in PoolIds /\ unp \in BufferIds /\ unp # "chunk" /\ WellFormed(u)
                    /\ u.pos \in Nat /\ u.lim \in Nat /\ u.cap \in Nat
                    /\ u.pos <= u.lim /\ u.lim <= u.cap
  BY <1>7, Names DEF IndInv, TypeOK, HeapOK, Sound, WellFormed
<1>9. CASE ReceiveFresh(n)
  <2>1. /\ unp = Null /\ unp' = Null /\ buf' = "chunk" /\ later' = FALSE /\ pc' = "loop"
        /\ heap' = [heap EXCEPT !["chunk"] = c]
    BY <1>9 DEF ReceiveFresh, Loop
  <2>2. heap'["chunk"] = c
    BY <1>7, <2>1, Names DEF HeapOK
  <2>3. received = Consumed
    BY <1>5, <2>1 DEF IdleOK
  <2>. HIDE DEF c
  <2>4. Carries(c, 0, n, Consumed)
    BY <1>6, <2>3 DEF Carries
  <2>5. LoopOK'
    BY <1>3, <1>5, <1>6, <2>1, <2>2, <2>3, <2>4 DEF LoopOK, Carries, Remaining
  <2> QED BY <2>1, <2>5 DEF SyncOK
<1>10. CASE ReceiveAppend(n)
  <2>. DEFINE l == Limit(u, u.pos + n)
              w == WriteBytes(l, c)
              r == Rewind(w)
  <2>1. /\ unp # Null /\ lpl = 0 /\ u.cap - u.pos >= n
        /\ unp' = unp /\ buf' = unp /\ later' = FALSE /\ pc' = "loop"
        /\ heap' = [heap EXCEPT ![unp] = r]
    BY <1>10 DEF ReceiveAppend, Loop
  <2>2. /\ ~ u.freed /\ u.pos = u.lim /\ received = Consumed + u.lim
        /\ Carries(u, 0, u.lim, Consumed)
    BY <1>5, <2>1 DEF IdleOK
  <2>3. /\ WellFormed(l) /\ l.pos = u.pos /\ l.lim = u.pos + n /\ l.cap = u.cap
        /\ l.bytes = u.bytes /\ ~ l.freed
    <3>1. l = Moved(u, u.pos, u.pos + n)
      BY <1>2, <1>8, <2>1 DEF Limit
    <3>2. u.pos + n \in Nat /\ u.pos <= u.pos + n /\ u.pos + n <= u.cap
      BY <1>2, <1>8, <2>1
    <3>. HIDE DEF l
    <3> QED BY <1>8, <2>1, <2>2, <3>1, <3>2, MovedWellFormed
  <2>4. Fits(l, c)
    BY <1>6, <1>8, <2>1, <2>3 DEF Fits
  <2>. HIDE DEF l, c
  <2>5. /\ WellFormed(w) /\ w.pos = u.pos + n /\ w.lim = u.pos + n /\ ~ w.freed
        /\ Carries(w, 0, w.pos, Consumed)
    <3>1. Carries(l, 0, l.pos, Consumed)
      BY <2>2, <2>3 DEF Carries
    <3>2. Carries(c, c.pos, c.lim, Consumed + l.pos)
      BY <1>5, <1>6, <1>8, <2>1, <2>2, <2>3 DEF Carries
    <3> QED BY <1>5, <1>6, <2>3, <2>4, <3>1, <3>2, JoinCarries
  <2>7. heap'[unp] = r
    BY <1>7, <1>8, <2>1 DEF HeapOK
  <2>8. r.pos = 0 /\ r.lim = u.pos + n /\ r.bytes = w.bytes /\ ~ r.freed
    BY <2>5 DEF Rewind, Moved
  <2>. HIDE DEF r, w
  <2>9. LoopOK'
    <3>1. HasRemaining(r)
      BY <1>2, <1>8, <2>1, <2>8 DEF HasRemaining
    <3>2. received' = Consumed + r.lim
      BY <1>2, <1>3, <1>5, <1>8, <2>1, <2>2, <2>8
    <3>3. Carries(r, 0, r.lim, Consumed)
      BY <2>5, <2>8 DEF Carries
    <3> QED BY <1>2, <1>3, <1>5, <1>8, <2>1, <2>7, <2>8, <3>1, <3>2, <3>3
            DEF LoopOK, Carries, HasRemaining
  <2> QED BY <2>1, <2>9 DEF SyncOK
<1>11. CASE ReceiveGrow(n)
  <2>. DEFINE size == u.lim + n
              g == WriteBytes(GetFreeBuffer(size), Rewind(u))
              w == WriteBytes(g, c)
              r == Rewind(w)
              f == Fresh(unp)
              h == [heap EXCEPT ![f] = r]
  <2>1. /\ unp # Null /\ lpl = 0
        /\ unp' = f /\ buf' = f /\ later' = FALSE /\ pc' = "loop"
        /\ heap' = [h EXCEPT ![unp] = Reuse(u)]
    BY <1>11 DEF ReceiveGrow, Loop
  <2>2. /\ received = Consumed + u.lim /\ Carries(u, 0, u.lim, Consumed)
    BY <1>5, <2>1 DEF IdleOK
  <2>3. /\ WellFormed(Rewind(u)) /\ Remaining(Rewind(u)) = u.lim
        /\ Rewind(u).pos = 0 /\ Rewind(u).lim = u.lim
        /\ Carries(Rewind(u), 0, u.lim, Consumed)
    <3>1. Rewind(u) = Moved(u, 0, u.lim) /\ 0 \in Nat /\ 0 <= u.lim
      BY <1>8, <2>1 DEF Rewind
    <3>2. /\ WellFormed(Rewind(u)) /\ Rewind(u).bytes = u.bytes
          /\ Rewind(u).pos = 0 /\ Rewind(u).lim = u.lim
      BY <1>8, <2>1, <3>1, MovedWellFormed
    <3>3. Carries(Rewind(u), 0, u.lim, Consumed)
      BY <2>2, <3>2 DEF Carries
    <3> QED BY <1>8, <2>1, <3>2, <3>3 DEF Remaining
  <2>4. /\ WellFormed(g) /\ g.pos = u.lim /\ g.lim = size /\ ~ g.freed
        /\ Carries(g, 0, g.pos, Consumed)
    <3>1. size \in Nat /\ u.lim <= size
      BY <1>2, <1>8, <2>1
    <3> QED BY <1>5, <2>3, <3>1, SaveCarries
  <2>5. Fits(g, c) /\ Carries(c, c.pos, c.lim, Consumed + g.pos)
    <3>. HIDE DEF g, c
    <3>1. Fits(g, c)
      BY <1>2, <1>6, <1>8, <2>1, <2>4 DEF Fits
    <3>2. Carries(c, c.pos, c.lim, Consumed + g.pos)
      BY <1>5, <1>6, <1>8, <2>1, <2>2, <2>4 DEF Carries
    <3> QED BY <3>1, <3>2
  <2>. HIDE DEF g, c
  <2>6. /\ WellFormed(w) /\ w.pos = size /\ w.lim = size /\ ~ w.freed
        /\ Carries(w, 0, size, Consumed)
    BY <1>5, <1>6, <2>4, <2>5, JoinCarries
  <2>7. f \in BufferIds /\ f # unp /\ f # "chunk"
    BY Names
  <2>8. heap'[f] = r
    BY <1>7, <1>8, <2>1, <2>7 DEF HeapOK
  <2>9. r.pos = 0 /\ r.lim = size /\ r.bytes = w.bytes /\ ~ r.freed
    BY <2>6 DEF Rewind, Moved
  <2>. HIDE DEF r, w, f
  <2>10. HasRemaining(r) /\ received' = Consumed + r.lim /\ Carries(r, 0, r.lim, Consumed)
    <3>1. HasRemaining(r)
      BY <1>2, <1>8, <2>1, <2>9 DEF HasRemaining
    <3>2. received' = Consumed + r.lim
      BY <1>2, <1>3, <1>5, <1>8, <2>1, <2>2, <2>9
    <3>3. Carries(r, 0, r.lim, Consumed)
      BY <2>6, <2>9 DEF Carries
    <3> QED BY <3>1, <3>2, <3>3
  <2>11. LoopOK'
    <3>1. lpl' = 0 /\ unp' = f /\ buf' = f /\ later' = FALSE
      BY <1>2, <2>1
    <3>2. Carries(r, 0, r.lim, Consumed')
      BY <1>5, <2>10
    <3> QED BY <1>5, <2>7, <2>8, <2>9, <2>10, <3>1, <3>2
            DEF LoopOK, Carries, HasRemaining
  <2> QED BY <2>1, <2>11 DEF SyncOK
<1>12. CASE ReceiveBody(n)
  <2>. DEFINE len == IF u.pos <= lpl /\ lpl - u.pos <= n THEN lpl - u.pos ELSE n
              part == Limit(c, len)
              w == WriteBytes(u, part)
              rest == Limit(Drain(u, part), n)
              h1 == [heap EXCEPT ![unp] = w]
              h == [h1 EXCEPT !["chunk"] = rest]
  <2>1. /\ unp # Null /\ lpl # 0
        /\ IF w.pos = lpl
           THEN Loop([h EXCEPT ![unp] = Rewind(w)], unp, unp, HasRemaining(rest))
           ELSE Return(h, unp)
    <3>1. h = [heap EXCEPT ![unp] = w, !["chunk"] = rest]
      OBVIOUS
    <3> QED BY <1>12, <3>1 DEF ReceiveBody
  <2>2. /\ Pending /\ ~ Oversize(Awaited) /\ lpl = Size(Awaited) /\ lpl \in Nat
        /\ u.lim = lpl /\ u.pos < lpl /\ ~ u.freed
        /\ received = Consumed + u.pos /\ Carries(u, 0, u.pos, Consumed)
    BY <1>5, <2>1 DEF IdleOK
  <2>3. len \in Nat /\ len <= n /\ u.pos + len <= lpl
        /\ (u.pos + len = lpl \/ len = n)
    BY <1>2, <1>8, <2>1, <2>2
  <2>. HIDE DEF len
  <2>4. /\ WellFormed(part) /\ part.bytes = c.bytes /\ part.cap = n /\ ~ part.freed
        /\ part.pos = 0 /\ part.lim = len /\ Remaining(part) = len
    <3>1. part = Moved(c, 0, len)
      <4>. HIDE DEF c
      <4> QED BY <1>2, <1>6, <2>3 DEF Limit
    <3>. HIDE DEF c, part
    <3>2. /\ WellFormed(part) /\ part.bytes = c.bytes /\ part.cap = n /\ ~ part.freed
          /\ part.pos = 0 /\ part.lim = len
      BY <1>6, <2>3, <3>1, MovedWellFormed
    <3> QED BY <2>3, <3>2 DEF Remaining
  <2>5. Fits(u, part)
    <3>. HIDE DEF part
    <3> QED BY <2>2, <2>3, <2>4 DEF Fits
  <2>6. Carries(part, part.pos, part.lim, Consumed + u.pos)
    <3>1. ASSUME NEW i \in 0 .. len - 1 PROVE part.bytes[i] = (Consumed + u.pos) + (i - 0)
      <4>1. i \in 0 .. n - 1
        BY <1>2, <2>3
      <4>2. part.bytes[i] = received + i
        BY <1>6, <2>4, <4>1
      <4> QED BY <1>5, <1>8, <2>1, <2>2, <4>2
    <3>. HIDE DEF part
    <3> QED BY <2>4, <3>1 DEF Carries
  <2>. HIDE DEF c
  <2>7. /\ WellFormed(w) /\ w.pos = u.pos + len /\ w.lim = lpl /\ ~ w.freed
        /\ Carries(w, 0, w.pos, Consumed)
    <3>. HIDE DEF part
    <3> QED BY <1>5, <1>8, <2>1, <2>2, <2>4, <2>5, <2>6, JoinCarries
  <2>8. /\ WellFormed(rest) /\ rest.bytes = c.bytes /\ ~ rest.freed
        /\ rest.pos = len /\ rest.lim = n
    <3>. DEFINE d == Drain(u, part)
    <3>1. d = Moved(part, len, len)
      BY <2>4, <2>5 DEF Drain
    <3>2. WellFormed(d) /\ d.bytes = c.bytes /\ d.pos = len /\ d.cap = n /\ ~ d.freed
      <4>. HIDE DEF part, d
      <4> QED BY <1>2, <2>3, <2>4, <3>1, MovedWellFormed
    <3>3. rest = Limit(d, n)
      OBVIOUS
    <3>. HIDE DEF d, rest
    <3>4. rest = Moved(d, len, n)
      BY <1>2, <2>3, <3>2, <3>3 DEF Limit
    <3> QED BY <1>2, <2>3, <3>2, <3>4, MovedWellFormed
  <2>9. Carries(rest, len, n, Consumed + (u.pos + len))
    <3>1. ASSUME NEW i \in len .. n - 1
          PROVE  rest.bytes[i] = (Consumed + (u.pos + len)) + (i - len)
      <4>1. i \in 0 .. n - 1 /\ i \in Int
        BY <1>2, <2>3
      <4>2. rest.bytes[i] = received + i
        BY <1>6, <2>8, <4>1
      <4>3. received = Consumed + u.pos /\ u.pos \in Nat /\ Consumed \in Nat /\ len \in Nat
        BY <1>5, <1>8, <2>1, <2>2, <2>3
      <4>. HIDE DEF u, rest
      <4> QED BY <4>1, <4>2, <4>3
    <3>. HIDE DEF rest
    <3> QED BY <3>1 DEF Carries
  <2>10. HeapOK(h1) /\ HeapOK(h) /\ h[unp] = w /\ h["chunk"] = rest
    <3>1. Sound(w) /\ Sound(rest)
      <4>1. Sound(c) /\ Sound(u)
        BY <1>2, <1>3, <1>7, <1>8, <2>1, SliceSound DEF c, IndInv, HeapOK
      <4>2. Sound(part)
        <5>. HIDE DEF part
        <5> QED BY <2>4, <4>1, <1>6 DEF Sound, InStream
      <4>. HIDE DEF part
      <4> QED BY <1>2, <4>1, <4>2, WriteSound, DrainSound, LimitSound
    <3>2. h1 = [heap EXCEPT ![unp] = w] /\ h = [h1 EXCEPT !["chunk"] = rest]
      OBVIOUS
    <3>3. unp \in BufferIds /\ unp # "chunk" /\ "chunk" \in BufferIds
      BY <1>8, <2>1, Names
    <3>. HIDE DEF w, rest, h1, h, u
    <3>4. /\ HeapOK([heap EXCEPT ![unp] = w])
          /\ [heap EXCEPT ![unp] = w][unp] = w
      BY <1>7, <3>1, <3>3, HeapUpdate
    <3>5. HeapOK(h1) /\ h1[unp] = w
      BY <3>2, <3>4
    <3>6. /\ HeapOK([h1 EXCEPT !["chunk"] = rest])
          /\ [h1 EXCEPT !["chunk"] = rest]["chunk"] = rest
          /\ [h1 EXCEPT !["chunk"] = rest][unp] = h1[unp]
      BY <3>1, <3>3, <3>5, HeapUpdate
    <3> QED BY <3>2, <3>5, <3>6
  <2>. HIDE DEF h1, h, w, rest, part
  <2>13. /\ received = Consumed + u.pos /\ received' = received + n
         /\ u.pos \in Nat /\ Consumed \in Nat /\ len \in Nat /\ n \in Nat
         /\ u.pos + len <= lpl /\ (u.pos + len = lpl \/ len = n) /\ lpl \in Nat
    BY <1>2, <1>3, <1>5, <1>8, <2>1, <2>2, <2>3
  <2>11. CASE w.pos = lpl
    <3>. DEFINE r == Rewind(w)
    <3>1. /\ heap' = [h EXCEPT ![unp] = r] /\ unp' = unp /\ buf' = unp
          /\ later' = HasRemaining(rest) /\ pc' = "loop"
      BY <2>1, <2>11 DEF Loop
    <3>2. heap'[unp] = r /\ heap'["chunk"] = rest
      BY <1>8, <2>1, <2>10, <3>1, Names DEF HeapOK
    <3>3. r.pos = 0 /\ r.lim = lpl /\ r.bytes = w.bytes /\ ~ r.freed
      BY <2>7 DEF Rewind, Moved
    <3>. HIDE DEF r
    <3>4. Carries(r, 0, lpl, Consumed)
      BY <2>7, <2>11, <3>3 DEF Carries
    <3>5. u.pos + len = lpl
      BY <2>7, <2>11
    <3>6. received' = Consumed + lpl + Remaining(rest)
      <4>. HIDE DEF u
      <4>1. Remaining(rest) = n - len
        BY <2>8 DEF Remaining
      <4> QED BY <2>13, <3>5, <4>1
    <3>7. Carries(rest, rest.pos, rest.lim, Consumed + lpl)
      BY <2>8, <2>9, <3>5
    <3>8. LoopOK'
      <4>1. lpl' = lpl /\ Size(Awaited)' = Size(Awaited) /\ Oversize(Awaited)' = Oversize(Awaited)
        BY <1>2, <1>5 DEF Size, Oversize
      <4>2. /\ buf' # "chunk" /\ buf' = unp' /\ lpl' # 0
            /\ heap'[buf'] = r /\ heap'["chunk"] = rest
        BY <1>8, <2>1, <3>1, <3>2, <4>1
      <4>3. /\ Pending' /\ (~ Oversize(Awaited))' /\ lpl' = Size(Awaited)'
            /\ Carries(r, 0, lpl', Consumed') /\ later' = HasRemaining(rest)
            /\ received' = Consumed' + lpl' + Remaining(rest)
            /\ Carries(rest, rest.pos, rest.lim, Consumed' + lpl')
            /\ r.lim = lpl'
        BY <1>5, <2>2, <3>1, <3>3, <3>4, <3>6, <3>7, <4>1
      <4>. HIDE DEF u
      <4> QED BY <2>8, <3>3, <4>2, <4>3 DEF LoopOK, Carries, HasRemaining, Remaining
    <3> QED BY <3>1, <3>8 DEF SyncOK
  <2>12. CASE w.pos # lpl
    <3>1. /\ heap'[unp] = w /\ unp' = unp /\ pc' = "idle"
      BY <1>8, <2>1, <2>10, <2>12, ReturnKeeps
    <3>2. w.pos < lpl /\ received' = Consumed + w.pos
      <4>. HIDE DEF u
      <4> QED BY <2>7, <2>12, <2>13
    <3>3. IdleOK'
      <4>1. lpl' = lpl /\ Size(Awaited)' = Size(Awaited) /\ Oversize(Awaited)' = Oversize(Awaited)
        BY <1>2, <1>5 DEF Size, Oversize
      <4> QED BY <1>5, <2>1, <2>2, <2>7, <3>1, <3>2, <4>1 DEF IdleOK, Carries
    <3> QED BY <3>1, <3>3 DEF SyncOK
  <2> QED BY <2>11, <2>12
<1> QED BY <1>9, <1>10, <1>11, <1>12

\* In step and with bytes left, the parser reads the awaited packet's header,
\* at the front of the bytes it holds, and later says whether more follow.
LEMMA LoopPlace ==
    ASSUME IndInv, sync = "ok", pc = "loop"
    PROVE  LET b == heap[buf]
           IN  /\ LoopOK /\ buf \in BufferIds /\ WellFormed(b)
               /\ b.pos \in Nat /\ b.lim \in Nat /\ b.cap \in Nat
               /\ b.pos <= b.lim /\ b.lim <= b.cap
               /\ Consumed \in Nat /\ received \in Nat /\ lpl \in Nat
               /\ Len(delivered) <= Len(sent)
               /\ HasRemaining(b) =>
                    /\ ~ b.freed
                    /\ Carries(b, b.pos, b.lim, Consumed)
                    /\ Pending /\ HeaderAt(b) = Awaited
                    /\ Awaited.hdr \in {1, 4} /\ Awaited.len \in Nat
                    /\ ~ Oversize(Awaited) => Size(Awaited) = Awaited.hdr + Awaited.len
               /\ unp # Null => unp = buf /\ buf # "chunk"
<1>. DEFINE b == heap[buf]
<1>1. LoopOK /\ TypeOK /\ StreamOK /\ Len(delivered) <= Len(sent)
  BY DEF IndInv, SyncOK, DeliveredIsPrefix
<1>2. /\ buf \in BufferIds /\ WellFormed(b)
      /\ b.pos \in Nat /\ b.lim \in Nat /\ b.cap \in Nat
      /\ b.pos <= b.lim /\ b.lim <= b.cap
      /\ received \in Nat /\ lpl \in Nat /\ total \in Nat /\ received <= total
  BY <1>1 DEF TypeOK, WellFormed
<1>3. Consumed \in Nat
  BY <1>1, ConsumedFacts
<1>4. unp # Null => unp = buf /\ buf # "chunk"
  BY <1>1 DEF LoopOK
<1>5. ASSUME HasRemaining(b)
      PROVE  ~ b.freed /\ Carries(b, b.pos, b.lim, Consumed) /\ Consumed < received
  <2>1. b.pos < b.lim
    BY <1>5 DEF HasRemaining
  <2>2. CASE buf = "chunk"
    <3>1. ~ b.freed /\ received = Consumed + Remaining(b) /\ Carries(b, b.pos, b.lim, Consumed)
      BY <1>1, <2>2 DEF LoopOK
    <3>. HIDE DEF b
    <3> QED BY <1>2, <1>3, <2>1, <3>1 DEF Remaining
  <2>3. CASE buf # "chunk" /\ lpl = 0
    <3>1. ~ b.freed /\ b.pos = 0 /\ received = Consumed + b.lim /\ Carries(b, 0, b.lim, Consumed)
      BY <1>1, <1>5, <2>3 DEF LoopOK
    <3>. HIDE DEF b
    <3> QED BY <1>2, <1>3, <2>1, <3>1
  <2>4. CASE buf # "chunk" /\ lpl # 0
    <3>1. /\ ~ b.freed /\ b.pos = 0 /\ b.lim = lpl /\ Carries(b, 0, lpl, Consumed)
          /\ received = Consumed + lpl + Remaining(heap["chunk"])
      BY <1>1, <1>5, <2>4 DEF LoopOK
    <3>2. Remaining(heap["chunk"]) \in Nat
      BY <1>1, Names DEF TypeOK, WellFormed, Remaining
    <3>. HIDE DEF b
    <3> QED BY <1>2, <1>3, <2>1, <2>4, <3>1, <3>2
  <2> QED BY <2>2, <2>3, <2>4
<1>6. ASSUME HasRemaining(b)
      PROVE  /\ Pending /\ HeaderAt(b) = Awaited
             /\ Awaited.hdr \in {1, 4} /\ Awaited.len \in Nat
             /\ ~ Oversize(Awaited) => Size(Awaited) = Awaited.hdr + Awaited.len
  <2>1. Consumed < total
    BY <1>2, <1>3, <1>5, <1>6
  <2>2. Pending
    BY <1>1, <2>1, ConsumedFacts
  <2>3. b.bytes[b.pos] = Consumed
    <3>1. b.pos \in b.pos .. b.lim - 1
      BY <1>2, <1>6 DEF HasRemaining
    <3>2. b.bytes[b.pos] = Consumed + (b.pos - b.pos)
      BY <1>5, <1>6, <3>1 DEF Carries
    <3>. HIDE DEF b
    <3> QED BY <1>2, <1>3, <3>2
  <2>4. HeaderAt(b) = Awaited
    BY <1>1, <2>2, <2>3, HeaderIsAwaited
  <2> QED BY <1>1, <2>2, <2>4, ConsumedFacts
<1> QED BY <1>1, <1>2, <1>3, <1>4, <1>5, <1>6

\* A turn of the loop that delivers nothing saves what it could not parse.
LEMMA LoopKeepsPlace ==
    ASSUME IndInv, LoopEnds \/ CutHeader \/ InvalidLength \/ CutBody \/ ReadFreed
    PROVE  IndInv'
<1>. DEFINE b == heap[buf]
            p == HeaderAt(b)
<1>1. TypeOK' /\ BytesOK'
  BY LoopTyped DEF IndInv, LoopStep
<1>2. /\ sent' = sent /\ total' = total /\ delivered' = delivered /\ received' = received
      /\ pc = "loop"
  BY DEF LoopEnds, CutHeader, InvalidLength, CutBody, ReadFreed, Turn, stream
<1>3. sync' = "ok" => sync = "ok"
  BY DEF LoopEnds, CutHeader, InvalidLength, CutBody, ReadFreed
<1>4. SUFFICES ASSUME sync = "ok", sync' = "ok" PROVE SyncOK'
  BY <1>1, <1>2, <1>3, QuietStep DEF SyncOK
<1>5. /\ LoopOK /\ buf \in BufferIds /\ WellFormed(b)
      /\ b.pos \in Nat /\ b.lim \in Nat /\ b.cap \in Nat
      /\ b.pos <= b.lim /\ b.lim <= b.cap
      /\ Consumed \in Nat /\ received \in Nat /\ lpl \in Nat
      /\ HasRemaining(b) =>
           /\ Carries(b, b.pos, b.lim, Consumed)
           /\ Pending /\ p = Awaited
           /\ Awaited.hdr \in {1, 4} /\ Awaited.len \in Nat
           /\ ~ Oversize(Awaited) => Size(Awaited) = Awaited.hdr + Awaited.len
      /\ unp # Null => unp = buf /\ buf # "chunk"
  BY <1>2, <1>4, LoopPlace
<1>6. Consumed' = Consumed /\ Pending' = Pending /\ Awaited' = Awaited
      /\ Size(Awaited)' = Size(Awaited) /\ Oversize(Awaited)' = Oversize(Awaited)
  BY <1>2, NothingMoves DEF Size, Oversize
<1>7. HeapOK(heap) /\ unp \in PoolIds \cup {Null}
  BY HeapIsOK DEF IndInv, TypeOK
<1>8. ASSUME Return(heap, unp), unp = Null, received = Consumed PROVE SyncOK'
  <2>1. unp' = Null /\ pc' = "idle"
    BY <1>7, <1>8, ReturnKeeps
  <2> QED BY <1>2, <1>6, <1>8, <2>1 DEF SyncOK, IdleOK
<1>9. CASE LoopEnds
  <2>1. Return(heap, unp) /\ ~ HasRemaining(b)
    BY <1>9 DEF LoopEnds
  <2>2. unp = Null /\ received = Consumed
    <3>1. b.pos = b.lim
      <4>. HIDE DEF b
      <4> QED BY <1>5, <2>1 DEF HasRemaining
    <3>2. CASE buf = "chunk"
      <4>1. unp = Null /\ received = Consumed + Remaining(b)
        BY <1>5, <3>2 DEF LoopOK
      <4>. HIDE DEF b
      <4> QED BY <1>5, <3>1, <4>1 DEF Remaining
    <3>3. CASE buf # "chunk"
      BY <1>5, <2>1, <3>1, <3>3 DEF LoopOK
    <3> QED BY <3>2, <3>3
  <2> QED BY <1>8, <2>1, <2>2
<1>10. CASE ReadFreed
  <2>1. b.freed
    BY <1>10 DEF ReadFreed
  <2>2. unp = Null /\ received = Consumed
    BY <1>5, <2>1 DEF LoopOK
  <2>3. CASE Return(heap, unp)
    BY <1>8, <2>2, <2>3
  <2>4. CASE pc' = "undefined"
    BY <2>4 DEF SyncOK
  <2> QED BY <1>10, <2>3, <2>4 DEF ReadFreed
<1>11. CASE InvalidLength
  BY <1>4, <1>11 DEF InvalidLength
<1>12. CASE CutHeader
  <2>. DEFINE saved == WriteBytes(GetFreeBuffer(PartialSize), b)
              r == Limit(saved, saved.pos)
              f == Fresh(unp)
              new == [heap EXCEPT ![f] = r]
              old == [heap EXCEPT ![unp] = Position(heap[unp], heap[unp].lim)]
  <2>1. /\ HasRemaining(b) /\ ~ HeaderWhole(b, p)
        /\ IF unp = Null \/ heap[unp].pos # 0
           THEN Return(new, f) /\ lpl' = 0
           ELSE Return(old, unp) /\ lpl' = lpl
    BY <1>12 DEF CutHeader, Turn
  <2>2. /\ Pending /\ Awaited.hdr = 4 /\ Carries(b, b.pos, b.lim, Consumed)
        /\ Remaining(b) = b.lim - b.pos /\ Remaining(b) \in 1 .. 3
    <3>1. Pending /\ Carries(b, b.pos, b.lim, Consumed) /\ Awaited.hdr = 4
          /\ ~ (Remaining(b) >= 4) /\ b.pos < b.lim
      BY <1>5, <2>1 DEF HeaderWhole, HasRemaining
    <3>. HIDE DEF b
    <3> QED BY <1>5, <3>1 DEF Remaining
  <2>3. CASE unp = Null
    <3>1. received = Consumed + Remaining(b)
      BY <1>5, <2>1, <2>3, Names DEF LoopOK, IndInv, TypeOK
    <3>2. /\ WellFormed(saved) /\ saved.pos = Remaining(b) /\ saved.lim = PartialSize
          /\ ~ saved.freed /\ Carries(saved, 0, saved.pos, Consumed)
      <4>. HIDE DEF b
      <4> QED BY <1>5, <2>2, SizesAssumption, SaveCarries
    <3>3. /\ r.pos = Remaining(b) /\ r.lim = Remaining(b) /\ ~ r.freed
          /\ r.bytes = saved.bytes /\ WellFormed(r)
      <4>1. saved.pos \in Nat /\ saved.pos <= saved.cap /\ saved.cap \in Nat
        BY <3>2 DEF WellFormed
      <4>. HIDE DEF saved
      <4>2. r = Moved(saved, saved.pos, saved.pos)
        BY <4>1 DEF Limit
      <4> QED BY <3>2, <4>1, <4>2, MovedWellFormed
    <3>4. Sound(r)
      <4>1. Sound(saved)
        BY <1>5, <1>7, SizesAssumption, FreeBufferSound, WriteSound DEF HeapOK
      <4>2. saved.pos \in Nat
        BY <3>2 DEF WellFormed
      <4>. HIDE DEF saved
      <4> QED BY <4>1, <4>2, LimitSound
    <3>. HIDE DEF saved, r
    <3>5. f \in PoolIds /\ f \in BufferIds /\ f # Null
      BY Names
    <3>6. HeapOK(new) /\ new[f] = r
      BY <1>7, <3>4, <3>5, HeapUpdate
    <3>. HIDE DEF new, f
    <3>7. heap'[f] = r /\ unp' = f /\ pc' = "idle" /\ lpl' = 0
      BY <2>1, <2>3, <3>5, <3>6, ReturnKeeps
    <3>8. Carries(r, 0, r.lim, Consumed)
      BY <3>2, <3>3 DEF Carries
    <3>. HIDE DEF b
    <3>9. IdleOK'
      BY <1>2, <1>6, <2>2, <3>1, <3>3, <3>5, <3>7, <3>8 DEF IdleOK, Carries
    <3> QED BY <3>7, <3>9 DEF SyncOK
  <2>4. CASE unp # Null
    <3>1. /\ unp = buf /\ buf # "chunk" /\ ~ b.freed /\ b.pos = 0
          /\ lpl = 0 /\ received = Consumed + b.lim
      <4>1. unp = buf /\ buf # "chunk" /\ ~ b.freed /\ b.pos = 0
        BY <1>5, <2>4 DEF LoopOK
      <4>2. lpl = 0
        <5>1. ASSUME lpl # 0 PROVE FALSE
          <6>1. b.lim = Size(Awaited) /\ Size(Awaited) = Awaited.hdr + Awaited.len
            BY <1>5, <2>1, <2>4, <5>1 DEF LoopOK
          <6>. HIDE DEF b
          <6> QED BY <1>5, <2>1, <2>2, <4>1, <6>1
        <5> QED BY <5>1
      <4> QED BY <1>5, <2>4, <4>1, <4>2 DEF LoopOK
    <3>. DEFINE q == Position(b, b.lim)
    <3>2. q = Moved(b, b.lim, b.lim)
      BY <1>5 DEF Position
    <3>3. WellFormed(q) /\ q.bytes = b.bytes /\ q.pos = b.lim /\ q.lim = b.lim /\ ~ q.freed
      <4>. HIDE DEF b, q
      <4> QED BY <1>5, <3>1, <3>2, MovedWellFormed
    <3>4. Sound(q)
      BY <1>5, <1>7, <3>2, MovedSound DEF HeapOK
    <3>5. old = [heap EXCEPT ![unp] = q]
      BY <3>1
    <3>. HIDE DEF q
    <3>6. HeapOK(old) /\ old[unp] = q /\ unp \in BufferIds
      <4>1. unp \in BufferIds
        BY <1>5, <3>1
      <4>2. HeapOK([heap EXCEPT ![unp] = q]) /\ [heap EXCEPT ![unp] = q][unp] = q
        BY <1>7, <3>4, <4>1, HeapUpdate
      <4> QED BY <3>5, <4>1, <4>2
    <3>. HIDE DEF old
    <3>7. heap'[unp] = q /\ unp' = unp /\ pc' = "idle" /\ lpl' = 0
      BY <1>7, <2>1, <2>4, <3>1, <3>6, ReturnKeeps
    <3>8. Carries(q, 0, q.lim, Consumed)
      BY <2>2, <3>1, <3>3 DEF Carries
    <3>. HIDE DEF b
    <3>9. q.lim \in 1 .. 3
      BY <1>5, <2>2, <3>1, <3>3
    <3>10. IdleOK'
      BY <1>2, <1>6, <2>2, <2>4, <3>1, <3>3, <3>7, <3>8, <3>9 DEF IdleOK, Carries
    <3> QED BY <3>7, <3>10 DEF SyncOK
  <2> QED BY <2>3, <2>4
<1>13. CASE CutBody
  <2>. DEFINE len == p.len + p.hdr
              small == unp # Null /\ heap[unp].cap < len
              w == WriteBytes(GetFreeBuffer(len), b)
              m == Moved(b, b.pos + p.hdr, b.lim)
              u == IF buf = unp THEN m ELSE heap[unp]
              f == Fresh(unp)
              new == [heap EXCEPT ![f] = w]
              old == [heap EXCEPT ![unp] = Limit(Position(u, u.lim), len)]
  <2>1. /\ HasRemaining(b) /\ HeaderWhole(b, p) /\ ~ Oversize(p) /\ ~ BodyWhole(b, p)
        /\ lpl' = len
        /\ IF unp = Null \/ small THEN Return(new, f) ELSE Return(old, unp)
    BY <1>13 DEF CutBody, Turn
  <2>2. /\ Pending /\ p = Awaited /\ Carries(b, b.pos, b.lim, Consumed)
        /\ ~ Oversize(Awaited) /\ len = Size(Awaited) /\ len \in Nat /\ len # 0
        /\ Remaining(b) = b.lim - b.pos /\ Remaining(b) \in Nat /\ Remaining(b) < len
    <3>1. /\ Pending /\ p = Awaited /\ Carries(b, b.pos, b.lim, Consumed)
          /\ ~ Oversize(Awaited) /\ Size(Awaited) = Awaited.hdr + Awaited.len
          /\ Awaited.hdr \in {1, 4} /\ Awaited.len \in Nat
          /\ ~ (p.len <= Remaining(b) - p.hdr)
      BY <1>5, <2>1 DEF BodyWhole
    <3>2. Remaining(b) = b.lim - b.pos /\ Remaining(b) \in Nat
      <4>. HIDE DEF b
      <4> QED BY <1>5 DEF Remaining
    <3>. HIDE DEF b
    <3> QED BY <3>1, <3>2
  <2>3. received = Consumed + Remaining(b) /\ (unp # Null => b.pos = 0 /\ ~ b.freed)
    <3>1. CASE unp = Null
      BY <1>5, <2>1, <3>1, Names DEF LoopOK, IndInv, TypeOK
    <3>2. CASE unp # Null
      <4>1. buf # "chunk" /\ buf = unp /\ b.pos = 0 /\ ~ b.freed
        BY <1>5, <3>2 DEF LoopOK
      <4>2. lpl = 0
        <5>1. ASSUME lpl # 0 PROVE FALSE
          <6>1. b.lim = Size(Awaited)
            BY <1>5, <2>1, <3>2, <5>1 DEF LoopOK
          <6>. HIDE DEF b, len
          <6> QED BY <1>5, <2>2, <4>1, <6>1
        <5> QED BY <5>1
      <4>3. received = Consumed + b.lim
        BY <1>5, <3>2, <4>2 DEF LoopOK
      <4>. HIDE DEF b
      <4> QED BY <1>5, <2>2, <4>1, <4>3
    <3> QED BY <3>1, <3>2
  <2>4. CASE unp = Null \/ small
    <3>1. /\ WellFormed(w) /\ w.pos = Remaining(b) /\ w.lim = len
          /\ ~ w.freed /\ Carries(w, 0, w.pos, Consumed)
      <4>. HIDE DEF b, len
      <4> QED BY <1>5, <2>2, SaveCarries
    <3>2. Sound(w)
      BY <1>5, <1>7, <2>2, FreeBufferSound, WriteSound DEF HeapOK
    <3>3. f \in PoolIds /\ f \in BufferIds /\ f # Null
      BY Names
    <3>4. Return(new, f)
      BY <2>1, <2>4
    <3>. HIDE DEF w
    <3>5. HeapOK(new) /\ new[f] = w
      BY <1>7, <3>2, <3>3, HeapUpdate
    <3>. HIDE DEF new, f, len, b
    <3>6. heap'[f] = w /\ unp' = f /\ pc' = "idle" /\ lpl' = len
      BY <2>1, <3>3, <3>4, <3>5, ReturnKeeps
    <3>7. IdleOK'
      BY <1>2, <1>6, <2>2, <2>3, <3>1, <3>3, <3>6 DEF IdleOK, Carries
    <3> QED BY <3>6, <3>7 DEF SyncOK
  <2>5. CASE unp # Null /\ ~ small
    <3>1. unp = buf /\ buf # "chunk" /\ u = m /\ len <= b.cap /\ b.pos = 0 /\ ~ b.freed
          /\ unp \in BufferIds
      <4>1. unp = buf /\ ~ (b.cap < len)
        BY <1>5, <2>5
      <4>. HIDE DEF b, len
      <4> QED BY <1>5, <2>2, <2>3, <2>5, <4>1
    <3>. DEFINE q == Position(m, m.lim)
                r == Limit(q, len)
    <3>2. /\ WellFormed(m) /\ m.lim = b.lim /\ m.bytes = b.bytes /\ m.cap = b.cap /\ ~ m.freed
      <4>1. /\ p.hdr \in {1, 4}
            /\ p.hdr = 1 \/ b.lim - b.pos >= 4
            /\ b.pos < b.lim
        BY <1>5, <2>1, <2>2 DEF HeaderWhole, HasRemaining
      <4>. HIDE DEF b, p
      <4>2. b.pos + p.hdr \in Nat /\ b.pos + p.hdr <= b.lim
        BY <1>5, <4>1
      <4> QED BY <1>5, <3>1, <4>2, MovedWellFormed
    <3>. HIDE DEF m
    <3>3. /\ WellFormed(q) /\ q.pos = b.lim /\ q.lim = b.lim /\ q.bytes = b.bytes
          /\ q.cap = b.cap /\ ~ q.freed
      <4>. HIDE DEF b
      <4>1. q = Moved(m, b.lim, b.lim)
        BY <1>5, <3>2 DEF Position
      <4> QED BY <1>5, <3>2, <4>1, MovedWellFormed
    <3>. HIDE DEF q
    <3>4. /\ WellFormed(r) /\ r.pos = b.lim /\ r.lim = len /\ r.bytes = b.bytes
          /\ r.cap = b.cap /\ ~ r.freed
      <4>. HIDE DEF b, len
      <4>1. b.lim <= len
        BY <1>5, <2>2, <3>1
      <4>2. r = Moved(q, b.lim, len)
        BY <1>5, <2>2, <3>1, <3>3, <4>1 DEF Limit
      <4> QED BY <1>5, <2>2, <3>1, <3>3, <4>1, <4>2, MovedWellFormed
    <3>5. old = [heap EXCEPT ![unp] = r]
      BY <3>1 DEF q
    <3>. HIDE DEF r
    <3>6. Sound(r)
      BY <1>5, <1>7, <3>4 DEF HeapOK, Sound, InStream
    <3>7. HeapOK(old) /\ old[unp] = r
      <4>1. HeapOK([heap EXCEPT ![unp] = r]) /\ [heap EXCEPT ![unp] = r][unp] = r
        BY <1>7, <3>1, <3>6, HeapUpdate
      <4> QED BY <3>5, <4>1
    <3>8. Return(old, unp)
      BY <2>1, <2>5
    <3>. HIDE DEF old, len
    <3>9. heap'[unp] = r /\ unp' = unp /\ pc' = "idle" /\ lpl' = len
      BY <1>7, <2>1, <2>5, <3>7, <3>8, ReturnKeeps
    <3>10. Carries(r, 0, r.pos, Consumed) /\ r.pos < len /\ received = Consumed + r.pos
      <4>1. Carries(r, 0, r.pos, Consumed)
        BY <2>2, <3>1, <3>4 DEF Carries
      <4>. HIDE DEF b
      <4> QED BY <1>5, <2>2, <2>3, <3>1, <3>4, <4>1
    <3>. HIDE DEF b
    <3>11. IdleOK'
      BY <1>2, <1>6, <2>2, <2>5, <3>4, <3>9, <3>10 DEF IdleOK, Carries
    <3> QED BY <3>9, <3>11 DEF SyncOK
  <2> QED BY <2>4, <2>5
<1> QED BY <1>9, <1>10, <1>11, <1>12, <1>13

\* A delivery hands over the awaited body and moves on behind it.
LEMMA DeliverKeepsPlace ==
    ASSUME IndInv, Deliver
    PROVE  /\ IndInv'
           /\ sync = "ok" =>
                /\ Pending
                /\ delivered' = Append(delivered, Body(sent[Len(delivered) + 1]))
<1>. DEFINE b == heap[buf]
            p == HeaderAt(b)
            first == b.pos + p.hdr
            v == Moved(b, first + p.len, b.lim)
            h == [heap EXCEPT ![buf] = v]
            next == IF later THEN "chunk" ELSE buf
            x == [i \in 0 .. p.len - 1 |-> b.bytes[first + i]]
<1>1. TypeOK' /\ BytesOK'
  BY LoopTyped DEF IndInv, LoopStep
<1>2. /\ sent' = sent /\ total' = total /\ received' = received
      /\ pc = "loop" /\ sync' = sync /\ lpl' = lpl
      /\ HasRemaining(b) /\ HeaderWhole(b, p) /\ ~ Oversize(p) /\ BodyWhole(b, p)
      /\ delivered' = Append(delivered, x)
      /\ IF unp = Null THEN Loop(h, unp, next, FALSE)
         ELSE IF Exhausted(h[unp])
         THEN Loop([h EXCEPT ![unp] = Reuse(h[unp])], Null, next, FALSE)
         ELSE Loop([h EXCEPT ![unp] = Compacted(h[unp])], unp, next, FALSE)
  BY DEF Deliver, Turn, stream
<1>3. StreamOK'
  BY <1>2 DEF IndInv, StreamOK, Size, Oversize
<1>4. CASE sync # "ok"
  BY <1>1, <1>2, <1>3, <1>4 DEF IndInv, SyncOK, DeliveredIsPrefix
<1>5. CASE sync = "ok"
  <2>1. /\ LoopOK /\ buf \in BufferIds /\ WellFormed(b) /\ ~ b.freed
        /\ b.pos \in Nat /\ b.lim \in Nat /\ b.cap \in Nat
        /\ b.pos <= b.lim /\ b.lim <= b.cap
        /\ Consumed \in Nat /\ received \in Nat /\ lpl \in Nat
        /\ Len(delivered) <= Len(sent)
        /\ Carries(b, b.pos, b.lim, Consumed)
        /\ Pending /\ p = Awaited
        /\ p.hdr \in {1, 4} /\ p.len \in Nat
        /\ Size(Awaited) = p.hdr + p.len
        /\ unp # Null => unp = buf /\ buf # "chunk"
    BY <1>2, <1>5, LoopPlace
  <2>. DEFINE size == Size(Awaited)
  <2>2. /\ size \in Nat /\ size >= 1 /\ first + p.len = b.pos + size
        /\ b.pos + size <= b.lim
    <3>1. /\ p.len <= (b.lim - b.pos) - p.hdr /\ size = p.hdr + p.len
      BY <1>2, <2>1 DEF BodyWhole, Remaining
    <3>2. /\ b.pos \in Nat /\ b.lim \in Nat /\ p.hdr \in {1, 4} /\ p.len \in Nat
      BY <2>1
    <3>. HIDE DEF b, p, size
    <3> QED BY <3>1, <3>2
  <2>3. Consumed' = Consumed + size /\ Len(delivered') = Len(delivered) + 1
    BY <1>2, <2>1, DeliveryAdvances DEF IndInv
  <2>4. x = Body(Awaited)
    <3>1. ASSUME NEW i \in 0 .. p.len - 1
          PROVE  b.bytes[first + i] = Awaited.at + Awaited.hdr + i
      <4>1. first + i \in b.pos .. b.lim - 1 /\ first + i \in Int
        <5>1. /\ b.pos \in Nat /\ b.lim \in Nat /\ p.hdr \in {1, 4} /\ p.len \in Nat
              /\ (b.pos + p.hdr) + p.len <= b.lim
          BY <2>1, <2>2
        <5>. HIDE DEF b, p, size
        <5> QED BY <5>1
      <4>2. b.bytes[first + i] = Consumed + ((first + i) - b.pos)
        BY <2>1, <4>1 DEF Carries
      <4>3. Awaited.at = Consumed
        BY <2>1, ConsumedFacts DEF IndInv
      <4>4. /\ b.pos \in Nat /\ p.hdr \in {1, 4} /\ Awaited.hdr = p.hdr
            /\ Consumed \in Nat /\ i \in Int /\ first = b.pos + p.hdr
        BY <2>1
      <4>5. Consumed + ((first + i) - b.pos) = Consumed + p.hdr + i
        <5>. HIDE DEF b, p, first
        <5> QED BY <4>4
      <4>. HIDE DEF b, p, first
      <4> QED BY <4>2, <4>3, <4>4, <4>5
    <3>2. p.len = Awaited.len
      BY <2>1
    <3>. HIDE DEF b, p, first
    <3> QED BY <3>1, <3>2 DEF Body
  <2>5. DeliveredIsPrefix'
    <3>1. /\ Len(delivered) \in Nat /\ Len(delivered) + 1 \in 1 .. Len(sent)
          /\ IsSeq(delivered) /\ Len(sent) \in Nat
      BY <2>1, ConsumedFacts, SentLength DEF IndInv, TypeOK
    <3>. HIDE DEF x
    <3>2. /\ \A k \in 1 .. Len(delivered) : delivered'[k] = delivered[k]
          /\ delivered'[Len(delivered) + 1] = x
      BY <1>2, <3>1, AppendToSeq
    <3>3. ASSUME NEW k \in 1 .. Len(delivered') PROVE delivered'[k] = Body(sent[k])
      <4>1. CASE k \in 1 .. Len(delivered)
        BY <1>5, <3>2, <4>1 DEF IndInv, DeliveredIsPrefix
      <4>2. CASE k = Len(delivered) + 1
        BY <2>4, <3>2, <4>2 DEF Awaited
      <4> QED BY <2>3, <3>1, <4>1, <4>2
    <3>4. Len(delivered') <= Len(sent)
      BY <2>3, <3>1
    <3> QED BY <1>2, <3>3, <3>4 DEF DeliveredIsPrefix, Body
  <2>6. /\ WellFormed(v) /\ v.pos = b.pos + size /\ v.lim = b.lim /\ v.cap = b.cap
        /\ ~ v.freed /\ v.bytes = b.bytes
        /\ Carries(v, v.pos, v.lim, Consumed + size)
    <3>1. first + p.len \in Nat /\ first + p.len <= b.lim
      <4>. HIDE DEF b, p, size, first
      <4> QED BY <2>1, <2>2
    <3>2. /\ WellFormed(v) /\ v.pos = b.pos + size /\ v.lim = b.lim /\ v.cap = b.cap
          /\ ~ v.freed /\ v.bytes = b.bytes
      <4>. HIDE DEF b, p, size, first
      <4> QED BY <2>1, <2>2, <3>1, MovedWellFormed
    <3>3. ASSUME NEW i \in b.pos + size .. b.lim - 1
          PROVE  b.bytes[i] = (Consumed + size) + (i - (b.pos + size))
      <4>1. i \in b.pos .. b.lim - 1 /\ i \in Int
        <5>. HIDE DEF b, size
        <5> QED BY <2>1, <2>2
      <4>2. b.bytes[i] = Consumed + (i - b.pos)
        BY <2>1, <4>1 DEF Carries
      <4>. HIDE DEF b, size
      <4> QED BY <2>1, <2>2, <4>1, <4>2
    <3>. HIDE DEF b, size, v
    <3> QED BY <3>2, <3>3 DEF Carries
  <2>7. HeapOK(heap) /\ HeapOK(h) /\ h[buf] = v /\ \A id \in BufferIds : id # buf => h[id] = heap[id]
    <3>1. HeapOK(heap)
      BY HeapIsOK DEF IndInv
    <3>2. Sound(v)
      BY <2>1, <2>6, <3>1 DEF HeapOK, Sound, InStream
    <3>. HIDE DEF v
    <3> QED BY <2>1, <3>1, <3>2, HeapUpdate
  <2>. HIDE DEF h, v, x
  <2>8. LoopOK'
    <3>1. CASE unp = Null
      <4>1. buf = "chunk" /\ received = Consumed + Remaining(b)
        BY <1>2, <2>1, <3>1, Names DEF LoopOK, IndInv, TypeOK
      <4>2. unp' = Null /\ buf' = "chunk" /\ later' = FALSE /\ heap'[buf'] = v
        BY <1>2, <2>7, <3>1, <4>1 DEF Loop
      <4>3. received = (Consumed + size) + Remaining(v)
        <5>1. Remaining(b) = b.lim - b.pos /\ Remaining(v) = b.lim - (b.pos + size)
          BY <2>6 DEF Remaining
        <5>. HIDE DEF b, size
        <5> QED BY <2>1, <2>2, <4>1, <5>1
      <4>. HIDE DEF b, size
      <4> QED BY <1>2, <2>3, <2>6, <4>2, <4>3 DEF LoopOK, Carries, Remaining
    <3>2. CASE unp # Null /\ lpl = 0
      <4>1. /\ unp = buf /\ buf # "chunk" /\ b.pos = 0 /\ ~ later
            /\ received = Consumed + b.lim
        BY <1>2, <2>1, <3>2 DEF LoopOK
      <4>2. v.pos = size /\ h[unp] = v /\ received = (Consumed + size) + Remaining(v)
        <5>1. Remaining(v) = b.lim - (b.pos + size)
          BY <2>6 DEF Remaining
        <5>. HIDE DEF b, size
        <5> QED BY <2>1, <2>2, <2>6, <2>7, <4>1, <5>1
      <4>3. CASE Exhausted(h[unp])
        <5>1. /\ unp' = Null /\ buf' = buf /\ later' = FALSE
              /\ heap'[buf'] = Reuse(v)
          BY <1>2, <2>1, <2>7, <3>2, <4>1, <4>2, <4>3 DEF Loop, HeapOK
        <5>2. ~ HasRemaining(v)
          BY <3>2, <4>2, <4>3 DEF Exhausted
        <5>3. Remaining(v) = 0
          <6>1. v.pos \in Nat /\ v.lim \in Nat /\ v.pos <= v.lim
            BY <2>6 DEF WellFormed
          <6> QED BY <5>2, <6>1 DEF HasRemaining, Remaining
        <5>4. ~ HasRemaining(Reuse(v))
          BY <5>2 DEF HasRemaining, Reuse
        <5>5. received' = Consumed'
          BY <1>2, <2>1, <2>2, <2>3, <4>2, <5>3
        <5> QED BY <4>1, <5>1, <5>4, <5>5 DEF LoopOK
      <4>4. CASE ~ Exhausted(h[unp])
        <5>. DEFINE q == Compact(v)
                    r == Compacted(v)
        <5>1. /\ unp' = unp /\ buf' = buf /\ later' = FALSE /\ lpl' = 0
              /\ heap'[buf'] = r
          BY <1>2, <2>1, <2>7, <3>2, <4>1, <4>2, <4>4 DEF Loop, HeapOK
        <5>2. HasRemaining(v)
          BY <3>2, <4>2, <4>4 DEF Exhausted
        <5>3. /\ WellFormed(q) /\ q.pos = Remaining(v) /\ q.cap = v.cap /\ ~ q.freed
              /\ \A i \in 0 .. Remaining(v) - 1 : q.bytes[i] = v.bytes[v.pos + i]
          BY <2>6, <5>2, CompactKeeps
        <5>4. /\ Remaining(v) \in Nat /\ Remaining(v) > 0 /\ Remaining(v) = v.lim - v.pos
              /\ v.pos \in Nat /\ v.lim \in Nat
          <6>1. v.pos \in Nat /\ v.lim \in Nat /\ v.pos < v.lim
            BY <2>6, <5>2 DEF WellFormed, HasRemaining
          <6> QED BY <6>1 DEF Remaining
        <5>. HIDE DEF q
        <5>5. r.pos = 0 /\ r.lim = Remaining(v) /\ r.bytes = q.bytes /\ ~ r.freed
          <6>1. q.pos \in Nat /\ q.pos <= q.cap /\ q.cap \in Nat
            BY <5>3 DEF WellFormed
          <6>2. Limit(q, q.pos) = Moved(q, q.pos, q.pos)
            BY <6>1 DEF Limit
          <6>3. r = Moved(Moved(q, q.pos, q.pos), 0, q.pos)
            BY <5>3, <6>1, <6>2 DEF Compacted, Position, Moved, q
          <6>. HIDE DEF r
          <6> QED BY <5>3, <6>3 DEF Moved
        <5>. HIDE DEF r
        <5>6. Carries(r, 0, r.lim, Consumed + size)
          <6>1. ASSUME NEW i \in 0 .. Remaining(v) - 1
                PROVE  r.bytes[i] = (Consumed + size) + (i - 0)
            <7>1. v.pos + i \in v.pos .. v.lim - 1 /\ (v.pos + i) - v.pos = i - 0
              BY <5>4
            <7>2. v.bytes[v.pos + i] = (Consumed + size) + ((v.pos + i) - v.pos)
              BY <2>6, <7>1 DEF Carries
            <7> QED BY <5>3, <5>5, <7>1, <7>2
          <6> QED BY <5>5, <6>1 DEF Carries
        <5>7. HasRemaining(r)
          BY <5>4, <5>5 DEF HasRemaining
        <5>8. received' = Consumed' + r.lim
          BY <1>2, <2>3, <4>2, <5>5
        <5> QED BY <2>3, <4>1, <5>1, <5>5, <5>6, <5>7, <5>8
                DEF LoopOK, Carries, HasRemaining
      <4> QED BY <4>3, <4>4
    <3>3. CASE unp # Null /\ lpl # 0
      <4>. DEFINE c == heap["chunk"]
      <4>1. /\ unp = buf /\ buf # "chunk" /\ b.pos = 0 /\ b.lim = lpl /\ ~ c.freed
            /\ lpl = size /\ later = HasRemaining(c)
            /\ received = Consumed + lpl + Remaining(c)
            /\ Carries(c, c.pos, c.lim, Consumed + lpl)
        BY <1>2, <2>1, <3>3 DEF LoopOK
      <4>2. v.pos = lpl /\ h[unp] = v /\ v.lim = lpl
        <5>. HIDE DEF b, size
        <5> QED BY <2>1, <2>2, <2>6, <2>7, <4>1
      <4>3. Exhausted(h[unp])
        BY <3>3, <4>2 DEF Exhausted
      <4>4. /\ unp' = Null /\ buf' = next /\ later' = FALSE
            /\ heap' = [h EXCEPT ![buf] = Reuse(v)]
        BY <1>2, <2>7, <3>3, <4>1, <4>2, <4>3 DEF Loop
      <4>5. /\ c.pos \in Nat /\ c.lim \in Nat /\ c.pos <= c.lim
            /\ Remaining(c) = c.lim - c.pos
        BY Names DEF IndInv, TypeOK, WellFormed, Remaining
      <4>6. CASE later
        <5>1. buf' = "chunk" /\ heap'["chunk"] = c
          BY <2>7, <4>1, <4>4, <4>6, Names DEF HeapOK
        <5>2. received' = Consumed' + Remaining(c) /\ Carries(c, c.pos, c.lim, Consumed')
          <6>1. Consumed' = Consumed + lpl
            BY <2>3, <4>1
          <6>. HIDE DEF c
          <6> QED BY <1>2, <4>1, <6>1
        <5>. HIDE DEF c
        <5> QED BY <4>1, <4>4, <5>1, <5>2 DEF LoopOK, Carries, Remaining
      <4>7. CASE ~ later
        <5>1. buf' = buf /\ heap'[buf] = Reuse(v)
          BY <2>1, <2>7, <4>4, <4>7 DEF HeapOK
        <5>2. ~ HasRemaining(Reuse(v))
          <6>1. Reuse(v).pos = lpl /\ Reuse(v).lim = lpl
            BY <4>2 DEF Reuse
          <6> QED BY <2>1, <6>1 DEF HasRemaining
        <5>3. received' = Consumed'
          <6>1. Remaining(c) = 0
            <7>1. ~ (c.pos < c.lim)
              BY <4>1, <4>7 DEF HasRemaining
            <7>. HIDE DEF c
            <7> QED BY <4>5, <7>1
          <6>2. Consumed' = Consumed + lpl
            BY <2>3, <4>1
          <6>. HIDE DEF c
          <6> QED BY <1>2, <2>1, <4>1, <6>1, <6>2
        <5> QED BY <4>1, <4>4, <5>1, <5>2, <5>3 DEF LoopOK
      <4> QED BY <4>6, <4>7
    <3> QED BY <3>1, <3>2, <3>3
  <2>9. pc' = "loop"
    BY <1>2 DEF Loop
  <2>10. IndInv'
    BY <1>1, <1>3, <2>5, <2>8, <2>9 DEF IndInv, SyncOK
  <2> QED BY <1>2, <2>1, <2>4, <2>10 DEF Awaited
<1> QED BY <1>4, <1>5

-----------------------------------------------------------------------------
(* The theorems.                                                            *)

\* An empty stream with nothing kept satisfies the invariant.
LEMMA EmptyStream ==
    ASSUME TypeOK, BytesOK, sent = <<>>, total = 0, received = 0, delivered = <<>>,
           unp = Null, pc = "idle"
    PROVE  IndInv
<1>1. Len(sent) = 0 /\ Len(delivered) = 0
  OBVIOUS
<1>2. StreamOK /\ DeliveredIsPrefix
  BY <1>1 DEF StreamOK, DeliveredIsPrefix
<1>3. Consumed = 0
  BY <1>1 DEF Consumed, Pending
<1>4. SyncOK
  BY <1>3 DEF SyncOK, IdleOK
<1> QED BY <1>2, <1>4 DEF IndInv

\* The invariant is inductive.
LEMMA Inductive == IndInv /\ [Next]_vars => IndInv'
<1>. SUFFICES ASSUME IndInv, [Next]_vars PROVE IndInv'
  OBVIOUS
<1>1. CASE \E kind \in Kinds : ServerSend(kind)
  BY <1>1, SendKeepsStream
<1>2. CASE ReceiveSome
  BY <1>2, ReceiveKeepsPlace DEF ReceiveSome
<1>3. CASE LoopStep
  BY <1>3, LoopKeepsPlace, DeliverKeepsPlace DEF LoopStep
<1>4. CASE NewConnection
  <2>1. TypeOK' /\ BytesOK'
    BY <1>4, EnvironmentTyped DEF IndInv
  <2>2. /\ sent' = <<>> /\ total' = 0 /\ received' = 0 /\ delivered' = <<>>
        /\ unp' = Null /\ pc' = "idle"
    BY <1>4 DEF NewConnection, DropUnprocessed
  <2>3. Len(sent') = 0 /\ Len(delivered') = 0
    BY <2>2
  <2>4. StreamOK' /\ DeliveredIsPrefix'
    BY <2>2, <2>3 DEF StreamOK, DeliveredIsPrefix
  <2>5. Consumed' = 0
    BY <2>2, <2>3 DEF Consumed, Pending
  <2>6. SyncOK'
    BY <2>2, <2>5 DEF SyncOK, IdleOK
  <2> QED BY <2>1, <2>4, <2>6 DEF IndInv
<1>5. CASE ResetMidStream
  <2>1. TypeOK' /\ BytesOK'
    BY <1>5, EnvironmentTyped DEF IndInv
  <2>2. sent' = sent /\ total' = total /\ delivered' = delivered /\ sync' = "garbled"
    BY <1>5 DEF ResetMidStream, stream
  <2> QED BY <2>1, <2>2, QuietStep DEF SyncOK
<1>6. CASE UNCHANGED vars
  <2>1. TypeOK' /\ BytesOK'
    BY <1>6 DEF vars, IndInv, TypeOK, BytesOK
  <2>2. SyncOK'
    BY <1>6 DEF vars, IndInv, SyncOK, IdleOK, LoopOK, Consumed, Pending, Awaited
  <2> QED BY <1>6, <2>1, <2>2, QuietStep DEF vars
<1> QED BY <1>1, <1>2, <1>3, <1>4, <1>5, <1>6 DEF Next

\* The inductive invariant holds in every reachable state: at each point of
\* onConnectionReceivedData the buffers carry exactly the undelivered bytes.
THEOREM Invariance == Spec => []IndInv
<1>1. Init => IndInv
  <2>. SUFFICES ASSUME Init PROVE IndInv
    OBVIOUS
  <2>1. TypeOK /\ BytesOK
    BY InitTyped
  <2> QED BY <2>1, EmptyStream DEF Init
<1> QED BY <1>1, Inductive, PTL DEF Spec

\* Whatever the packets and however the network cuts them, the delegate of
\* onConnectionReceivedData gets a prefix of the bodies the server sent.
THEOREM PrefixDelivered == Spec => []DeliveredIsPrefix
<1>1. IndInv => DeliveredIsPrefix
  BY DEF IndInv
<1> QED BY <1>1, Invariance, PTL

\* When onConnectionReceivedData returns, no packet that has arrived whole
\* is left in unprocessedData.
THEOREM NoneWithheld == Spec => []NothingWithheld
<1>1. IndInv => NothingWithheld
  <2>. SUFFICES ASSUME IndInv, pc = "idle", sync = "ok", Len(delivered) < Len(sent),
                       ~ Oversize(sent[Len(delivered) + 1])
                PROVE  received < sent[Len(delivered) + 1].at + Size(sent[Len(delivered) + 1])
    BY DEF NothingWithheld
  <2>1. Pending /\ Awaited = sent[Len(delivered) + 1] /\ Len(delivered) <= Len(sent)
    BY DEF Pending, Awaited, IndInv, DeliveredIsPrefix
  <2>2. /\ Consumed \in Nat /\ Awaited.at = Consumed
        /\ Awaited.hdr \in {1, 4} /\ Awaited.len \in Nat
        /\ Size(Awaited) \in Nat /\ Size(Awaited) >= 1
        /\ Size(Awaited) = Awaited.hdr + Awaited.len
    BY <2>1, ConsumedFacts DEF IndInv
  <2>3. IdleOK
    BY DEF IndInv, SyncOK
  <2>4. received < Consumed + Size(Awaited)
    <3>1. CASE unp = Null
      BY <2>2, <2>3, <3>1 DEF IdleOK
    <3>2. CASE unp # Null /\ lpl = 0
      <4>1. heap[unp].lim \in 1 .. 3 /\ Awaited.hdr = 4 /\ received = Consumed + heap[unp].lim
        BY <2>3, <3>2 DEF IdleOK
      <4>2. Size(Awaited) = 4 + Awaited.len /\ Awaited.len \in Nat
        BY <2>2, <4>1
      <4>. DEFINE l == heap[unp].lim
      <4>3. l \in Nat /\ l < Size(Awaited) /\ received = Consumed + l
        BY <4>1, <4>2
      <4>. HIDE DEF l
      <4> QED BY <2>2, <4>3
    <3>3. CASE unp # Null /\ lpl # 0
      <4>1. /\ lpl = Size(Awaited) /\ heap[unp].pos < lpl
            /\ received = Consumed + heap[unp].pos
        BY <2>3, <3>3 DEF IdleOK
      <4>2. heap[unp].pos \in Nat
        BY <3>3, Names DEF IndInv, TypeOK, WellFormed
      <4> QED BY <2>2, <4>1, <4>2
    <3> QED BY <3>1, <3>2, <3>3
  <2> QED BY <2>1, <2>2, <2>4
<1> QED BY <1>1, Invariance, PTL

\* The loop of onConnectionReceivedData parses no buffer it gave back.
THEOREM NoneParsedAfterReuse == Spec => []NoParseAfterReuse
<1>1. IndInv => NoParseAfterReuse
  BY DEF IndInv, SyncOK, LoopOK, NoParseAfterReuse
<1> QED BY <1>1, Invariance, PTL

\* Every action of the handler other than a delivery leaves the sequence of
\* deliveries alone, and what it does to the stream the abstract one allows.
LEMMA StepSimulation == IndInv /\ [Next]_vars => [Stream!Next]_(Stream!vars)
<1>. DEFINE bodies == [k \in DOMAIN sent |-> Body(sent[k])]
            lost == sync # "ok"
<1>. SUFFICES ASSUME IndInv, [Next]_vars PROVE [Stream!Next]_<<bodies, delivered, lost>>
  BY DEF Stream!vars
<1>1. Len(sent) \in Nat /\ DOMAIN sent = 1 .. Len(sent) /\ Len(bodies) = Len(sent)
  <2>1. sent \in Seq([at : Nat, hdr : {1, 4}, len : Nat])
    BY DEF IndInv, TypeOK
  <2> QED BY <2>1
<1>2. ASSUME sent' = sent PROVE bodies' = bodies
  BY <1>2 DEF Body
<1>3. CASE \E kind \in Kinds : ServerSend(kind)
  <2>1. PICK kind \in Kinds : ServerSend(kind)
    BY <1>3
  <2>. DEFINE q == [at |-> total, hdr |-> kind.hdr, len |-> kind.len]
  <2>2. sent' = Append(sent, q) /\ delivered' = delivered /\ sync' = sync
    BY <2>1 DEF ServerSend
  <2>3. sent \in Seq([at : Nat, hdr : {1, 4}, len : Nat])
    BY DEF IndInv, TypeOK
  <2>4. IsSeq(sent)
    BY <2>3 DEF IsSeq
  <2>. HIDE DEF q
  <2>5. /\ Len(sent') = Len(sent) + 1 /\ DOMAIN sent' = 1 .. Len(sent) + 1
        /\ \A k \in 1 .. Len(sent) : sent'[k] = sent[k]
    BY <2>2, <2>3
  <2>6. Len(bodies') = Len(bodies) + 1
    BY <1>1, <2>5
  <2>7. \A k \in DOMAIN bodies : bodies'[k] = bodies[k]
    <3>1. ASSUME NEW k \in 1 .. Len(sent) PROVE bodies'[k] = bodies[k]
      <4>1. k \in DOMAIN sent /\ k \in DOMAIN sent' /\ sent'[k] = sent[k]
        BY <1>1, <2>5
      <4> QED BY <4>1 DEF Body
    <3> QED BY <1>1, <3>1
  <2>. HIDE DEF bodies
  <2> QED BY <2>2, <2>6, <2>7 DEF Stream!Next, Stream!Send
<1>4. CASE Deliver
  <2>1. sent' = sent /\ sync' = sync
    BY <1>4 DEF Deliver, Turn, stream
  <2>2. CASE sync = "ok"
    <3>1. Pending /\ delivered' = Append(delivered, Body(sent[Len(delivered) + 1]))
      BY <1>4, <2>2, DeliverKeepsPlace
    <3>2. Len(delivered) < Len(sent) /\ Len(delivered) + 1 \in DOMAIN sent
      BY <1>1, <3>1, ConsumedFacts DEF IndInv, Pending, TypeOK, IsSeq
    <3>3. bodies[Len(delivered) + 1] = Body(sent[Len(delivered) + 1])
      BY <3>2
    <3> QED BY <1>1, <1>2, <2>1, <2>2, <3>1, <3>2, <3>3 DEF Stream!Next, Stream!Deliver
  <2>3. CASE sync # "ok"
    <3>1. PICK x : delivered' = Append(delivered, x)
      BY <1>4 DEF Deliver
    <3>2. Len(delivered') = Len(delivered) + 1
      BY <3>1, AppendToSeq DEF IndInv, TypeOK
    <3> QED BY <1>2, <2>1, <2>3, <3>2 DEF Stream!Next, Stream!DeliverAnything
  <2> QED BY <2>2, <2>3
<1>5. CASE InvalidLength \/ ResetMidStream
  <2>1. sent' = sent /\ delivered' = delivered
        /\ (sync' = sync \/ (~ lost /\ lost') \/ (lost /\ lost'))
    BY <1>5 DEF InvalidLength, Turn, ResetMidStream, stream
  <2>. HIDE DEF bodies
  <2> QED BY <1>2, <2>1 DEF Stream!Next, Stream!Lose
<1>6. CASE NewConnection
  <2>1. sent' = <<>> /\ delivered' = <<>> /\ sync' = "ok"
    BY <1>6 DEF NewConnection
  <2>2. bodies' = <<>>
    BY <2>1
  <2> QED BY <2>1, <2>2 DEF Stream!Next, Stream!NewConnection
<1>7. CASE ReceiveSome \/ LoopEnds \/ CutHeader \/ CutBody \/ ReadFreed \/ UNCHANGED vars
  <2>1. sent' = sent /\ delivered' = delivered /\ sync' = sync
    BY <1>7 DEF ReceiveSome, ReceiveFresh, ReceiveAppend, ReceiveGrow, ReceiveBody, Receive,
                LoopEnds, CutHeader, CutBody, Turn, ReadFreed, stream, vars
  <2> QED BY <1>2, <2>1
<1> QED BY <1>3, <1>4, <1>5, <1>6, <1>7 DEF Next, LoopStep

\* onConnectionReceivedData implements the packet stream: whatever the
\* network does, an outside observer of deliveries sees PacketStream.
THEOREM Refinement == Spec => ImplementsStream
<1>1. Init => Stream!Init
  BY DEF Init, Stream!Init
<1> QED BY <1>1, StepSimulation, Invariance, PTL DEF Spec, ImplementsStream, Stream!Spec
=============================================================================
