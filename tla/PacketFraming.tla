---------------------------- MODULE PacketFraming ---------------------------
(***************************************************************************)
(* onConnectionReceivedData of paymon/net/NetworkManager_Wrapper.mm: the    *)
(* reassembly of length-prefixed packets from the chunks a TCP connection   *)
(* delivers.  A packet is a header of one byte (length in words, not 0x7f)  *)
(* or of four (0x7f and a 24-bit length) and a body.                        *)
(*                                                                         *)
(* The handler runs on the serial netQueue, one chunk at a time.  Its       *)
(* prologue is one of the Receive actions, each turn of its while loop one  *)
(* of the actions with pc = "loop"; nothing else of netQueue runs between.  *)
(***************************************************************************)
EXTENDS SerializedBuffer, Sequences

CONSTANTS
    Kinds,        \* the [hdr, len] of the packets a server may send
    MaxLen,       \* the longest body the parser accepts (2 MB in the code)
    PartialSize,  \* the buffer taken for a cut header (16384 in the code)
    MaxBytes,     \* bound on the bytes the server sends on a connection
    Junk          \* Junk[o]: the header the parser sees at an offset o that
                  \* is not the start of a packet

ASSUME KindsAssumption == Kinds \subseteq [hdr : {1, 4}, len : Nat]
ASSUME SizesAssumption == MaxLen \in Nat /\ PartialSize \in Nat /\ PartialSize >= 3
ASSUME BoundAssumption == MaxBytes \in Nat
ASSUME JunkAssumption ==
    \A o \in {Stale} \cup (0 .. MaxBytes) :
        Junk[o].hdr \in {1, 4} /\ Junk[o].len \in Nat

VARIABLES
    sent,      \* packets sent on this connection, with their first offset
    total,     \* bytes sent
    received,  \* bytes handed to the handler
    heap,      \* the buffers the handler can reach
    unp,       \* unprocessedData: a buffer or Null
    lpl,       \* lastPacketLength
    buf,       \* the local variable buffer
    later,     \* parseLaterBuffer # nullptr (it is always the chunk)
    pc,        \* where the handler is
    sync,      \* "ok", "lost" (misaligned) or "garbled" (cipher reset)
    delivered  \* bodies handed to the delegate on this connection

vars == <<sent, total, received, heap, unp, lpl, buf, later, pc, sync, delivered>>
stream == <<sent, total, received>>

Null == "null"
PoolIds == {"a", "b"}
BufferIds == {"chunk"} \cup PoolIds

\* The buffer getFreeBuffer returns while unprocessedData is u.
Fresh(u) == IF u = "a" THEN "b" ELSE "a"

Oversize(p) == p.len > MaxLen

\* Bytes a packet takes in the stream; a refused length announces no body.
Size(p) == p.hdr + (IF Oversize(p) THEN 0 ELSE p.len)

Body(p) == [i \in 0 .. p.len - 1 |-> p.at + p.hdr + i]

\* What the parser reads as a header at the position of b.
HeaderAt(b) ==
    LET o == b.bytes[b.pos]
    IN  IF sync # "garbled" /\ \E k \in DOMAIN sent : sent[k].at = o
        THEN sent[CHOOSE k \in DOMAIN sent : sent[k].at = o]
        ELSE Junk[o]

Init ==
    /\ sent = <<>> /\ total = 0 /\ received = 0
    /\ heap = [id \in BufferIds |-> NoBuffer]
    /\ unp = Null /\ lpl = 0 /\ buf = "chunk" /\ later = FALSE
    /\ pc = "idle" /\ sync = "ok" /\ delivered = <<>>

-----------------------------------------------------------------------------
(* The server, the connection and the other blocks of netQueue.             *)

ServerSend(kind) ==
    /\ total + Size(kind) <= MaxBytes
    /\ sent' = Append(sent, [at |-> total, hdr |-> kind.hdr, len |-> kind.len])
    /\ total' = total + Size(kind)
    /\ UNCHANGED <<received, heap, unp, lpl, buf, later, pc, sync, delivered>>

\* reset(): unprocessedData deleted, lastPacketLength and the cipher cleared.
DropUnprocessed ==
    /\ heap' = [id \in BufferIds |-> NoBuffer]
    /\ unp' = Null
    /\ lpl' = 0

\* A new connection is up: NetworkManager resets before its first byte.
NewConnection ==
    /\ pc = "idle"
    /\ DropUnprocessed
    /\ sent' = <<>> /\ total' = 0 /\ received' = 0
    /\ sync' = "ok" /\ delivered' = <<>>
    /\ UNCHANGED <<buf, later, pc>>

\* reset() while the old connection still delivers (the sign-in screen).
ResetMidStream ==
    /\ pc = "idle"
    /\ DropUnprocessed
    /\ sync' = "garbled"
    /\ UNCHANGED <<stream, buf, later, pc, delivered>>

-----------------------------------------------------------------------------
(* The prologue: what the chunk is joined to.                               *)

\* The handler returns: its locals are gone, only unprocessedData stays.
Return(h, u) ==
    /\ heap' = [id \in BufferIds |-> IF id = u THEN h[id] ELSE NoBuffer]
    /\ unp' = u
    /\ buf' = "chunk" /\ later' = FALSE /\ pc' = "idle"

\* The loop starts, or goes on, over buffer b.
Loop(h, u, b, parseLater) ==
    /\ heap' = h
    /\ unp' = u
    /\ buf' = b /\ later' = parseLater /\ pc' = "loop"

Receive(n) ==
    /\ pc = "idle"
    /\ received + n <= total
    /\ received' = received + n
    /\ UNCHANGED <<sent, total, sync, delivered>>

\* Nothing is pending: parse the chunk in place.
ReceiveFresh(n) ==
    /\ Receive(n)
    /\ unp = Null
    /\ Loop([heap EXCEPT !["chunk"] = Slice(received, n)], unp, "chunk", FALSE)
    /\ UNCHANGED lpl

\* A header was cut and its buffer has room for the chunk.
ReceiveAppend(n) ==
    /\ Receive(n)
    /\ unp # Null /\ lpl = 0
    /\ LET u == heap[unp]
       IN  /\ u.cap - u.pos >= n
           /\ Loop([heap EXCEPT ![unp] = Rewind(WriteBytes(Limit(u, u.pos + n),
                                                           Slice(received, n)))],
                   unp, unp, FALSE)
    /\ UNCHANGED lpl

\* A header was cut and its buffer is too small: both move to a larger one.
ReceiveGrow(n) ==
    /\ Receive(n)
    /\ unp # Null /\ lpl = 0
    /\ LET u == heap[unp]
           joined == WriteBytes(WriteBytes(GetFreeBuffer(u.lim + n), Rewind(u)),
                                Slice(received, n))
       IN  /\ u.cap - u.pos < n
           /\ Loop([heap EXCEPT ![Fresh(unp)] = Rewind(joined),
                                ![unp] = Reuse(u)],
                   Fresh(unp), Fresh(unp), FALSE)
    /\ UNCHANGED lpl

\* A body was cut: take what it misses, and keep the rest for later.
ReceiveBody(n) ==
    /\ Receive(n)
    /\ unp # Null /\ lpl # 0
    /\ LET u == heap[unp]
           \* unsigned: a position beyond lpl would wrap to more than n
           len == IF u.pos <= lpl /\ lpl - u.pos <= n THEN lpl - u.pos ELSE n
           part == Limit(Slice(received, n), len)
           u1 == WriteBytes(u, part)
           c == Limit(Drain(u, part), n)
           h == [heap EXCEPT ![unp] = u1, !["chunk"] = c]
       IN  IF u1.pos = lpl
           THEN Loop([h EXCEPT ![unp] = Rewind(u1)], unp, unp, HasRemaining(c))
           ELSE Return(h, unp)
    /\ UNCHANGED lpl

-----------------------------------------------------------------------------
(* One turn of the loop, over b == heap[buf], its header read as p.         *)

Turn ==
    /\ pc = "loop"
    /\ ~ heap[buf].freed
    /\ HasRemaining(heap[buf])
    /\ UNCHANGED stream

\* A one-byte header, or a four-byte one that is here whole.
HeaderWhole(b, p) == p.hdr = 1 \/ Remaining(b) >= 4

\* The packet's last byte is here too.
BodyWhole_OffByOne(b, p) == p.len < Remaining(b) - p.hdr
BodyWhole(b, p) == p.len <= Remaining(b) - p.hdr

\* Every byte is consumed.
LoopEnds ==
    /\ pc = "loop"
    /\ ~ heap[buf].freed
    /\ ~ HasRemaining(heap[buf])
    /\ Return(heap, unp)
    /\ UNCHANGED <<stream, lpl, sync, delivered>>

\* The header itself is cut.
CutHeader ==
    /\ Turn
    /\ LET b == heap[buf]
           saved == WriteBytes(GetFreeBuffer(PartialSize), b)
       IN  /\ ~ HeaderWhole(b, HeaderAt(b))
           /\ IF unp = Null \/ heap[unp].pos # 0
              THEN /\ Return([heap EXCEPT ![Fresh(unp)] = Limit(saved, saved.pos)],
                             Fresh(unp))
                   /\ lpl' = 0
              ELSE /\ Return([heap EXCEPT ![unp] = Position(heap[unp], heap[unp].lim)], unp)
                   /\ UNCHANGED lpl
    /\ UNCHANGED <<sync, delivered>>

\* A length nobody sends: reconnect and give up on this stream.
InvalidLength ==
    /\ Turn
    /\ LET b == heap[buf]
           p == HeaderAt(b)
       IN  /\ HeaderWhole(b, p) /\ Oversize(p)
           /\ Return([heap EXCEPT ![buf] = Moved(b, b.pos + p.hdr, b.lim)], unp)
    /\ sync' = IF sync = "ok" THEN "lost" ELSE sync
    /\ UNCHANGED <<lpl, delivered>>

\* The body is cut: keep the packet from its header on, note its length.
CutBody ==
    /\ Turn
    /\ LET b == heap[buf]
           p == HeaderAt(b)
           len == p.len + p.hdr
           small == unp # Null /\ heap[unp].cap < len
       IN  /\ HeaderWhole(b, p) /\ ~ Oversize(p)
           /\ ~ BodyWhole(b, p)
           /\ IF unp = Null \/ small
              THEN Return([heap EXCEPT ![Fresh(unp)] = WriteBytes(GetFreeBuffer(len), b)],
                          Fresh(unp))
              ELSE LET u == IF buf = unp THEN Moved(b, b.pos + p.hdr, b.lim) ELSE heap[unp]
                   IN  Return([heap EXCEPT ![unp] = Limit(Position(u, u.lim), len)], unp)
           /\ lpl' = len
    /\ UNCHANGED <<sync, delivered>>

\* After a delivery: give unprocessedData back when it is exhausted, else
\* move what is left of it to its front.
Exhausted_Always(u) == TRUE
Exhausted(u) == (lpl # 0 /\ u.pos = lpl) \/ (lpl = 0 /\ ~ HasRemaining(u))

Compacted_NoRewind(u) ==
    LET c == Compact(u) IN Limit(c, c.pos)
Compacted(u) ==
    LET c == Compact(u) IN Position(Limit(c, c.pos), 0)

Deliver ==
    /\ Turn
    /\ LET b == heap[buf]
           p == HeaderAt(b)
           first == b.pos + p.hdr
           h == [heap EXCEPT ![buf] = Moved(b, first + p.len, b.lim)]
           next == IF later THEN "chunk" ELSE buf
       IN  /\ HeaderWhole(b, p) /\ ~ Oversize(p)
           /\ BodyWhole(b, p)
           /\ delivered' = Append(delivered,
                                  [i \in 0 .. p.len - 1 |-> b.bytes[first + i]])
           /\ IF unp = Null THEN Loop(h, unp, next, FALSE)
              ELSE IF Exhausted(h[unp])
              THEN Loop([h EXCEPT ![unp] = Reuse(h[unp])], Null, next, FALSE)
              ELSE Loop([h EXCEPT ![unp] = Compacted(h[unp])], unp, next, FALSE)
    /\ UNCHANGED <<lpl, sync>>

\* The loop condition reads a buffer that reuse() deleted: the memory still
\* says "exhausted", or the program is no longer defined.
ReadFreed ==
    /\ pc = "loop"
    /\ heap[buf].freed
    /\ \/ Return(heap, unp)
       \/ pc' = "undefined" /\ UNCHANGED <<heap, unp, buf, later>>
    /\ UNCHANGED <<stream, lpl, sync, delivered>>

-----------------------------------------------------------------------------
ReceiveSome ==
    \E n \in 1 .. MaxBytes :
        ReceiveFresh(n) \/ ReceiveAppend(n) \/ ReceiveGrow(n) \/ ReceiveBody(n)

LoopStep ==
    LoopEnds \/ CutHeader \/ InvalidLength \/ CutBody \/ Deliver \/ ReadFreed

Next ==
    \/ \E kind \in Kinds : ServerSend(kind)
    \/ ReceiveSome
    \/ LoopStep
    \/ NewConnection
    \/ ResetMidStream

Spec == Init /\ [][Next]_vars

\* netQueue runs its blocks, and a connection that stays up delivers.
FairSpec == Spec /\ WF_vars(ReceiveSome) /\ WF_vars(LoopStep)

-----------------------------------------------------------------------------
IsSeq(s) == s \in Seq({s[k] : k \in DOMAIN s})

TypeOK ==
    /\ sent \in Seq([at : Nat, hdr : {1, 4}, len : Nat])
    /\ total \in 0 .. MaxBytes
    /\ received \in 0 .. total
    /\ heap = [id \in BufferIds |-> heap[id]]
    /\ \A id \in BufferIds : WellFormed(heap[id])
    /\ unp \in PoolIds \cup {Null}
    /\ lpl \in Nat
    /\ buf \in BufferIds
    /\ later \in BOOLEAN
    /\ pc \in {"idle", "loop", "undefined"}
    /\ sync \in {"ok", "lost", "garbled"}
    /\ IsSeq(delivered)

\* While the stream is in step, what the delegate got is exactly a prefix of
\* what the server sent: no chunking loses, repeats, merges or cuts a body
\* (onConnectionReceivedData, NetworkManager_Wrapper.mm).
DeliveredIsPrefix ==
    sync = "ok" =>
        /\ Len(delivered) <= Len(sent)
        /\ \A k \in 1 .. Len(delivered) : delivered[k] = Body(sent[k])

\* When the handler returns it holds back no packet it has all the bytes of:
\* such a packet would wait for the next one, which may never come.
NothingWithheld ==
    (pc = "idle" /\ sync = "ok" /\ Len(delivered) < Len(sent)) =>
        LET p == sent[Len(delivered) + 1]
        IN  ~ Oversize(p) => received < p.at + Size(p)

\* A buffer the parser goes on reading was not given back to the pool behind
\* its back: only the loop condition ever meets a freed buffer, and then there
\* is nothing left to parse.
NoParseAfterReuse ==
    (sync = "ok" /\ pc = "loop" /\ buf # "chunk" /\ unp # buf) =>
        ~ HasRemaining(heap[buf]) /\ ~ later

\* The abstract stream this handler implements.
Stream == INSTANCE PacketStream WITH
              sent <- [k \in DOMAIN sent |-> Body(sent[k])],
              lost <- sync # "ok"

\* Every step of the handler is a step of the promised packet stream or
\* invisible in it.
ImplementsStream == Stream!Spec

\* Again and again everything sent on the connection has been delivered,
\* unless the stream is lost or the process read a freed buffer: no packet
\* waits in unprocessedData for ever.
EventuallyDelivered ==
    []<>(Len(delivered) = Len(sent) \/ sync # "ok" \/ pc = "undefined")

-----------------------------------------------------------------------------
(* The inductive invariant behind DeliveredIsPrefix and NothingWithheld.    *)

Offsets == Stale .. MaxBytes

\* Buffers hold offsets of this connection's stream, or stale memory.
InStream(b) == \A i \in 0 .. b.cap - 1 : b.bytes[i] \in Offsets

BytesOK == \A id \in BufferIds : InStream(heap[id])

\* The packets lie one after the other in the stream.
StreamOK ==
    /\ \A k \in 1 .. Len(sent) :
          sent[k].at + Size(sent[k]) = IF k = Len(sent) THEN total ELSE sent[k + 1].at
    /\ \A j, k \in 1 .. Len(sent) :
          j < k => sent[j].at + Size(sent[j]) <= sent[k].at
    /\ IF Len(sent) = 0 THEN total = 0 ELSE sent[1].at = 0

Pending == Len(delivered) < Len(sent)
Awaited == sent[Len(delivered) + 1]

\* The offset the first undelivered packet starts at, or will start at.
Consumed == IF Pending THEN Awaited.at ELSE total

\* b carries the stream from offset o on at lo .. hi-1.
Carries(b, lo, hi, o) == \A i \in lo .. hi - 1 : b.bytes[i] = o + (i - lo)

\* Between two chunks: nothing is kept, a cut header, or a cut body whose
\* length is known.
IdleOK ==
    \/ /\ unp = Null
       /\ received = Consumed
    \/ /\ unp # Null /\ lpl = 0
       /\ Pending /\ Awaited.hdr = 4
       /\ ~ heap[unp].freed
       /\ heap[unp].pos = heap[unp].lim
       /\ heap[unp].lim \in 1 .. 3
       /\ received = Consumed + heap[unp].lim
       /\ Carries(heap[unp], 0, heap[unp].lim, Consumed)
    \/ /\ unp # Null /\ lpl # 0
       /\ Pending /\ ~ Oversize(Awaited)
       /\ lpl = Size(Awaited)
       /\ ~ heap[unp].freed
       /\ heap[unp].lim = lpl
       /\ heap[unp].pos < lpl
       /\ received = Consumed + heap[unp].pos
       /\ Carries(heap[unp], 0, heap[unp].pos, Consumed)

\* In the loop: the chunk alone is parsed, or the joined buffer, or one whole
\* packet with the rest of the chunk behind it, or an exhausted buffer.
LoopOK ==
    \/ /\ buf = "chunk" /\ unp = Null /\ ~ later
       /\ ~ heap[buf].freed
       /\ received = Consumed + Remaining(heap[buf])
       /\ Carries(heap[buf], heap[buf].pos, heap[buf].lim, Consumed)
    \/ /\ buf # "chunk" /\ buf = unp /\ lpl = 0 /\ ~ later
       /\ ~ heap[buf].freed
       /\ heap[buf].pos = 0 /\ HasRemaining(heap[buf])
       /\ received = Consumed + heap[buf].lim
       /\ Carries(heap[buf], 0, heap[buf].lim, Consumed)
    \/ /\ buf # "chunk" /\ buf = unp /\ lpl # 0
       /\ ~ heap[buf].freed /\ ~ heap["chunk"].freed
       /\ heap[buf].pos = 0 /\ heap[buf].lim = lpl
       /\ Pending /\ ~ Oversize(Awaited)
       /\ lpl = Size(Awaited)
       /\ Carries(heap[buf], 0, lpl, Consumed)
       /\ later = HasRemaining(heap["chunk"])
       /\ received = Consumed + lpl + Remaining(heap["chunk"])
       /\ Carries(heap["chunk"], heap["chunk"].pos, heap["chunk"].lim, Consumed + lpl)
    \/ /\ buf # "chunk" /\ unp = Null /\ ~ later
       /\ ~ HasRemaining(heap[buf])
       /\ received = Consumed

SyncOK ==
    sync = "ok" =>
        /\ pc = "idle" => IdleOK
        /\ pc = "loop" => LoopOK

\* Everything above together holds in every state and is kept by every step.
IndInv == TypeOK /\ BytesOK /\ StreamOK /\ DeliveredIsPrefix /\ SyncOK
=============================================================================
