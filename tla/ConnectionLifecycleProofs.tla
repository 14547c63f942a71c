---------------------- MODULE ConnectionLifecycleProofs ----------------------
(***************************************************************************)
(* For any number of connections, failures and requests, and however the    *)
(* three queues interleave: data is never parsed in a later session, the    *)
(* manager never comes to rest without a connection or a timer, and, when   *)
(* the two connection queues exclude each other, there is one socket and    *)
(* one opinion of whether it is connected.                                  *)
(***************************************************************************)
EXTENDS ConnectionLifecycle, TLAPS, SequenceTheorems

-----------------------------------------------------------------------------
(* Queues of frames                                                         *)

In(b, q) == \E i \in DOMAIN q : q[i] = b
Once(b, q) == \A i, j \in DOMAIN q : q[i] = b /\ q[j] = b => i = j
First(b, q) == \A i \in DOMAIN q : q[i] = b => i = 1
Before(b, c, q) == \A i, j \in DOMAIN q : q[i] = b /\ q[j] = c => i < j

\* What queue q becomes when its running frame h ends, when frame b runs next,
\* when b is appended, and when h goes on as b.
Ended(q, h, w) ==
    /\ In(h, q) /\ \A x : In(x, q) <=> In(x, w) \/ x = h
    /\ \A x : Once(x, q) => Once(x, w) /\ (x = h => ~ In(x, w))
    /\ \A x : First(x, q) => ~ In(x, w) /\ First(x, w)
    /\ \A x, y : Before(x, y, q) => Before(x, y, w) /\ (y = h => ~ In(x, w))
    /\ \A x, y : Before(x, y, w) /\ (y = h => ~ In(x, q)) => Before(x, y, q)
Pushed(q, b, w) ==
    /\ \A x : In(x, w) <=> In(x, q) \/ x = b
    /\ \A x : Once(x, q) /\ (x = b => ~ In(x, q)) => Once(x, w)
    /\ \A x : ~ In(x, q) => First(x, w)
    /\ \A x, y : Before(x, y, q) /\ (y = b => ~ In(x, w)) => Before(x, y, w)
Added(q, b, w) ==
    /\ \A x : In(x, w) <=> In(x, q) \/ x = b
    /\ \A x : Once(x, q) /\ (x = b => ~ In(x, q)) => Once(x, w)
    /\ \A x : First(x, q) /\ x # b => First(x, w)
    /\ \A x, y : Before(x, y, q) /\ (x = b => ~ In(y, w)) => Before(x, y, w)
    /\ \A x, y : Before(x, y, w) => Before(x, y, q) /\ (x = b => ~ In(y, q))
Went(q, h, b, w) ==
    /\ In(h, q) /\ In(b, w)
    /\ \A x : In(x, q) => In(x, w) \/ x = h
    /\ \A x : In(x, w) => In(x, q) \/ x = b
    /\ \A x : Once(x, q) /\ (x = b => ~ In(x, q)) => Once(x, w)
    /\ \A x : Once(x, q) /\ x = h /\ x # b => ~ In(x, w)
    /\ \A x : First(x, q) => First(x, w) /\ (x # b => ~ In(x, w))
    /\ \A x, y : Before(x, y, q) /\ (y = b => ~ In(x, w)) => Before(x, y, w)
    /\ \A x, y : Before(x, y, q) /\ y = h /\ x # b => ~ In(x, w)

LEMMA EndedTail ==
    ASSUME NEW S, NEW q \in Seq(S), q # <<>>
    PROVE  Tail(q) \in Seq(S) /\ Head(q) \in S /\ Ended(q, Head(q), Tail(q))
<1> DEFINE w == Tail(q)
<1>1. /\ w \in Seq(S) /\ Head(q) \in S /\ Len(q) \in Nat /\ Len(q) > 0 /\ DOMAIN q = 1 .. Len(q)
      /\ DOMAIN w = 1 .. Len(q) - 1
      /\ Head(q) = q[1] /\ \A i \in 1 .. Len(q) - 1 : w[i] = q[i + 1]
  BY HeadTailProperties, LenProperties, EmptySeq
<1> HIDE DEF w
<1>2. \A i \in DOMAIN w : i + 1 \in DOMAIN q /\ i + 1 > 1 /\ w[i] = q[i + 1]
  BY <1>1
<1>3. \A j \in DOMAIN q : j = 1 \/ (j - 1 \in DOMAIN w /\ w[j - 1] = q[j])
  BY <1>1
<1>h. 1 \in DOMAIN q /\ In(Head(q), q)
  BY <1>1 DEF In
<1>4. ASSUME NEW x PROVE In(x, q) <=> In(x, w) \/ x = Head(q)
  <2>1. ASSUME NEW j \in DOMAIN q, q[j] = x PROVE In(x, w) \/ x = Head(q)
    BY <1>1, <1>3, <2>1 DEF In
  <2>2. In(x, w) => In(x, q)
    BY <1>2 DEF In
  <2> QED BY <1>h, <2>1, <2>2 DEF In
<1>5. ASSUME NEW x, Once(x, q) PROVE Once(x, w) /\ (x = Head(q) => ~ In(x, w))
  BY <1>1, <1>2, <1>5 DEF Once, In
<1>6. ASSUME NEW x, First(x, q) PROVE ~ In(x, w) /\ First(x, w)
  BY <1>1, <1>2, <1>6 DEF First, In
<1>7. ASSUME NEW x, NEW y, Before(x, y, q)
      PROVE  Before(x, y, w) /\ (y = Head(q) => ~ In(x, w))
  BY <1>1, <1>2, <1>7 DEF Before, In
<1>8. ASSUME NEW x, NEW y, Before(x, y, w), y = Head(q) => ~ In(x, q) PROVE Before(x, y, q)
  <2> SUFFICES ASSUME NEW i \in DOMAIN q, NEW j \in DOMAIN q, q[i] = x, q[j] = y PROVE i < j
    BY DEF Before
  <2>1. In(x, q)
    BY DEF In
  <2>2. j # 1 /\ j - 1 \in DOMAIN w /\ w[j - 1] = y
    BY <2>1, <1>1, <1>3, <1>8
  <2>3. CASE i = 1
    BY <2>2, <2>3, <1>1
  <2>4. CASE i # 1
    BY <2>2, <2>4, <1>1, <1>3, <1>8 DEF Before
  <2> QED BY <2>3, <2>4
<1> QED BY <1>1, <1>h, <1>4, <1>5, <1>6, <1>7, <1>8 DEF w, Ended

LEMMA PushedFront ==
    ASSUME NEW S, NEW q \in Seq(S), NEW b \in S
    PROVE  <<b>> \o q \in Seq(S) /\ Pushed(q, b, <<b>> \o q)
<1> DEFINE w == <<b>> \o q
<1>0. <<b>> \in Seq(S) /\ Len(<<b>>) = 1 /\ <<b>>[1] = b
  OBVIOUS
<1>1. /\ w \in Seq(S) /\ Len(q) \in Nat /\ DOMAIN q = 1 .. Len(q) /\ DOMAIN w = 1 .. Len(q) + 1
      /\ w[1] = b /\ \A i \in 2 .. Len(q) + 1 : w[i] = q[i - 1]
  BY <1>0, ConcatProperties, LenProperties
<1> HIDE DEF w
<1>2. \A i \in DOMAIN w : (i = 1 /\ w[i] = b) \/ (i - 1 \in DOMAIN q /\ w[i] = q[i - 1])
  BY <1>1
<1>3. \A i \in DOMAIN q : i + 1 \in DOMAIN w /\ w[i + 1] = q[i]
  BY <1>1
<1>4. ASSUME NEW x PROVE In(x, w) <=> In(x, q) \/ x = b
  <2>1. 1 \in DOMAIN w
    BY <1>1
  <2> QED BY <2>1, <1>1, <1>2, <1>3 DEF In
<1>5. ASSUME NEW x, Once(x, q), x = b => ~ In(x, q) PROVE Once(x, w)
  <2> SUFFICES ASSUME NEW i \in DOMAIN w, NEW j \in DOMAIN w, w[i] = x, w[j] = x PROVE i = j
    BY DEF Once
  <2>1. CASE x = b
    BY <2>1, <1>1, <1>2, <1>5 DEF In
  <2>2. CASE x # b
    <3>1. i - 1 = j - 1
      BY <2>2, <1>2, <1>5 DEF Once
    <3> QED BY <3>1, <1>1
  <2> QED BY <2>1, <2>2
<1>6. ASSUME NEW x, ~ In(x, q) PROVE First(x, w)
  BY <1>2, <1>6 DEF First, In
<1>7. ASSUME NEW x, NEW y, Before(x, y, q), y = b => ~ In(x, w) PROVE Before(x, y, w)
  <2> SUFFICES ASSUME NEW i \in DOMAIN w, NEW j \in DOMAIN w, w[i] = x, w[j] = y PROVE i < j
    BY DEF Before
  <2>1. y # b
    BY <1>7 DEF In
  <2>2. j - 1 \in DOMAIN q /\ q[j - 1] = y /\ j > 1
    BY <2>1, <1>1, <1>2
  <2>3. CASE i = 1
    BY <2>2, <2>3
  <2>4. CASE i # 1
    <3>1. i - 1 < j - 1
      BY <2>2, <2>4, <1>2, <1>7 DEF Before
    <3> QED BY <3>1, <1>1
  <2> QED BY <2>3, <2>4
<1> QED BY <1>1, <1>4, <1>5, <1>6, <1>7 DEF w, Pushed

LEMMA AddedEnd ==
    ASSUME NEW S, NEW q \in Seq(S), NEW b \in S
    PROVE  Append(q, b) \in Seq(S) /\ Added(q, b, Append(q, b))
<1> DEFINE w == Append(q, b)
<1>1. /\ w \in Seq(S) /\ Len(q) \in Nat /\ DOMAIN q = 1 .. Len(q) /\ DOMAIN w = 1 .. Len(q) + 1
      /\ w[Len(q) + 1] = b /\ \A i \in 1 .. Len(q) : w[i] = q[i]
  BY AppendProperties, LenProperties
<1> HIDE DEF w
<1>2. \A i \in DOMAIN w : (i = Len(q) + 1 /\ w[i] = b) \/ (i \in DOMAIN q /\ w[i] = q[i])
  BY <1>1
<1>3. Len(q) + 1 \in DOMAIN w /\ \A i \in DOMAIN q : i \in DOMAIN w /\ w[i] = q[i] /\ i < Len(q) + 1
  BY <1>1
<1>4. ASSUME NEW x PROVE In(x, w) <=> In(x, q) \/ x = b
  BY <1>1, <1>2, <1>3 DEF In
<1>5. ASSUME NEW x, Once(x, q), x = b => ~ In(x, q) PROVE Once(x, w)
  BY <1>2, <1>5 DEF Once, In
<1>6. ASSUME NEW x, First(x, q), x # b PROVE First(x, w)
  BY <1>2, <1>6 DEF First
<1>7. ASSUME NEW x, NEW y, Before(x, y, q), x = b => ~ In(y, w) PROVE Before(x, y, w)
  BY <1>1, <1>2, <1>3, <1>7 DEF Before, In
<1>8. ASSUME NEW x, NEW y, Before(x, y, w) PROVE Before(x, y, q)
  BY <1>3, <1>8 DEF Before
<1>9. ASSUME NEW y, Before(b, y, w) PROVE ~ In(y, q)
  <2>1. ASSUME NEW i \in DOMAIN q, q[i] = y PROVE FALSE
    <3>1. Len(q) + 1 < i
      BY <2>1, <1>1, <1>3, <1>9 DEF Before
    <3> QED BY <3>1, <1>1
  <2> QED BY <2>1 DEF In
<1> QED BY <1>1, <1>4, <1>5, <1>6, <1>7, <1>8, <1>9 DEF w, Added

LEMMA WentOn ==
    ASSUME NEW q, NEW h, NEW m, NEW b, NEW w, Ended(q, h, m), Pushed(m, b, w)
    PROVE  Went(q, h, b, w)
<1>1. /\ In(h, q) /\ In(b, w) /\ (\A x : In(x, q) => In(x, w) \/ x = h)
      /\ (\A x : In(x, w) => In(x, q) \/ x = b)
  BY DEF Ended, Pushed
<1>2. ASSUME NEW x, Once(x, q)
      PROVE  ((x = b => ~ In(x, q)) => Once(x, w)) /\ (x = h /\ x # b => ~ In(x, w))
  BY <1>2 DEF Ended, Pushed
<1>3. ASSUME NEW x, First(x, q) PROVE First(x, w) /\ (x # b => ~ In(x, w))
  BY <1>3 DEF Ended, Pushed
<1>4. ASSUME NEW x, NEW y, Before(x, y, q)
      PROVE  ((y = b => ~ In(x, w)) => Before(x, y, w)) /\ (y = h /\ x # b => ~ In(x, w))
  BY <1>4 DEF Ended, Pushed
<1> QED BY <1>1, <1>2, <1>3, <1>4 DEF Went
-----------------------------------------------------------------------------
(* Frames, and what a step does to the queues                               *)

LEMMA FrameParts ==
    /\ \A op : F(op) = FC(op, None)
    /\ \A op, c : FC(op, c).op = op /\ FC(op, c).c = c
    /\ \A a, b, c, d : FC(a, c) = FC(b, d) => a = b /\ c = d
    /\ \A op \in ConnFrames, c \in Conns : FC(op, c) \in Frames
    /\ \A op \in PlainFrames : FC(op, None) \in Frames
<1>1. ASSUME NEW op, NEW c PROVE F(op) = FC(op, None) /\ FC(op, c).op = op /\ FC(op, c).c = c
  BY DEF F, FC
<1>2. ASSUME NEW a, NEW b, NEW c, NEW d, FC(a, c) = FC(b, d) PROVE a = b /\ c = d
  <2>1. FC(a, c).op = FC(b, d).op /\ FC(a, c).c = FC(b, d).c
    BY <1>2
  <2> QED BY <2>1, <1>1
<1>3. ASSUME NEW op \in ConnFrames, NEW c \in Conns PROVE FC(op, c) \in Frames
  BY DEF FC, Frames
<1>4. ASSUME NEW op \in PlainFrames PROVE FC(op, None) \in Frames
  BY DEF FC, Frames
<1> QED BY <1>1, <1>2, <1>3, <1>4

Queued == work \in [Queues -> Seq(Frames)]
Same(qs) == \A r \in Queues \ qs : work'[r] = work[r]

\* Frame h of q ends, goes on as b, or ends when it has enqueued b on another
\* queue t or wherever b runs; and b is enqueued on t from outside.
Ends(q, h) == Ended(work[q], h, work'[q]) /\ Same({q})
GoesOn(q, h, b) == Went(work[q], h, b, work'[q]) /\ Same({q})
Calls(q, h, t, b) ==
    t # q /\ Ended(work[q], h, work'[q]) /\ Added(work[t], b, work'[t]) /\ Same({q, t})
Passes(q, h, t, b) == IF IsOwn(q, t) THEN GoesOn(q, h, b) ELSE Calls(q, h, t, b)
Enqueues(t, b) == Added(work[t], b, work'[t]) /\ Same({t})

LEMMA HeadFrame ==
    ASSUME Queued, NEW q \in Queues, NEW op, At(q, op)
    PROVE  /\ work[q] # <<>> /\ Head(work[q]) = FC(op, Arg(q)) /\ In(Head(work[q]), work[q])
           /\ op \in ConnFrames => Arg(q) \in Conns
           /\ op \in PlainFrames => Arg(q) = None
<1> DEFINE h == Head(work[q])
<1>1. work[q] \in Seq(Frames) /\ work[q] # <<>> /\ h.op = op /\ Arg(q) = h.c
  BY DEF Queued, At, Arg
<1>2. h \in Frames /\ In(h, work[q])
  BY <1>1, EndedTail DEF Ended
<1> HIDE DEF h
<1>3. /\ h = [op |-> h.op, c |-> h.c]
      /\ h.op \in ConnFrames => h.c \in Conns
      /\ h.op \in PlainFrames => h.c = None
  <2>1. ConnFrames \cap PlainFrames = {}
    BY DEF ConnFrames, PlainFrames
  <2> QED BY <1>2, <2>1 DEF Frames
<1> QED BY <1>1, <1>2, <1>3 DEF h, FC

LEMMA QueueEnds ==
    ASSUME Queued, NEW q \in Queues, work[q] # <<>>, work' = Done(q)
    PROVE  Queued' /\ Ends(q, Head(work[q]))
<1>1. work[q] \in Seq(Frames)
  BY DEF Queued
<1>2. Tail(work[q]) \in Seq(Frames) /\ Ended(work[q], Head(work[q]), Tail(work[q]))
  BY <1>1, EndedTail
<1>3. work' = [work EXCEPT ![q] = Tail(work[q])]
  BY DEF Done
<1> QED BY <1>2, <1>3 DEF Queued, Ends, Same

LEMMA QueueGoesOn ==
    ASSUME Queued, NEW q \in Queues, work[q] # <<>>, NEW b \in Frames,
           work' = InPlace(Done(q), q, <<b>>)
    PROVE  Queued' /\ GoesOn(q, Head(work[q]), b)
<1> DEFINE m == Tail(work[q])
           w == <<b>> \o m
<1>1. work[q] \in Seq(Frames)
  BY DEF Queued
<1>2. m \in Seq(Frames) /\ Ended(work[q], Head(work[q]), m)
  BY <1>1, EndedTail
<1>3. w \in Seq(Frames) /\ Pushed(m, b, w)
  BY <1>2, PushedFront
<1>4. work' = [work EXCEPT ![q] = w]
  BY DEF Done, InPlace, Queued
<1> HIDE DEF w, m
<1>5. Went(work[q], Head(work[q]), b, w)
  BY <1>2, <1>3, WentOn
<1> QED BY <1>3, <1>4, <1>5 DEF Queued, GoesOn, Same

LEMMA QueueCalls ==
    ASSUME Queued, NEW q \in Queues, work[q] # <<>>, NEW t \in Queues, t # q, NEW b \in Frames,
           work' = Async(Done(q), t, b)
    PROVE  Queued' /\ Calls(q, Head(work[q]), t, b)
<1> DEFINE m == Tail(work[q])
           w == Append(work[t], b)
<1>1. work[q] \in Seq(Frames) /\ work[t] \in Seq(Frames)
  BY DEF Queued
<1>2. m \in Seq(Frames) /\ Ended(work[q], Head(work[q]), m)
  BY <1>1, EndedTail
<1>3. w \in Seq(Frames) /\ Added(work[t], b, w)
  BY <1>1, AddedEnd
<1>4. work' = [work EXCEPT ![q] = m, ![t] = w]
  BY DEF Done, Async, Queued
<1> HIDE DEF w, m
<1>5. work'[q] = m /\ work'[t] = w /\ \A r \in Queues \ {q, t} : work'[r] = work[r]
  BY <1>4 DEF Queued
<1> QED BY <1>2, <1>3, <1>4, <1>5 DEF Queued, Calls, Same

LEMMA QueuePasses ==
    ASSUME Queued, NEW q \in Queues, work[q] # <<>>, NEW t \in Queues, NEW b \in Frames,
           work' = Run(Done(q), q, t, b)
    PROVE  Queued' /\ Passes(q, Head(work[q]), t, b)
<1>1. CASE IsOwn(q, t)
  BY <1>1, QueueGoesOn DEF Run, Passes
<1>2. CASE ~ IsOwn(q, t)
  <2>1. t # q
    BY <1>2 DEF IsOwn
  <2> QED BY <1>2, <2>1, QueueCalls DEF Run, Passes
<1> QED BY <1>1, <1>2

LEMMA QueueEnqueues ==
    ASSUME Queued, NEW t \in Queues, NEW b \in Frames, work' = Async(work, t, b)
    PROVE  Queued' /\ Enqueues(t, b)
<1> DEFINE w == Append(work[t], b)
<1>1. w \in Seq(Frames) /\ Added(work[t], b, w)
  BY AddedEnd DEF Queued
<1>2. work' = [work EXCEPT ![t] = w]
  BY DEF Async
<1> HIDE DEF w
<1> QED BY <1>1, <1>2 DEF Queued, Enqueues, Same
-----------------------------------------------------------------------------
(* What holds however the two connection queues were linked                 *)

Has(q, f) == In(f, work[q])
Pending(f) == \E q \in Queues : Has(q, f)

NetOps == {"up", "data", "down", "askReconnect"}
SocketOps == {"open", "close", "shut"}
EventOps == {"didConnect", "didRead", "handOver", "didDisconnect"}
ManagerOps ==
    {"connected", "markConnected", "closed", "forget", "retry", "timerFired", "start",
     "create", "reconnect", "stopCurrent", "notifyDown", "request"}

\* The frames a queue may run.
Runs(q) ==
    IF q = "net" THEN NetOps
    ELSE IF q = "conn" THEN SocketOps \cup EventOps \cup (IF sharedKey THEN ManagerOps ELSE {})
    ELSE ManagerOps \cup (IF sharedKey THEN SocketOps ELSE {})

Shape ==
    /\ TypeOK /\ sharedKey \in BOOLEAN
    /\ conn \in {None, created}
    /\ \A c \in Conns : c > created => sock[c] = "nil" /\ c \notin closed
    /\ \A q \in Queues, f \in Frames : Has(q, f) => f.c <= created /\ f.op \in Runs(q)

\* Whatever the manager waits for is under way: a start or a timer when it has no
\* connection; when it has one, its opening, or the end of a closed or broken one.
Going ==
    /\ retryTimer = "fired" => Pending(F("timerFired"))
    /\ conn = None =>
          \/ Pending(F("start")) \/ Pending(F("create")) \/ Pending(F("retry"))
          \/ retryTimer # "nil"
    /\ conn # None =>
          /\ conn \in delegate
          /\ conn \in closed =>
                Pending(FC("closed", conn)) \/ \E c \in Conns : Pending(FC("forget", c))
          /\ conn \notin closed /\ sock[conn] = "nil" =>
                Pending(FC("open", conn)) \/ Pending(FC("close", conn)) \/ Pending(FC("shut", conn))
          /\ conn \notin closed /\ sock[conn] = "broken" =>
                \/ Pending(FC("didDisconnect", conn))
                \/ Pending(FC("close", conn)) \/ Pending(FC("shut", conn))

\* While a chunk of c is handed over no later connection has come up, and once
\* it is on netQueue none is announced there in front of it.
HandedOver(c) ==
    /\ session <= c
    /\ \A d \in Conns : d > c =>
          ~ Has("net", FC("up", d)) /\ ~ Pending(FC("connected", d)) /\ ~ Pending(FC("markConnected", d))
Data ==
    \A c \in Conns :
      /\ First(FC("handOver", c), work["conn"])
      /\ Has("conn", FC("handOver", c)) => HandedOver(c)
      /\ Has("net", FC("data", c)) => session <= c
      /\ \A d \in Conns : d > c => Before(FC("data", c), FC("up", d), work["net"])

-----------------------------------------------------------------------------
(* What each action does, in these terms                                    *)

OpenStep(q, c) ==
    /\ Ends(q, FC("open", c)) \/ GoesOn(q, FC("open", c), FC("close", c))
    /\ sock' = [sock EXCEPT ![c] = IF sock[c] = "nil" THEN "connecting" ELSE sock[c]]
    /\ UNCHANGED <<manager, closed, app>>
CloseStep(q, c) ==
    /\ IF c \in closed THEN Ends(q, FC("close", c)) ELSE GoesOn(q, FC("close", c), FC("shut", c))
    /\ UNCHANGED <<manager, sockets, app>>
ShutStep(q, c) ==
    /\ IF c \in delegate THEN Passes(q, FC("shut", c), "nm", FC("closed", c))
       ELSE Ends(q, FC("shut", c))
    /\ closed' = closed \cup {c} /\ sock' = [sock EXCEPT ![c] = "nil"]
    /\ UNCHANGED <<manager, app>>
DidConnectStep(q, c) ==
    /\ IF c \in delegate THEN Passes(q, FC("didConnect", c), "nm", FC("connected", c))
       ELSE Ends(q, FC("didConnect", c))
    /\ UNCHANGED <<manager, sockets, app>>
DidDisconnectStep(q, c) ==
    /\ GoesOn(q, FC("didDisconnect", c), FC("close", c))
    /\ UNCHANGED <<manager, sockets, app>>
DidReadStep(q, c) ==
    /\ Ends(q, FC("didRead", c)) \/ (conn = c /\ GoesOn(q, FC("didRead", c), FC("handOver", c)))
    /\ UNCHANGED <<manager, sockets, app>>
HandOverStep(q, c) ==
    /\ Calls(q, FC("handOver", c), "net", FC("data", c))
    /\ UNCHANGED <<manager, sockets, app>>
StartStep(q) ==
    /\ IF conn = None THEN GoesOn(q, F("start"), F("create")) ELSE Ends(q, F("start"))
    /\ UNCHANGED <<manager, sockets, app>>
CreateStep(q) ==
    /\ Passes(q, F("create"), "conn", FC("open", created'))
    /\ created' = created + 1 /\ created' \in Conns
    /\ conn' = created' /\ delegate' = delegate \cup {created'}
    /\ UNCHANGED <<connected, retries, retryTimer, sockets, app>>
ConnectedStep(q, c) ==
    /\ IF conn = c THEN GoesOn(q, FC("connected", c), FC("markConnected", c))
       ELSE Ends(q, FC("connected", c))
    /\ UNCHANGED <<manager, sockets, app>>
MarkConnectedStep(q, c) ==
    /\ Calls(q, FC("markConnected", c), "net", FC("up", c))
    /\ connected' = TRUE
    /\ UNCHANGED <<conn, created, delegate, retries, retryTimer, sockets, app>>
ClosedStep(q, c) ==
    /\ IF conn = c THEN GoesOn(q, FC("closed", c), FC("forget", c)) ELSE Ends(q, FC("closed", c))
    /\ UNCHANGED <<manager, sockets, app>>
ForgetStep(q, c) ==
    /\ Same({q})
    /\ \E m : Went(work[q], FC("forget", c), F("notifyDown"), m) /\ Pushed(m, F("retry"), work'[q])
    /\ conn' = None /\ connected' = FALSE /\ delegate' = delegate \ {conn}
    /\ UNCHANGED <<created, retries, retryTimer, sockets, app>>
NotifyDownStep(q) ==
    /\ Calls(q, F("notifyDown"), "net", F("down"))
    /\ UNCHANGED <<manager, sockets, app>>
RetryStep(q) ==
    /\ IF retries = 0 THEN GoesOn(q, F("retry"), F("start")) /\ retryTimer' = "nil"
       ELSE Ends(q, F("retry")) /\ retryTimer' = "armed"
    /\ UNCHANGED <<conn, created, delegate, connected, sockets, app>>
TimerStep(q) ==
    /\ IF retryTimer = "fired" THEN GoesOn(q, F("timerFired"), F("start")) /\ retryTimer' = "nil"
       ELSE Ends(q, F("timerFired")) /\ retryTimer' = retryTimer
    /\ UNCHANGED <<conn, created, delegate, connected, sockets, app>>
RequestStep(q) ==
    /\ GoesOn(q, F("request"), F("start")) \/ Ends(q, F("request"))
    /\ UNCHANGED <<manager, sockets, app>>
ReconnectStep(q) ==
    /\ q # "net" /\ Same({q, "net"})
    /\ Went(work[q], F("reconnect"), F("stopCurrent"), work'[q])
    /\ Added(work["net"], F("down"), work'["net"])
    /\ connected' = FALSE
    /\ UNCHANGED <<conn, created, delegate, retries, retryTimer, sockets, app>>
StopStep(q) ==
    /\ IF conn = None THEN Ends(q, F("stopCurrent"))
       ELSE Passes(q, F("stopCurrent"), "conn", FC("close", conn))
    /\ UNCHANGED <<manager, sockets, app>>
UpStep(q, c) ==
    /\ Ends(q, FC("up", c))
    /\ isConnected' = TRUE /\ session' = IF isConnected THEN session ELSE c
    /\ UNCHANGED <<manager, sockets>>
DownStep(q) ==
    /\ Ends(q, F("down"))
    /\ isConnected' = FALSE
    /\ UNCHANGED <<manager, sockets, session>>
DataStep(q, c) ==
    /\ Ends(q, FC("data", c))
    /\ UNCHANGED <<manager, sockets, app>>
AskStep(q) ==
    /\ Passes(q, F("askReconnect"), "nm", F("reconnect"))
    /\ UNCHANGED <<manager, sockets, app>>

AskedStep ==
    /\ Enqueues("net", F("askReconnect")) \/ Enqueues("nm", F("request"))
    /\ UNCHANGED <<manager, sockets, app>>
FiresStep ==
    /\ Enqueues("nm", F("timerFired"))
    /\ retryTimer = "armed" /\ retryTimer' = "fired"
    /\ UNCHANGED <<conn, created, delegate, connected, sockets, app>>
EstablishStep(c) ==
    /\ Enqueues("conn", FC("didConnect", c))
    /\ sock[c] = "connecting" /\ sock' = [sock EXCEPT ![c] = "up"]
    /\ UNCHANGED <<manager, closed, app>>
BreakStep(c) ==
    /\ Enqueues("conn", FC("didDisconnect", c))
    /\ sock[c] \in {"connecting", "up"} /\ sock' = [sock EXCEPT ![c] = "broken"]
    /\ UNCHANGED <<manager, closed, app>>
ServerDataStep(c) ==
    /\ Enqueues("conn", FC("didRead", c))
    /\ sock[c] = "up"
    /\ UNCHANGED <<manager, sockets, app>>

SocketStep(q, c) ==
    \/ OpenStep(q, c) \/ CloseStep(q, c) \/ ShutStep(q, c)
    \/ DidConnectStep(q, c) \/ DidDisconnectStep(q, c) \/ DidReadStep(q, c) \/ HandOverStep(q, c)
ManagerStep(q, c) ==
    \/ ConnectedStep(q, c) \/ MarkConnectedStep(q, c) \/ ClosedStep(q, c) \/ ForgetStep(q, c)
PlainStep(q) ==
    \/ StartStep(q) \/ CreateStep(q) \/ NotifyDownStep(q) \/ RetryStep(q) \/ TimerStep(q)
    \/ RequestStep(q) \/ ReconnectStep(q) \/ StopStep(q)
NetStep(q, c) == UpStep(q, c) \/ DataStep(q, c)
NetPlainStep(q) == DownStep(q) \/ AskStep(q)
OutsideStep(c) == EstablishStep(c) \/ BreakStep(c) \/ ServerDataStep(c)

Step ==
    \/ \E q \in Queues, c \in Conns : SocketStep(q, c) \/ ManagerStep(q, c) \/ NetStep(q, c)
    \/ \E q \in Queues : PlainStep(q) \/ NetPlainStep(q)
    \/ AskedStep \/ FiresStep
    \/ \E c \in Conns : OutsideStep(c)

Bounds == retries' \in 0 .. 2 /\ events' \in 0 .. MaxHappens
LEMMA Framed ==
    ASSUME Shape, NEW q \in Queues, NEW op, At(q, op)
    PROVE  /\ Queued /\ work[q] # <<>> /\ Head(work[q]) = FC(op, Arg(q))
           /\ op \in Runs(q)
           /\ op \in ConnFrames => Arg(q) \in Conns
           /\ op \in PlainFrames => Arg(q) = None /\ FC(op, Arg(q)) = F(op)
           /\ Arg(q) <= created
           /\ retries \in 0 .. 2 /\ events \in 0 .. MaxHappens /\ created \in 0 .. MaxConns
           /\ conn \in Nat /\ (conn # None => conn \in Conns)
<1>1. Queued /\ retries \in 0 .. 2 /\ events \in 0 .. MaxHappens /\ created \in 0 .. MaxConns
  BY DEF Shape, TypeOK, Queued
<1>2. /\ work[q] # <<>> /\ Head(work[q]) = FC(op, Arg(q)) /\ In(Head(work[q]), work[q])
      /\ op \in ConnFrames => Arg(q) \in Conns
      /\ op \in PlainFrames => Arg(q) = None
  BY <1>1, HeadFrame
<1>3. Head(work[q]) \in Frames
  <2>1. work[q] \in Seq(Frames)
    BY <1>1 DEF Queued
  <2> QED BY <2>1, <1>2, EndedTail
<1>4. Head(work[q]).c <= created /\ Head(work[q]).op \in Runs(q)
  BY <1>2, <1>3 DEF Shape, Has
<1>5. conn \in Nat /\ (conn # None => conn \in Conns)
  BY <1>1, BoundsAssumption DEF Shape, TypeOK, None, Conns
<1> QED BY <1>1, <1>2, <1>4, <1>5, FrameParts

LEMMA StepOf ==
    ASSUME Shape, Next
    PROVE  Queued' /\ Step /\ Bounds /\ sharedKey' = sharedKey
<1> USE DEF Bounds
<1>f. /\ \A op \in ConnFrames, c \in Conns : FC(op, c) \in Frames
      /\ \A op \in PlainFrames : F(op) \in Frames
  BY FrameParts
<1>b. \A n \in 0 .. 2 : (IF n = 2 THEN 2 ELSE n + 1) \in 0 .. 2
  OBVIOUS
<1>h. Happens /\ events \in 0 .. MaxHappens => events' \in 0 .. MaxHappens
  <2>1. MaxHappens \in Nat
    BY BoundsAssumption DEF MaxHappens
  <2> QED BY <2>1 DEF Happens
<1>k. Shape => events \in 0 .. MaxHappens /\ retries \in 0 .. 2 /\ Queued
  BY DEF Shape, TypeOK, Queued
<1>q. {"nm", "conn", "net"} \subseteq Queues
  BY DEF Queues
<1>h2. events' = events /\ events \in 0 .. MaxHappens => events' \in 0 .. MaxHappens
  OBVIOUS

<1>1. ASSUME NEW q \in Queues, Open(q)
      PROVE  Queued' /\ Bounds /\ sharedKey' = sharedKey /\ Arg(q) \in Conns /\ OpenStep(q, Arg(q))
  <2>1. At(q, "open")
    BY <1>1 DEF Open
  <2>2. "open" \in ConnFrames
    BY DEF ConnFrames
  <2>3. FC("close", Arg(q)) \in Frames
    BY <2>1, <2>2, <1>f, Framed DEF ConnFrames, PlainFrames
  <2>4. DOMAIN sock = Conns /\ sock = [sock EXCEPT ![Arg(q)] = sock[Arg(q)]]
    BY DEF Shape, TypeOK
  <2>5. CASE sock[Arg(q)] # "nil"
    <3>1. /\ work' = Done(q) /\ sock' = sock /\ events' = events
          /\ UNCHANGED <<sharedKey, manager, closed, app>>
      BY <1>1, <2>5 DEF Open
    <3>2. Queued' /\ Ends(q, FC("open", Arg(q)))
      BY <2>1, <3>1, QueueEnds, Framed
    <3>3. sock' = [sock EXCEPT ![Arg(q)] = IF sock[Arg(q)] = "nil" THEN "connecting" ELSE sock[Arg(q)]]
      BY <2>4, <2>5, <3>1
    <3> QED BY <2>1, <2>2, <3>1, <3>2, <3>3, <1>h2, <1>k, Framed DEF OpenStep, manager
  <2>6. CASE sock[Arg(q)] = "nil"
    <3>1. /\ sock' = [sock EXCEPT ![Arg(q)] = "connecting"]
          /\ \/ work' = Done(q) /\ events' = events
             \/ work' = InPlace(Done(q), q, <<FC("close", Arg(q))>>) /\ Happens
          /\ UNCHANGED <<sharedKey, manager, closed, app>>
      BY <1>1, <2>6 DEF Open
    <3>2. Queued' /\ (Ends(q, FC("open", Arg(q))) \/ GoesOn(q, FC("open", Arg(q)), FC("close", Arg(q))))
      BY <2>1, <2>3, <3>1, QueueEnds, QueueGoesOn, Framed
    <3>3. events' \in 0 .. MaxHappens /\ retries' = retries /\ sharedKey' = sharedKey
      BY <3>1, <1>h, <1>h2, <1>k DEF manager
    <3>4. sock' = [sock EXCEPT ![Arg(q)] = IF sock[Arg(q)] = "nil" THEN "connecting" ELSE sock[Arg(q)]]
      BY <2>6, <3>1
    <3> QED BY <2>1, <2>2, <3>1, <3>2, <3>3, <3>4, <1>k, Framed DEF OpenStep
  <2> QED BY <2>5, <2>6
<1>2. ASSUME NEW q \in Queues, Close(q)
      PROVE  Queued' /\ Bounds /\ sharedKey' = sharedKey /\ Arg(q) \in Conns /\ CloseStep(q, Arg(q))
  <2>1. At(q, "close")
    BY <1>2 DEF Close
  <2>2. "close" \in ConnFrames
    BY DEF ConnFrames
  <2>3. FC("shut", Arg(q)) \in Frames
    BY <2>1, <2>2, <1>f, Framed DEF ConnFrames, PlainFrames
  <2> QED BY <1>2, <2>1, <2>2, <2>3, <1>h, <1>h2, <1>k, <1>q, Framed, QueueEnds, QueueGoesOn
         DEF Close, CloseStep, manager, app, sockets
<1>3. ASSUME NEW q \in Queues, Shut(q)
      PROVE  Queued' /\ Bounds /\ sharedKey' = sharedKey /\ Arg(q) \in Conns /\ ShutStep(q, Arg(q))
  <2>1. At(q, "shut")
    BY <1>3 DEF Shut
  <2>2. "shut" \in ConnFrames
    BY DEF ConnFrames
  <2>3. FC("closed", Arg(q)) \in Frames
    BY <2>1, <2>2, <1>f, Framed DEF ConnFrames, PlainFrames
  <2> QED BY <1>3, <2>1, <2>2, <2>3, <1>h, <1>h2, <1>k, <1>q, Framed, QueueEnds, QueuePasses
         DEF Shut, ShutStep, manager, app, sockets
<1>4. ASSUME NEW q \in Queues, DidConnect(q)
      PROVE  Queued' /\ Bounds /\ sharedKey' = sharedKey /\ Arg(q) \in Conns /\ DidConnectStep(q, Arg(q))
  <2>1. At(q, "didConnect")
    BY <1>4 DEF DidConnect
  <2>2. "didConnect" \in ConnFrames
    BY DEF ConnFrames
  <2>3. FC("connected", Arg(q)) \in Frames
    BY <2>1, <2>2, <1>f, Framed DEF ConnFrames, PlainFrames
  <2> QED BY <1>4, <2>1, <2>2, <2>3, <1>h, <1>h2, <1>k, <1>q, Framed, QueueEnds, QueuePasses
         DEF DidConnect, DidConnectStep, manager, app, sockets
<1>5. ASSUME NEW q \in Queues, DidDisconnect(q)
      PROVE  Queued' /\ Bounds /\ sharedKey' = sharedKey /\ Arg(q) \in Conns /\ DidDisconnectStep(q, Arg(q))
  <2>1. At(q, "didDisconnect")
    BY <1>5 DEF DidDisconnect
  <2>2. "didDisconnect" \in ConnFrames
    BY DEF ConnFrames
  <2>3. FC("close", Arg(q)) \in Frames
    BY <2>1, <2>2, <1>f, Framed DEF ConnFrames, PlainFrames
  <2> QED BY <1>5, <2>1, <2>2, <2>3, <1>h, <1>h2, <1>k, <1>q, Framed, QueueGoesOn
         DEF DidDisconnect, DidDisconnectStep, manager, app, sockets
<1>6. ASSUME NEW q \in Queues, DidRead(q)
      PROVE  Queued' /\ Bounds /\ sharedKey' = sharedKey /\ Arg(q) \in Conns /\ DidReadStep(q, Arg(q))
  <2>1. At(q, "didRead")
    BY <1>6 DEF DidRead
  <2>2. "didRead" \in ConnFrames
    BY DEF ConnFrames
  <2>3. FC("handOver", Arg(q)) \in Frames
    BY <2>1, <2>2, <1>f, Framed DEF ConnFrames, PlainFrames
  <2> QED BY <1>6, <2>1, <2>2, <2>3, <1>h, <1>h2, <1>k, <1>q, Framed, QueueEnds, QueueGoesOn
         DEF DidRead, DidReadStep, manager, app, sockets
<1>7. ASSUME NEW q \in Queues, HandOver(q)
      PROVE  Queued' /\ Bounds /\ sharedKey' = sharedKey /\ Arg(q) \in Conns /\ HandOverStep(q, Arg(q))
  <2>1. At(q, "handOver")
    BY <1>7 DEF HandOver
  <2>2. "handOver" \in ConnFrames
    BY DEF ConnFrames
  <2>n. q # "net"
    <3>1. "handOver" \notin NetOps
      BY DEF NetOps
    <3> QED BY <2>1, <3>1, Framed DEF Runs
  <2>3. FC("data", Arg(q)) \in Frames
    BY <2>1, <2>2, <1>f, Framed DEF ConnFrames, PlainFrames
  <2> QED BY <1>7, <2>1, <2>2, <2>3, <2>n, <1>h, <1>h2, <1>k, <1>q, Framed, QueueCalls
         DEF HandOver, HandOverStep, manager, app, sockets
<1>8. ASSUME NEW q \in Queues, StartManager(q)
      PROVE  Queued' /\ Bounds /\ sharedKey' = sharedKey /\ StartStep(q)
  <2>1. At(q, "start")
    BY <1>8 DEF StartManager
  <2>2. "start" \in PlainFrames
    BY DEF PlainFrames
  <2>3. F("create") \in Frames
    BY <2>1, <2>2, <1>f, Framed DEF ConnFrames, PlainFrames
  <2> QED BY <1>8, <2>1, <2>2, <2>3, <1>h, <1>h2, <1>k, <1>q, Framed, QueueEnds, QueueGoesOn
         DEF StartManager, StartStep, manager, app, sockets
<1>9. ASSUME NEW q \in Queues, CreateConnection(q)
      PROVE  Queued' /\ Bounds /\ sharedKey' = sharedKey /\ CreateStep(q)
  <2>1. At(q, "create")
    BY <1>9 DEF CreateConnection
  <2>2. "create" \in PlainFrames
    BY DEF PlainFrames
  <2>3. created' = created + 1 /\ created + 1 \in Conns
    BY <1>9, <2>1, Framed, BoundsAssumption DEF CreateConnection, Conns
  <2>4. FC("open", created + 1) \in Frames
    BY <2>3, <1>f DEF ConnFrames
  <2>5. work' = Run(Done(q), q, "conn", FC("open", created + 1))
    BY <1>9 DEF CreateConnection
  <2>6. Queued' /\ Passes(q, F("create"), "conn", FC("open", created + 1))
    BY <2>1, <2>2, <2>4, <2>5, <1>q, QueuePasses, Framed
  <2> QED BY <1>9, <2>1, <2>3, <2>6, <1>h2, <1>k DEF CreateConnection, CreateStep, sockets, app
<1>10. ASSUME NEW q \in Queues, OnConnectionConnected(q)
      PROVE  Queued' /\ Bounds /\ sharedKey' = sharedKey /\ Arg(q) \in Conns /\ ConnectedStep(q, Arg(q))
  <2>1. At(q, "connected")
    BY <1>10 DEF OnConnectionConnected
  <2>2. "connected" \in ConnFrames
    BY DEF ConnFrames
  <2>3. FC("markConnected", Arg(q)) \in Frames
    BY <2>1, <2>2, <1>f, Framed DEF ConnFrames, PlainFrames
  <2> QED BY <1>10, <2>1, <2>2, <2>3, <1>h, <1>h2, <1>k, <1>q, Framed, QueueEnds, QueueGoesOn
         DEF OnConnectionConnected, ConnectedStep, manager, app, sockets, IsCurrent
<1>11. ASSUME NEW q \in Queues, MarkConnected(q)
      PROVE  Queued' /\ Bounds /\ sharedKey' = sharedKey /\ Arg(q) \in Conns /\ MarkConnectedStep(q, Arg(q))
  <2>1. At(q, "markConnected")
    BY <1>11 DEF MarkConnected
  <2>2. "markConnected" \in ConnFrames
    BY DEF ConnFrames
  <2>n. q # "net"
    <3>1. "markConnected" \notin NetOps
      BY DEF NetOps
    <3> QED BY <2>1, <3>1, Framed DEF Runs
  <2>3. FC("up", Arg(q)) \in Frames
    BY <2>1, <2>2, <1>f, Framed DEF ConnFrames, PlainFrames
  <2> QED BY <1>11, <2>1, <2>2, <2>3, <2>n, <1>h, <1>h2, <1>k, <1>q, Framed, QueueCalls
         DEF MarkConnected, MarkConnectedStep, manager, app, sockets, Notify
<1>12. ASSUME NEW q \in Queues, OnConnectionClosed(q)
      PROVE  Queued' /\ Bounds /\ sharedKey' = sharedKey /\ Arg(q) \in Conns /\ ClosedStep(q, Arg(q))
  <2>1. At(q, "closed")
    BY <1>12 DEF OnConnectionClosed
  <2>2. "closed" \in ConnFrames
    BY DEF ConnFrames
  <2>3. FC("forget", Arg(q)) \in Frames
    BY <2>1, <2>2, <1>f, Framed DEF ConnFrames, PlainFrames
  <2> QED BY <1>12, <2>1, <2>2, <2>3, <1>h, <1>h2, <1>k, <1>q, Framed, QueueEnds, QueueGoesOn
         DEF OnConnectionClosed, ClosedStep, manager, app, sockets, IsCurrent
<1>13. ASSUME NEW q \in Queues, Forget(q)
      PROVE  Queued' /\ Bounds /\ sharedKey' = sharedKey /\ Arg(q) \in Conns /\ ForgetStep(q, Arg(q))
  <2>1. At(q, "forget")
    BY <1>13 DEF Forget
  <2>2. "forget" \in ConnFrames
    BY DEF ConnFrames
  <2> DEFINE h == FC("forget", Arg(q))
             t == Tail(work[q])
             m == <<F("notifyDown")>> \o t
             w == <<F("retry")>> \o m
  <2>3. work[q] \in Seq(Frames) /\ work[q] # <<>> /\ Head(work[q]) = h
    BY <2>1, Framed DEF Queued
  <2>4. t \in Seq(Frames) /\ Ended(work[q], h, t)
    BY <2>3, EndedTail
  <2>5. F("notifyDown") \in Frames /\ F("retry") \in Frames
    BY <1>f DEF PlainFrames
  <2>6. work' = [work EXCEPT ![q] = <<F("retry"), F("notifyDown")>> \o t]
    BY <1>13, <2>1, Framed DEF Forget, InPlace, Done, Queued
  <2>7. <<F("retry"), F("notifyDown")>> \o t = w
    <3> HIDE DEF t
    <3>1. ASSUME NEW a \in Frames, NEW b \in Frames, NEW s \in Seq(Frames)
          PROVE  <<a, b>> \o s = <<a>> \o (<<b>> \o s)
      <4> DEFINE u == <<a, b>>
                 v == <<a>> \o <<b>>
      <4>1. /\ <<a>> \in Seq(Frames) /\ Len(<<a>>) = 1 /\ <<a>>[1] = a
            /\ <<b>> \in Seq(Frames) /\ Len(<<b>>) = 1 /\ <<b>>[1] = b
            /\ u \in Seq(Frames) /\ Len(u) = 2 /\ u[1] = a /\ u[2] = b
        OBVIOUS
      <4>2. v \in Seq(Frames) /\ Len(v) = 2 /\ v[1] = a /\ v[2] = b
        BY <4>1, ConcatProperties
      <4> HIDE DEF u, v
      <4>3. u = v
        BY <4>1, <4>2, SeqEqual
      <4> QED BY <4>1, <4>3, ConcatAssociative DEF u, v
    <3> QED BY <2>4, <2>5, <3>1
  <2> HIDE DEF t
  <2>8. m \in Seq(Frames) /\ Pushed(t, F("notifyDown"), m)
    BY <2>4, <2>5, PushedFront
  <2>9. Went(work[q], h, F("notifyDown"), m)
    <3> HIDE DEF m, h
    <3> QED BY <2>4, <2>8, WentOn
  <2> HIDE DEF m
  <2>10. w \in Seq(Frames) /\ Pushed(m, F("retry"), w)
    BY <2>8, <2>5, PushedFront
  <2>11. work' = [work EXCEPT ![q] = w]
    BY <2>6, <2>7
  <2> HIDE DEF w
  <2>12. Queued' /\ work'[q] = w /\ Same({q})
    BY <2>1, <2>10, <2>11, Framed DEF Queued, Same
  <2>13. \E n : Went(work[q], FC("forget", Arg(q)), F("notifyDown"), n) /\ Pushed(n, F("retry"), work'[q])
    BY <2>9, <2>10, <2>12
  <2> QED BY <1>13, <2>1, <2>2, <2>12, <2>13, <1>h2, <1>k, Framed
         DEF Forget, ForgetStep, sockets, app
<1>14. ASSUME NEW q \in Queues, NotifyDown(q)
      PROVE  Queued' /\ Bounds /\ sharedKey' = sharedKey /\ NotifyDownStep(q)
  <2>1. At(q, "notifyDown")
    BY <1>14 DEF NotifyDown
  <2>2. "notifyDown" \in PlainFrames
    BY DEF PlainFrames
  <2>n. q # "net"
    <3>1. "notifyDown" \notin NetOps
      BY DEF NetOps
    <3> QED BY <2>1, <3>1, Framed DEF Runs
  <2>3. F("down") \in Frames
    BY <2>1, <2>2, <1>f, Framed DEF ConnFrames, PlainFrames
  <2> QED BY <1>14, <2>1, <2>2, <2>3, <2>n, <1>h, <1>h2, <1>k, <1>q, Framed, QueueCalls
         DEF NotifyDown, NotifyDownStep, manager, app, sockets, Notify
<1>15. ASSUME NEW q \in Queues, ConnectionClosed(q)
      PROVE  Queued' /\ Bounds /\ sharedKey' = sharedKey /\ RetryStep(q)
  <2>1. At(q, "retry")
    BY <1>15 DEF ConnectionClosed
  <2>2. "retry" \in PlainFrames
    BY DEF PlainFrames
  <2>3. F("start") \in Frames
    BY <2>1, <2>2, <1>f, Framed DEF ConnFrames, PlainFrames
  <2> QED BY <1>15, <2>1, <2>2, <2>3, <1>h, <1>h2, <1>k, <1>q, Framed, QueueEnds, QueueGoesOn, <1>b
         DEF ConnectionClosed, RetryStep, manager, app, sockets, Rearmed
<1>16. ASSUME NEW q \in Queues, TimerEvent(q)
      PROVE  Queued' /\ Bounds /\ sharedKey' = sharedKey /\ TimerStep(q)
  <2>1. At(q, "timerFired")
    BY <1>16 DEF TimerEvent
  <2>2. "timerFired" \in PlainFrames
    BY DEF PlainFrames
  <2>3. F("start") \in Frames
    BY <2>1, <2>2, <1>f, Framed DEF ConnFrames, PlainFrames
  <2> QED BY <1>16, <2>1, <2>2, <2>3, <1>h, <1>h2, <1>k, <1>q, Framed, QueueEnds, QueueGoesOn
         DEF TimerEvent, TimerStep, manager, app, sockets
<1>17. ASSUME NEW q \in Queues, RequestConnection(q)
      PROVE  Queued' /\ Bounds /\ sharedKey' = sharedKey /\ RequestStep(q)
  <2>1. At(q, "request")
    BY <1>17 DEF RequestConnection
  <2>2. "request" \in PlainFrames
    BY DEF PlainFrames
  <2>3. F("start") \in Frames
    BY <2>1, <2>2, <1>f, Framed DEF ConnFrames, PlainFrames
  <2> QED BY <1>17, <2>1, <2>2, <2>3, <1>h, <1>h2, <1>k, <1>q, Framed, QueueEnds, QueueGoesOn
         DEF RequestConnection, RequestStep, manager, app, sockets
<1>18. ASSUME NEW q \in Queues, Reconnect(q)
      PROVE  Queued' /\ Bounds /\ sharedKey' = sharedKey /\ ReconnectStep(q)
  <2>1. At(q, "reconnect")
    BY <1>18 DEF Reconnect
  <2>2. "reconnect" \in PlainFrames
    BY DEF PlainFrames
  <2>n. q # "net"
    <3>1. "reconnect" \notin NetOps
      BY DEF NetOps
    <3> QED BY <2>1, <3>1, Framed DEF Runs
  <2> DEFINE w == <<F("stopCurrent")>> \o Tail(work[q])
             v == Append(work["net"], F("down"))
  <2>3. /\ work[q] \in Seq(Frames) /\ work["net"] \in Seq(Frames)
        /\ work[q] # <<>> /\ Head(work[q]) = F("reconnect")
    BY <2>1, <2>2, <1>q, Framed DEF Queued
  <2>4. F("stopCurrent") \in Frames /\ F("down") \in Frames
    BY <1>f DEF PlainFrames
  <2>5. w \in Seq(Frames) /\ Went(work[q], F("reconnect"), F("stopCurrent"), w)
    <3> DEFINE t == Tail(work[q])
    <3>1. t \in Seq(Frames) /\ Ended(work[q], F("reconnect"), t)
      BY <2>3, EndedTail
    <3> HIDE DEF t
    <3>2. <<F("stopCurrent")>> \o t \in Seq(Frames) /\ Pushed(t, F("stopCurrent"), <<F("stopCurrent")>> \o t)
      BY <3>1, <2>4, PushedFront
    <3>3. Went(work[q], F("reconnect"), F("stopCurrent"), <<F("stopCurrent")>> \o t)
      BY <3>1, <3>2, WentOn
    <3> QED BY <3>2, <3>3 DEF t
  <2>6. v \in Seq(Frames) /\ Added(work["net"], F("down"), v)
    BY <2>3, <2>4, AddedEnd
  <2>7. work' = [work EXCEPT ![q] = w, !["net"] = v]
    BY <1>18, <2>1, <2>n, <1>q, Framed DEF Reconnect, Notify, Async, InPlace, Done, Queued
  <2> HIDE DEF w, v
  <2>8. Queued' /\ work'[q] = w /\ work'["net"] = v /\ Same({q, "net"})
    BY <2>1, <2>5, <2>6, <2>7, <2>n, <1>q, Framed DEF Queued, Same
  <2> QED BY <1>18, <2>1, <2>5, <2>6, <2>8, <2>n, <1>h2, <1>k, Framed
         DEF Reconnect, ReconnectStep, Notify, sockets, app
<1>19. ASSUME NEW q \in Queues, StopCurrent(q)
      PROVE  Queued' /\ Bounds /\ sharedKey' = sharedKey /\ StopStep(q)
  <2>1. At(q, "stopCurrent")
    BY <1>19 DEF StopCurrent
  <2>2. "stopCurrent" \in PlainFrames
    BY DEF PlainFrames
  <2>3. conn # None => FC("close", conn) \in Frames
    BY <2>1, <1>f, Framed DEF ConnFrames
  <2> QED BY <1>19, <2>1, <2>2, <2>3, <1>h2, <1>k, <1>q, Framed, QueueEnds, QueuePasses
         DEF StopCurrent, StopStep, manager, app, sockets
<1>20. ASSUME NEW q \in Queues, StateUp(q)
      PROVE  Queued' /\ Bounds /\ sharedKey' = sharedKey /\ Arg(q) \in Conns /\ UpStep(q, Arg(q))
  <2>1. At(q, "up")
    BY <1>20 DEF StateUp
  <2>2. "up" \in ConnFrames
    BY DEF ConnFrames
  <2> QED BY <1>20, <2>1, <2>2, <1>h, <1>h2, <1>k, <1>q, Framed, QueueEnds
         DEF StateUp, UpStep, manager, app, sockets
<1>21. ASSUME NEW q \in Queues, StateDown(q)
      PROVE  Queued' /\ Bounds /\ sharedKey' = sharedKey /\ DownStep(q)
  <2>1. At(q, "down")
    BY <1>21 DEF StateDown
  <2>2. "down" \in PlainFrames
    BY DEF PlainFrames
  <2> QED BY <1>21, <2>1, <2>2, <1>h, <1>h2, <1>k, <1>q, Framed, QueueEnds
         DEF StateDown, DownStep, manager, app, sockets
<1>22. ASSUME NEW q \in Queues, Parse(q)
      PROVE  Queued' /\ Bounds /\ sharedKey' = sharedKey /\ Arg(q) \in Conns /\ DataStep(q, Arg(q))
  <2>1. At(q, "data")
    BY <1>22 DEF Parse
  <2>2. "data" \in ConnFrames
    BY DEF ConnFrames
  <2> QED BY <1>22, <2>1, <2>2, <1>h, <1>h2, <1>k, <1>q, Framed, QueueEnds
         DEF Parse, DataStep, manager, app, sockets
<1>23. ASSUME NEW q \in Queues, AskReconnect(q)
      PROVE  Queued' /\ Bounds /\ sharedKey' = sharedKey /\ AskStep(q)
  <2>1. At(q, "askReconnect")
    BY <1>23 DEF AskReconnect
  <2>2. "askReconnect" \in PlainFrames
    BY DEF PlainFrames
  <2>3. F("reconnect") \in Frames
    BY <2>1, <2>2, <1>f, Framed DEF ConnFrames, PlainFrames
  <2> QED BY <1>23, <2>1, <2>2, <2>3, <1>h, <1>h2, <1>k, <1>q, Framed, QueuePasses
         DEF AskReconnect, AskStep, manager, app, sockets
<1>24. ASSUME AppReconnect \/ AppSend PROVE Queued' /\ Bounds /\ sharedKey' = sharedKey /\ AskedStep
  <2>1. F("askReconnect") \in Frames /\ F("request") \in Frames
    BY <1>f DEF PlainFrames
  <2> QED BY <1>24, <2>1, <1>h, <1>k, <1>q, QueueEnqueues
         DEF AppReconnect, AppSend, AskedStep, manager
<1>25. ASSUME TimerFires PROVE Queued' /\ Bounds /\ sharedKey' = sharedKey /\ FiresStep
  <2>1. F("timerFired") \in Frames
    BY <1>f DEF PlainFrames
  <2> QED BY <1>25, <2>1, <1>h2, <1>k, <1>q, QueueEnqueues DEF TimerFires, FiresStep
<1>26. ASSUME NEW c \in Conns, Establish(c) \/ Break(c) \/ ServerData(c)
       PROVE  Queued' /\ Bounds /\ sharedKey' = sharedKey /\ OutsideStep(c)
  <2>1. {FC("didConnect", c), FC("didDisconnect", c), FC("didRead", c)} \subseteq Frames
    BY <1>f DEF ConnFrames
  <2> QED BY <1>26, <2>1, <1>h, <1>h2, <1>k, <1>q, QueueEnqueues
         DEF Establish, Break, ServerData, OutsideStep, EstablishStep, BreakStep, ServerDataStep, manager
<1>27. ASSUME NEW q \in Queues, QueueStep(q)
       PROVE  Queued' /\ Bounds /\ sharedKey' = sharedKey
              /\ (PlainStep(q) \/ NetPlainStep(q)
                  \/ \E c \in Conns : SocketStep(q, c) \/ ManagerStep(q, c) \/ NetStep(q, c))
  <2>1. CASE Open(q)
    BY <2>1, <1>1 DEF SocketStep
  <2>2. CASE Close(q)
    BY <2>2, <1>2 DEF SocketStep
  <2>3. CASE Shut(q)
    BY <2>3, <1>3 DEF SocketStep
  <2>4. CASE DidConnect(q)
    BY <2>4, <1>4 DEF SocketStep
  <2>5. CASE DidDisconnect(q)
    BY <2>5, <1>5 DEF SocketStep
  <2>6. CASE DidRead(q)
    BY <2>6, <1>6 DEF SocketStep
  <2>7. CASE HandOver(q)
    BY <2>7, <1>7 DEF SocketStep
  <2>8. CASE StartManager(q)
    BY <2>8, <1>8 DEF PlainStep
  <2>9. CASE CreateConnection(q)
    BY <2>9, <1>9 DEF PlainStep
  <2>10. CASE OnConnectionConnected(q)
    BY <2>10, <1>10 DEF ManagerStep
  <2>11. CASE MarkConnected(q)
    BY <2>11, <1>11 DEF ManagerStep
  <2>12. CASE OnConnectionClosed(q)
    BY <2>12, <1>12 DEF ManagerStep
  <2>13. CASE Forget(q)
    BY <2>13, <1>13 DEF ManagerStep
  <2>14. CASE NotifyDown(q)
    BY <2>14, <1>14 DEF PlainStep
  <2>15. CASE ConnectionClosed(q)
    BY <2>15, <1>15 DEF PlainStep
  <2>16. CASE TimerEvent(q)
    BY <2>16, <1>16 DEF PlainStep
  <2>17. CASE RequestConnection(q)
    BY <2>17, <1>17 DEF PlainStep
  <2>18. CASE Reconnect(q)
    BY <2>18, <1>18 DEF PlainStep
  <2>19. CASE StopCurrent(q)
    BY <2>19, <1>19 DEF PlainStep
  <2>20. CASE StateUp(q)
    BY <2>20, <1>20 DEF NetStep
  <2>21. CASE StateDown(q)
    BY <2>21, <1>21 DEF NetPlainStep
  <2>22. CASE Parse(q)
    BY <2>22, <1>22 DEF NetStep
  <2>23. CASE AskReconnect(q)
    BY <2>23, <1>23 DEF NetPlainStep
  <2> QED
    BY <1>27, <2>1, <2>2, <2>3, <2>4, <2>5, <2>6, <2>7, <2>8, <2>9, <2>10, <2>11, <2>12, <2>13,
         <2>14, <2>15, <2>16, <2>17, <2>18, <2>19, <2>20, <2>21, <2>22, <2>23 DEF QueueStep
<1> QED BY <1>24, <1>25, <1>26, <1>27 DEF Next, Step
-----------------------------------------------------------------------------
(* The shape of the state                                                   *)

\* Which frames there are after a step.
LEMMA HasAfter ==
    /\ \A q \in Queues : \A h : Ends(q, h) =>
          /\ Has(q, h)
          /\ \A r \in Queues : \A f :
                /\ Has(r, f)' => Has(r, f)
                /\ Has(r, f) => Has(r, f)' \/ (r = q /\ f = h)
    /\ \A q \in Queues : \A h, b : GoesOn(q, h, b) =>
          /\ Has(q, h) /\ Has(q, b)'
          /\ \A r \in Queues : \A f :
                /\ Has(r, f)' => Has(r, f) \/ (r = q /\ f = b)
                /\ Has(r, f) => Has(r, f)' \/ (r = q /\ f = h)
    /\ \A q, t \in Queues : \A h, b : Calls(q, h, t, b) =>
          /\ Has(q, h) /\ Has(t, b)'
          /\ \A r \in Queues : \A f :
                /\ Has(r, f)' => Has(r, f) \/ (r = t /\ f = b)
                /\ Has(r, f) => Has(r, f)' \/ (r = q /\ f = h)
    /\ \A q, t \in Queues : \A h, b : Passes(q, h, t, b) =>
          /\ Has(q, h) /\ (Has(q, b)' \/ Has(t, b)')
          /\ \A r \in Queues : \A f :
                /\ Has(r, f)' => Has(r, f) \/ (f = b /\ (r = t \/ (r = q /\ IsOwn(q, t))))
                /\ Has(r, f) => Has(r, f)' \/ (r = q /\ f = h)
    /\ \A t \in Queues : \A b : Enqueues(t, b) =>
          /\ Has(t, b)'
          /\ \A r \in Queues : \A f :
                /\ Has(r, f)' => Has(r, f) \/ (r = t /\ f = b)
                /\ Has(r, f) => Has(r, f)'
<1>1. \A qs : Same(qs) => \A r \in Queues \ qs : work'[r] = work[r]
  BY DEF Same
<1>2. ASSUME NEW q \in Queues, NEW h, Ends(q, h)
      PROVE  /\ Has(q, h)
             /\ \A r \in Queues : \A f :
                   /\ Has(r, f)' => Has(r, f)
                   /\ Has(r, f) => Has(r, f)' \/ (r = q /\ f = h)
  BY <1>2, <1>1 DEF Ends, Ended, Has
<1>3. ASSUME NEW q \in Queues, NEW h, NEW b, GoesOn(q, h, b)
      PROVE  /\ Has(q, h) /\ Has(q, b)'
             /\ \A r \in Queues : \A f :
                   /\ Has(r, f)' => Has(r, f) \/ (r = q /\ f = b)
                   /\ Has(r, f) => Has(r, f)' \/ (r = q /\ f = h)
  BY <1>3, <1>1 DEF GoesOn, Went, Has
<1>4. ASSUME NEW q \in Queues, NEW t \in Queues, NEW h, NEW b, Calls(q, h, t, b)
      PROVE  /\ Has(q, h) /\ Has(t, b)'
             /\ \A r \in Queues : \A f :
                   /\ Has(r, f)' => Has(r, f) \/ (r = t /\ f = b)
                   /\ Has(r, f) => Has(r, f)' \/ (r = q /\ f = h)
  BY <1>4, <1>1 DEF Calls, Ended, Added, Has
<1>5. ASSUME NEW t \in Queues, NEW b, Enqueues(t, b)
      PROVE  /\ Has(t, b)'
             /\ \A r \in Queues : \A f :
                   /\ Has(r, f)' => Has(r, f) \/ (r = t /\ f = b)
                   /\ Has(r, f) => Has(r, f)'
  BY <1>5, <1>1 DEF Enqueues, Added, Has
<1>6. ASSUME NEW q \in Queues, NEW t \in Queues, NEW h, NEW b, Passes(q, h, t, b)
      PROVE  /\ Has(q, h) /\ (Has(q, b)' \/ Has(t, b)')
             /\ \A r \in Queues : \A f :
                   /\ Has(r, f)' => Has(r, f) \/ (f = b /\ (r = t \/ (r = q /\ IsOwn(q, t))))
                   /\ Has(r, f) => Has(r, f)' \/ (r = q /\ f = h)
  BY <1>6, <1>3, <1>4 DEF Passes
<1> QED BY <1>2, <1>3, <1>4, <1>5, <1>6

LEMMA HasAfterForget ==
    ASSUME NEW q \in Queues, NEW c, ForgetStep(q, c)
    PROVE  /\ Has(q, FC("forget", c)) /\ Has(q, F("retry"))' /\ Has(q, F("notifyDown"))'
           /\ \A r \in Queues : \A f :
                 /\ Has(r, f)' => Has(r, f) \/ (r = q /\ (f = F("retry") \/ f = F("notifyDown")))
                 /\ Has(r, f) => Has(r, f)' \/ (r = q /\ f = FC("forget", c))
<1>1. PICK m : Went(work[q], FC("forget", c), F("notifyDown"), m) /\ Pushed(m, F("retry"), work'[q])
  BY DEF ForgetStep
<1>2. \A r \in Queues \ {q} : work'[r] = work[r]
  BY DEF ForgetStep, Same
<1> QED BY <1>1, <1>2 DEF Went, Pushed, Has

LEMMA HasAfterReconnect ==
    ASSUME NEW q \in Queues, ReconnectStep(q)
    PROVE  /\ Has(q, F("reconnect")) /\ Has(q, F("stopCurrent"))' /\ Has("net", F("down"))'
           /\ \A r \in Queues : \A f :
                 /\ Has(r, f)' => \/ Has(r, f) \/ (r = q /\ f = F("stopCurrent"))
                                  \/ (r = "net" /\ f = F("down"))
                 /\ Has(r, f) => Has(r, f)' \/ (r = q /\ f = F("reconnect"))
<1>1. /\ Went(work[q], F("reconnect"), F("stopCurrent"), work'[q]) /\ q # "net"
      /\ Added(work["net"], F("down"), work'["net"])
      /\ \A r \in Queues \ {q, "net"} : work'[r] = work[r]
  BY DEF ReconnectStep, Same
<1> QED BY <1>1 DEF Went, Added, Has

\* A frame there is has its connection and may be where it is.
LEMMA Shaped ==
    ASSUME Shape, NEW q \in Queues, NEW op, NEW c, Has(q, FC(op, c))
    PROVE  /\ op \in Runs(q) /\ c <= created /\ FC(op, c) \in Frames
           /\ q \in {"nm", "conn", "net"}
<1>1. work[q] \in Seq(Frames)
  BY DEF Shape, TypeOK
<1>2. PICK i \in DOMAIN work[q] : work[q][i] = FC(op, c)
  BY DEF Has, In
<1>3. FC(op, c) \in Frames
  BY <1>1, <1>2, ElementOfSeq, LenProperties
<1> QED BY <1>3, FrameParts DEF Shape, Queues
\* The frames a step adds are where they may be, of connections there are.
NewFramesOK ==
    \A r \in Queues : \A f : Has(r, f)' =>
        Has(r, f) \/ \E op, c : f = FC(op, c) /\ c <= created' /\ op \in Runs(r)

LEMMA NewFrames ==
    ASSUME Shape, Step, sharedKey' = sharedKey
    PROVE  NewFramesOK /\ created <= created'
<1> USE DEF NewFramesOK
<1>q. /\ Queues = {"nm", "conn", "net"} /\ conn <= created /\ None <= created /\ created <= created
      /\ created \in Nat /\ \A c \in Conns : c \in Nat
  BY DEF Queues, Shape, TypeOK, None, Conns
<1>f. \A op : F(op) = FC(op, None)
  BY FrameParts
<1>o. \A q : IsOwn(q, "nm") <=> q = "nm" \/ (sharedKey /\ q = "conn")
  BY DEF IsOwn
<1>p. \A q : IsOwn(q, "conn") <=> q = "conn" \/ (sharedKey /\ q = "nm")
  BY DEF IsOwn
<1>r. /\ Runs("net") = NetOps
      /\ Runs("conn") = SocketOps \cup EventOps \cup (IF sharedKey THEN ManagerOps ELSE {})
      /\ Runs("nm") = ManagerOps \cup (IF sharedKey THEN SocketOps ELSE {})
  BY DEF Runs

<1>1. ASSUME NEW q \in Queues, NEW c \in Conns, OpenStep(q, c) PROVE NewFramesOK /\ created <= created'
  <2>1. Has(q, FC("open", c)) /\ \A r \in Queues : \A f :
           Has(r, f)' => Has(r, f) \/ (f = FC("close", c) /\ r = q)
    BY <1>1, <1>f, <1>q, HasAfter DEF OpenStep
  <2>2. "close" \in Runs(q) /\ c <= created
    BY <2>1, <1>q, <1>r, <1>o, <1>p, Shaped DEF NetOps, SocketOps, EventOps, ManagerOps
  <2> QED BY <1>1, <2>1, <2>2, <1>q DEF OpenStep, manager
<1>2. ASSUME NEW q \in Queues, NEW c \in Conns, CloseStep(q, c) PROVE NewFramesOK /\ created <= created'
  <2>1. Has(q, FC("close", c)) /\ \A r \in Queues : \A f :
           Has(r, f)' => Has(r, f) \/ (f = FC("shut", c) /\ r = q)
    BY <1>2, <1>f, <1>q, HasAfter DEF CloseStep
  <2>2. "shut" \in Runs(q) /\ c <= created
    BY <2>1, <1>q, <1>r, <1>o, <1>p, Shaped DEF NetOps, SocketOps, EventOps, ManagerOps
  <2> QED BY <1>2, <2>1, <2>2, <1>q DEF CloseStep, manager
<1>3. ASSUME NEW q \in Queues, NEW c \in Conns, ShutStep(q, c) PROVE NewFramesOK /\ created <= created'
  <2>1. Has(q, FC("shut", c)) /\ \A r \in Queues : \A f :
           Has(r, f)' => Has(r, f) \/ (f = FC("closed", c) /\ (r = "nm" \/ (r = q /\ IsOwn(q, "nm"))))
    BY <1>3, <1>f, <1>q, HasAfter DEF ShutStep
  <2>2. "closed" \in Runs("nm") /\ (IsOwn(q, "nm") => "closed" \in Runs(q)) /\ c <= created
    BY <2>1, <1>q, <1>r, <1>o, <1>p, Shaped DEF NetOps, SocketOps, EventOps, ManagerOps
  <2> QED BY <1>3, <2>1, <2>2, <1>q DEF ShutStep, manager
<1>4. ASSUME NEW q \in Queues, NEW c \in Conns, DidConnectStep(q, c) PROVE NewFramesOK /\ created <= created'
  <2>1. Has(q, FC("didConnect", c)) /\ \A r \in Queues : \A f :
           Has(r, f)' => Has(r, f) \/ (f = FC("connected", c) /\ (r = "nm" \/ (r = q /\ IsOwn(q, "nm"))))
    BY <1>4, <1>f, <1>q, HasAfter DEF DidConnectStep
  <2>2. "connected" \in Runs("nm") /\ (IsOwn(q, "nm") => "connected" \in Runs(q)) /\ c <= created
    BY <2>1, <1>q, <1>r, <1>o, <1>p, Shaped DEF NetOps, SocketOps, EventOps, ManagerOps
  <2> QED BY <1>4, <2>1, <2>2, <1>q DEF DidConnectStep, manager
<1>5. ASSUME NEW q \in Queues, NEW c \in Conns, DidDisconnectStep(q, c) PROVE NewFramesOK /\ created <= created'
  <2>1. Has(q, FC("didDisconnect", c)) /\ \A r \in Queues : \A f :
           Has(r, f)' => Has(r, f) \/ (f = FC("close", c) /\ r = q)
    BY <1>5, <1>f, <1>q, HasAfter DEF DidDisconnectStep
  <2>2. "close" \in Runs(q) /\ c <= created
    BY <2>1, <1>q, <1>r, <1>o, <1>p, Shaped DEF NetOps, SocketOps, EventOps, ManagerOps
  <2> QED BY <1>5, <2>1, <2>2, <1>q DEF DidDisconnectStep, manager
<1>6. ASSUME NEW q \in Queues, NEW c \in Conns, DidReadStep(q, c) PROVE NewFramesOK /\ created <= created'
  <2>1. Has(q, FC("didRead", c)) /\ \A r \in Queues : \A f :
           Has(r, f)' => Has(r, f) \/ (f = FC("handOver", c) /\ r = q)
    BY <1>6, <1>f, <1>q, HasAfter DEF DidReadStep
  <2>2. "handOver" \in Runs(q) /\ c <= created
    BY <2>1, <1>q, <1>r, <1>o, <1>p, Shaped DEF NetOps, SocketOps, EventOps, ManagerOps
  <2> QED BY <1>6, <2>1, <2>2, <1>q DEF DidReadStep, manager
<1>7. ASSUME NEW q \in Queues, NEW c \in Conns, HandOverStep(q, c) PROVE NewFramesOK /\ created <= created'
  <2>1. Has(q, FC("handOver", c)) /\ \A r \in Queues : \A f :
           Has(r, f)' => Has(r, f) \/ (f = FC("data", c) /\ r = "net")
    BY <1>7, <1>f, <1>q, HasAfter DEF HandOverStep
  <2>2. "data" \in Runs("net") /\ c <= created
    BY <2>1, <1>q, <1>r, <1>o, <1>p, Shaped DEF NetOps, SocketOps, EventOps, ManagerOps
  <2> QED BY <1>7, <2>1, <2>2, <1>q DEF HandOverStep, manager
<1>8. ASSUME NEW q \in Queues, NEW c \in Conns, ConnectedStep(q, c) PROVE NewFramesOK /\ created <= created'
  <2>1. Has(q, FC("connected", c)) /\ \A r \in Queues : \A f :
           Has(r, f)' => Has(r, f) \/ (f = FC("markConnected", c) /\ r = q)
    BY <1>8, <1>f, <1>q, HasAfter DEF ConnectedStep
  <2>2. "markConnected" \in Runs(q) /\ c <= created
    BY <2>1, <1>q, <1>r, <1>o, <1>p, Shaped DEF NetOps, SocketOps, EventOps, ManagerOps
  <2> QED BY <1>8, <2>1, <2>2, <1>q DEF ConnectedStep, manager
<1>9. ASSUME NEW q \in Queues, NEW c \in Conns, MarkConnectedStep(q, c) PROVE NewFramesOK /\ created <= created'
  <2>1. Has(q, FC("markConnected", c)) /\ \A r \in Queues : \A f :
           Has(r, f)' => Has(r, f) \/ (f = FC("up", c) /\ r = "net")
    BY <1>9, <1>f, <1>q, HasAfter DEF MarkConnectedStep
  <2>2. "up" \in Runs("net") /\ c <= created
    BY <2>1, <1>q, <1>r, <1>o, <1>p, Shaped DEF NetOps, SocketOps, EventOps, ManagerOps
  <2> QED BY <1>9, <2>1, <2>2, <1>q DEF MarkConnectedStep, manager
<1>10. ASSUME NEW q \in Queues, NEW c \in Conns, ClosedStep(q, c) PROVE NewFramesOK /\ created <= created'
  <2>1. Has(q, FC("closed", c)) /\ \A r \in Queues : \A f :
           Has(r, f)' => Has(r, f) \/ (f = FC("forget", c) /\ r = q)
    BY <1>10, <1>f, <1>q, HasAfter DEF ClosedStep
  <2>2. "forget" \in Runs(q) /\ c <= created
    BY <2>1, <1>q, <1>r, <1>o, <1>p, Shaped DEF NetOps, SocketOps, EventOps, ManagerOps
  <2> QED BY <1>10, <2>1, <2>2, <1>q DEF ClosedStep, manager
<1>11. ASSUME NEW q \in Queues, NEW c \in Conns, ForgetStep(q, c) PROVE NewFramesOK /\ created <= created'
  <2>1. Has(q, FC("forget", c)) /\ \A r \in Queues : \A f :
           Has(r, f)' => Has(r, f) \/ (r = q /\ (f = FC("retry", None) \/ f = FC("notifyDown", None)))
    BY <1>11, <1>f, HasAfterForget
  <2>2. "retry" \in Runs(q) /\ "notifyDown" \in Runs(q)
    BY <2>1, <1>q, <1>r, Shaped DEF NetOps, SocketOps, EventOps, ManagerOps
  <2> QED BY <1>11, <2>1, <2>2, <1>q DEF ForgetStep
<1>12. ASSUME NEW q \in Queues, NEW c \in Conns, UpStep(q, c) PROVE NewFramesOK /\ created <= created'
  BY <1>12, <1>q, HasAfter DEF UpStep, manager
<1>13. ASSUME NEW q \in Queues, NEW c \in Conns, DataStep(q, c) PROVE NewFramesOK /\ created <= created'
  BY <1>13, <1>q, HasAfter DEF DataStep, manager
<1>14. ASSUME NEW q \in Queues, StartStep(q) PROVE NewFramesOK /\ created <= created'
  <2>1. Has(q, FC("start", None)) /\ \A r \in Queues : \A f :
           Has(r, f)' => Has(r, f) \/ (f = FC("create", None) /\ r = q)
    BY <1>14, <1>f, <1>q, HasAfter DEF StartStep
  <2>2. "create" \in Runs(q) /\ None <= created
    BY <2>1, <1>q, <1>r, <1>o, <1>p, Shaped DEF NetOps, SocketOps, EventOps, ManagerOps
  <2> QED BY <1>14, <2>1, <2>2, <1>q DEF StartStep, manager
<1>15. ASSUME NEW q \in Queues, CreateStep(q) PROVE NewFramesOK /\ created <= created'
  <2>1. Has(q, FC("create", None)) /\ \A r \in Queues : \A f :
           Has(r, f)' => Has(r, f) \/ (f = FC("open", created') /\ (r = "conn" \/ (r = q /\ IsOwn(q, "conn"))))
    BY <1>15, <1>f, <1>q, HasAfter DEF CreateStep
  <2>2. "open" \in Runs("conn") /\ (IsOwn(q, "conn") => "open" \in Runs(q)) /\ None <= created
    BY <2>1, <1>q, <1>r, <1>o, <1>p, Shaped DEF NetOps, SocketOps, EventOps, ManagerOps
  <2> QED BY <1>15, <2>1, <2>2, <1>q DEF CreateStep, manager
<1>16. ASSUME NEW q \in Queues, NotifyDownStep(q) PROVE NewFramesOK /\ created <= created'
  <2>1. Has(q, FC("notifyDown", None)) /\ \A r \in Queues : \A f :
           Has(r, f)' => Has(r, f) \/ (f = FC("down", None) /\ r = "net")
    BY <1>16, <1>f, <1>q, HasAfter DEF NotifyDownStep
  <2>2. "down" \in Runs("net") /\ None <= created
    BY <2>1, <1>q, <1>r, <1>o, <1>p, Shaped DEF NetOps, SocketOps, EventOps, ManagerOps
  <2> QED BY <1>16, <2>1, <2>2, <1>q DEF NotifyDownStep, manager
<1>17. ASSUME NEW q \in Queues, RetryStep(q) PROVE NewFramesOK /\ created <= created'
  <2>1. Has(q, FC("retry", None)) /\ \A r \in Queues : \A f :
           Has(r, f)' => Has(r, f) \/ (f = FC("start", None) /\ r = q)
    BY <1>17, <1>f, <1>q, HasAfter DEF RetryStep
  <2>2. "start" \in Runs(q) /\ None <= created
    BY <2>1, <1>q, <1>r, <1>o, <1>p, Shaped DEF NetOps, SocketOps, EventOps, ManagerOps
  <2> QED BY <1>17, <2>1, <2>2, <1>q DEF RetryStep, manager
<1>18. ASSUME NEW q \in Queues, TimerStep(q) PROVE NewFramesOK /\ created <= created'
  <2>1. Has(q, FC("timerFired", None)) /\ \A r \in Queues : \A f :
           Has(r, f)' => Has(r, f) \/ (f = FC("start", None) /\ r = q)
    BY <1>18, <1>f, <1>q, HasAfter DEF TimerStep
  <2>2. "start" \in Runs(q) /\ None <= created
    BY <2>1, <1>q, <1>r, <1>o, <1>p, Shaped DEF NetOps, SocketOps, EventOps, ManagerOps
  <2> QED BY <1>18, <2>1, <2>2, <1>q DEF TimerStep, manager
<1>19. ASSUME NEW q \in Queues, RequestStep(q) PROVE NewFramesOK /\ created <= created'
  <2>1. Has(q, FC("request", None)) /\ \A r \in Queues : \A f :
           Has(r, f)' => Has(r, f) \/ (f = FC("start", None) /\ r = q)
    BY <1>19, <1>f, <1>q, HasAfter DEF RequestStep
  <2>2. "start" \in Runs(q) /\ None <= created
    BY <2>1, <1>q, <1>r, <1>o, <1>p, Shaped DEF NetOps, SocketOps, EventOps, ManagerOps
  <2> QED BY <1>19, <2>1, <2>2, <1>q DEF RequestStep, manager
<1>20. ASSUME NEW q \in Queues, ReconnectStep(q) PROVE NewFramesOK /\ created <= created'
  <2>1. Has(q, FC("reconnect", None)) /\ \A r \in Queues : \A f :
           Has(r, f)' => \/ Has(r, f) \/ (r = q /\ f = FC("stopCurrent", None))
                        \/ (r = "net" /\ f = FC("down", None))
    BY <1>20, <1>f, HasAfterReconnect
  <2>2. "stopCurrent" \in Runs(q) /\ "down" \in Runs("net")
    BY <2>1, <1>q, <1>r, Shaped DEF NetOps, SocketOps, EventOps, ManagerOps
  <2> QED BY <1>20, <2>1, <2>2, <1>q DEF ReconnectStep
<1>21. ASSUME NEW q \in Queues, StopStep(q) PROVE NewFramesOK /\ created <= created'
  <2>1. Has(q, FC("stopCurrent", None)) /\ \A r \in Queues : \A f :
           Has(r, f)' => Has(r, f) \/ (f = FC("close", conn) /\ (r = "conn" \/ (r = q /\ IsOwn(q, "conn"))))
    <3>1. CASE conn = None
      BY <1>21, <1>f, <1>q, <3>1, HasAfter DEF StopStep
    <3>2. CASE conn # None
      BY <1>21, <1>f, <1>q, <3>2, HasAfter DEF StopStep
    <3> QED BY <3>1, <3>2
  <2>2. "close" \in Runs("conn") /\ (IsOwn(q, "conn") => "close" \in Runs(q)) /\ None <= created
    BY <2>1, <1>q, <1>r, <1>o, <1>p, Shaped DEF NetOps, SocketOps, EventOps, ManagerOps
  <2> QED BY <1>21, <2>1, <2>2, <1>q DEF StopStep, manager
<1>22. ASSUME NEW q \in Queues, DownStep(q) PROVE NewFramesOK /\ created <= created'
  BY <1>22, <1>q, HasAfter DEF DownStep, manager
<1>23. ASSUME NEW q \in Queues, AskStep(q) PROVE NewFramesOK /\ created <= created'
  <2>1. Has(q, FC("askReconnect", None)) /\ \A r \in Queues : \A f :
           Has(r, f)' => Has(r, f) \/ (f = FC("reconnect", None) /\ (r = "nm" \/ (r = q /\ IsOwn(q, "nm"))))
    BY <1>23, <1>f, <1>q, HasAfter DEF AskStep
  <2>2. "reconnect" \in Runs("nm") /\ (IsOwn(q, "nm") => "reconnect" \in Runs(q)) /\ None <= created
    BY <2>1, <1>q, <1>r, <1>o, <1>p, Shaped DEF NetOps, SocketOps, EventOps, ManagerOps
  <2> QED BY <1>23, <2>1, <2>2, <1>q DEF AskStep, manager
<1>24. ASSUME AskedStep \/ FiresStep PROVE NewFramesOK /\ created <= created'
  <2>1. \A r \in Queues : \A f : Has(r, f)' =>
           \/ Has(r, f) \/ (r = "net" /\ f = FC("askReconnect", None))
           \/ (r = "nm" /\ (f = FC("request", None) \/ f = FC("timerFired", None)))
    BY <1>24, <1>f, <1>q, HasAfter DEF AskedStep, FiresStep
  <2>2. "askReconnect" \in Runs("net") /\ "request" \in Runs("nm") /\ "timerFired" \in Runs("nm")
    BY <1>r DEF NetOps, ManagerOps
  <2> QED BY <1>24, <2>1, <2>2, <1>q DEF AskedStep, FiresStep, manager
<1>25. ASSUME NEW c \in Conns, OutsideStep(c) PROVE NewFramesOK /\ created <= created'
  <2>1. sock[c] # "nil" => c <= created
    BY <1>q DEF Shape
  <2>2. c <= created
    BY <2>1, <1>25 DEF OutsideStep, EstablishStep, BreakStep, ServerDataStep
  <2>3. \A r \in Queues : \A f : Has(r, f)' =>
           \/ Has(r, f)
           \/ (r = "conn" /\ (\/ f = FC("didConnect", c) \/ f = FC("didDisconnect", c)
                              \/ f = FC("didRead", c)))
    BY <1>25, <1>q, HasAfter DEF OutsideStep, EstablishStep, BreakStep, ServerDataStep
  <2>4. {"didConnect", "didDisconnect", "didRead"} \subseteq Runs("conn")
    BY <1>r DEF EventOps
  <2> QED BY <1>25, <2>2, <2>3, <2>4, <1>q
      DEF OutsideStep, EstablishStep, BreakStep, ServerDataStep, manager
<1> QED
  BY <1>1, <1>2, <1>3, <1>4, <1>5, <1>6, <1>7, <1>8, <1>9, <1>10, <1>11, <1>12, <1>13, <1>14,
       <1>15, <1>16, <1>17, <1>18, <1>19, <1>20, <1>21, <1>22, <1>23, <1>24, <1>25
     DEF Step, SocketStep, ManagerStep, NetStep, PlainStep, NetPlainStep
LEMMA ShapeKept ==
    ASSUME Shape, Next
    PROVE  Shape'
<1>1. Queued' /\ Step /\ Bounds /\ sharedKey' = sharedKey
  BY StepOf
<1>2. NewFramesOK /\ created <= created'
  BY <1>1, NewFrames
<1>3. /\ created \in 0 .. MaxConns /\ MaxConns \in Nat /\ MaxHappens' = MaxHappens
      /\ conn \in {None, created} /\ session \in 0 .. created /\ None = 0
      /\ sock \in [Conns -> {"nil", "connecting", "up", "broken"}]
      /\ closed \subseteq Conns /\ delegate \subseteq Conns
      /\ connected \in BOOLEAN /\ isConnected \in BOOLEAN
      /\ retryTimer \in {"nil", "armed", "fired"}
      /\ \A c \in Conns : c > created => sock[c] = "nil" /\ c \notin closed
      /\ Conns = 1 .. MaxConns
  BY <1>1, BoundsAssumption DEF Shape, TypeOK, MaxHappens, None, Conns
<1>n. {"nm", "conn", "net"} \subseteq Queues
  BY DEF Queues
<1> DEFINE Typed ==
             /\ created \in 0 .. MaxConns
             /\ conn \in {None, created} /\ session \in 0 .. created
             /\ sock \in [Conns -> {"nil", "connecting", "up", "broken"}]
             /\ closed \subseteq Conns /\ delegate \subseteq Conns
             /\ connected \in BOOLEAN /\ isConnected \in BOOLEAN
             /\ retryTimer \in {"nil", "armed", "fired"}
             /\ \A c \in Conns : c > created => sock[c] = "nil" /\ c \notin closed
<1>4. Typed'
  <2> USE DEF manager, sockets, app
  <2>1. ASSUME NEW q \in Queues, NEW c \in Conns, SocketStep(q, c) PROVE Typed'
    <3>1. Has(q, FC("open", c)) \/ Has(q, FC("shut", c)) => c <= created
      BY Shaped
    <3>2. CASE OpenStep(q, c)
      <4>1. c <= created
        BY <3>1, <3>2, HasAfter DEF OpenStep
      <4> QED BY <1>3, <3>2, <4>1 DEF OpenStep
    <3>3. CASE ShutStep(q, c)
      <4>1. c <= created
        BY <3>1, <3>3, HasAfter, <1>n DEF ShutStep
      <4> QED BY <1>3, <3>3, <4>1 DEF ShutStep
    <3> QED
      BY <1>3, <2>1, <3>2, <3>3
         DEF SocketStep, CloseStep, DidConnectStep, DidDisconnectStep, DidReadStep, HandOverStep
  <2>2. ASSUME NEW q \in Queues, NEW c \in Conns, ManagerStep(q, c) PROVE Typed'
    BY <1>3, <2>2 DEF ManagerStep, ConnectedStep, MarkConnectedStep, ClosedStep, ForgetStep
  <2>3. ASSUME NEW q \in Queues, NEW c \in Conns, NetStep(q, c) PROVE Typed'
    <3>1. CASE UpStep(q, c)
      <4>1. c <= created
        BY <3>1, HasAfter, Shaped DEF UpStep
      <4> QED BY <1>3, <3>1, <4>1 DEF UpStep
    <3> QED BY <1>3, <2>3, <3>1 DEF NetStep, DataStep
  <2>4. ASSUME NEW q \in Queues, PlainStep(q) PROVE Typed'
    <3>1. CASE CreateStep(q)
      BY <1>3, <3>1 DEF CreateStep
    <3> QED
      BY <1>3, <2>4, <3>1
         DEF PlainStep, StartStep, NotifyDownStep, RetryStep, TimerStep, RequestStep, ReconnectStep, StopStep
  <2>5. ASSUME NEW q \in Queues, NetPlainStep(q) PROVE Typed'
    BY <1>3, <2>5 DEF NetPlainStep, DownStep, AskStep
  <2>6. ASSUME AskedStep \/ FiresStep PROVE Typed'
    BY <1>3, <2>6 DEF AskedStep, FiresStep
  <2>7. ASSUME NEW c \in Conns, OutsideStep(c) PROVE Typed'
    BY <1>3, <2>7 DEF OutsideStep, EstablishStep, BreakStep, ServerDataStep
  <2> QED BY <1>1, <2>1, <2>2, <2>3, <2>4, <2>5, <2>6, <2>7 DEF Step
<1>5. ASSUME NEW r \in Queues, NEW f \in Frames, Has(r, f)'
      PROVE  f.c <= created' /\ f.op \in Runs(r)'
  <2>1. Runs(r)' = Runs(r)
    BY <1>1 DEF Runs
  <2>2. CASE Has(r, f)
    <3>1. f.c <= created /\ f.op \in Runs(r)
      BY <2>2 DEF Shape
    <3>2. f.c \in Nat
      BY <1>3 DEF Frames
    <3> QED BY <2>1, <3>1, <3>2, <1>2, <1>3, <1>4
  <2>3. CASE ~ Has(r, f)
    <3>1. PICK op, c : f = FC(op, c) /\ c <= created' /\ op \in Runs(r)
      BY <1>5, <2>3, <1>2 DEF NewFramesOK
    <3>2. f.op = op /\ f.c = c
      BY <3>1, FrameParts
    <3> QED BY <2>1, <3>1, <3>2
  <2> QED BY <2>2, <2>3
<1>6. TypeOK'
  BY <1>1, <1>3, <1>4 DEF TypeOK, Bounds, Queued
<1>7. sharedKey' \in BOOLEAN
  BY <1>1 DEF Shape
<1> QED BY <1>4, <1>5, <1>6, <1>7 DEF Shape
-----------------------------------------------------------------------------
(* The manager does not stall                                               *)

LEMMA PendingAfter ==
    /\ \A q \in Queues : \A h : Ends(q, h) => \A f : Pending(f) => Pending(f)' \/ f = h
    /\ \A q \in Queues : \A h, b : GoesOn(q, h, b) =>
          Pending(b)' /\ \A f : Pending(f) => Pending(f)' \/ f = h
    /\ \A q, t \in Queues : \A h, b : Calls(q, h, t, b) \/ Passes(q, h, t, b) =>
          Pending(b)' /\ \A f : Pending(f) => Pending(f)' \/ f = h
    /\ \A t \in Queues : \A b : Enqueues(t, b) => Pending(b)' /\ \A f : Pending(f) => Pending(f)'
    /\ \A q \in Queues : \A c : ForgetStep(q, c) =>
          Pending(F("retry"))' /\ \A f : Pending(f) => Pending(f)' \/ f = FC("forget", c)
    /\ \A q \in Queues : ReconnectStep(q) =>
          \A f : Pending(f) => Pending(f)' \/ f = F("reconnect")
<1>1. ASSUME NEW q \in Queues, NEW h, Ends(q, h) PROVE \A f : Pending(f) => Pending(f)' \/ f = h
  BY <1>1, HasAfter DEF Pending
<1>2. ASSUME NEW q \in Queues, NEW h, NEW b, GoesOn(q, h, b)
      PROVE  Pending(b)' /\ \A f : Pending(f) => Pending(f)' \/ f = h
  BY <1>2, HasAfter DEF Pending
<1>3. ASSUME NEW q \in Queues, NEW t \in Queues, NEW h, NEW b, Calls(q, h, t, b) \/ Passes(q, h, t, b)
      PROVE  Pending(b)' /\ \A f : Pending(f) => Pending(f)' \/ f = h
  BY <1>3, HasAfter DEF Pending
<1>4. ASSUME NEW t \in Queues, NEW b, Enqueues(t, b)
      PROVE  Pending(b)' /\ \A f : Pending(f) => Pending(f)'
  BY <1>4, HasAfter DEF Pending
<1>5. ASSUME NEW q \in Queues, NEW c, ForgetStep(q, c)
      PROVE  Pending(F("retry"))' /\ \A f : Pending(f) => Pending(f)' \/ f = FC("forget", c)
  BY <1>5, HasAfterForget DEF Pending
<1>6. ASSUME NEW q \in Queues, ReconnectStep(q)
      PROVE  \A f : Pending(f) => Pending(f)' \/ f = F("reconnect")
  BY <1>6, HasAfterReconnect DEF Pending
<1> QED BY <1>1, <1>2, <1>3, <1>4, <1>5, <1>6

LEMMA GoingKept ==
    ASSUME Shape, Going, Next
    PROVE  Going'
<1>1. Step
  BY StepOf
<1>2. /\ None = 0 /\ conn \in {None, created} /\ created \in Nat
      /\ sock \in [Conns -> {"nil", "connecting", "up", "broken"}]
      /\ \A c \in Conns : c \in Nat /\ c # None /\ (c > created => sock[c] = "nil" /\ c \notin closed)
      /\ conn # None => conn \in Conns
      /\ {"nm", "conn", "net"} \subseteq Queues
  BY BoundsAssumption DEF Shape, TypeOK, None, Conns, Queues
<1>f. /\ \A op : F(op) = FC(op, None)
      /\ \A x, y, c, d : FC(x, c) = FC(y, d) => x = y /\ c = d
  BY FrameParts
<1> USE DEF manager, sockets, app
<1>3. ASSUME NEW q \in Queues, NEW c \in Conns, OpenStep(q, c) PROVE Going'
  BY <1>3, <1>2, <1>f, PendingAfter DEF Going, OpenStep
<1>4. ASSUME NEW q \in Queues, NEW c \in Conns, CloseStep(q, c) PROVE Going'
  BY <1>4, <1>2, <1>f, PendingAfter DEF Going, CloseStep
<1>5. ASSUME NEW q \in Queues, NEW c \in Conns, ShutStep(q, c) PROVE Going'
  BY <1>5, <1>2, <1>f, PendingAfter DEF Going, ShutStep
<1>6. ASSUME NEW q \in Queues, NEW c \in Conns, DidConnectStep(q, c) PROVE Going'
  BY <1>6, <1>2, <1>f, PendingAfter DEF Going, DidConnectStep
<1>7. ASSUME NEW q \in Queues, NEW c \in Conns, DidDisconnectStep(q, c) PROVE Going'
  BY <1>7, <1>2, <1>f, PendingAfter DEF Going, DidDisconnectStep
<1>8. ASSUME NEW q \in Queues, NEW c \in Conns, DidReadStep(q, c) PROVE Going'
  BY <1>8, <1>2, <1>f, PendingAfter DEF Going, DidReadStep
<1>9. ASSUME NEW q \in Queues, NEW c \in Conns, HandOverStep(q, c) PROVE Going'
  BY <1>9, <1>2, <1>f, PendingAfter DEF Going, HandOverStep
<1>10. ASSUME NEW q \in Queues, NEW c \in Conns, ConnectedStep(q, c) PROVE Going'
  BY <1>10, <1>2, <1>f, PendingAfter DEF Going, ConnectedStep
<1>11. ASSUME NEW q \in Queues, NEW c \in Conns, MarkConnectedStep(q, c) PROVE Going'
  BY <1>11, <1>2, <1>f, PendingAfter DEF Going, MarkConnectedStep
<1>12. ASSUME NEW q \in Queues, NEW c \in Conns, ClosedStep(q, c) PROVE Going'
  BY <1>12, <1>2, <1>f, PendingAfter DEF Going, ClosedStep
<1>13. ASSUME NEW q \in Queues, NEW c \in Conns, ForgetStep(q, c) PROVE Going'
  BY <1>13, <1>2, <1>f, PendingAfter DEF Going, ForgetStep
<1>14. ASSUME NEW q \in Queues, NEW c \in Conns, UpStep(q, c) PROVE Going'
  BY <1>14, <1>2, <1>f, PendingAfter DEF Going, UpStep
<1>15. ASSUME NEW q \in Queues, NEW c \in Conns, DataStep(q, c) PROVE Going'
  BY <1>15, <1>2, <1>f, PendingAfter DEF Going, DataStep
<1>16. ASSUME NEW q \in Queues, StartStep(q) PROVE Going'
  BY <1>16, <1>2, <1>f, PendingAfter DEF Going, StartStep
<1>17. ASSUME NEW q \in Queues, CreateStep(q) PROVE Going'
  BY <1>17, <1>2, <1>f, PendingAfter DEF Going, CreateStep
<1>18. ASSUME NEW q \in Queues, NotifyDownStep(q) PROVE Going'
  BY <1>18, <1>2, <1>f, PendingAfter DEF Going, NotifyDownStep
<1>19. ASSUME NEW q \in Queues, RetryStep(q) PROVE Going'
  BY <1>19, <1>2, <1>f, PendingAfter DEF Going, RetryStep
<1>20. ASSUME NEW q \in Queues, TimerStep(q) PROVE Going'
  BY <1>20, <1>2, <1>f, PendingAfter DEF Going, TimerStep
<1>21. ASSUME NEW q \in Queues, RequestStep(q) PROVE Going'
  BY <1>21, <1>2, <1>f, PendingAfter DEF Going, RequestStep
<1>22. ASSUME NEW q \in Queues, ReconnectStep(q) PROVE Going'
  BY <1>22, <1>2, <1>f, PendingAfter DEF Going, ReconnectStep
<1>23. ASSUME NEW q \in Queues, StopStep(q) PROVE Going'
  BY <1>23, <1>2, <1>f, PendingAfter DEF Going, StopStep
<1>24. ASSUME NEW q \in Queues, DownStep(q) PROVE Going'
  BY <1>24, <1>2, <1>f, PendingAfter DEF Going, DownStep
<1>25. ASSUME NEW q \in Queues, AskStep(q) PROVE Going'
  BY <1>25, <1>2, <1>f, PendingAfter DEF Going, AskStep
<1>26. ASSUME AskedStep \/ FiresStep PROVE Going'
  BY <1>26, <1>2, <1>f, PendingAfter DEF Going, AskedStep, FiresStep
<1>27. ASSUME NEW c \in Conns, OutsideStep(c) PROVE Going'
  BY <1>27, <1>2, <1>f, PendingAfter DEF Going, OutsideStep, EstablishStep, BreakStep,
       ServerDataStep
<1> QED
  BY <1>1, <1>3, <1>4, <1>5, <1>6, <1>7, <1>8, <1>9, <1>10, <1>11, <1>12, <1>13, <1>14, <1>15,
       <1>16, <1>17, <1>18, <1>19, <1>20, <1>21, <1>22, <1>23, <1>24, <1>25, <1>26, <1>27
     DEF Step, SocketStep, ManagerStep, NetStep, PlainStep, NetPlainStep
-----------------------------------------------------------------------------
(* No stale data                                                            *)

\* The queue each action runs on.
LEMMA Where ==
    ASSUME Shape, NEW q \in Queues, NEW c \in Conns
    PROVE  /\ SocketStep(q, c) \/ ManagerStep(q, c) \/ PlainStep(q) => q \in {"nm", "conn"}
           /\ NetStep(q, c) \/ NetPlainStep(q) => q = "net"
           /\ ~ sharedKey /\ SocketStep(q, c) => q = "conn"
           /\ ~ sharedKey /\ (ManagerStep(q, c) \/ PlainStep(q)) => q = "nm"
<1>q. {"nm", "conn", "net"} = Queues
  BY DEF Queues
<1>f. \A op : F(op) = FC(op, None)
  BY FrameParts
<1>r. \A op, d : Has(q, FC(op, d)) =>
         \/ q = "net" /\ op \in NetOps
         \/ q = "conn" /\ (op \in SocketOps \cup EventOps \/ (sharedKey /\ op \in ManagerOps))
         \/ q = "nm" /\ (op \in ManagerOps \/ (sharedKey /\ op \in SocketOps))
  BY Shaped DEF Runs
<1>1. SocketStep(q, c) => \E op \in SocketOps \cup EventOps : Has(q, FC(op, c))
  BY <1>q, HasAfter
     DEF SocketStep, OpenStep, CloseStep, ShutStep, DidConnectStep, DidDisconnectStep, DidReadStep,
         HandOverStep, SocketOps, EventOps
<1>2. ManagerStep(q, c) => \E op \in ManagerOps : Has(q, FC(op, c))
  BY <1>q, HasAfter, HasAfterForget
     DEF ManagerStep, ConnectedStep, MarkConnectedStep, ClosedStep, ManagerOps
<1>3. PlainStep(q) => \E op \in ManagerOps : Has(q, FC(op, None))
  <2>1. CASE StartStep(q) \/ CreateStep(q) \/ NotifyDownStep(q) \/ RetryStep(q)
    BY <2>1, <1>q, <1>f, HasAfter DEF StartStep, CreateStep, NotifyDownStep, RetryStep, ManagerOps
  <2>2. CASE TimerStep(q) \/ RequestStep(q) \/ StopStep(q)
    BY <2>2, <1>q, <1>f, HasAfter DEF TimerStep, RequestStep, StopStep, ManagerOps
  <2>3. CASE ReconnectStep(q)
    BY <2>3, <1>f, HasAfterReconnect DEF ManagerOps
  <2> QED BY <2>1, <2>2, <2>3 DEF PlainStep
<1>4. NetStep(q, c) \/ NetPlainStep(q) => \E op \in NetOps : \E d : Has(q, FC(op, d))
  BY <1>q, <1>f, HasAfter DEF NetStep, NetPlainStep, UpStep, DataStep, DownStep, AskStep, NetOps
<1>6. /\ NetOps \cap (SocketOps \cup EventOps \cup ManagerOps) = {}
      /\ ManagerOps \cap (SocketOps \cup EventOps) = {} /\ EventOps \cap SocketOps = {}
  BY DEF NetOps, SocketOps, EventOps, ManagerOps
<1> QED BY <1>r, <1>1, <1>2, <1>3, <1>4, <1>6

LEMMA WhereEvents ==
    ASSUME Shape, NEW q \in Queues, NEW c \in Conns,
           DidConnectStep(q, c) \/ DidDisconnectStep(q, c) \/ DidReadStep(q, c) \/ HandOverStep(q, c)
    PROVE  q = "conn"
<1>1. PICK op \in EventOps : Has(q, FC(op, c))
  <2>1. {"nm", "conn", "net"} = Queues
    BY DEF Queues
  <2> QED BY <2>1, HasAfter DEF DidConnectStep, DidDisconnectStep, DidReadStep, HandOverStep, EventOps
<1>2. op \in Runs(q) /\ q \in {"nm", "conn", "net"}
  BY <1>1, Shaped
<1> QED BY <1>2 DEF Runs, NetOps, SocketOps, EventOps, ManagerOps

\* A frame that only runs in one piece is there first, or not at all.
LEMMA FirstAfter ==
    /\ \A q \in Queues : \A h, x : Ends(q, h) /\ First(x, work[q]) => ~ Has(q, x)' /\ First(x, work'[q])
    /\ \A q \in Queues : \A h, b, x : GoesOn(q, h, b) /\ First(x, work[q]) =>
          First(x, work'[q]) /\ (x # b => ~ Has(q, x)')
    /\ \A q, t \in Queues : \A h, b, x : Calls(q, h, t, b) /\ First(x, work[q]) =>
          ~ Has(q, x)' /\ First(x, work'[q])
    /\ \A q, t \in Queues : \A h, b, x : Calls(q, h, t, b) /\ First(x, work[t]) /\ x # b => First(x, work'[t])
    /\ \A t \in Queues : \A b, x : Enqueues(t, b) /\ First(x, work[t]) /\ x # b => First(x, work'[t])
    /\ \A q \in Queues : \A c, x :
          /\ ForgetStep(q, c) /\ First(x, work[q]) /\ x \notin {F("retry"), F("notifyDown")}
          => ~ Has(q, x)' /\ First(x, work'[q])
    /\ \A q \in Queues : \A x : ReconnectStep(q) /\ First(x, work[q]) =>
          First(x, work'[q]) /\ (x # F("stopCurrent") => ~ Has(q, x)')
<1>1. ASSUME NEW q \in Queues, NEW h, NEW x, Ends(q, h), First(x, work[q])
      PROVE  ~ Has(q, x)' /\ First(x, work'[q])
  BY <1>1 DEF Ends, Ended, Has
<1>2. ASSUME NEW q \in Queues, NEW h, NEW b, NEW x, GoesOn(q, h, b), First(x, work[q])
      PROVE  First(x, work'[q]) /\ (x # b => ~ Has(q, x)')
  BY <1>2 DEF GoesOn, Went, Has
<1>3. ASSUME NEW q \in Queues, NEW t \in Queues, NEW h, NEW b, NEW x, Calls(q, h, t, b)
      PROVE  /\ First(x, work[q]) => ~ Has(q, x)' /\ First(x, work'[q])
             /\ First(x, work[t]) /\ x # b => First(x, work'[t])
  BY <1>3 DEF Calls, Ended, Added, Has
<1>4. ASSUME NEW t \in Queues, NEW b, NEW x, Enqueues(t, b), First(x, work[t]), x # b
      PROVE  First(x, work'[t])
  BY <1>4 DEF Enqueues, Added
<1>5. ASSUME NEW q \in Queues, NEW c, NEW x, ForgetStep(q, c), First(x, work[q]),
             x \notin {F("retry"), F("notifyDown")}
      PROVE  ~ Has(q, x)' /\ First(x, work'[q])
  <2>1. PICK m : Went(work[q], FC("forget", c), F("notifyDown"), m) /\ Pushed(m, F("retry"), work'[q])
    BY <1>5 DEF ForgetStep
  <2>2. ~ In(x, m)
    BY <1>5, <2>1 DEF Went
  <2> QED BY <1>5, <2>1, <2>2 DEF Pushed, Has
<1>6. ASSUME NEW q \in Queues, NEW x, ReconnectStep(q), First(x, work[q])
      PROVE  First(x, work'[q]) /\ (x # F("stopCurrent") => ~ Has(q, x)')
  BY <1>6 DEF ReconnectStep, Went, Has
<1> QED BY <1>1, <1>2, <1>3, <1>4, <1>5, <1>6

\* The queues an action does not touch, and netQueue.
LEMMA OtherQueues ==
    /\ \A q \in Queues : \A h : Ends(q, h) => \A r \in Queues : r # q => work'[r] = work[r]
    /\ \A q \in Queues : \A h, b : GoesOn(q, h, b) => \A r \in Queues : r # q => work'[r] = work[r]
    /\ \A q, t \in Queues : \A h, b : Calls(q, h, t, b) =>
          t # q /\ \A r \in Queues : r # q /\ r # t => work'[r] = work[r]
    /\ \A t \in Queues : \A b : Enqueues(t, b) => \A r \in Queues : r # t => work'[r] = work[r]
    /\ \A q \in Queues : \A c : ForgetStep(q, c) => \A r \in Queues : r # q => work'[r] = work[r]
    /\ \A q \in Queues : ReconnectStep(q) =>
          q # "net" /\ \A r \in Queues : r # q /\ r # "net" => work'[r] = work[r]
BY DEF Ends, GoesOn, Calls, Enqueues, ForgetStep, ReconnectStep, Same
\* The order of two frames after a step.
LEMMA BeforeAfter ==
    /\ \A q \in Queues : \A h, x, y : Ends(q, h) /\ Before(x, y, work[q]) =>
          Before(x, y, work'[q]) /\ (y = h => ~ Has(q, x)')
    /\ \A q \in Queues : \A h, b, x, y : GoesOn(q, h, b) /\ Before(x, y, work[q]) =>
          /\ (y = b => ~ Has(q, x)') => Before(x, y, work'[q])
          /\ y = h /\ x # b => ~ Has(q, x)'
    /\ \A q, t \in Queues : \A h, b, x, y : Calls(q, h, t, b) =>
          /\ Before(x, y, work[q]) => Before(x, y, work'[q]) /\ (y = h => ~ Has(q, x)')
          /\ Before(x, y, work[t]) /\ (x = b => ~ Has(t, y)') => Before(x, y, work'[t])
    /\ \A t \in Queues : \A b, x, y :
          Enqueues(t, b) /\ Before(x, y, work[t]) /\ (x = b => ~ Has(t, y)') => Before(x, y, work'[t])
    /\ \A q \in Queues : \A x, y :
          /\ ReconnectStep(q) /\ Before(x, y, work["net"]) /\ (x = F("down") => ~ Has("net", y)')
          => Before(x, y, work'["net"])
<1>1. ASSUME NEW q \in Queues, NEW h, NEW x, NEW y, Ends(q, h), Before(x, y, work[q])
      PROVE  Before(x, y, work'[q]) /\ (y = h => ~ Has(q, x)')
  BY <1>1 DEF Ends, Ended, Has
<1>2. ASSUME NEW q \in Queues, NEW h, NEW b, NEW x, NEW y, GoesOn(q, h, b), Before(x, y, work[q])
      PROVE  /\ (y = b => ~ Has(q, x)') => Before(x, y, work'[q])
             /\ y = h /\ x # b => ~ Has(q, x)'
  BY <1>2 DEF GoesOn, Went, Has
<1>3. ASSUME NEW q \in Queues, NEW t \in Queues, NEW h, NEW b, NEW x, NEW y, Calls(q, h, t, b)
      PROVE  /\ Before(x, y, work[q]) => Before(x, y, work'[q]) /\ (y = h => ~ Has(q, x)')
             /\ Before(x, y, work[t]) /\ (x = b => ~ Has(t, y)') => Before(x, y, work'[t])
  BY <1>3 DEF Calls, Ended, Added, Has
<1>4. ASSUME NEW t \in Queues, NEW b, NEW x, NEW y, Enqueues(t, b), Before(x, y, work[t]),
             x = b => ~ Has(t, y)'
      PROVE  Before(x, y, work'[t])
  BY <1>4 DEF Enqueues, Added, Has
<1>5. ASSUME NEW q \in Queues, NEW x, NEW y, ReconnectStep(q), Before(x, y, work["net"]),
             x = F("down") => ~ Has("net", y)'
      PROVE  Before(x, y, work'["net"])
  BY <1>5 DEF ReconnectStep, Added, Has
<1> QED BY <1>1, <1>2, <1>3, <1>4, <1>5

LEMMA DataKept ==
    ASSUME Shape, Data, Next
    PROVE  Data'
<1>1. Step
  BY StepOf
<1>2. /\ conn \in {None, created} /\ created \in Nat /\ session \in Nat /\ session <= created
      /\ \A c \in Conns : c \in Nat /\ c # None
      /\ Queues = {"nm", "conn", "net"}
  BY BoundsAssumption DEF Shape, TypeOK, None, Conns, Queues
<1>f. /\ \A op : F(op) = FC(op, None)
      /\ \A x, y, c, d : FC(x, c) = FC(y, d) => x = y /\ c = d
  BY FrameParts
<1>o. ~ IsOwn("net", "nm")
  BY DEF IsOwn
<1>p. \A d \in Conns, q \in Queues :
         Has(q, FC("up", d)) \/ Has(q, FC("connected", d)) \/ Has(q, FC("markConnected", d)) => d <= created
  BY Shaped
<1>w. \A q \in Queues, c \in Conns :
         /\ SocketStep(q, c) \/ ManagerStep(q, c) \/ PlainStep(q) => q \in {"nm", "conn"}
         /\ NetStep(q, c) \/ NetPlainStep(q) => q = "net"
  BY Where
<1>e. ASSUME NEW q \in Queues, NEW c \in Conns,
             DidConnectStep(q, c) \/ DidDisconnectStep(q, c) \/ DidReadStep(q, c) \/ HandOverStep(q, c)
      PROVE  q = "conn"
  BY <1>e, WhereEvents
<1>c. 1 \in Conns
  BY BoundsAssumption DEF Conns
<1> USE DEF manager, sockets, app
<1>3. ASSUME NEW q \in Queues, NEW c \in Conns, OpenStep(q, c) PROVE Data'
  <2>1. q \in {"nm", "conn"}
    BY <1>3, <1>w, <1>c DEF SocketStep
  <2>2. \A e \in Conns : First(FC("handOver", e), work'["conn"])
    BY <1>3, <2>1, <1>2, <1>f, <1>o, FirstAfter, OtherQueues DEF Data, OpenStep, Passes
  <2>3. \A e, d \in Conns : d > e => Before(FC("data", e), FC("up", d), work'["net"])
    BY <1>3, <2>1, <1>2, <1>f, <1>o, HasAfter, BeforeAfter, OtherQueues DEF Data, HandedOver,
         OpenStep, Passes
  <2>4. ASSUME NEW e \in Conns, Has("conn", FC("handOver", e))' PROVE HandedOver(e)'
    BY <1>3, <2>1, <2>4, <1>2, <1>f, <1>o, <1>p, HasAfter DEF Data, HandedOver, Pending, OpenStep
  <2>5. ASSUME NEW e \in Conns, Has("net", FC("data", e))' PROVE session' <= e
    BY <1>3, <2>1, <2>5, <1>2, <1>f, <1>o, HasAfter DEF Data, HandedOver, OpenStep
  <2> QED BY <2>2, <2>3, <2>4, <2>5 DEF Data
<1>4. ASSUME NEW q \in Queues, NEW c \in Conns, CloseStep(q, c) PROVE Data'
  <2>1. q \in {"nm", "conn"}
    BY <1>4, <1>w, <1>c DEF SocketStep
  <2>2. \A e \in Conns : First(FC("handOver", e), work'["conn"])
    BY <1>4, <2>1, <1>2, <1>f, <1>o, FirstAfter, OtherQueues DEF Data, CloseStep, Passes
  <2>3. \A e, d \in Conns : d > e => Before(FC("data", e), FC("up", d), work'["net"])
    BY <1>4, <2>1, <1>2, <1>f, <1>o, HasAfter, BeforeAfter, OtherQueues DEF Data, HandedOver,
         CloseStep, Passes
  <2>4. ASSUME NEW e \in Conns, Has("conn", FC("handOver", e))' PROVE HandedOver(e)'
    BY <1>4, <2>1, <2>4, <1>2, <1>f, <1>o, <1>p, HasAfter DEF Data, HandedOver, Pending, CloseStep
  <2>5. ASSUME NEW e \in Conns, Has("net", FC("data", e))' PROVE session' <= e
    BY <1>4, <2>1, <2>5, <1>2, <1>f, <1>o, HasAfter DEF Data, HandedOver, CloseStep
  <2> QED BY <2>2, <2>3, <2>4, <2>5 DEF Data
<1>5. ASSUME NEW q \in Queues, NEW c \in Conns, ShutStep(q, c) PROVE Data'
  <2>1. q \in {"nm", "conn"}
    BY <1>5, <1>w, <1>c DEF SocketStep
  <2>2. \A e \in Conns : First(FC("handOver", e), work'["conn"])
    BY <1>5, <2>1, <1>2, <1>f, <1>o, FirstAfter, OtherQueues DEF Data, ShutStep, Passes
  <2>3. \A e, d \in Conns : d > e => Before(FC("data", e), FC("up", d), work'["net"])
    BY <1>5, <2>1, <1>2, <1>f, <1>o, HasAfter, BeforeAfter, OtherQueues DEF Data, HandedOver,
         ShutStep, Passes
  <2>4. ASSUME NEW e \in Conns, Has("conn", FC("handOver", e))' PROVE HandedOver(e)'
    BY <1>5, <2>1, <2>4, <1>2, <1>f, <1>o, <1>p, HasAfter DEF Data, HandedOver, Pending, ShutStep
  <2>5. ASSUME NEW e \in Conns, Has("net", FC("data", e))' PROVE session' <= e
    BY <1>5, <2>1, <2>5, <1>2, <1>f, <1>o, HasAfter DEF Data, HandedOver, ShutStep
  <2> QED BY <2>2, <2>3, <2>4, <2>5 DEF Data
<1>6. ASSUME NEW q \in Queues, NEW c \in Conns, DidConnectStep(q, c) PROVE Data'
  <2>1. q = "conn"
    BY <1>6, <1>e
  <2>2. \A e \in Conns : First(FC("handOver", e), work'["conn"])
    BY <1>6, <2>1, <1>2, <1>f, <1>o, FirstAfter, OtherQueues DEF Data, DidConnectStep, Passes
  <2>3. \A e, d \in Conns : d > e => Before(FC("data", e), FC("up", d), work'["net"])
    BY <1>6, <2>1, <1>2, <1>f, <1>o, HasAfter, BeforeAfter, OtherQueues DEF Data, HandedOver,
         DidConnectStep, Passes
  <2>4. ASSUME NEW e \in Conns, Has("conn", FC("handOver", e))' PROVE HandedOver(e)'
    <3>1. First(FC("handOver", e), work[q])
      BY <2>1 DEF Data
    <3>2. ~ Has(q, FC("handOver", e))'
      BY <1>6, <3>1, <1>2, <1>f, FirstAfter DEF DidConnectStep, Passes
    <3> QED BY <2>1, <2>4, <3>2
  <2>5. ASSUME NEW e \in Conns, Has("net", FC("data", e))' PROVE session' <= e
    BY <1>6, <2>1, <2>5, <1>2, <1>f, <1>o, HasAfter DEF Data, HandedOver, DidConnectStep
  <2> QED BY <2>2, <2>3, <2>4, <2>5 DEF Data
<1>7. ASSUME NEW q \in Queues, NEW c \in Conns, DidDisconnectStep(q, c) PROVE Data'
  <2>1. q = "conn"
    BY <1>7, <1>e
  <2>2. \A e \in Conns : First(FC("handOver", e), work'["conn"])
    BY <1>7, <2>1, <1>2, <1>f, <1>o, FirstAfter, OtherQueues DEF Data, DidDisconnectStep, Passes
  <2>3. \A e, d \in Conns : d > e => Before(FC("data", e), FC("up", d), work'["net"])
    BY <1>7, <2>1, <1>2, <1>f, <1>o, HasAfter, BeforeAfter, OtherQueues DEF Data, HandedOver,
         DidDisconnectStep, Passes
  <2>4. ASSUME NEW e \in Conns, Has("conn", FC("handOver", e))' PROVE HandedOver(e)'
    BY <1>7, <2>1, <2>4, <1>2, <1>f, <1>o, <1>p, HasAfter DEF Data, HandedOver, Pending,
         DidDisconnectStep
  <2>5. ASSUME NEW e \in Conns, Has("net", FC("data", e))' PROVE session' <= e
    BY <1>7, <2>1, <2>5, <1>2, <1>f, <1>o, HasAfter DEF Data, HandedOver, DidDisconnectStep
  <2> QED BY <2>2, <2>3, <2>4, <2>5 DEF Data
<1>8. ASSUME NEW q \in Queues, NEW c \in Conns, DidReadStep(q, c) PROVE Data'
  <2>1. q = "conn"
    BY <1>8, <1>e
  <2>2. \A e \in Conns : First(FC("handOver", e), work'["conn"])
    BY <1>8, <2>1, <1>2, <1>f, <1>o, FirstAfter, OtherQueues DEF Data, DidReadStep, Passes
  <2>3. \A e, d \in Conns : d > e => Before(FC("data", e), FC("up", d), work'["net"])
    BY <1>8, <2>1, <1>2, <1>f, <1>o, HasAfter, BeforeAfter, OtherQueues DEF Data, HandedOver,
         DidReadStep, Passes
  <2>4. ASSUME NEW e \in Conns, Has("conn", FC("handOver", e))' PROVE HandedOver(e)'
    BY <1>8, <2>1, <2>4, <1>2, <1>f, <1>o, <1>p, HasAfter DEF Data, HandedOver, Pending, DidReadStep
  <2>5. ASSUME NEW e \in Conns, Has("net", FC("data", e))' PROVE session' <= e
    BY <1>8, <2>1, <2>5, <1>2, <1>f, <1>o, HasAfter DEF Data, HandedOver, DidReadStep
  <2> QED BY <2>2, <2>3, <2>4, <2>5 DEF Data
<1>9. ASSUME NEW q \in Queues, NEW c \in Conns, HandOverStep(q, c) PROVE Data'
  <2>1. q = "conn"
    BY <1>9, <1>e
  <2>2. \A e \in Conns : First(FC("handOver", e), work'["conn"])
    BY <1>9, <2>1, <1>2, <1>f, <1>o, FirstAfter, OtherQueues DEF Data, HandOverStep, Passes
  <2>3. \A e, d \in Conns : d > e => Before(FC("data", e), FC("up", d), work'["net"])
    BY <1>9, <2>1, <1>2, <1>f, <1>o, HasAfter, BeforeAfter, OtherQueues DEF Data, HandedOver,
         HandOverStep, Passes
  <2>4. ASSUME NEW e \in Conns, Has("conn", FC("handOver", e))' PROVE HandedOver(e)'
    BY <1>9, <2>1, <2>4, <1>2, <1>f, <1>o, <1>p, HasAfter DEF Data, HandedOver, Pending,
         HandOverStep
  <2>5. ASSUME NEW e \in Conns, Has("net", FC("data", e))' PROVE session' <= e
    BY <1>9, <2>1, <2>5, <1>2, <1>f, <1>o, HasAfter DEF Data, HandedOver, HandOverStep
  <2> QED BY <2>2, <2>3, <2>4, <2>5 DEF Data
<1>10. ASSUME NEW q \in Queues, NEW c \in Conns, ConnectedStep(q, c) PROVE Data'
  <2>1. q \in {"nm", "conn"}
    BY <1>10, <1>w, <1>c DEF ManagerStep
  <2>2. \A e \in Conns : First(FC("handOver", e), work'["conn"])
    BY <1>10, <2>1, <1>2, <1>f, <1>o, FirstAfter, OtherQueues DEF Data, ConnectedStep, Passes
  <2>3. \A e, d \in Conns : d > e => Before(FC("data", e), FC("up", d), work'["net"])
    BY <1>10, <2>1, <1>2, <1>f, <1>o, HasAfter, BeforeAfter, OtherQueues DEF Data, HandedOver,
         ConnectedStep, Passes
  <2>4. ASSUME NEW e \in Conns, Has("conn", FC("handOver", e))' PROVE HandedOver(e)'
    BY <1>10, <2>1, <2>4, <1>2, <1>f, <1>o, <1>p, HasAfter DEF Data, HandedOver, Pending,
         ConnectedStep
  <2>5. ASSUME NEW e \in Conns, Has("net", FC("data", e))' PROVE session' <= e
    BY <1>10, <2>1, <2>5, <1>2, <1>f, <1>o, HasAfter DEF Data, HandedOver, ConnectedStep
  <2> QED BY <2>2, <2>3, <2>4, <2>5 DEF Data
<1>11. ASSUME NEW q \in Queues, NEW c \in Conns, MarkConnectedStep(q, c) PROVE Data'
  <2>1. q \in {"nm", "conn"}
    BY <1>11, <1>w, <1>c DEF ManagerStep
  <2>2. \A e \in Conns : First(FC("handOver", e), work'["conn"])
    BY <1>11, <2>1, <1>2, <1>f, <1>o, FirstAfter, OtherQueues DEF Data, MarkConnectedStep, Passes
  <2>3. \A e, d \in Conns : d > e => Before(FC("data", e), FC("up", d), work'["net"])
    <3> TAKE e, d \in Conns
    <3>1. Before(FC("data", e), FC("up", d), work["net"]) \/ ~ d > e
      BY DEF Data
    <3>2. Calls(q, FC("markConnected", c), "net", FC("up", c)) /\ FC("data", e) # FC("up", c)
      BY <1>11, <1>f DEF MarkConnectedStep
    <3> QED BY <3>1, <3>2, <1>2, BeforeAfter
  <2>4. ASSUME NEW e \in Conns, Has("conn", FC("handOver", e))' PROVE HandedOver(e)'
    BY <1>11, <2>1, <2>4, <1>2, <1>f, <1>o, <1>p, HasAfter DEF Data, HandedOver, Pending,
         MarkConnectedStep
  <2>5. ASSUME NEW e \in Conns, Has("net", FC("data", e))' PROVE session' <= e
    BY <1>11, <2>1, <2>5, <1>2, <1>f, <1>o, HasAfter DEF Data, HandedOver, MarkConnectedStep
  <2> QED BY <2>2, <2>3, <2>4, <2>5 DEF Data
<1>12. ASSUME NEW q \in Queues, NEW c \in Conns, ClosedStep(q, c) PROVE Data'
  <2>1. q \in {"nm", "conn"}
    BY <1>12, <1>w, <1>c DEF ManagerStep
  <2>2. \A e \in Conns : First(FC("handOver", e), work'["conn"])
    BY <1>12, <2>1, <1>2, <1>f, <1>o, FirstAfter, OtherQueues DEF Data, ClosedStep, Passes
  <2>3. \A e, d \in Conns : d > e => Before(FC("data", e), FC("up", d), work'["net"])
    BY <1>12, <2>1, <1>2, <1>f, <1>o, HasAfter, BeforeAfter, OtherQueues DEF Data, HandedOver,
         ClosedStep, Passes
  <2>4. ASSUME NEW e \in Conns, Has("conn", FC("handOver", e))' PROVE HandedOver(e)'
    BY <1>12, <2>1, <2>4, <1>2, <1>f, <1>o, <1>p, HasAfter DEF Data, HandedOver, Pending, ClosedStep
  <2>5. ASSUME NEW e \in Conns, Has("net", FC("data", e))' PROVE session' <= e
    BY <1>12, <2>1, <2>5, <1>2, <1>f, <1>o, HasAfter DEF Data, HandedOver, ClosedStep
  <2> QED BY <2>2, <2>3, <2>4, <2>5 DEF Data
<1>13. ASSUME NEW q \in Queues, NEW c \in Conns, ForgetStep(q, c) PROVE Data'
  <2>1. q \in {"nm", "conn"} /\ session' = session
    BY <1>13, <1>w, <1>c DEF ManagerStep, ForgetStep
  <2>2. \A e \in Conns : First(FC("handOver", e), work'["conn"])
    BY <1>13, <2>1, <1>2, <1>f, FirstAfter, OtherQueues DEF Data
  <2>3. \A e, d \in Conns : d > e => Before(FC("data", e), FC("up", d), work'["net"])
    BY <1>13, <2>1, <1>2, <1>f, OtherQueues DEF Data
  <2>4. ASSUME NEW e \in Conns, Has("conn", FC("handOver", e))' PROVE HandedOver(e)'
    BY <1>13, <2>1, <2>4, <1>2, <1>f, HasAfterForget DEF Data, HandedOver, Pending
  <2>5. ASSUME NEW e \in Conns, Has("net", FC("data", e))' PROVE session' <= e
    BY <1>13, <2>1, <2>5, <1>2, <1>f, HasAfterForget DEF Data
  <2> QED BY <2>2, <2>3, <2>4, <2>5 DEF Data
<1>14. ASSUME NEW q \in Queues, NEW c \in Conns, UpStep(q, c) PROVE Data'
  <2>1. q = "net"
    BY <1>14, <1>w, <1>c DEF NetStep
  <2>2. \A e \in Conns : First(FC("handOver", e), work'["conn"])
    BY <1>14, <2>1, <1>2, <1>f, <1>o, FirstAfter, OtherQueues DEF Data, UpStep, Passes
  <2>3. \A e, d \in Conns : d > e => Before(FC("data", e), FC("up", d), work'["net"])
    BY <1>14, <2>1, <1>2, <1>f, <1>o, HasAfter, BeforeAfter, OtherQueues DEF Data, HandedOver,
         UpStep, Passes
  <2>4. ASSUME NEW e \in Conns, Has("conn", FC("handOver", e))' PROVE HandedOver(e)'
    BY <1>14, <2>1, <2>4, <1>2, <1>f, <1>o, <1>p, HasAfter DEF Data, HandedOver, Pending, UpStep
  <2>5. ASSUME NEW e \in Conns, Has("net", FC("data", e))' PROVE session' <= e
    <3>1. CASE isConnected \/ c <= e
      BY <1>14, <2>1, <2>5, <3>1, <1>2, HasAfter DEF Data, UpStep
    <3>2. CASE c > e
      <4>1. Before(FC("data", e), FC("up", c), work["net"]) /\ Ends("net", FC("up", c))
        BY <1>14, <2>1, <3>2 DEF Data, UpStep
      <4> QED BY <2>5, <4>1, <1>2, BeforeAfter
    <3> QED BY <3>1, <3>2, <1>2
  <2> QED BY <2>2, <2>3, <2>4, <2>5 DEF Data
<1>15. ASSUME NEW q \in Queues, NEW c \in Conns, DataStep(q, c) PROVE Data'
  <2>1. q = "net"
    BY <1>15, <1>w, <1>c DEF NetStep
  <2>2. \A e \in Conns : First(FC("handOver", e), work'["conn"])
    BY <1>15, <2>1, <1>2, <1>f, <1>o, FirstAfter, OtherQueues DEF Data, DataStep, Passes
  <2>3. \A e, d \in Conns : d > e => Before(FC("data", e), FC("up", d), work'["net"])
    BY <1>15, <2>1, <1>2, <1>f, <1>o, HasAfter, BeforeAfter, OtherQueues DEF Data, HandedOver,
         DataStep, Passes
  <2>4. ASSUME NEW e \in Conns, Has("conn", FC("handOver", e))' PROVE HandedOver(e)'
    BY <1>15, <2>1, <2>4, <1>2, <1>f, <1>o, <1>p, HasAfter DEF Data, HandedOver, Pending, DataStep
  <2>5. ASSUME NEW e \in Conns, Has("net", FC("data", e))' PROVE session' <= e
    BY <1>15, <2>1, <2>5, <1>2, <1>f, <1>o, HasAfter DEF Data, HandedOver, DataStep
  <2> QED BY <2>2, <2>3, <2>4, <2>5 DEF Data
<1>16. ASSUME NEW q \in Queues, StartStep(q) PROVE Data'
  <2>1. q \in {"nm", "conn"}
    BY <1>16, <1>w, <1>c DEF PlainStep
  <2>2. \A e \in Conns : First(FC("handOver", e), work'["conn"])
    BY <1>16, <2>1, <1>2, <1>f, <1>o, FirstAfter, OtherQueues DEF Data, StartStep, Passes
  <2>3. \A e, d \in Conns : d > e => Before(FC("data", e), FC("up", d), work'["net"])
    BY <1>16, <2>1, <1>2, <1>f, <1>o, HasAfter, BeforeAfter, OtherQueues DEF Data, HandedOver,
         StartStep, Passes
  <2>4. ASSUME NEW e \in Conns, Has("conn", FC("handOver", e))' PROVE HandedOver(e)'
    BY <1>16, <2>1, <2>4, <1>2, <1>f, <1>o, <1>p, HasAfter DEF Data, HandedOver, Pending, StartStep
  <2>5. ASSUME NEW e \in Conns, Has("net", FC("data", e))' PROVE session' <= e
    BY <1>16, <2>1, <2>5, <1>2, <1>f, <1>o, HasAfter DEF Data, HandedOver, StartStep
  <2> QED BY <2>2, <2>3, <2>4, <2>5 DEF Data
<1>17. ASSUME NEW q \in Queues, CreateStep(q) PROVE Data'
  <2>1. q \in {"nm", "conn"}
    BY <1>17, <1>w, <1>c DEF PlainStep
  <2>2. \A e \in Conns : First(FC("handOver", e), work'["conn"])
    BY <1>17, <2>1, <1>2, <1>f, <1>o, FirstAfter, OtherQueues DEF Data, CreateStep, Passes
  <2>3. \A e, d \in Conns : d > e => Before(FC("data", e), FC("up", d), work'["net"])
    BY <1>17, <2>1, <1>2, <1>f, <1>o, HasAfter, BeforeAfter, OtherQueues DEF Data, HandedOver,
         CreateStep, Passes
  <2>4. ASSUME NEW e \in Conns, Has("conn", FC("handOver", e))' PROVE HandedOver(e)'
    BY <1>17, <2>1, <2>4, <1>2, <1>f, <1>o, <1>p, HasAfter DEF Data, HandedOver, Pending, CreateStep
  <2>5. ASSUME NEW e \in Conns, Has("net", FC("data", e))' PROVE session' <= e
    BY <1>17, <2>1, <2>5, <1>2, <1>f, <1>o, HasAfter DEF Data, HandedOver, CreateStep
  <2> QED BY <2>2, <2>3, <2>4, <2>5 DEF Data
<1>18. ASSUME NEW q \in Queues, NotifyDownStep(q) PROVE Data'
  <2>1. q \in {"nm", "conn"}
    BY <1>18, <1>w, <1>c DEF PlainStep
  <2>2. \A e \in Conns : First(FC("handOver", e), work'["conn"])
    BY <1>18, <2>1, <1>2, <1>f, <1>o, FirstAfter, OtherQueues DEF Data, NotifyDownStep, Passes
  <2>3. \A e, d \in Conns : d > e => Before(FC("data", e), FC("up", d), work'["net"])
    <3>1. Calls(q, F("notifyDown"), "net", F("down"))
      BY <1>18 DEF NotifyDownStep
    <3>2. \A e \in Conns : F("down") # FC("data", e)
      BY <1>f
    <3> QED BY <3>1, <3>2, <1>2, BeforeAfter DEF Data
  <2>4. ASSUME NEW e \in Conns, Has("conn", FC("handOver", e))' PROVE HandedOver(e)'
    BY <1>18, <2>1, <2>4, <1>2, <1>f, <1>o, <1>p, HasAfter DEF Data, HandedOver, Pending,
         NotifyDownStep
  <2>5. ASSUME NEW e \in Conns, Has("net", FC("data", e))' PROVE session' <= e
    BY <1>18, <2>1, <2>5, <1>2, <1>f, <1>o, HasAfter DEF Data, HandedOver, NotifyDownStep
  <2> QED BY <2>2, <2>3, <2>4, <2>5 DEF Data
<1>19. ASSUME NEW q \in Queues, RetryStep(q) PROVE Data'
  <2>1. q \in {"nm", "conn"}
    BY <1>19, <1>w, <1>c DEF PlainStep
  <2>2. \A e \in Conns : First(FC("handOver", e), work'["conn"])
    BY <1>19, <2>1, <1>2, <1>f, <1>o, FirstAfter, OtherQueues DEF Data, RetryStep, Passes
  <2>3. \A e, d \in Conns : d > e => Before(FC("data", e), FC("up", d), work'["net"])
    BY <1>19, <2>1, <1>2, <1>f, <1>o, HasAfter, BeforeAfter, OtherQueues DEF Data, HandedOver,
         RetryStep, Passes
  <2>4. ASSUME NEW e \in Conns, Has("conn", FC("handOver", e))' PROVE HandedOver(e)'
    BY <1>19, <2>1, <2>4, <1>2, <1>f, <1>o, <1>p, HasAfter DEF Data, HandedOver, Pending, RetryStep
  <2>5. ASSUME NEW e \in Conns, Has("net", FC("data", e))' PROVE session' <= e
    BY <1>19, <2>1, <2>5, <1>2, <1>f, <1>o, HasAfter DEF Data, HandedOver, RetryStep
  <2> QED BY <2>2, <2>3, <2>4, <2>5 DEF Data
<1>20. ASSUME NEW q \in Queues, TimerStep(q) PROVE Data'
  <2>1. q \in {"nm", "conn"}
    BY <1>20, <1>w, <1>c DEF PlainStep
  <2>2. \A e \in Conns : First(FC("handOver", e), work'["conn"])
    BY <1>20, <2>1, <1>2, <1>f, <1>o, FirstAfter, OtherQueues DEF Data, TimerStep, Passes
  <2>3. \A e, d \in Conns : d > e => Before(FC("data", e), FC("up", d), work'["net"])
    BY <1>20, <2>1, <1>2, <1>f, <1>o, HasAfter, BeforeAfter, OtherQueues DEF Data, HandedOver,
         TimerStep, Passes
  <2>4. ASSUME NEW e \in Conns, Has("conn", FC("handOver", e))' PROVE HandedOver(e)'
    BY <1>20, <2>1, <2>4, <1>2, <1>f, <1>o, <1>p, HasAfter DEF Data, HandedOver, Pending, TimerStep
  <2>5. ASSUME NEW e \in Conns, Has("net", FC("data", e))' PROVE session' <= e
    BY <1>20, <2>1, <2>5, <1>2, <1>f, <1>o, HasAfter DEF Data, HandedOver, TimerStep
  <2> QED BY <2>2, <2>3, <2>4, <2>5 DEF Data
<1>21. ASSUME NEW q \in Queues, RequestStep(q) PROVE Data'
  <2>1. q \in {"nm", "conn"}
    BY <1>21, <1>w, <1>c DEF PlainStep
  <2>2. \A e \in Conns : First(FC("handOver", e), work'["conn"])
    BY <1>21, <2>1, <1>2, <1>f, <1>o, FirstAfter, OtherQueues DEF Data, RequestStep, Passes
  <2>3. \A e, d \in Conns : d > e => Before(FC("data", e), FC("up", d), work'["net"])
    BY <1>21, <2>1, <1>2, <1>f, <1>o, HasAfter, BeforeAfter, OtherQueues DEF Data, HandedOver,
         RequestStep, Passes
  <2>4. ASSUME NEW e \in Conns, Has("conn", FC("handOver", e))' PROVE HandedOver(e)'
    BY <1>21, <2>1, <2>4, <1>2, <1>f, <1>o, <1>p, HasAfter DEF Data, HandedOver, Pending,
         RequestStep
  <2>5. ASSUME NEW e \in Conns, Has("net", FC("data", e))' PROVE session' <= e
    BY <1>21, <2>1, <2>5, <1>2, <1>f, <1>o, HasAfter DEF Data, HandedOver, RequestStep
  <2> QED BY <2>2, <2>3, <2>4, <2>5 DEF Data
<1>22. ASSUME NEW q \in Queues, ReconnectStep(q) PROVE Data'
  <2>1. q \in {"nm", "conn"} /\ session' = session
    BY <1>22, <1>w, <1>c DEF PlainStep, ReconnectStep
  <2>2. \A e \in Conns : First(FC("handOver", e), work'["conn"])
    BY <1>22, <2>1, <1>2, <1>f, FirstAfter, OtherQueues DEF Data
  <2>3. \A e, d \in Conns : d > e => Before(FC("data", e), FC("up", d), work'["net"])
    BY <1>22, <2>1, <1>2, <1>f, BeforeAfter, OtherQueues DEF Data
  <2>4. ASSUME NEW e \in Conns, Has("conn", FC("handOver", e))' PROVE HandedOver(e)'
    BY <1>22, <2>1, <2>4, <1>2, <1>f, HasAfterReconnect DEF Data, HandedOver, Pending
  <2>5. ASSUME NEW e \in Conns, Has("net", FC("data", e))' PROVE session' <= e
    BY <1>22, <2>1, <2>5, <1>2, <1>f, HasAfterReconnect DEF Data
  <2> QED BY <2>2, <2>3, <2>4, <2>5 DEF Data
<1>23. ASSUME NEW q \in Queues, StopStep(q) PROVE Data'
  <2>1. q \in {"nm", "conn"}
    BY <1>23, <1>w, <1>c DEF PlainStep
  <2>2. \A e \in Conns : First(FC("handOver", e), work'["conn"])
    BY <1>23, <2>1, <1>2, <1>f, <1>o, FirstAfter, OtherQueues DEF Data, StopStep, Passes
  <2>3. \A e, d \in Conns : d > e => Before(FC("data", e), FC("up", d), work'["net"])
    BY <1>23, <2>1, <1>2, <1>f, <1>o, HasAfter, BeforeAfter, OtherQueues DEF Data, HandedOver,
         StopStep, Passes
  <2>4. ASSUME NEW e \in Conns, Has("conn", FC("handOver", e))' PROVE HandedOver(e)'
    BY <1>23, <2>1, <2>4, <1>2, <1>f, <1>o, <1>p, HasAfter DEF Data, HandedOver, Pending, StopStep
  <2>5. ASSUME NEW e \in Conns, Has("net", FC("data", e))' PROVE session' <= e
    BY <1>23, <2>1, <2>5, <1>2, <1>f, <1>o, HasAfter DEF Data, HandedOver, StopStep
  <2> QED BY <2>2, <2>3, <2>4, <2>5 DEF Data
<1>24. ASSUME NEW q \in Queues, DownStep(q) PROVE Data'
  <2>1. q = "net"
    BY <1>24, <1>w, <1>c DEF NetPlainStep
  <2>2. \A e \in Conns : First(FC("handOver", e), work'["conn"])
    BY <1>24, <2>1, <1>2, <1>f, <1>o, FirstAfter, OtherQueues DEF Data, DownStep, Passes
  <2>3. \A e, d \in Conns : d > e => Before(FC("data", e), FC("up", d), work'["net"])
    BY <1>24, <2>1, <1>2, <1>f, <1>o, HasAfter, BeforeAfter, OtherQueues DEF Data, HandedOver,
         DownStep, Passes
  <2>4. ASSUME NEW e \in Conns, Has("conn", FC("handOver", e))' PROVE HandedOver(e)'
    BY <1>24, <2>1, <2>4, <1>2, <1>f, <1>o, <1>p, HasAfter DEF Data, HandedOver, Pending, DownStep
  <2>5. ASSUME NEW e \in Conns, Has("net", FC("data", e))' PROVE session' <= e
    BY <1>24, <2>1, <2>5, <1>2, <1>f, <1>o, HasAfter DEF Data, HandedOver, DownStep
  <2> QED BY <2>2, <2>3, <2>4, <2>5 DEF Data
<1>25. ASSUME NEW q \in Queues, AskStep(q) PROVE Data'
  <2>1. q = "net"
    BY <1>25, <1>w, <1>c DEF NetPlainStep
  <2>2. \A e \in Conns : First(FC("handOver", e), work'["conn"])
    BY <1>25, <2>1, <1>2, <1>f, <1>o, FirstAfter, OtherQueues DEF Data, AskStep, Passes
  <2>3. \A e, d \in Conns : d > e => Before(FC("data", e), FC("up", d), work'["net"])
    BY <1>25, <2>1, <1>2, <1>f, <1>o, HasAfter, BeforeAfter, OtherQueues DEF Data, HandedOver,
         AskStep, Passes
  <2>4. ASSUME NEW e \in Conns, Has("conn", FC("handOver", e))' PROVE HandedOver(e)'
    BY <1>25, <2>1, <2>4, <1>2, <1>f, <1>o, <1>p, HasAfter DEF Data, HandedOver, Pending, AskStep
  <2>5. ASSUME NEW e \in Conns, Has("net", FC("data", e))' PROVE session' <= e
    BY <1>25, <2>1, <2>5, <1>2, <1>f, <1>o, HasAfter DEF Data, HandedOver, AskStep
  <2> QED BY <2>2, <2>3, <2>4, <2>5 DEF Data
<1>26. ASSUME AskedStep \/ FiresStep PROVE Data'
  BY <1>26, <1>2, <1>f, HasAfter, FirstAfter, BeforeAfter, OtherQueues
     DEF Data, HandedOver, Pending, AskedStep, FiresStep
<1>27. ASSUME NEW c \in Conns, OutsideStep(c) PROVE Data'
  BY <1>27, <1>2, <1>f, HasAfter, FirstAfter, OtherQueues
     DEF Data, HandedOver, Pending, OutsideStep, EstablishStep, BreakStep, ServerDataStep
<1> QED
  BY <1>1, <1>3, <1>4, <1>5, <1>6, <1>7, <1>8, <1>9, <1>10, <1>11, <1>12, <1>13, <1>14, <1>15,
       <1>16, <1>17, <1>18, <1>19, <1>20, <1>21, <1>22, <1>23, <1>24, <1>25, <1>26, <1>27
     DEF Step, SocketStep, ManagerStep, NetStep, PlainStep, NetPlainStep
-----------------------------------------------------------------------------
(* What holds when the two connection queues exclude each other             *)

\* Tests and what is done on the strength of them run in one piece.
Heads ==
    /\ First(F("create"), work["nm"]) /\ First(F("stopCurrent"), work["nm"])
    /\ \A c \in Conns : /\ First(FC("forget", c), work["nm"])
                        /\ First(FC("markConnected", c), work["nm"])
                        /\ First(FC("shut", c), work["conn"])

\* A connection has its socket while it is the current one, and opens it before
\* anything else happens to it.
SocketHeld(c) ==
    /\ sock[c] # "nil" => conn = c /\ c \notin closed
    /\ Has("nm", FC("forget", c)) \/ Has("nm", FC("markConnected", c)) => conn = c
    /\ Has("nm", FC("closed", c)) \/ Has("nm", FC("forget", c)) => c \in closed
    /\ Once(FC("open", c), work["conn"]) /\ Before(FC("open", c), FC("close", c), work["conn"])
    /\ Has("conn", FC("open", c)) =>
          /\ conn = c /\ sock[c] = "nil" /\ c \notin closed /\ ~ connected
          /\ ~ Has("conn", FC("shut", c)) /\ ~ Has("conn", FC("didDisconnect", c))
ManagerHeld ==
    /\ Has("nm", F("create")) => conn = None
    /\ connected => conn # None /\ sock[conn] # "connecting"

\* The news that c came up is told once: by one of four frames, after the socket
\* came up and before the manager takes it for connected.
News(c) ==
    \/ Has("conn", FC("didConnect", c)) \/ Has("nm", FC("connected", c))
    \/ Has("nm", FC("markConnected", c))
NewsOnce(c) ==
    /\ Once(FC("didConnect", c), work["conn"]) /\ Once(FC("connected", c), work["nm"])
    /\ Once(FC("markConnected", c), work["nm"]) /\ Once(FC("up", c), work["net"])
    /\ Has("conn", FC("didConnect", c)) => ~ Has("nm", FC("connected", c))
    /\ Has("conn", FC("didConnect", c)) \/ Has("nm", FC("connected", c)) =>
          ~ Has("nm", FC("markConnected", c))
    /\ News(c) => ~ Has("net", FC("up", c)) /\ (conn = c => ~ connected)
    /\ News(c) \/ Has("net", FC("up", c)) => sock[c] # "connecting" /\ ~ Has("conn", FC("open", c))

\* What NetworkManager will believe when netQueue is empty is what the manager
\* believes, but for a loss the manager has not passed on yet.
DownComes == Has("net", F("down")) \/ Has("nm", F("notifyDown"))
LastUp(c) == Has("net", FC("up", c)) /\ Before(F("down"), FC("up", c), work["net"])
Told ==
    /\ Has("nm", F("notifyDown")) =>
          ~ connected /\ \A c \in Conns : ~ Has("nm", FC("markConnected", c))
    /\ \A c \in Conns : Before(F("notifyDown"), FC("connected", c), work["nm"])
    /\ isConnected /\ ~ DownComes =>
          connected /\ session = conn /\ \A c \in Conns : ~ Has("net", FC("up", c))
    /\ ~ Has("nm", F("notifyDown")) => \A c \in Conns : LastUp(c) => connected /\ conn = c
    /\ connected => (isConnected /\ ~ Has("net", F("down"))) \/ LastUp(conn)

Apart == Heads /\ ManagerHeld /\ Told /\ \A c \in Conns : SocketHeld(c) /\ NewsOnce(c)

LEMMA OnceAfter ==
    /\ \A q \in Queues : \A h, x : Ends(q, h) /\ Once(x, work[q]) => Once(x, work'[q])
    /\ \A q \in Queues : \A h : Ends(q, h) /\ Once(h, work[q]) => ~ Has(q, h)'
    /\ \A q \in Queues : \A h, b, x : GoesOn(q, h, b) /\ Once(x, work[q]) /\ x # b => Once(x, work'[q])
    /\ \A q \in Queues : \A h, b : GoesOn(q, h, b) /\ Once(b, work[q]) /\ ~ Has(q, b) => Once(b, work'[q])
    /\ \A q \in Queues : \A h, b : GoesOn(q, h, b) /\ Once(h, work[q]) /\ h # b => ~ Has(q, h)'
    /\ \A q, t \in Queues : \A h, b, x : Calls(q, h, t, b) /\ Once(x, work[q]) => Once(x, work'[q])
    /\ \A q, t \in Queues : \A h, b : Calls(q, h, t, b) /\ Once(h, work[q]) => ~ Has(q, h)'
    /\ \A q, t \in Queues : \A h, b, x :
          Calls(q, h, t, b) /\ Once(x, work[t]) /\ x # b => Once(x, work'[t])
    /\ \A q, t \in Queues : \A h, b :
          Calls(q, h, t, b) /\ Once(b, work[t]) /\ ~ Has(t, b) => Once(b, work'[t])
    /\ \A t \in Queues : \A b, x : Enqueues(t, b) /\ Once(x, work[t]) /\ x # b => Once(x, work'[t])
    /\ \A t \in Queues : \A b : Enqueues(t, b) /\ Once(b, work[t]) /\ ~ Has(t, b) => Once(b, work'[t])
    /\ \A q \in Queues : \A c, x :
          /\ ForgetStep(q, c) /\ Once(x, work[q]) /\ x \notin {F("retry"), F("notifyDown")}
          => Once(x, work'[q])
    /\ \A q \in Queues : \A x :
          ReconnectStep(q) /\ Once(x, work[q]) /\ x # F("stopCurrent") => Once(x, work'[q])
    /\ \A q \in Queues : \A x :
          ReconnectStep(q) /\ Once(x, work["net"]) /\ x # F("down") => Once(x, work'["net"])
<1>1. ASSUME NEW q \in Queues, NEW h, NEW x, Ends(q, h), Once(x, work[q])
      PROVE  Once(x, work'[q]) /\ (x = h => ~ Has(q, x)')
  BY <1>1 DEF Ends, Ended, Has
<1>2. ASSUME NEW q \in Queues, NEW h, NEW b, NEW x, GoesOn(q, h, b), Once(x, work[q])
      PROVE  /\ x # b \/ ~ Has(q, x) => Once(x, work'[q])
             /\ x = h /\ x # b => ~ Has(q, x)'
  BY <1>2 DEF GoesOn, Went, Has
<1>3. ASSUME NEW q \in Queues, NEW t \in Queues, NEW h, NEW b, NEW x, Calls(q, h, t, b)
      PROVE  /\ Once(x, work[q]) => Once(x, work'[q]) /\ (x = h => ~ Has(q, x)')
             /\ Once(x, work[t]) /\ (x # b \/ ~ Has(t, x)) => Once(x, work'[t])
  BY <1>3 DEF Calls, Ended, Added, Has
<1>4. ASSUME NEW t \in Queues, NEW b, NEW x, Enqueues(t, b), Once(x, work[t]), x # b \/ ~ Has(t, x)
      PROVE  Once(x, work'[t])
  BY <1>4 DEF Enqueues, Added, Has
<1>5. ASSUME NEW q \in Queues, NEW c, NEW x, ForgetStep(q, c), Once(x, work[q]),
             x \notin {F("retry"), F("notifyDown")}
      PROVE  Once(x, work'[q])
  <2>1. PICK m : Went(work[q], FC("forget", c), F("notifyDown"), m) /\ Pushed(m, F("retry"), work'[q])
    BY <1>5 DEF ForgetStep
  <2>2. Once(x, m)
    BY <1>5, <2>1 DEF Went
  <2> QED BY <1>5, <2>1, <2>2 DEF Pushed
<1>6. ASSUME NEW q \in Queues, NEW x, ReconnectStep(q)
      PROVE  /\ Once(x, work[q]) /\ x # F("stopCurrent") => Once(x, work'[q])
             /\ Once(x, work["net"]) /\ x # F("down") => Once(x, work'["net"])
  BY <1>6 DEF ReconnectStep, Went, Added
<1>7. /\ \A q \in Queues : \A h, x : Ends(q, h) /\ Once(x, work[q]) => Once(x, work'[q])
      /\ \A q \in Queues : \A h : Ends(q, h) /\ Once(h, work[q]) => ~ Has(q, h)'
  BY <1>1
<1>8. /\ \A q \in Queues : \A h, b, x : GoesOn(q, h, b) /\ Once(x, work[q]) /\ x # b => Once(x, work'[q])
      /\ \A q \in Queues : \A h, b : GoesOn(q, h, b) /\ Once(b, work[q]) /\ ~ Has(q, b) => Once(b, work'[q])
      /\ \A q \in Queues : \A h, b : GoesOn(q, h, b) /\ Once(h, work[q]) /\ h # b => ~ Has(q, h)'
  BY <1>2
<1>9. /\ \A q, t \in Queues : \A h, b, x : Calls(q, h, t, b) /\ Once(x, work[q]) => Once(x, work'[q])
      /\ \A q, t \in Queues : \A h, b : Calls(q, h, t, b) /\ Once(h, work[q]) => ~ Has(q, h)'
      /\ \A q, t \in Queues : \A h, b, x :
            Calls(q, h, t, b) /\ Once(x, work[t]) /\ x # b => Once(x, work'[t])
      /\ \A q, t \in Queues : \A h, b :
            Calls(q, h, t, b) /\ Once(b, work[t]) /\ ~ Has(t, b) => Once(b, work'[t])
  BY <1>3
<1>10. /\ \A t \in Queues : \A b, x : Enqueues(t, b) /\ Once(x, work[t]) /\ x # b => Once(x, work'[t])
       /\ \A t \in Queues : \A b : Enqueues(t, b) /\ Once(b, work[t]) /\ ~ Has(t, b) => Once(b, work'[t])
  BY <1>4
<1>11. /\ \A q \in Queues : \A x :
             ReconnectStep(q) /\ Once(x, work[q]) /\ x # F("stopCurrent") => Once(x, work'[q])
       /\ \A q \in Queues : \A x :
             ReconnectStep(q) /\ Once(x, work["net"]) /\ x # F("down") => Once(x, work'["net"])
  BY <1>6
<1> QED BY <1>5, <1>7, <1>8, <1>9, <1>10, <1>11

LEMMA BeforeAfterManager ==
    /\ \A q \in Queues : \A c, x, y :
          /\ ForgetStep(q, c) /\ Before(x, y, work[q]) /\ y \notin {F("retry"), F("notifyDown")}
          => Before(x, y, work'[q])
    /\ \A q \in Queues : \A x, y :
          ReconnectStep(q) /\ Before(x, y, work[q]) /\ y # F("stopCurrent") => Before(x, y, work'[q])
<1>1. ASSUME NEW q \in Queues, NEW c, NEW x, NEW y, ForgetStep(q, c), Before(x, y, work[q]),
             y \notin {F("retry"), F("notifyDown")}
      PROVE  Before(x, y, work'[q])
  <2>1. PICK m : Went(work[q], FC("forget", c), F("notifyDown"), m) /\ Pushed(m, F("retry"), work'[q])
    BY <1>1 DEF ForgetStep
  <2>2. Before(x, y, m)
    BY <1>1, <2>1 DEF Went
  <2> QED BY <1>1, <2>1, <2>2 DEF Pushed
<1>2. ASSUME NEW q \in Queues, NEW x, NEW y, ReconnectStep(q), Before(x, y, work[q]), y # F("stopCurrent")
      PROVE  Before(x, y, work'[q])
  BY <1>2 DEF ReconnectStep, Went
<1> QED BY <1>1, <1>2

\* What the order of two frames after a step says about it before.
LEMMA BeforeBack ==
    /\ \A q \in Queues : \A h, x, y :
          Ends(q, h) /\ Before(x, y, work'[q]) /\ (y = h => ~ Has(q, x)) => Before(x, y, work[q])
    /\ \A q, t \in Queues : \A h, b, x, y : Calls(q, h, t, b) =>
          /\ Before(x, y, work'[q]) /\ (y = h => ~ Has(q, x)) => Before(x, y, work[q])
          /\ Before(x, y, work'[t]) => Before(x, y, work[t]) /\ (x = b => ~ Has(t, y))
    /\ \A t \in Queues : \A b, x, y :
          Enqueues(t, b) /\ Before(x, y, work'[t]) => Before(x, y, work[t]) /\ (x = b => ~ Has(t, y))
    /\ \A q \in Queues : \A x, y : ReconnectStep(q) /\ Before(x, y, work'["net"]) =>
          Before(x, y, work["net"]) /\ (x = F("down") => ~ Has("net", y))
<1>1. ASSUME NEW q \in Queues, NEW h, NEW x, NEW y, Ends(q, h), Before(x, y, work'[q]),
             y = h => ~ Has(q, x)
      PROVE  Before(x, y, work[q])
  BY <1>1 DEF Ends, Ended, Has
<1>2. ASSUME NEW q \in Queues, NEW t \in Queues, NEW h, NEW b, NEW x, NEW y, Calls(q, h, t, b)
      PROVE  /\ Before(x, y, work'[q]) /\ (y = h => ~ Has(q, x)) => Before(x, y, work[q])
             /\ Before(x, y, work'[t]) => Before(x, y, work[t]) /\ (x = b => ~ Has(t, y))
  BY <1>2 DEF Calls, Ended, Added, Has
<1>3. ASSUME NEW t \in Queues, NEW b, NEW x, NEW y, Enqueues(t, b), Before(x, y, work'[t])
      PROVE  Before(x, y, work[t]) /\ (x = b => ~ Has(t, y))
  BY <1>3 DEF Enqueues, Added, Has
<1>4. ASSUME NEW q \in Queues, NEW x, NEW y, ReconnectStep(q), Before(x, y, work'["net"])
      PROVE  Before(x, y, work["net"]) /\ (x = F("down") => ~ Has("net", y))
  BY <1>4 DEF ReconnectStep, Added, Has
<1> QED BY <1>1, <1>2, <1>3, <1>4
LEMMA HeadsKept ==
    ASSUME Shape, ~ sharedKey, Heads, Next
    PROVE  Heads'
<1>1. Step
  BY StepOf
<1>2. /\ conn \in {None, created} /\ created \in Nat /\ session \in Nat /\ session <= created
      /\ sock \in [Conns -> {"nil", "connecting", "up", "broken"}]
      /\ \A c \in Conns : c \in Nat /\ c # None /\ (c > created => sock[c] = "nil" /\ c \notin closed)
      /\ conn # None => conn \in Conns
      /\ Queues = {"nm", "conn", "net"} /\ 1 \in Conns
  BY BoundsAssumption DEF Shape, TypeOK, None, Conns, Queues
<1>f. /\ \A op : F(op) = FC(op, None)
      /\ \A x, y, c, d : FC(x, c) = FC(y, d) => x = y /\ c = d
  BY FrameParts
<1>o. ~ IsOwn("net", "nm") /\ ~ IsOwn("conn", "nm") /\ ~ IsOwn("nm", "conn")
  BY DEF IsOwn
<1>w. \A q \in Queues, c \in Conns :
         /\ SocketStep(q, c) => q = "conn"
         /\ ManagerStep(q, c) \/ PlainStep(q) => q = "nm"
         /\ NetStep(q, c) \/ NetPlainStep(q) => q = "net"
  BY Where
<1> USE DEF manager, sockets, app
<1>3. ASSUME NEW q \in Queues, NEW c \in Conns, OpenStep(q, c) PROVE Heads'
  <2>1. q = "conn"
    BY <1>3, <1>w, <1>2 DEF SocketStep
  <2> QED BY <1>3, <2>1, <1>2, <1>f, <1>o, FirstAfter, OtherQueues DEF Heads, OpenStep, Passes
<1>4. ASSUME NEW q \in Queues, NEW c \in Conns, CloseStep(q, c) PROVE Heads'
  <2>1. q = "conn"
    BY <1>4, <1>w, <1>2 DEF SocketStep
  <2> QED BY <1>4, <2>1, <1>2, <1>f, <1>o, FirstAfter, OtherQueues DEF Heads, CloseStep, Passes
<1>5. ASSUME NEW q \in Queues, NEW c \in Conns, ShutStep(q, c) PROVE Heads'
  <2>1. q = "conn"
    BY <1>5, <1>w, <1>2 DEF SocketStep
  <2> QED BY <1>5, <2>1, <1>2, <1>f, <1>o, FirstAfter, OtherQueues DEF Heads, ShutStep, Passes
<1>6. ASSUME NEW q \in Queues, NEW c \in Conns, DidConnectStep(q, c) PROVE Heads'
  <2>1. q = "conn"
    BY <1>6, <1>w, <1>2 DEF SocketStep
  <2> QED BY <1>6, <2>1, <1>2, <1>f, <1>o, FirstAfter, OtherQueues DEF Heads, DidConnectStep, Passes
<1>7. ASSUME NEW q \in Queues, NEW c \in Conns, DidDisconnectStep(q, c) PROVE Heads'
  <2>1. q = "conn"
    BY <1>7, <1>w, <1>2 DEF SocketStep
  <2> QED BY <1>7, <2>1, <1>2, <1>f, <1>o, FirstAfter, OtherQueues DEF Heads, DidDisconnectStep, Passes
<1>8. ASSUME NEW q \in Queues, NEW c \in Conns, DidReadStep(q, c) PROVE Heads'
  <2>1. q = "conn"
    BY <1>8, <1>w, <1>2 DEF SocketStep
  <2> QED BY <1>8, <2>1, <1>2, <1>f, <1>o, FirstAfter, OtherQueues DEF Heads, DidReadStep, Passes
<1>9. ASSUME NEW q \in Queues, NEW c \in Conns, HandOverStep(q, c) PROVE Heads'
  <2>1. q = "conn"
    BY <1>9, <1>w, <1>2 DEF SocketStep
  <2> QED BY <1>9, <2>1, <1>2, <1>f, <1>o, FirstAfter, OtherQueues DEF Heads, HandOverStep, Passes
<1>10. ASSUME NEW q \in Queues, NEW c \in Conns, ConnectedStep(q, c) PROVE Heads'
  <2>1. q = "nm"
    BY <1>10, <1>w, <1>2 DEF ManagerStep
  <2>2. First(F("create"), work'["nm"]) /\ First(F("stopCurrent"), work'["nm"])
    BY <1>10, <2>1, <1>2, <1>f, <1>o, FirstAfter, OtherQueues DEF Heads, ConnectedStep, Passes
  <2>3. \A e \in Conns : First(FC("forget", e), work'["nm"]) /\ First(FC("markConnected", e), work'["nm"])
    BY <1>10, <2>1, <1>2, <1>f, <1>o, FirstAfter, OtherQueues DEF Heads, ConnectedStep, Passes
  <2>4. \A e \in Conns : First(FC("shut", e), work'["conn"])
    BY <1>10, <2>1, <1>2, <1>f, <1>o, FirstAfter, OtherQueues DEF Heads, ConnectedStep, Passes
  <2> QED BY <2>2, <2>3, <2>4 DEF Heads
<1>11. ASSUME NEW q \in Queues, NEW c \in Conns, MarkConnectedStep(q, c) PROVE Heads'
  <2>1. q = "nm"
    BY <1>11, <1>w, <1>2 DEF ManagerStep
  <2>2. First(F("create"), work'["nm"]) /\ First(F("stopCurrent"), work'["nm"])
    BY <1>11, <2>1, <1>2, <1>f, <1>o, FirstAfter, OtherQueues DEF Heads, MarkConnectedStep, Passes
  <2>3. \A e \in Conns : First(FC("forget", e), work'["nm"]) /\ First(FC("markConnected", e), work'["nm"])
    BY <1>11, <2>1, <1>2, <1>f, <1>o, FirstAfter, OtherQueues DEF Heads, MarkConnectedStep, Passes
  <2>4. \A e \in Conns : First(FC("shut", e), work'["conn"])
    BY <1>11, <2>1, <1>2, <1>f, <1>o, FirstAfter, OtherQueues DEF Heads, MarkConnectedStep, Passes
  <2> QED BY <2>2, <2>3, <2>4 DEF Heads
<1>12. ASSUME NEW q \in Queues, NEW c \in Conns, ClosedStep(q, c) PROVE Heads'
  <2>1. q = "nm"
    BY <1>12, <1>w, <1>2 DEF ManagerStep
  <2>2. First(F("create"), work'["nm"]) /\ First(F("stopCurrent"), work'["nm"])
    BY <1>12, <2>1, <1>2, <1>f, <1>o, FirstAfter, OtherQueues DEF Heads, ClosedStep, Passes
  <2>3. \A e \in Conns : First(FC("forget", e), work'["nm"]) /\ First(FC("markConnected", e), work'["nm"])
    BY <1>12, <2>1, <1>2, <1>f, <1>o, FirstAfter, OtherQueues DEF Heads, ClosedStep, Passes
  <2>4. \A e \in Conns : First(FC("shut", e), work'["conn"])
    BY <1>12, <2>1, <1>2, <1>f, <1>o, FirstAfter, OtherQueues DEF Heads, ClosedStep, Passes
  <2> QED BY <2>2, <2>3, <2>4 DEF Heads
<1>13. ASSUME NEW q \in Queues, NEW c \in Conns, ForgetStep(q, c) PROVE Heads'
  <2>1. q = "nm"
    BY <1>13, <1>w, <1>2 DEF ManagerStep
  <2>2. First(F("create"), work'["nm"]) /\ First(F("stopCurrent"), work'["nm"])
    BY <1>13, <2>1, <1>2, <1>f, FirstAfter, OtherQueues DEF Heads
  <2>3. \A e \in Conns : First(FC("forget", e), work'["nm"]) /\ First(FC("markConnected", e), work'["nm"])
    BY <1>13, <2>1, <1>2, <1>f, FirstAfter, OtherQueues DEF Heads
  <2>4. \A e \in Conns : First(FC("shut", e), work'["conn"])
    BY <1>13, <2>1, <1>2, <1>f, FirstAfter, OtherQueues DEF Heads
  <2> QED BY <2>2, <2>3, <2>4 DEF Heads
<1>14. ASSUME NEW q \in Queues, NEW c \in Conns, UpStep(q, c) PROVE Heads'
  <2>1. q = "net"
    BY <1>14, <1>w, <1>2 DEF NetStep
  <2> QED BY <1>14, <2>1, <1>2, <1>f, <1>o, FirstAfter, OtherQueues DEF Heads, UpStep, Passes
<1>15. ASSUME NEW q \in Queues, NEW c \in Conns, DataStep(q, c) PROVE Heads'
  <2>1. q = "net"
    BY <1>15, <1>w, <1>2 DEF NetStep
  <2> QED BY <1>15, <2>1, <1>2, <1>f, <1>o, FirstAfter, OtherQueues DEF Heads, DataStep, Passes
<1>16. ASSUME NEW q \in Queues, StartStep(q) PROVE Heads'
  <2>1. q = "nm"
    BY <1>16, <1>w, <1>2 DEF PlainStep
  <2>2. First(F("create"), work'["nm"]) /\ First(F("stopCurrent"), work'["nm"])
    BY <1>16, <2>1, <1>2, <1>f, <1>o, FirstAfter, OtherQueues DEF Heads, StartStep, Passes
  <2>3. \A e \in Conns : First(FC("forget", e), work'["nm"]) /\ First(FC("markConnected", e), work'["nm"])
    BY <1>16, <2>1, <1>2, <1>f, <1>o, FirstAfter, OtherQueues DEF Heads, StartStep, Passes
  <2>4. \A e \in Conns : First(FC("shut", e), work'["conn"])
    BY <1>16, <2>1, <1>2, <1>f, <1>o, FirstAfter, OtherQueues DEF Heads, StartStep, Passes
  <2> QED BY <2>2, <2>3, <2>4 DEF Heads
<1>17. ASSUME NEW q \in Queues, CreateStep(q) PROVE Heads'
  <2>1. q = "nm"
    BY <1>17, <1>w, <1>2 DEF PlainStep
  <2>2. First(F("create"), work'["nm"]) /\ First(F("stopCurrent"), work'["nm"])
    BY <1>17, <2>1, <1>2, <1>f, <1>o, FirstAfter, OtherQueues DEF Heads, CreateStep, Passes
  <2>3. \A e \in Conns : First(FC("forget", e), work'["nm"]) /\ First(FC("markConnected", e), work'["nm"])
    BY <1>17, <2>1, <1>2, <1>f, <1>o, FirstAfter, OtherQueues DEF Heads, CreateStep, Passes
  <2>4. \A e \in Conns : First(FC("shut", e), work'["conn"])
    BY <1>17, <2>1, <1>2, <1>f, <1>o, FirstAfter, OtherQueues DEF Heads, CreateStep, Passes
  <2> QED BY <2>2, <2>3, <2>4 DEF Heads
<1>18. ASSUME NEW q \in Queues, NotifyDownStep(q) PROVE Heads'
  <2>1. q = "nm"
    BY <1>18, <1>w, <1>2 DEF PlainStep
  <2>2. First(F("create"), work'["nm"]) /\ First(F("stopCurrent"), work'["nm"])
    BY <1>18, <2>1, <1>2, <1>f, <1>o, FirstAfter, OtherQueues DEF Heads, NotifyDownStep, Passes
  <2>3. \A e \in Conns : First(FC("forget", e), work'["nm"]) /\ First(FC("markConnected", e), work'["nm"])
    BY <1>18, <2>1, <1>2, <1>f, <1>o, FirstAfter, OtherQueues DEF Heads, NotifyDownStep, Passes
  <2>4. \A e \in Conns : First(FC("shut", e), work'["conn"])
    BY <1>18, <2>1, <1>2, <1>f, <1>o, FirstAfter, OtherQueues DEF Heads, NotifyDownStep, Passes
  <2> QED BY <2>2, <2>3, <2>4 DEF Heads
<1>19. ASSUME NEW q \in Queues, RetryStep(q) PROVE Heads'
  <2>1. q = "nm"
    BY <1>19, <1>w, <1>2 DEF PlainStep
  <2>2. First(F("create"), work'["nm"]) /\ First(F("stopCurrent"), work'["nm"])
    BY <1>19, <2>1, <1>2, <1>f, <1>o, FirstAfter, OtherQueues DEF Heads, RetryStep, Passes
  <2>3. \A e \in Conns : First(FC("forget", e), work'["nm"]) /\ First(FC("markConnected", e), work'["nm"])
    BY <1>19, <2>1, <1>2, <1>f, <1>o, FirstAfter, OtherQueues DEF Heads, RetryStep, Passes
  <2>4. \A e \in Conns : First(FC("shut", e), work'["conn"])
    BY <1>19, <2>1, <1>2, <1>f, <1>o, FirstAfter, OtherQueues DEF Heads, RetryStep, Passes
  <2> QED BY <2>2, <2>3, <2>4 DEF Heads
<1>20. ASSUME NEW q \in Queues, TimerStep(q) PROVE Heads'
  <2>1. q = "nm"
    BY <1>20, <1>w, <1>2 DEF PlainStep
  <2>2. First(F("create"), work'["nm"]) /\ First(F("stopCurrent"), work'["nm"])
    BY <1>20, <2>1, <1>2, <1>f, <1>o, FirstAfter, OtherQueues DEF Heads, TimerStep, Passes
  <2>3. \A e \in Conns : First(FC("forget", e), work'["nm"]) /\ First(FC("markConnected", e), work'["nm"])
    BY <1>20, <2>1, <1>2, <1>f, <1>o, FirstAfter, OtherQueues DEF Heads, TimerStep, Passes
  <2>4. \A e \in Conns : First(FC("shut", e), work'["conn"])
    BY <1>20, <2>1, <1>2, <1>f, <1>o, FirstAfter, OtherQueues DEF Heads, TimerStep, Passes
  <2> QED BY <2>2, <2>3, <2>4 DEF Heads
<1>21. ASSUME NEW q \in Queues, RequestStep(q) PROVE Heads'
  <2>1. q = "nm"
    BY <1>21, <1>w, <1>2 DEF PlainStep
  <2>2. First(F("create"), work'["nm"]) /\ First(F("stopCurrent"), work'["nm"])
    BY <1>21, <2>1, <1>2, <1>f, <1>o, FirstAfter, OtherQueues DEF Heads, RequestStep, Passes
  <2>3. \A e \in Conns : First(FC("forget", e), work'["nm"]) /\ First(FC("markConnected", e), work'["nm"])
    BY <1>21, <2>1, <1>2, <1>f, <1>o, FirstAfter, OtherQueues DEF Heads, RequestStep, Passes
  <2>4. \A e \in Conns : First(FC("shut", e), work'["conn"])
    BY <1>21, <2>1, <1>2, <1>f, <1>o, FirstAfter, OtherQueues DEF Heads, RequestStep, Passes
  <2> QED BY <2>2, <2>3, <2>4 DEF Heads
<1>22. ASSUME NEW q \in Queues, ReconnectStep(q) PROVE Heads'
  <2>1. q = "nm"
    BY <1>22, <1>w, <1>2 DEF PlainStep
  <2>2. First(F("create"), work'["nm"]) /\ First(F("stopCurrent"), work'["nm"])
    BY <1>22, <2>1, <1>2, <1>f, FirstAfter, OtherQueues DEF Heads
  <2>3. \A e \in Conns : First(FC("forget", e), work'["nm"]) /\ First(FC("markConnected", e), work'["nm"])
    BY <1>22, <2>1, <1>2, <1>f, FirstAfter, OtherQueues DEF Heads
  <2>4. \A e \in Conns : First(FC("shut", e), work'["conn"])
    BY <1>22, <2>1, <1>2, <1>f, FirstAfter, OtherQueues DEF Heads
  <2> QED BY <2>2, <2>3, <2>4 DEF Heads
<1>23. ASSUME NEW q \in Queues, StopStep(q) PROVE Heads'
  <2>1. q = "nm"
    BY <1>23, <1>w, <1>2 DEF PlainStep
  <2>2. First(F("create"), work'["nm"]) /\ First(F("stopCurrent"), work'["nm"])
    BY <1>23, <2>1, <1>2, <1>f, <1>o, FirstAfter, OtherQueues DEF Heads, StopStep, Passes
  <2>3. \A e \in Conns : First(FC("forget", e), work'["nm"]) /\ First(FC("markConnected", e), work'["nm"])
    BY <1>23, <2>1, <1>2, <1>f, <1>o, FirstAfter, OtherQueues DEF Heads, StopStep, Passes
  <2>4. \A e \in Conns : First(FC("shut", e), work'["conn"])
    BY <1>23, <2>1, <1>2, <1>f, <1>o, FirstAfter, OtherQueues DEF Heads, StopStep, Passes
  <2> QED BY <2>2, <2>3, <2>4 DEF Heads
<1>24. ASSUME NEW q \in Queues, DownStep(q) PROVE Heads'
  <2>1. q = "net"
    BY <1>24, <1>w, <1>2 DEF NetPlainStep
  <2> QED BY <1>24, <2>1, <1>2, <1>f, <1>o, FirstAfter, OtherQueues DEF Heads, DownStep, Passes
<1>25. ASSUME NEW q \in Queues, AskStep(q) PROVE Heads'
  <2>1. q = "net"
    BY <1>25, <1>w, <1>2 DEF NetPlainStep
  <2> QED BY <1>25, <2>1, <1>2, <1>f, <1>o, FirstAfter, OtherQueues DEF Heads, AskStep, Passes
<1>26. ASSUME AskedStep \/ FiresStep PROVE Heads'
  BY <1>26, <1>2, <1>f, FirstAfter, OtherQueues DEF Heads, AskedStep, FiresStep
<1>27. ASSUME NEW c \in Conns, OutsideStep(c) PROVE Heads'
  BY <1>27, <1>2, <1>f, FirstAfter, OtherQueues
     DEF Heads, OutsideStep, EstablishStep, BreakStep, ServerDataStep
<1> QED
  BY <1>1, <1>3, <1>4, <1>5, <1>6, <1>7, <1>8, <1>9, <1>10, <1>11, <1>12, <1>13, <1>14, <1>15,
       <1>16, <1>17, <1>18, <1>19, <1>20, <1>21, <1>22, <1>23, <1>24, <1>25, <1>26, <1>27
     DEF Step, SocketStep, ManagerStep, NetStep, PlainStep, NetPlainStep
LEMMA SocketsKept ==
    ASSUME Shape, ~ sharedKey, Apart, Next
    PROVE  ManagerHeld' /\ \A e \in Conns : SocketHeld(e)'
<1>1. Step
  BY StepOf
<1>2. /\ conn \in {None, created} /\ created \in Nat /\ session \in Nat /\ session <= created
      /\ sock \in [Conns -> {"nil", "connecting", "up", "broken"}]
      /\ \A c \in Conns : c \in Nat /\ c # None /\ (c > created => sock[c] = "nil" /\ c \notin closed)
      /\ conn # None => conn \in Conns
      /\ Queues = {"nm", "conn", "net"} /\ 1 \in Conns
  BY BoundsAssumption DEF Shape, TypeOK, None, Conns, Queues
<1>f. /\ \A op : F(op) = FC(op, None)
      /\ \A x, y, c, d : FC(x, c) = FC(y, d) => x = y /\ c = d
  BY FrameParts
<1>o. ~ IsOwn("net", "nm") /\ ~ IsOwn("conn", "nm") /\ ~ IsOwn("nm", "conn")
  BY DEF IsOwn
<1>w. \A q \in Queues, c \in Conns :
         /\ SocketStep(q, c) => q = "conn"
         /\ ManagerStep(q, c) \/ PlainStep(q) => q = "nm"
         /\ NetStep(q, c) \/ NetPlainStep(q) => q = "net"
  BY Where
<1> USE DEF manager, sockets, app
<1>h. Heads /\ ManagerHeld
  BY DEF Apart
<1>s. \A c \in Conns : SocketHeld(c) /\ NewsOnce(c)
  BY DEF Apart
<1>p. \A c \in Conns, q \in Queues : \A op : Has(q, FC(op, c)) => c <= created
  BY Shaped
<1>3. ASSUME NEW q \in Queues, NEW c \in Conns, OpenStep(q, c) PROVE ManagerHeld' /\ \A e \in Conns : SocketHeld(e)'
  <2>1. q = "conn"
    BY <1>3, <1>w, <1>2 DEF SocketStep
  <2>2. ManagerHeld'
    BY <1>3, <2>1, <1>2, <1>f, <1>h, <1>s, HasAfter, FirstAfter DEF Heads, ManagerHeld, SocketHeld,
         NewsOnce, News, OpenStep
  <2>3. ASSUME NEW e \in Conns PROVE SocketHeld(e)'
    <3>1. Once(FC("open", e), work'["conn"])
      <4>1. Once(FC("open", e), work["conn"])
        BY <1>s DEF SocketHeld
      <4>2. \/ Ends("conn", FC("open", c)) \/ GoesOn("conn", FC("open", c), FC("close", c))
        BY <1>3, <2>1 DEF OpenStep
      <4>3. FC("open", e) # FC("close", c) /\ "conn" \in Queues
        BY <1>f, <1>2
      <4>4. CASE Ends("conn", FC("open", c))
        BY <4>1, <4>3, <4>4, OnceAfter
      <4>5. CASE GoesOn("conn", FC("open", c), FC("close", c))
        BY <4>1, <4>3, <4>5, OnceAfter
      <4> QED BY <4>2, <4>4, <4>5
    <3>2. Before(FC("open", e), FC("close", e), work'["conn"])
      BY <1>3, <2>1, <1>2, <1>f, <1>o, <1>h, <1>s, <1>p, HasAfter, OnceAfter, BeforeAfter,
           OtherQueues
         DEF SocketHeld, OpenStep
    <3>3. Has("conn", FC("open", e))' =>
             /\ conn' = e /\ sock'[e] = "nil" /\ e \notin closed' /\ ~ connected'
             /\ ~ Has("conn", FC("shut", e))' /\ ~ Has("conn", FC("didDisconnect", e))'
      BY <1>3, <2>1, <1>2, <1>f, <1>o, <1>h, <1>s, <1>p, HasAfter, OnceAfter, BeforeAfter
         DEF ManagerHeld, SocketHeld, NewsOnce, News, OpenStep
    <3>4. /\ sock'[e] # "nil" => conn' = e /\ e \notin closed'
          /\ Has("nm", FC("forget", e))' \/ Has("nm", FC("markConnected", e))' => conn' = e
          /\ Has("nm", FC("closed", e))' \/ Has("nm", FC("forget", e))' => e \in closed'
      BY <1>3, <2>1, <1>2, <1>f, <1>o, <1>h, <1>s, <1>p, HasAfter
         DEF ManagerHeld, SocketHeld, OpenStep
    <3> QED BY <3>1, <3>2, <3>3, <3>4 DEF SocketHeld
  <2> QED BY <2>2, <2>3
<1>4. ASSUME NEW q \in Queues, NEW c \in Conns, CloseStep(q, c) PROVE ManagerHeld' /\ \A e \in Conns : SocketHeld(e)'
  <2>1. q = "conn"
    BY <1>4, <1>w, <1>2 DEF SocketStep
  <2>2. ManagerHeld'
    BY <1>4, <2>1, <1>2, <1>f, <1>h, <1>s, HasAfter, FirstAfter DEF Heads, ManagerHeld, SocketHeld,
         NewsOnce, News, CloseStep
  <2>3. ASSUME NEW e \in Conns PROVE SocketHeld(e)'
    <3>1. Once(FC("open", e), work'["conn"])
      <4>1. Once(FC("open", e), work["conn"])
        BY <1>s DEF SocketHeld
      <4>2. \/ Ends("conn", FC("close", c)) \/ GoesOn("conn", FC("close", c), FC("shut", c))
        BY <1>4, <2>1 DEF CloseStep
      <4>3. FC("open", e) # FC("shut", c) /\ "conn" \in Queues
        BY <1>f, <1>2
      <4>4. CASE Ends("conn", FC("close", c))
        BY <4>1, <4>3, <4>4, OnceAfter
      <4>5. CASE GoesOn("conn", FC("close", c), FC("shut", c))
        BY <4>1, <4>3, <4>5, OnceAfter
      <4> QED BY <4>2, <4>4, <4>5
    <3>2. Before(FC("open", e), FC("close", e), work'["conn"])
      BY <1>4, <2>1, <1>2, <1>f, <1>o, <1>h, <1>s, <1>p, HasAfter, OnceAfter, BeforeAfter,
           OtherQueues
         DEF SocketHeld, CloseStep
    <3>3. Has("conn", FC("open", e))' =>
             /\ conn' = e /\ sock'[e] = "nil" /\ e \notin closed' /\ ~ connected'
             /\ ~ Has("conn", FC("shut", e))' /\ ~ Has("conn", FC("didDisconnect", e))'
      BY <1>4, <2>1, <1>2, <1>f, <1>o, <1>h, <1>s, <1>p, HasAfter, OnceAfter, BeforeAfter
         DEF ManagerHeld, SocketHeld, NewsOnce, News, CloseStep
    <3>4. /\ sock'[e] # "nil" => conn' = e /\ e \notin closed'
          /\ Has("nm", FC("forget", e))' \/ Has("nm", FC("markConnected", e))' => conn' = e
          /\ Has("nm", FC("closed", e))' \/ Has("nm", FC("forget", e))' => e \in closed'
      BY <1>4, <2>1, <1>2, <1>f, <1>o, <1>h, <1>s, <1>p, HasAfter
         DEF ManagerHeld, SocketHeld, CloseStep
    <3> QED BY <3>1, <3>2, <3>3, <3>4 DEF SocketHeld
  <2> QED BY <2>2, <2>3
<1>5. ASSUME NEW q \in Queues, NEW c \in Conns, ShutStep(q, c) PROVE ManagerHeld' /\ \A e \in Conns : SocketHeld(e)'
  <2>1. q = "conn"
    BY <1>5, <1>w, <1>2 DEF SocketStep
  <2>2. ManagerHeld'
    BY <1>5, <2>1, <1>2, <1>f, <1>h, <1>s, HasAfter, FirstAfter DEF Heads, ManagerHeld, SocketHeld,
         NewsOnce, News, ShutStep
  <2>3. ASSUME NEW e \in Conns PROVE SocketHeld(e)'
    <3>1. Once(FC("open", e), work'["conn"])
      BY <1>5, <2>1, <1>2, <1>f, <1>o, <1>h, <1>s, <1>p, OnceAfter, OtherQueues DEF SocketHeld,
           ShutStep, Passes
    <3>2. Before(FC("open", e), FC("close", e), work'["conn"])
      BY <1>5, <2>1, <1>2, <1>f, <1>o, <1>h, <1>s, <1>p, HasAfter, OnceAfter, BeforeAfter,
           OtherQueues
         DEF SocketHeld, ShutStep, Passes
    <3>3. Has("conn", FC("open", e))' =>
             /\ conn' = e /\ sock'[e] = "nil" /\ e \notin closed' /\ ~ connected'
             /\ ~ Has("conn", FC("shut", e))' /\ ~ Has("conn", FC("didDisconnect", e))'
      BY <1>5, <2>1, <1>2, <1>f, <1>o, <1>h, <1>s, <1>p, HasAfter, OnceAfter, BeforeAfter
         DEF ManagerHeld, SocketHeld, NewsOnce, News, ShutStep, Passes
    <3>4. /\ sock'[e] # "nil" => conn' = e /\ e \notin closed'
          /\ Has("nm", FC("forget", e))' \/ Has("nm", FC("markConnected", e))' => conn' = e
          /\ Has("nm", FC("closed", e))' \/ Has("nm", FC("forget", e))' => e \in closed'
      BY <1>5, <2>1, <1>2, <1>f, <1>o, <1>h, <1>s, <1>p, HasAfter
         DEF ManagerHeld, SocketHeld, ShutStep, Passes
    <3> QED BY <3>1, <3>2, <3>3, <3>4 DEF SocketHeld
  <2> QED BY <2>2, <2>3
<1>6. ASSUME NEW q \in Queues, NEW c \in Conns, DidConnectStep(q, c) PROVE ManagerHeld' /\ \A e \in Conns : SocketHeld(e)'
  <2>1. q = "conn"
    BY <1>6, <1>w, <1>2 DEF SocketStep
  <2>2. ManagerHeld'
    BY <1>6, <2>1, <1>2, <1>f, <1>h, <1>s, HasAfter, FirstAfter DEF Heads, ManagerHeld, SocketHeld,
         NewsOnce, News, DidConnectStep
  <2>3. ASSUME NEW e \in Conns PROVE SocketHeld(e)'
    <3>1. Once(FC("open", e), work'["conn"])
      BY <1>6, <2>1, <1>2, <1>f, <1>o, <1>h, <1>s, <1>p, OnceAfter, OtherQueues DEF SocketHeld,
           DidConnectStep, Passes
    <3>2. Before(FC("open", e), FC("close", e), work'["conn"])
      BY <1>6, <2>1, <1>2, <1>f, <1>o, <1>h, <1>s, <1>p, HasAfter, OnceAfter, BeforeAfter,
           OtherQueues
         DEF SocketHeld, DidConnectStep, Passes
    <3>3. Has("conn", FC("open", e))' =>
             /\ conn' = e /\ sock'[e] = "nil" /\ e \notin closed' /\ ~ connected'
             /\ ~ Has("conn", FC("shut", e))' /\ ~ Has("conn", FC("didDisconnect", e))'
      BY <1>6, <2>1, <1>2, <1>f, <1>o, <1>h, <1>s, <1>p, HasAfter, OnceAfter, BeforeAfter
         DEF ManagerHeld, SocketHeld, NewsOnce, News, DidConnectStep, Passes
    <3>4. /\ sock'[e] # "nil" => conn' = e /\ e \notin closed'
          /\ Has("nm", FC("forget", e))' \/ Has("nm", FC("markConnected", e))' => conn' = e
          /\ Has("nm", FC("closed", e))' \/ Has("nm", FC("forget", e))' => e \in closed'
      BY <1>6, <2>1, <1>2, <1>f, <1>o, <1>h, <1>s, <1>p, HasAfter
         DEF ManagerHeld, SocketHeld, DidConnectStep, Passes
    <3> QED BY <3>1, <3>2, <3>3, <3>4 DEF SocketHeld
  <2> QED BY <2>2, <2>3
<1>7. ASSUME NEW q \in Queues, NEW c \in Conns, DidDisconnectStep(q, c) PROVE ManagerHeld' /\ \A e \in Conns : SocketHeld(e)'
  <2>1. q = "conn"
    BY <1>7, <1>w, <1>2 DEF SocketStep
  <2>2. ManagerHeld'
    BY <1>7, <2>1, <1>2, <1>f, <1>h, <1>s, HasAfter, FirstAfter DEF Heads, ManagerHeld, SocketHeld,
         NewsOnce, News, DidDisconnectStep
  <2>3. ASSUME NEW e \in Conns PROVE SocketHeld(e)'
    <3>1. Once(FC("open", e), work'["conn"])
      BY <1>7, <2>1, <1>2, <1>f, <1>o, <1>h, <1>s, <1>p, OnceAfter, OtherQueues DEF SocketHeld,
           DidDisconnectStep
    <3>2. Before(FC("open", e), FC("close", e), work'["conn"])
      BY <1>7, <2>1, <1>2, <1>f, <1>o, <1>h, <1>s, <1>p, HasAfter, OnceAfter, BeforeAfter,
           OtherQueues
         DEF SocketHeld, DidDisconnectStep
    <3>3. Has("conn", FC("open", e))' =>
             /\ conn' = e /\ sock'[e] = "nil" /\ e \notin closed' /\ ~ connected'
             /\ ~ Has("conn", FC("shut", e))' /\ ~ Has("conn", FC("didDisconnect", e))'
      BY <1>7, <2>1, <1>2, <1>f, <1>o, <1>h, <1>s, <1>p, HasAfter, OnceAfter, BeforeAfter
         DEF ManagerHeld, SocketHeld, NewsOnce, News, DidDisconnectStep
    <3>4. /\ sock'[e] # "nil" => conn' = e /\ e \notin closed'
          /\ Has("nm", FC("forget", e))' \/ Has("nm", FC("markConnected", e))' => conn' = e
          /\ Has("nm", FC("closed", e))' \/ Has("nm", FC("forget", e))' => e \in closed'
      BY <1>7, <2>1, <1>2, <1>f, <1>o, <1>h, <1>s, <1>p, HasAfter
         DEF ManagerHeld, SocketHeld, DidDisconnectStep
    <3> QED BY <3>1, <3>2, <3>3, <3>4 DEF SocketHeld
  <2> QED BY <2>2, <2>3
<1>8. ASSUME NEW q \in Queues, NEW c \in Conns, DidReadStep(q, c) PROVE ManagerHeld' /\ \A e \in Conns : SocketHeld(e)'
  <2>1. q = "conn"
    BY <1>8, <1>w, <1>2 DEF SocketStep
  <2>2. ManagerHeld'
    BY <1>8, <2>1, <1>2, <1>f, <1>h, <1>s, HasAfter, FirstAfter DEF Heads, ManagerHeld, SocketHeld,
         NewsOnce, News, DidReadStep
  <2>3. ASSUME NEW e \in Conns PROVE SocketHeld(e)'
    <3>1. Once(FC("open", e), work'["conn"])
      <4>1. Once(FC("open", e), work["conn"])
        BY <1>s DEF SocketHeld
      <4>2. \/ Ends("conn", FC("didRead", c)) \/ GoesOn("conn", FC("didRead", c), FC("handOver", c))
        BY <1>8, <2>1 DEF DidReadStep
      <4>3. FC("open", e) # FC("handOver", c) /\ "conn" \in Queues
        BY <1>f, <1>2
      <4>4. CASE Ends("conn", FC("didRead", c))
        BY <4>1, <4>3, <4>4, OnceAfter
      <4>5. CASE GoesOn("conn", FC("didRead", c), FC("handOver", c))
        BY <4>1, <4>3, <4>5, OnceAfter
      <4> QED BY <4>2, <4>4, <4>5
    <3>2. Before(FC("open", e), FC("close", e), work'["conn"])
      BY <1>8, <2>1, <1>2, <1>f, <1>o, <1>h, <1>s, <1>p, HasAfter, OnceAfter, BeforeAfter,
           OtherQueues
         DEF SocketHeld, DidReadStep
    <3>3. Has("conn", FC("open", e))' =>
             /\ conn' = e /\ sock'[e] = "nil" /\ e \notin closed' /\ ~ connected'
             /\ ~ Has("conn", FC("shut", e))' /\ ~ Has("conn", FC("didDisconnect", e))'
      BY <1>8, <2>1, <1>2, <1>f, <1>o, <1>h, <1>s, <1>p, HasAfter, OnceAfter, BeforeAfter
         DEF ManagerHeld, SocketHeld, NewsOnce, News, DidReadStep
    <3>4. /\ sock'[e] # "nil" => conn' = e /\ e \notin closed'
          /\ Has("nm", FC("forget", e))' \/ Has("nm", FC("markConnected", e))' => conn' = e
          /\ Has("nm", FC("closed", e))' \/ Has("nm", FC("forget", e))' => e \in closed'
      BY <1>8, <2>1, <1>2, <1>f, <1>o, <1>h, <1>s, <1>p, HasAfter
         DEF ManagerHeld, SocketHeld, DidReadStep
    <3> QED BY <3>1, <3>2, <3>3, <3>4 DEF SocketHeld
  <2> QED BY <2>2, <2>3
<1>9. ASSUME NEW q \in Queues, NEW c \in Conns, HandOverStep(q, c) PROVE ManagerHeld' /\ \A e \in Conns : SocketHeld(e)'
  <2>1. q = "conn"
    BY <1>9, <1>w, <1>2 DEF SocketStep
  <2>2. ManagerHeld'
    BY <1>9, <2>1, <1>2, <1>f, <1>h, <1>s, HasAfter, FirstAfter DEF Heads, ManagerHeld, SocketHeld,
         NewsOnce, News, HandOverStep
  <2>3. ASSUME NEW e \in Conns PROVE SocketHeld(e)'
    <3>1. Once(FC("open", e), work'["conn"])
      BY <1>9, <2>1, <1>2, <1>f, <1>o, <1>h, <1>s, <1>p, OnceAfter, OtherQueues DEF SocketHeld,
           HandOverStep
    <3>2. Before(FC("open", e), FC("close", e), work'["conn"])
      BY <1>9, <2>1, <1>2, <1>f, <1>o, <1>h, <1>s, <1>p, HasAfter, OnceAfter, BeforeAfter,
           OtherQueues
         DEF SocketHeld, HandOverStep
    <3>3. Has("conn", FC("open", e))' =>
             /\ conn' = e /\ sock'[e] = "nil" /\ e \notin closed' /\ ~ connected'
             /\ ~ Has("conn", FC("shut", e))' /\ ~ Has("conn", FC("didDisconnect", e))'
      BY <1>9, <2>1, <1>2, <1>f, <1>o, <1>h, <1>s, <1>p, HasAfter, OnceAfter, BeforeAfter
         DEF ManagerHeld, SocketHeld, NewsOnce, News, HandOverStep
    <3>4. /\ sock'[e] # "nil" => conn' = e /\ e \notin closed'
          /\ Has("nm", FC("forget", e))' \/ Has("nm", FC("markConnected", e))' => conn' = e
          /\ Has("nm", FC("closed", e))' \/ Has("nm", FC("forget", e))' => e \in closed'
      BY <1>9, <2>1, <1>2, <1>f, <1>o, <1>h, <1>s, <1>p, HasAfter
         DEF ManagerHeld, SocketHeld, HandOverStep
    <3> QED BY <3>1, <3>2, <3>3, <3>4 DEF SocketHeld
  <2> QED BY <2>2, <2>3
<1>10. ASSUME NEW q \in Queues, NEW c \in Conns, ConnectedStep(q, c) PROVE ManagerHeld' /\ \A e \in Conns : SocketHeld(e)'
  <2>1. q = "nm"
    BY <1>10, <1>w, <1>2 DEF ManagerStep
  <2>2. ManagerHeld'
    BY <1>10, <2>1, <1>2, <1>f, <1>h, <1>s, HasAfter, FirstAfter DEF Heads, ManagerHeld,
         SocketHeld, NewsOnce, News, ConnectedStep
  <2>3. ASSUME NEW e \in Conns PROVE SocketHeld(e)'
    <3>1. Once(FC("open", e), work'["conn"])
      BY <1>10, <2>1, <1>2, <1>f, <1>o, <1>h, <1>s, <1>p, OnceAfter, OtherQueues DEF SocketHeld,
           ConnectedStep
    <3>2. Before(FC("open", e), FC("close", e), work'["conn"])
      BY <1>10, <2>1, <1>2, <1>f, <1>o, <1>h, <1>s, <1>p, HasAfter, OnceAfter, BeforeAfter,
           OtherQueues
         DEF SocketHeld, ConnectedStep
    <3>3. Has("conn", FC("open", e))' =>
             /\ conn' = e /\ sock'[e] = "nil" /\ e \notin closed' /\ ~ connected'
             /\ ~ Has("conn", FC("shut", e))' /\ ~ Has("conn", FC("didDisconnect", e))'
      BY <1>10, <2>1, <1>2, <1>f, <1>o, <1>h, <1>s, <1>p, HasAfter, OnceAfter, BeforeAfter
         DEF ManagerHeld, SocketHeld, NewsOnce, News, ConnectedStep
    <3>4. /\ sock'[e] # "nil" => conn' = e /\ e \notin closed'
          /\ Has("nm", FC("forget", e))' \/ Has("nm", FC("markConnected", e))' => conn' = e
          /\ Has("nm", FC("closed", e))' \/ Has("nm", FC("forget", e))' => e \in closed'
      BY <1>10, <2>1, <1>2, <1>f, <1>o, <1>h, <1>s, <1>p, HasAfter
         DEF ManagerHeld, SocketHeld, ConnectedStep
    <3> QED BY <3>1, <3>2, <3>3, <3>4 DEF SocketHeld
  <2> QED BY <2>2, <2>3
<1>11. ASSUME NEW q \in Queues, NEW c \in Conns, MarkConnectedStep(q, c) PROVE ManagerHeld' /\ \A e \in Conns : SocketHeld(e)'
  <2>1. q = "nm"
    BY <1>11, <1>w, <1>2 DEF ManagerStep
  <2>2. ManagerHeld'
    BY <1>11, <2>1, <1>2, <1>f, <1>h, <1>s, HasAfter, FirstAfter DEF Heads, ManagerHeld,
         SocketHeld, NewsOnce, News, MarkConnectedStep
  <2>3. ASSUME NEW e \in Conns PROVE SocketHeld(e)'
    <3>1. Once(FC("open", e), work'["conn"])
      BY <1>11, <2>1, <1>2, <1>f, <1>o, <1>h, <1>s, <1>p, OnceAfter, OtherQueues DEF SocketHeld,
           MarkConnectedStep
    <3>2. Before(FC("open", e), FC("close", e), work'["conn"])
      BY <1>11, <2>1, <1>2, <1>f, <1>o, <1>h, <1>s, <1>p, HasAfter, OnceAfter, BeforeAfter,
           OtherQueues
         DEF SocketHeld, MarkConnectedStep
    <3>3. Has("conn", FC("open", e))' =>
             /\ conn' = e /\ sock'[e] = "nil" /\ e \notin closed' /\ ~ connected'
             /\ ~ Has("conn", FC("shut", e))' /\ ~ Has("conn", FC("didDisconnect", e))'
      BY <1>11, <2>1, <1>2, <1>f, <1>o, <1>h, <1>s, <1>p, HasAfter, OnceAfter, BeforeAfter
         DEF ManagerHeld, SocketHeld, NewsOnce, News, MarkConnectedStep
    <3>4. /\ sock'[e] # "nil" => conn' = e /\ e \notin closed'
          /\ Has("nm", FC("forget", e))' \/ Has("nm", FC("markConnected", e))' => conn' = e
          /\ Has("nm", FC("closed", e))' \/ Has("nm", FC("forget", e))' => e \in closed'
      BY <1>11, <2>1, <1>2, <1>f, <1>o, <1>h, <1>s, <1>p, HasAfter
         DEF ManagerHeld, SocketHeld, MarkConnectedStep
    <3> QED BY <3>1, <3>2, <3>3, <3>4 DEF SocketHeld
  <2> QED BY <2>2, <2>3
<1>12. ASSUME NEW q \in Queues, NEW c \in Conns, ClosedStep(q, c) PROVE ManagerHeld' /\ \A e \in Conns : SocketHeld(e)'
  <2>1. q = "nm"
    BY <1>12, <1>w, <1>2 DEF ManagerStep
  <2>2. ManagerHeld'
    BY <1>12, <2>1, <1>2, <1>f, <1>h, <1>s, HasAfter, FirstAfter DEF Heads, ManagerHeld,
         SocketHeld, NewsOnce, News, ClosedStep
  <2>3. ASSUME NEW e \in Conns PROVE SocketHeld(e)'
    <3>1. Once(FC("open", e), work'["conn"])
      BY <1>12, <2>1, <1>2, <1>f, <1>o, <1>h, <1>s, <1>p, OnceAfter, OtherQueues DEF SocketHeld,
           ClosedStep
    <3>2. Before(FC("open", e), FC("close", e), work'["conn"])
      BY <1>12, <2>1, <1>2, <1>f, <1>o, <1>h, <1>s, <1>p, HasAfter, OnceAfter, BeforeAfter,
           OtherQueues
         DEF SocketHeld, ClosedStep
    <3>3. Has("conn", FC("open", e))' =>
             /\ conn' = e /\ sock'[e] = "nil" /\ e \notin closed' /\ ~ connected'
             /\ ~ Has("conn", FC("shut", e))' /\ ~ Has("conn", FC("didDisconnect", e))'
      BY <1>12, <2>1, <1>2, <1>f, <1>o, <1>h, <1>s, <1>p, HasAfter, OnceAfter, BeforeAfter
         DEF ManagerHeld, SocketHeld, NewsOnce, News, ClosedStep
    <3>4. /\ sock'[e] # "nil" => conn' = e /\ e \notin closed'
          /\ Has("nm", FC("forget", e))' \/ Has("nm", FC("markConnected", e))' => conn' = e
          /\ Has("nm", FC("closed", e))' \/ Has("nm", FC("forget", e))' => e \in closed'
      BY <1>12, <2>1, <1>2, <1>f, <1>o, <1>h, <1>s, <1>p, HasAfter
         DEF ManagerHeld, SocketHeld, ClosedStep
    <3> QED BY <3>1, <3>2, <3>3, <3>4 DEF SocketHeld
  <2> QED BY <2>2, <2>3
<1>13. ASSUME NEW q \in Queues, NEW c \in Conns, ForgetStep(q, c) PROVE ManagerHeld' /\ \A e \in Conns : SocketHeld(e)'
  <2>1. q = "nm"
    BY <1>13, <1>w, <1>2 DEF ManagerStep
  <2>2. ManagerHeld'
    BY <1>13, <2>1, <1>2, <1>f, <1>h, <1>s, HasAfterForget, FirstAfter DEF Heads, ManagerHeld,
         SocketHeld, NewsOnce, News, ForgetStep
  <2>3. ASSUME NEW e \in Conns PROVE SocketHeld(e)'
    <3>1. conn' = None /\ connected' = FALSE /\ UNCHANGED sockets
      BY <1>13 DEF ForgetStep
    <3> QED BY <1>13, <2>1, <3>1, <1>2, <1>f, <1>h, <1>s, <1>p, HasAfterForget, FirstAfter, OtherQueues
            DEF Heads, ManagerHeld, SocketHeld
  <2> QED BY <2>2, <2>3
<1>14. ASSUME NEW q \in Queues, NEW c \in Conns, UpStep(q, c) PROVE ManagerHeld' /\ \A e \in Conns : SocketHeld(e)'
  <2>1. q = "net"
    BY <1>14, <1>w, <1>2 DEF NetStep
  <2>2. ManagerHeld'
    BY <1>14, <2>1, <1>2, <1>f, <1>h, <1>s, HasAfter, FirstAfter DEF Heads, ManagerHeld,
         SocketHeld, NewsOnce, News, UpStep
  <2>3. ASSUME NEW e \in Conns PROVE SocketHeld(e)'
    <3>1. Once(FC("open", e), work'["conn"])
      BY <1>14, <2>1, <1>2, <1>f, <1>o, <1>h, <1>s, <1>p, OnceAfter, OtherQueues DEF SocketHeld,
           UpStep
    <3>2. Before(FC("open", e), FC("close", e), work'["conn"])
      BY <1>14, <2>1, <1>2, <1>f, <1>o, <1>h, <1>s, <1>p, HasAfter, OnceAfter, BeforeAfter,
           OtherQueues
         DEF SocketHeld, UpStep
    <3>3. Has("conn", FC("open", e))' =>
             /\ conn' = e /\ sock'[e] = "nil" /\ e \notin closed' /\ ~ connected'
             /\ ~ Has("conn", FC("shut", e))' /\ ~ Has("conn", FC("didDisconnect", e))'
      BY <1>14, <2>1, <1>2, <1>f, <1>o, <1>h, <1>s, <1>p, HasAfter, OnceAfter, BeforeAfter
         DEF ManagerHeld, SocketHeld, NewsOnce, News, UpStep
    <3>4. /\ sock'[e] # "nil" => conn' = e /\ e \notin closed'
          /\ Has("nm", FC("forget", e))' \/ Has("nm", FC("markConnected", e))' => conn' = e
          /\ Has("nm", FC("closed", e))' \/ Has("nm", FC("forget", e))' => e \in closed'
      BY <1>14, <2>1, <1>2, <1>f, <1>o, <1>h, <1>s, <1>p, HasAfter
         DEF ManagerHeld, SocketHeld, UpStep
    <3> QED BY <3>1, <3>2, <3>3, <3>4 DEF SocketHeld
  <2> QED BY <2>2, <2>3
<1>15. ASSUME NEW q \in Queues, NEW c \in Conns, DataStep(q, c) PROVE ManagerHeld' /\ \A e \in Conns : SocketHeld(e)'
  <2>1. q = "net"
    BY <1>15, <1>w, <1>2 DEF NetStep
  <2>2. ManagerHeld'
    BY <1>15, <2>1, <1>2, <1>f, <1>h, <1>s, HasAfter, FirstAfter DEF Heads, ManagerHeld,
         SocketHeld, NewsOnce, News, DataStep
  <2>3. ASSUME NEW e \in Conns PROVE SocketHeld(e)'
    <3>1. Once(FC("open", e), work'["conn"])
      BY <1>15, <2>1, <1>2, <1>f, <1>o, <1>h, <1>s, <1>p, OnceAfter, OtherQueues DEF SocketHeld,
           DataStep
    <3>2. Before(FC("open", e), FC("close", e), work'["conn"])
      BY <1>15, <2>1, <1>2, <1>f, <1>o, <1>h, <1>s, <1>p, HasAfter, OnceAfter, BeforeAfter,
           OtherQueues
         DEF SocketHeld, DataStep
    <3>3. Has("conn", FC("open", e))' =>
             /\ conn' = e /\ sock'[e] = "nil" /\ e \notin closed' /\ ~ connected'
             /\ ~ Has("conn", FC("shut", e))' /\ ~ Has("conn", FC("didDisconnect", e))'
      BY <1>15, <2>1, <1>2, <1>f, <1>o, <1>h, <1>s, <1>p, HasAfter, OnceAfter, BeforeAfter
         DEF ManagerHeld, SocketHeld, NewsOnce, News, DataStep
    <3>4. /\ sock'[e] # "nil" => conn' = e /\ e \notin closed'
          /\ Has("nm", FC("forget", e))' \/ Has("nm", FC("markConnected", e))' => conn' = e
          /\ Has("nm", FC("closed", e))' \/ Has("nm", FC("forget", e))' => e \in closed'
      BY <1>15, <2>1, <1>2, <1>f, <1>o, <1>h, <1>s, <1>p, HasAfter
         DEF ManagerHeld, SocketHeld, DataStep
    <3> QED BY <3>1, <3>2, <3>3, <3>4 DEF SocketHeld
  <2> QED BY <2>2, <2>3
<1>16. ASSUME NEW q \in Queues, StartStep(q) PROVE ManagerHeld' /\ \A e \in Conns : SocketHeld(e)'
  <2>1. q = "nm"
    BY <1>16, <1>w, <1>2 DEF PlainStep
  <2>2. ManagerHeld'
    BY <1>16, <2>1, <1>2, <1>f, <1>h, <1>s, HasAfter, FirstAfter DEF Heads, ManagerHeld,
         SocketHeld, NewsOnce, News, StartStep
  <2>3. ASSUME NEW e \in Conns PROVE SocketHeld(e)'
    <3>1. Once(FC("open", e), work'["conn"])
      BY <1>16, <2>1, <1>2, <1>f, <1>o, <1>h, <1>s, <1>p, OnceAfter, OtherQueues DEF SocketHeld,
           StartStep
    <3>2. Before(FC("open", e), FC("close", e), work'["conn"])
      BY <1>16, <2>1, <1>2, <1>f, <1>o, <1>h, <1>s, <1>p, HasAfter, OnceAfter, BeforeAfter,
           OtherQueues
         DEF SocketHeld, StartStep
    <3>3. Has("conn", FC("open", e))' =>
             /\ conn' = e /\ sock'[e] = "nil" /\ e \notin closed' /\ ~ connected'
             /\ ~ Has("conn", FC("shut", e))' /\ ~ Has("conn", FC("didDisconnect", e))'
      BY <1>16, <2>1, <1>2, <1>f, <1>o, <1>h, <1>s, <1>p, HasAfter, OnceAfter, BeforeAfter
         DEF ManagerHeld, SocketHeld, NewsOnce, News, StartStep
    <3>4. /\ sock'[e] # "nil" => conn' = e /\ e \notin closed'
          /\ Has("nm", FC("forget", e))' \/ Has("nm", FC("markConnected", e))' => conn' = e
          /\ Has("nm", FC("closed", e))' \/ Has("nm", FC("forget", e))' => e \in closed'
      BY <1>16, <2>1, <1>2, <1>f, <1>o, <1>h, <1>s, <1>p, HasAfter
         DEF ManagerHeld, SocketHeld, StartStep
    <3> QED BY <3>1, <3>2, <3>3, <3>4 DEF SocketHeld
  <2> QED BY <2>2, <2>3
<1>17. ASSUME NEW q \in Queues, CreateStep(q) PROVE ManagerHeld' /\ \A e \in Conns : SocketHeld(e)'
  <2>1. q = "nm"
    BY <1>17, <1>w, <1>2 DEF PlainStep
  <2>2. ManagerHeld'
    <3>1. Calls("nm", F("create"), "conn", FC("open", created'))
      BY <1>17, <2>1, <1>o DEF CreateStep, Passes
    <3>2. ~ Has("nm", F("create"))' /\ ~ connected
      BY <3>1, <1>h, <1>2, HasAfter, FirstAfter DEF Heads, ManagerHeld
    <3> QED BY <1>17, <3>2 DEF CreateStep, ManagerHeld
  <2>3. ASSUME NEW e \in Conns PROVE SocketHeld(e)'
    <3>1. Once(FC("open", e), work'["conn"])
      <4>1. /\ Calls("nm", F("create"), "conn", FC("open", created')) /\ created' \in Conns
            /\ created' = created + 1
        BY <1>17, <2>1, <1>o DEF CreateStep, Passes
      <4>2. Once(FC("open", e), work["conn"]) /\ Once(FC("open", created'), work["conn"])
        BY <4>1, <1>s DEF SocketHeld
      <4>3. ~ Has("conn", FC("open", created'))
        BY <4>1, <1>2, <1>p
      <4>4. CASE e = created'
        BY <4>1, <4>2, <4>3, <4>4, <1>2, OnceAfter
      <4>5. CASE e # created'
        <5>1. FC("open", e) # FC("open", created')
          BY <4>5, <1>f
        <5> QED BY <4>1, <4>2, <5>1, <1>2, OnceAfter
      <4> QED BY <4>4, <4>5
    <3>2. Before(FC("open", e), FC("close", e), work'["conn"])
      BY <1>17, <2>1, <1>2, <1>f, <1>o, <1>h, <1>s, <1>p, HasAfter, OnceAfter, BeforeAfter,
           OtherQueues
         DEF SocketHeld, CreateStep, Passes
    <3>3. Has("conn", FC("open", e))' =>
             /\ conn' = e /\ sock'[e] = "nil" /\ e \notin closed' /\ ~ connected'
             /\ ~ Has("conn", FC("shut", e))' /\ ~ Has("conn", FC("didDisconnect", e))'
      BY <1>17, <2>1, <1>2, <1>f, <1>o, <1>h, <1>s, <1>p, HasAfter, OnceAfter, BeforeAfter
         DEF ManagerHeld, SocketHeld, NewsOnce, News, CreateStep, Passes
    <3>4. /\ sock'[e] # "nil" => conn' = e /\ e \notin closed'
          /\ Has("nm", FC("forget", e))' \/ Has("nm", FC("markConnected", e))' => conn' = e
          /\ Has("nm", FC("closed", e))' \/ Has("nm", FC("forget", e))' => e \in closed'
      BY <1>17, <2>1, <1>2, <1>f, <1>o, <1>h, <1>s, <1>p, HasAfter
         DEF ManagerHeld, SocketHeld, CreateStep, Passes
    <3> QED BY <3>1, <3>2, <3>3, <3>4 DEF SocketHeld
  <2> QED BY <2>2, <2>3
<1>18. ASSUME NEW q \in Queues, NotifyDownStep(q) PROVE ManagerHeld' /\ \A e \in Conns : SocketHeld(e)'
  <2>1. q = "nm"
    BY <1>18, <1>w, <1>2 DEF PlainStep
  <2>2. ManagerHeld'
    BY <1>18, <2>1, <1>2, <1>f, <1>h, <1>s, HasAfter, FirstAfter DEF Heads, ManagerHeld,
         SocketHeld, NewsOnce, News, NotifyDownStep
  <2>3. ASSUME NEW e \in Conns PROVE SocketHeld(e)'
    <3>1. Once(FC("open", e), work'["conn"])
      BY <1>18, <2>1, <1>2, <1>f, <1>o, <1>h, <1>s, <1>p, OnceAfter, OtherQueues DEF SocketHeld,
           NotifyDownStep
    <3>2. Before(FC("open", e), FC("close", e), work'["conn"])
      BY <1>18, <2>1, <1>2, <1>f, <1>o, <1>h, <1>s, <1>p, HasAfter, OnceAfter, BeforeAfter,
           OtherQueues
         DEF SocketHeld, NotifyDownStep
    <3>3. Has("conn", FC("open", e))' =>
             /\ conn' = e /\ sock'[e] = "nil" /\ e \notin closed' /\ ~ connected'
             /\ ~ Has("conn", FC("shut", e))' /\ ~ Has("conn", FC("didDisconnect", e))'
      BY <1>18, <2>1, <1>2, <1>f, <1>o, <1>h, <1>s, <1>p, HasAfter, OnceAfter, BeforeAfter
         DEF ManagerHeld, SocketHeld, NewsOnce, News, NotifyDownStep
    <3>4. /\ sock'[e] # "nil" => conn' = e /\ e \notin closed'
          /\ Has("nm", FC("forget", e))' \/ Has("nm", FC("markConnected", e))' => conn' = e
          /\ Has("nm", FC("closed", e))' \/ Has("nm", FC("forget", e))' => e \in closed'
      BY <1>18, <2>1, <1>2, <1>f, <1>o, <1>h, <1>s, <1>p, HasAfter
         DEF ManagerHeld, SocketHeld, NotifyDownStep
    <3> QED BY <3>1, <3>2, <3>3, <3>4 DEF SocketHeld
  <2> QED BY <2>2, <2>3
<1>19. ASSUME NEW q \in Queues, RetryStep(q) PROVE ManagerHeld' /\ \A e \in Conns : SocketHeld(e)'
  <2>1. q = "nm"
    BY <1>19, <1>w, <1>2 DEF PlainStep
  <2>2. ManagerHeld'
    BY <1>19, <2>1, <1>2, <1>f, <1>h, <1>s, HasAfter, FirstAfter DEF Heads, ManagerHeld,
         SocketHeld, NewsOnce, News, RetryStep
  <2>3. ASSUME NEW e \in Conns PROVE SocketHeld(e)'
    <3>1. Once(FC("open", e), work'["conn"])
      BY <1>19, <2>1, <1>2, <1>f, <1>o, <1>h, <1>s, <1>p, OnceAfter, OtherQueues DEF SocketHeld,
           RetryStep
    <3>2. Before(FC("open", e), FC("close", e), work'["conn"])
      BY <1>19, <2>1, <1>2, <1>f, <1>o, <1>h, <1>s, <1>p, HasAfter, OnceAfter, BeforeAfter,
           OtherQueues
         DEF SocketHeld, RetryStep
    <3>3. Has("conn", FC("open", e))' =>
             /\ conn' = e /\ sock'[e] = "nil" /\ e \notin closed' /\ ~ connected'
             /\ ~ Has("conn", FC("shut", e))' /\ ~ Has("conn", FC("didDisconnect", e))'
      BY <1>19, <2>1, <1>2, <1>f, <1>o, <1>h, <1>s, <1>p, HasAfter, OnceAfter, BeforeAfter
         DEF ManagerHeld, SocketHeld, NewsOnce, News, RetryStep
    <3>4. /\ sock'[e] # "nil" => conn' = e /\ e \notin closed'
          /\ Has("nm", FC("forget", e))' \/ Has("nm", FC("markConnected", e))' => conn' = e
          /\ Has("nm", FC("closed", e))' \/ Has("nm", FC("forget", e))' => e \in closed'
      BY <1>19, <2>1, <1>2, <1>f, <1>o, <1>h, <1>s, <1>p, HasAfter
         DEF ManagerHeld, SocketHeld, RetryStep
    <3> QED BY <3>1, <3>2, <3>3, <3>4 DEF SocketHeld
  <2> QED BY <2>2, <2>3
<1>20. ASSUME NEW q \in Queues, TimerStep(q) PROVE ManagerHeld' /\ \A e \in Conns : SocketHeld(e)'
  <2>1. q = "nm"
    BY <1>20, <1>w, <1>2 DEF PlainStep
  <2>2. ManagerHeld'
    BY <1>20, <2>1, <1>2, <1>f, <1>h, <1>s, HasAfter, FirstAfter DEF Heads, ManagerHeld,
         SocketHeld, NewsOnce, News, TimerStep
  <2>3. ASSUME NEW e \in Conns PROVE SocketHeld(e)'
    <3>1. Once(FC("open", e), work'["conn"])
      BY <1>20, <2>1, <1>2, <1>f, <1>o, <1>h, <1>s, <1>p, OnceAfter, OtherQueues DEF SocketHeld,
           TimerStep
    <3>2. Before(FC("open", e), FC("close", e), work'["conn"])
      BY <1>20, <2>1, <1>2, <1>f, <1>o, <1>h, <1>s, <1>p, HasAfter, OnceAfter, BeforeAfter,
           OtherQueues
         DEF SocketHeld, TimerStep
    <3>3. Has("conn", FC("open", e))' =>
             /\ conn' = e /\ sock'[e] = "nil" /\ e \notin closed' /\ ~ connected'
             /\ ~ Has("conn", FC("shut", e))' /\ ~ Has("conn", FC("didDisconnect", e))'
      BY <1>20, <2>1, <1>2, <1>f, <1>o, <1>h, <1>s, <1>p, HasAfter, OnceAfter, BeforeAfter
         DEF ManagerHeld, SocketHeld, NewsOnce, News, TimerStep
    <3>4. /\ sock'[e] # "nil" => conn' = e /\ e \notin closed'
          /\ Has("nm", FC("forget", e))' \/ Has("nm", FC("markConnected", e))' => conn' = e
          /\ Has("nm", FC("closed", e))' \/ Has("nm", FC("forget", e))' => e \in closed'
      BY <1>20, <2>1, <1>2, <1>f, <1>o, <1>h, <1>s, <1>p, HasAfter
         DEF ManagerHeld, SocketHeld, TimerStep
    <3> QED BY <3>1, <3>2, <3>3, <3>4 DEF SocketHeld
  <2> QED BY <2>2, <2>3
<1>21. ASSUME NEW q \in Queues, RequestStep(q) PROVE ManagerHeld' /\ \A e \in Conns : SocketHeld(e)'
  <2>1. q = "nm"
    BY <1>21, <1>w, <1>2 DEF PlainStep
  <2>2. ManagerHeld'
    BY <1>21, <2>1, <1>2, <1>f, <1>h, <1>s, HasAfter, FirstAfter DEF Heads, ManagerHeld,
         SocketHeld, NewsOnce, News, RequestStep
  <2>3. ASSUME NEW e \in Conns PROVE SocketHeld(e)'
    <3>1. Once(FC("open", e), work'["conn"])
      BY <1>21, <2>1, <1>2, <1>f, <1>o, <1>h, <1>s, <1>p, OnceAfter, OtherQueues DEF SocketHeld,
           RequestStep
    <3>2. Before(FC("open", e), FC("close", e), work'["conn"])
      BY <1>21, <2>1, <1>2, <1>f, <1>o, <1>h, <1>s, <1>p, HasAfter, OnceAfter, BeforeAfter,
           OtherQueues
         DEF SocketHeld, RequestStep
    <3>3. Has("conn", FC("open", e))' =>
             /\ conn' = e /\ sock'[e] = "nil" /\ e \notin closed' /\ ~ connected'
             /\ ~ Has("conn", FC("shut", e))' /\ ~ Has("conn", FC("didDisconnect", e))'
      BY <1>21, <2>1, <1>2, <1>f, <1>o, <1>h, <1>s, <1>p, HasAfter, OnceAfter, BeforeAfter
         DEF ManagerHeld, SocketHeld, NewsOnce, News, RequestStep
    <3>4. /\ sock'[e] # "nil" => conn' = e /\ e \notin closed'
          /\ Has("nm", FC("forget", e))' \/ Has("nm", FC("markConnected", e))' => conn' = e
          /\ Has("nm", FC("closed", e))' \/ Has("nm", FC("forget", e))' => e \in closed'
      BY <1>21, <2>1, <1>2, <1>f, <1>o, <1>h, <1>s, <1>p, HasAfter
         DEF ManagerHeld, SocketHeld, RequestStep
    <3> QED BY <3>1, <3>2, <3>3, <3>4 DEF SocketHeld
  <2> QED BY <2>2, <2>3
<1>22. ASSUME NEW q \in Queues, ReconnectStep(q) PROVE ManagerHeld' /\ \A e \in Conns : SocketHeld(e)'
  <2>1. q = "nm"
    BY <1>22, <1>w, <1>2 DEF PlainStep
  <2>2. ManagerHeld'
    BY <1>22, <2>1, <1>2, <1>f, <1>h, <1>s, HasAfterReconnect, FirstAfter DEF Heads, ManagerHeld,
         SocketHeld, NewsOnce, News, ReconnectStep
  <2>3. ASSUME NEW e \in Conns PROVE SocketHeld(e)'
    <3>1. conn' = conn /\ connected' = FALSE /\ UNCHANGED sockets
      BY <1>22 DEF ReconnectStep
    <3> QED BY <1>22, <2>1, <3>1, <1>2, <1>f, <1>h, <1>s, <1>p, HasAfterReconnect, FirstAfter, OtherQueues
            DEF Heads, ManagerHeld, SocketHeld
  <2> QED BY <2>2, <2>3
<1>23. ASSUME NEW q \in Queues, StopStep(q) PROVE ManagerHeld' /\ \A e \in Conns : SocketHeld(e)'
  <2>1. q = "nm"
    BY <1>23, <1>w, <1>2 DEF PlainStep
  <2>2. ManagerHeld'
    BY <1>23, <2>1, <1>2, <1>f, <1>h, <1>s, HasAfter, FirstAfter DEF Heads, ManagerHeld,
         SocketHeld, NewsOnce, News, StopStep
  <2>3. ASSUME NEW e \in Conns PROVE SocketHeld(e)'
    <3>1. Once(FC("open", e), work'["conn"])
      <4>1. Once(FC("open", e), work["conn"])
        BY <1>s DEF SocketHeld
      <4>2. \/ Ends("nm", F("stopCurrent"))
            \/ Calls("nm", F("stopCurrent"), "conn", FC("close", conn))
        BY <1>23, <2>1, <1>o DEF StopStep, Passes
      <4>3. FC("open", e) # FC("close", conn)
        BY <1>f
      <4>4. CASE Ends("nm", F("stopCurrent"))
        BY <4>1, <4>4, <1>2, OtherQueues
      <4>5. CASE Calls("nm", F("stopCurrent"), "conn", FC("close", conn))
        BY <4>1, <4>3, <4>5, <1>2, OnceAfter
      <4> QED BY <4>2, <4>4, <4>5
    <3>2. Before(FC("open", e), FC("close", e), work'["conn"])
      BY <1>23, <2>1, <1>2, <1>f, <1>o, <1>h, <1>s, <1>p, HasAfter, OnceAfter, BeforeAfter,
           OtherQueues
         DEF SocketHeld, StopStep, Passes
    <3>3. Has("conn", FC("open", e))' =>
             /\ conn' = e /\ sock'[e] = "nil" /\ e \notin closed' /\ ~ connected'
             /\ ~ Has("conn", FC("shut", e))' /\ ~ Has("conn", FC("didDisconnect", e))'
      BY <1>23, <2>1, <1>2, <1>f, <1>o, <1>h, <1>s, <1>p, HasAfter, OnceAfter, BeforeAfter
         DEF ManagerHeld, SocketHeld, NewsOnce, News, StopStep, Passes
    <3>4. /\ sock'[e] # "nil" => conn' = e /\ e \notin closed'
          /\ Has("nm", FC("forget", e))' \/ Has("nm", FC("markConnected", e))' => conn' = e
          /\ Has("nm", FC("closed", e))' \/ Has("nm", FC("forget", e))' => e \in closed'
      BY <1>23, <2>1, <1>2, <1>f, <1>o, <1>h, <1>s, <1>p, HasAfter
         DEF ManagerHeld, SocketHeld, StopStep, Passes
    <3> QED BY <3>1, <3>2, <3>3, <3>4 DEF SocketHeld
  <2> QED BY <2>2, <2>3
<1>24. ASSUME NEW q \in Queues, DownStep(q) PROVE ManagerHeld' /\ \A e \in Conns : SocketHeld(e)'
  <2>1. q = "net"
    BY <1>24, <1>w, <1>2 DEF NetPlainStep
  <2>2. ManagerHeld'
    BY <1>24, <2>1, <1>2, <1>f, <1>h, <1>s, HasAfter, FirstAfter DEF Heads, ManagerHeld,
         SocketHeld, NewsOnce, News, DownStep
  <2>3. ASSUME NEW e \in Conns PROVE SocketHeld(e)'
    <3>1. Once(FC("open", e), work'["conn"])
      BY <1>24, <2>1, <1>2, <1>f, <1>o, <1>h, <1>s, <1>p, OnceAfter, OtherQueues DEF SocketHeld,
           DownStep
    <3>2. Before(FC("open", e), FC("close", e), work'["conn"])
      BY <1>24, <2>1, <1>2, <1>f, <1>o, <1>h, <1>s, <1>p, HasAfter, OnceAfter, BeforeAfter,
           OtherQueues
         DEF SocketHeld, DownStep
    <3>3. Has("conn", FC("open", e))' =>
             /\ conn' = e /\ sock'[e] = "nil" /\ e \notin closed' /\ ~ connected'
             /\ ~ Has("conn", FC("shut", e))' /\ ~ Has("conn", FC("didDisconnect", e))'
      BY <1>24, <2>1, <1>2, <1>f, <1>o, <1>h, <1>s, <1>p, HasAfter, OnceAfter, BeforeAfter
         DEF ManagerHeld, SocketHeld, NewsOnce, News, DownStep
    <3>4. /\ sock'[e] # "nil" => conn' = e /\ e \notin closed'
          /\ Has("nm", FC("forget", e))' \/ Has("nm", FC("markConnected", e))' => conn' = e
          /\ Has("nm", FC("closed", e))' \/ Has("nm", FC("forget", e))' => e \in closed'
      BY <1>24, <2>1, <1>2, <1>f, <1>o, <1>h, <1>s, <1>p, HasAfter
         DEF ManagerHeld, SocketHeld, DownStep
    <3> QED BY <3>1, <3>2, <3>3, <3>4 DEF SocketHeld
  <2> QED BY <2>2, <2>3
<1>25. ASSUME NEW q \in Queues, AskStep(q) PROVE ManagerHeld' /\ \A e \in Conns : SocketHeld(e)'
  <2>1. q = "net"
    BY <1>25, <1>w, <1>2 DEF NetPlainStep
  <2>2. ManagerHeld'
    BY <1>25, <2>1, <1>2, <1>f, <1>h, <1>s, HasAfter, FirstAfter DEF Heads, ManagerHeld,
         SocketHeld, NewsOnce, News, AskStep
  <2>3. ASSUME NEW e \in Conns PROVE SocketHeld(e)'
    <3>1. Once(FC("open", e), work'["conn"])
      BY <1>25, <2>1, <1>2, <1>f, <1>o, <1>h, <1>s, <1>p, OnceAfter, OtherQueues DEF SocketHeld,
           AskStep, Passes
    <3>2. Before(FC("open", e), FC("close", e), work'["conn"])
      BY <1>25, <2>1, <1>2, <1>f, <1>o, <1>h, <1>s, <1>p, HasAfter, OnceAfter, BeforeAfter,
           OtherQueues
         DEF SocketHeld, AskStep, Passes
    <3>3. Has("conn", FC("open", e))' =>
             /\ conn' = e /\ sock'[e] = "nil" /\ e \notin closed' /\ ~ connected'
             /\ ~ Has("conn", FC("shut", e))' /\ ~ Has("conn", FC("didDisconnect", e))'
      BY <1>25, <2>1, <1>2, <1>f, <1>o, <1>h, <1>s, <1>p, HasAfter, OnceAfter, BeforeAfter
         DEF ManagerHeld, SocketHeld, NewsOnce, News, AskStep, Passes
    <3>4. /\ sock'[e] # "nil" => conn' = e /\ e \notin closed'
          /\ Has("nm", FC("forget", e))' \/ Has("nm", FC("markConnected", e))' => conn' = e
          /\ Has("nm", FC("closed", e))' \/ Has("nm", FC("forget", e))' => e \in closed'
      BY <1>25, <2>1, <1>2, <1>f, <1>o, <1>h, <1>s, <1>p, HasAfter
         DEF ManagerHeld, SocketHeld, AskStep, Passes
    <3> QED BY <3>1, <3>2, <3>3, <3>4 DEF SocketHeld
  <2> QED BY <2>2, <2>3
<1>26. ASSUME AskedStep \/ FiresStep PROVE ManagerHeld' /\ \A e \in Conns : SocketHeld(e)'
  BY <1>26, <1>2, <1>f, <1>h, <1>s, HasAfter, OnceAfter, BeforeAfter, OtherQueues
     DEF ManagerHeld, SocketHeld, AskedStep, FiresStep
<1>27. ASSUME NEW c \in Conns, OutsideStep(c) PROVE ManagerHeld' /\ \A e \in Conns : SocketHeld(e)'
  BY <1>27, <1>2, <1>f, <1>h, <1>s, HasAfter, OnceAfter, BeforeAfter, OtherQueues
     DEF ManagerHeld, SocketHeld, OutsideStep, EstablishStep, BreakStep, ServerDataStep
<1> QED
  BY <1>1, <1>3, <1>4, <1>5, <1>6, <1>7, <1>8, <1>9, <1>10, <1>11, <1>12, <1>13, <1>14, <1>15,
       <1>16, <1>17, <1>18, <1>19, <1>20, <1>21, <1>22, <1>23, <1>24, <1>25, <1>26, <1>27
     DEF Step, SocketStep, ManagerStep, NetStep, PlainStep, NetPlainStep
LEMMA NewsKept ==
    ASSUME Shape, ~ sharedKey, Apart, Next
    PROVE  \A e \in Conns : NewsOnce(e)'
<1>1. Step
  BY StepOf
<1>2. /\ conn \in {None, created} /\ created \in Nat /\ session \in Nat /\ session <= created
      /\ sock \in [Conns -> {"nil", "connecting", "up", "broken"}]
      /\ \A c \in Conns : c \in Nat /\ c # None /\ (c > created => sock[c] = "nil" /\ c \notin closed)
      /\ conn # None => conn \in Conns
      /\ Queues = {"nm", "conn", "net"} /\ 1 \in Conns
  BY BoundsAssumption DEF Shape, TypeOK, None, Conns, Queues
<1>f. /\ \A op : F(op) = FC(op, None)
      /\ \A x, y, c, d : FC(x, c) = FC(y, d) => x = y /\ c = d
  BY FrameParts
<1>o. ~ IsOwn("net", "nm") /\ ~ IsOwn("conn", "nm") /\ ~ IsOwn("nm", "conn")
  BY DEF IsOwn
<1>w. \A q \in Queues, c \in Conns :
         /\ SocketStep(q, c) => q = "conn"
         /\ ManagerStep(q, c) \/ PlainStep(q) => q = "nm"
         /\ NetStep(q, c) \/ NetPlainStep(q) => q = "net"
  BY Where
<1> USE DEF manager, sockets, app
<1>h. ManagerHeld /\ \A c \in Conns : SocketHeld(c) /\ NewsOnce(c)
  BY DEF Apart
<1>p. \A c \in Conns, q \in Queues : \A op : Has(q, FC(op, c)) => c <= created
  BY Shaped
<1>3. ASSUME NEW q \in Queues, NEW c \in Conns, OpenStep(q, c) PROVE \A e \in Conns : NewsOnce(e)'
  <2>1. q = "conn"
    BY <1>3, <1>w, <1>2 DEF SocketStep
  <2>2. ASSUME NEW e \in Conns PROVE NewsOnce(e)'
    <3>1. Once(FC("didConnect", e), work'["conn"])
      BY <1>3, <2>1, <1>2, <1>f, <1>o, <1>h, OnceAfter, OtherQueues DEF NewsOnce, OpenStep
    <3>2. Once(FC("connected", e), work'["nm"]) /\ Once(FC("markConnected", e), work'["nm"])
      BY <1>3, <2>1, <1>2, <1>f, <1>o, <1>h, OnceAfter, OtherQueues DEF NewsOnce, OpenStep
    <3>3. Once(FC("up", e), work'["net"])
      BY <1>3, <2>1, <1>2, <1>f, <1>o, <1>h, OnceAfter, OtherQueues DEF NewsOnce, OpenStep, News
    <3>5. /\ Has("conn", FC("didConnect", e))' => ~ Has("nm", FC("connected", e))'
          /\ Has("conn", FC("didConnect", e))' \/ Has("nm", FC("connected", e))' =>
                ~ Has("nm", FC("markConnected", e))'
          /\ News(e)' => ~ Has("net", FC("up", e))' /\ (conn' = e => ~ connected')
          /\ News(e)' \/ Has("net", FC("up", e))' => sock'[e] # "connecting" /\ ~ Has("conn", FC("open", e))'
      BY <1>3, <2>1, <1>2, <1>f, <1>o, <1>h, <1>p, HasAfter, OnceAfter DEF ManagerHeld, SocketHeld,
           NewsOnce, News, OpenStep
    <3> QED BY <3>1, <3>2, <3>3, <3>5 DEF NewsOnce
  <2> QED BY <2>2
<1>4. ASSUME NEW q \in Queues, NEW c \in Conns, CloseStep(q, c) PROVE \A e \in Conns : NewsOnce(e)'
  <2>1. q = "conn"
    BY <1>4, <1>w, <1>2 DEF SocketStep
  <2>2. ASSUME NEW e \in Conns PROVE NewsOnce(e)'
    <3>1. Once(FC("didConnect", e), work'["conn"])
      BY <1>4, <2>1, <1>2, <1>f, <1>o, <1>h, OnceAfter, OtherQueues DEF NewsOnce, CloseStep
    <3>2. Once(FC("connected", e), work'["nm"]) /\ Once(FC("markConnected", e), work'["nm"])
      BY <1>4, <2>1, <1>2, <1>f, <1>o, <1>h, OnceAfter, OtherQueues DEF NewsOnce, CloseStep
    <3>3. Once(FC("up", e), work'["net"])
      BY <1>4, <2>1, <1>2, <1>f, <1>o, <1>h, OnceAfter, OtherQueues DEF NewsOnce, CloseStep, News
    <3>5. /\ Has("conn", FC("didConnect", e))' => ~ Has("nm", FC("connected", e))'
          /\ Has("conn", FC("didConnect", e))' \/ Has("nm", FC("connected", e))' =>
                ~ Has("nm", FC("markConnected", e))'
          /\ News(e)' => ~ Has("net", FC("up", e))' /\ (conn' = e => ~ connected')
          /\ News(e)' \/ Has("net", FC("up", e))' => sock'[e] # "connecting" /\ ~ Has("conn", FC("open", e))'
      BY <1>4, <2>1, <1>2, <1>f, <1>o, <1>h, <1>p, HasAfter, OnceAfter DEF ManagerHeld, SocketHeld,
           NewsOnce, News, CloseStep
    <3> QED BY <3>1, <3>2, <3>3, <3>5 DEF NewsOnce
  <2> QED BY <2>2
<1>5. ASSUME NEW q \in Queues, NEW c \in Conns, ShutStep(q, c) PROVE \A e \in Conns : NewsOnce(e)'
  <2>1. q = "conn"
    BY <1>5, <1>w, <1>2 DEF SocketStep
  <2>2. ASSUME NEW e \in Conns PROVE NewsOnce(e)'
    <3>1. Once(FC("didConnect", e), work'["conn"])
      BY <1>5, <2>1, <1>2, <1>f, <1>o, <1>h, OnceAfter, OtherQueues DEF NewsOnce, ShutStep, Passes
    <3>2. Once(FC("connected", e), work'["nm"]) /\ Once(FC("markConnected", e), work'["nm"])
      BY <1>5, <2>1, <1>2, <1>f, <1>o, <1>h, OnceAfter, OtherQueues DEF NewsOnce, ShutStep, Passes
    <3>3. Once(FC("up", e), work'["net"])
      BY <1>5, <2>1, <1>2, <1>f, <1>o, <1>h, OnceAfter, OtherQueues DEF NewsOnce, ShutStep, Passes,
           News
    <3>5. /\ Has("conn", FC("didConnect", e))' => ~ Has("nm", FC("connected", e))'
          /\ Has("conn", FC("didConnect", e))' \/ Has("nm", FC("connected", e))' =>
                ~ Has("nm", FC("markConnected", e))'
          /\ News(e)' => ~ Has("net", FC("up", e))' /\ (conn' = e => ~ connected')
          /\ News(e)' \/ Has("net", FC("up", e))' => sock'[e] # "connecting" /\ ~ Has("conn", FC("open", e))'
      BY <1>5, <2>1, <1>2, <1>f, <1>o, <1>h, <1>p, HasAfter, OnceAfter DEF ManagerHeld, SocketHeld,
           NewsOnce, News, ShutStep, Passes
    <3> QED BY <3>1, <3>2, <3>3, <3>5 DEF NewsOnce
  <2> QED BY <2>2
<1>6. ASSUME NEW q \in Queues, NEW c \in Conns, DidConnectStep(q, c) PROVE \A e \in Conns : NewsOnce(e)'
  <2>1. q = "conn"
    BY <1>6, <1>w, <1>2 DEF SocketStep
  <2>2. ASSUME NEW e \in Conns PROVE NewsOnce(e)'
    <3>1. Once(FC("didConnect", e), work'["conn"])
      BY <1>6, <2>1, <1>2, <1>f, <1>o, <1>h, OnceAfter, OtherQueues DEF NewsOnce, DidConnectStep,
           Passes
    <3>2. Once(FC("connected", e), work'["nm"]) /\ Once(FC("markConnected", e), work'["nm"])
      <4>1. /\ \/ Ends("conn", FC("didConnect", c))
               \/ Calls("conn", FC("didConnect", c), "nm", FC("connected", c))
            /\ {"conn", "nm"} \subseteq Queues /\ Has("conn", FC("didConnect", c))
        BY <1>6, <2>1, <1>2, <1>o, HasAfter DEF DidConnectStep, Passes
      <4>2. /\ Once(FC("connected", e), work["nm"]) /\ Once(FC("markConnected", e), work["nm"])
            /\ Once(FC("connected", c), work["nm"]) /\ ~ Has("nm", FC("connected", c))
        BY <4>1, <1>h DEF NewsOnce
      <4>3. FC("markConnected", e) # FC("connected", c)
        BY <1>f
      <4>4. CASE Ends("conn", FC("didConnect", c))
        BY <4>1, <4>2, <4>4, OtherQueues
      <4>5. CASE Calls("conn", FC("didConnect", c), "nm", FC("connected", c)) /\ e = c
        BY <4>1, <4>2, <4>3, <4>5, OnceAfter
      <4>6. CASE Calls("conn", FC("didConnect", c), "nm", FC("connected", c)) /\ e # c
        <5>1. FC("connected", e) # FC("connected", c)
          BY <4>6, <1>f
        <5> QED BY <4>1, <4>2, <4>3, <4>6, <5>1, OnceAfter
      <4> QED BY <4>1, <4>4, <4>5, <4>6
    <3>3. Once(FC("up", e), work'["net"])
      BY <1>6, <2>1, <1>2, <1>f, <1>o, <1>h, OnceAfter, OtherQueues DEF NewsOnce, DidConnectStep,
           Passes, News
    <3>5. /\ Has("conn", FC("didConnect", e))' => ~ Has("nm", FC("connected", e))'
          /\ Has("conn", FC("didConnect", e))' \/ Has("nm", FC("connected", e))' =>
                ~ Has("nm", FC("markConnected", e))'
          /\ News(e)' => ~ Has("net", FC("up", e))' /\ (conn' = e => ~ connected')
          /\ News(e)' \/ Has("net", FC("up", e))' => sock'[e] # "connecting" /\ ~ Has("conn", FC("open", e))'
      BY <1>6, <2>1, <1>2, <1>f, <1>o, <1>h, <1>p, HasAfter, OnceAfter DEF ManagerHeld, SocketHeld,
           NewsOnce, News, DidConnectStep, Passes
    <3> QED BY <3>1, <3>2, <3>3, <3>5 DEF NewsOnce
  <2> QED BY <2>2
<1>7. ASSUME NEW q \in Queues, NEW c \in Conns, DidDisconnectStep(q, c) PROVE \A e \in Conns : NewsOnce(e)'
  <2>1. q = "conn"
    BY <1>7, <1>w, <1>2 DEF SocketStep
  <2>2. ASSUME NEW e \in Conns PROVE NewsOnce(e)'
    <3>1. Once(FC("didConnect", e), work'["conn"])
      BY <1>7, <2>1, <1>2, <1>f, <1>o, <1>h, OnceAfter, OtherQueues DEF NewsOnce, DidDisconnectStep
    <3>2. Once(FC("connected", e), work'["nm"]) /\ Once(FC("markConnected", e), work'["nm"])
      BY <1>7, <2>1, <1>2, <1>f, <1>o, <1>h, OnceAfter, OtherQueues DEF NewsOnce, DidDisconnectStep
    <3>3. Once(FC("up", e), work'["net"])
      BY <1>7, <2>1, <1>2, <1>f, <1>o, <1>h, OnceAfter, OtherQueues DEF NewsOnce,
           DidDisconnectStep, News
    <3>5. /\ Has("conn", FC("didConnect", e))' => ~ Has("nm", FC("connected", e))'
          /\ Has("conn", FC("didConnect", e))' \/ Has("nm", FC("connected", e))' =>
                ~ Has("nm", FC("markConnected", e))'
          /\ News(e)' => ~ Has("net", FC("up", e))' /\ (conn' = e => ~ connected')
          /\ News(e)' \/ Has("net", FC("up", e))' => sock'[e] # "connecting" /\ ~ Has("conn", FC("open", e))'
      BY <1>7, <2>1, <1>2, <1>f, <1>o, <1>h, <1>p, HasAfter, OnceAfter DEF ManagerHeld, SocketHeld,
           NewsOnce, News, DidDisconnectStep
    <3> QED BY <3>1, <3>2, <3>3, <3>5 DEF NewsOnce
  <2> QED BY <2>2
<1>8. ASSUME NEW q \in Queues, NEW c \in Conns, DidReadStep(q, c) PROVE \A e \in Conns : NewsOnce(e)'
  <2>1. q = "conn"
    BY <1>8, <1>w, <1>2 DEF SocketStep
  <2>2. ASSUME NEW e \in Conns PROVE NewsOnce(e)'
    <3>1. Once(FC("didConnect", e), work'["conn"])
      BY <1>8, <2>1, <1>2, <1>f, <1>o, <1>h, OnceAfter, OtherQueues DEF NewsOnce, DidReadStep
    <3>2. Once(FC("connected", e), work'["nm"]) /\ Once(FC("markConnected", e), work'["nm"])
      BY <1>8, <2>1, <1>2, <1>f, <1>o, <1>h, OnceAfter, OtherQueues DEF NewsOnce, DidReadStep
    <3>3. Once(FC("up", e), work'["net"])
      BY <1>8, <2>1, <1>2, <1>f, <1>o, <1>h, OnceAfter, OtherQueues DEF NewsOnce, DidReadStep, News
    <3>5. /\ Has("conn", FC("didConnect", e))' => ~ Has("nm", FC("connected", e))'
          /\ Has("conn", FC("didConnect", e))' \/ Has("nm", FC("connected", e))' =>
                ~ Has("nm", FC("markConnected", e))'
          /\ News(e)' => ~ Has("net", FC("up", e))' /\ (conn' = e => ~ connected')
          /\ News(e)' \/ Has("net", FC("up", e))' => sock'[e] # "connecting" /\ ~ Has("conn", FC("open", e))'
      BY <1>8, <2>1, <1>2, <1>f, <1>o, <1>h, <1>p, HasAfter, OnceAfter DEF ManagerHeld, SocketHeld,
           NewsOnce, News, DidReadStep
    <3> QED BY <3>1, <3>2, <3>3, <3>5 DEF NewsOnce
  <2> QED BY <2>2
<1>9. ASSUME NEW q \in Queues, NEW c \in Conns, HandOverStep(q, c) PROVE \A e \in Conns : NewsOnce(e)'
  <2>1. q = "conn"
    BY <1>9, <1>w, <1>2 DEF SocketStep
  <2>2. ASSUME NEW e \in Conns PROVE NewsOnce(e)'
    <3>1. Once(FC("didConnect", e), work'["conn"])
      BY <1>9, <2>1, <1>2, <1>f, <1>o, <1>h, OnceAfter, OtherQueues DEF NewsOnce, HandOverStep
    <3>2. Once(FC("connected", e), work'["nm"]) /\ Once(FC("markConnected", e), work'["nm"])
      BY <1>9, <2>1, <1>2, <1>f, <1>o, <1>h, OnceAfter, OtherQueues DEF NewsOnce, HandOverStep
    <3>3. Once(FC("up", e), work'["net"])
      BY <1>9, <2>1, <1>2, <1>f, <1>o, <1>h, OnceAfter, OtherQueues DEF NewsOnce, HandOverStep, News
    <3>5. /\ Has("conn", FC("didConnect", e))' => ~ Has("nm", FC("connected", e))'
          /\ Has("conn", FC("didConnect", e))' \/ Has("nm", FC("connected", e))' =>
                ~ Has("nm", FC("markConnected", e))'
          /\ News(e)' => ~ Has("net", FC("up", e))' /\ (conn' = e => ~ connected')
          /\ News(e)' \/ Has("net", FC("up", e))' => sock'[e] # "connecting" /\ ~ Has("conn", FC("open", e))'
      BY <1>9, <2>1, <1>2, <1>f, <1>o, <1>h, <1>p, HasAfter, OnceAfter DEF ManagerHeld, SocketHeld,
           NewsOnce, News, HandOverStep
    <3> QED BY <3>1, <3>2, <3>3, <3>5 DEF NewsOnce
  <2> QED BY <2>2
<1>10. ASSUME NEW q \in Queues, NEW c \in Conns, ConnectedStep(q, c) PROVE \A e \in Conns : NewsOnce(e)'
  <2>1. q = "nm"
    BY <1>10, <1>w, <1>2 DEF ManagerStep
  <2>2. ASSUME NEW e \in Conns PROVE NewsOnce(e)'
    <3>1. Once(FC("didConnect", e), work'["conn"])
      BY <1>10, <2>1, <1>2, <1>f, <1>o, <1>h, OnceAfter, OtherQueues DEF NewsOnce, ConnectedStep
    <3>2. Once(FC("connected", e), work'["nm"]) /\ Once(FC("markConnected", e), work'["nm"])
      <4>1. /\ \/ Ends("nm", FC("connected", c))
               \/ GoesOn("nm", FC("connected", c), FC("markConnected", c))
            /\ "nm" \in Queues /\ Has("nm", FC("connected", c))
        BY <1>10, <2>1, <1>2, HasAfter DEF ConnectedStep
      <4>2. /\ Once(FC("connected", e), work["nm"]) /\ Once(FC("markConnected", e), work["nm"])
            /\ Once(FC("markConnected", c), work["nm"]) /\ ~ Has("nm", FC("markConnected", c))
        BY <4>1, <1>h DEF NewsOnce
      <4>3. FC("connected", e) # FC("markConnected", c)
        BY <1>f
      <4>4. CASE Ends("nm", FC("connected", c))
        BY <4>1, <4>2, <4>4, OnceAfter
      <4>5. CASE GoesOn("nm", FC("connected", c), FC("markConnected", c)) /\ e = c
        BY <4>1, <4>2, <4>3, <4>5, OnceAfter
      <4>6. CASE GoesOn("nm", FC("connected", c), FC("markConnected", c)) /\ e # c
        <5>1. FC("markConnected", e) # FC("markConnected", c)
          BY <4>6, <1>f
        <5> QED BY <4>1, <4>2, <4>3, <4>6, <5>1, OnceAfter
      <4> QED BY <4>1, <4>4, <4>5, <4>6
    <3>3. Once(FC("up", e), work'["net"])
      BY <1>10, <2>1, <1>2, <1>f, <1>o, <1>h, OnceAfter, OtherQueues DEF NewsOnce, ConnectedStep,
           News
    <3>5. /\ Has("conn", FC("didConnect", e))' => ~ Has("nm", FC("connected", e))'
          /\ Has("conn", FC("didConnect", e))' \/ Has("nm", FC("connected", e))' =>
                ~ Has("nm", FC("markConnected", e))'
          /\ News(e)' => ~ Has("net", FC("up", e))' /\ (conn' = e => ~ connected')
          /\ News(e)' \/ Has("net", FC("up", e))' => sock'[e] # "connecting" /\ ~ Has("conn", FC("open", e))'
      BY <1>10, <2>1, <1>2, <1>f, <1>o, <1>h, <1>p, HasAfter, OnceAfter DEF ManagerHeld,
           SocketHeld, NewsOnce, News, ConnectedStep
    <3> QED BY <3>1, <3>2, <3>3, <3>5 DEF NewsOnce
  <2> QED BY <2>2
<1>11. ASSUME NEW q \in Queues, NEW c \in Conns, MarkConnectedStep(q, c) PROVE \A e \in Conns : NewsOnce(e)'
  <2>1. q = "nm"
    BY <1>11, <1>w, <1>2 DEF ManagerStep
  <2>2. ASSUME NEW e \in Conns PROVE NewsOnce(e)'
    <3>1. Once(FC("didConnect", e), work'["conn"])
      BY <1>11, <2>1, <1>2, <1>f, <1>o, <1>h, OnceAfter, OtherQueues DEF NewsOnce, MarkConnectedStep
    <3>2. Once(FC("connected", e), work'["nm"]) /\ Once(FC("markConnected", e), work'["nm"])
      BY <1>11, <2>1, <1>2, <1>f, <1>o, <1>h, OnceAfter, OtherQueues DEF NewsOnce, MarkConnectedStep
    <3>3. Once(FC("up", e), work'["net"])
      <4>1. /\ Calls("nm", FC("markConnected", c), "net", FC("up", c)) /\ {"nm", "net"} \subseteq Queues
            /\ Has("nm", FC("markConnected", c))
        BY <1>11, <2>1, <1>2, HasAfter DEF MarkConnectedStep
      <4>2. Once(FC("up", e), work["net"]) /\ Once(FC("up", c), work["net"]) /\ ~ Has("net", FC("up", c))
        BY <4>1, <1>h DEF NewsOnce, News
      <4>3. CASE e = c
        BY <4>1, <4>2, <4>3, OnceAfter
      <4>4. CASE e # c
        BY <4>1, <4>2, <4>4, <1>f, OnceAfter
      <4> QED BY <4>3, <4>4
    <3>5. /\ Has("conn", FC("didConnect", e))' => ~ Has("nm", FC("connected", e))'
          /\ Has("conn", FC("didConnect", e))' \/ Has("nm", FC("connected", e))' =>
                ~ Has("nm", FC("markConnected", e))'
          /\ News(e)' => ~ Has("net", FC("up", e))' /\ (conn' = e => ~ connected')
          /\ News(e)' \/ Has("net", FC("up", e))' => sock'[e] # "connecting" /\ ~ Has("conn", FC("open", e))'
      BY <1>11, <2>1, <1>2, <1>f, <1>o, <1>h, <1>p, HasAfter, OnceAfter DEF ManagerHeld,
           SocketHeld, NewsOnce, News, MarkConnectedStep
    <3> QED BY <3>1, <3>2, <3>3, <3>5 DEF NewsOnce
  <2> QED BY <2>2
<1>12. ASSUME NEW q \in Queues, NEW c \in Conns, ClosedStep(q, c) PROVE \A e \in Conns : NewsOnce(e)'
  <2>1. q = "nm"
    BY <1>12, <1>w, <1>2 DEF ManagerStep
  <2>2. ASSUME NEW e \in Conns PROVE NewsOnce(e)'
    <3>1. Once(FC("didConnect", e), work'["conn"])
      BY <1>12, <2>1, <1>2, <1>f, <1>o, <1>h, OnceAfter, OtherQueues DEF NewsOnce, ClosedStep
    <3>2. Once(FC("connected", e), work'["nm"]) /\ Once(FC("markConnected", e), work'["nm"])
      BY <1>12, <2>1, <1>2, <1>f, <1>o, <1>h, OnceAfter, OtherQueues DEF NewsOnce, ClosedStep
    <3>3. Once(FC("up", e), work'["net"])
      BY <1>12, <2>1, <1>2, <1>f, <1>o, <1>h, OnceAfter, OtherQueues DEF NewsOnce, ClosedStep, News
    <3>5. /\ Has("conn", FC("didConnect", e))' => ~ Has("nm", FC("connected", e))'
          /\ Has("conn", FC("didConnect", e))' \/ Has("nm", FC("connected", e))' =>
                ~ Has("nm", FC("markConnected", e))'
          /\ News(e)' => ~ Has("net", FC("up", e))' /\ (conn' = e => ~ connected')
          /\ News(e)' \/ Has("net", FC("up", e))' => sock'[e] # "connecting" /\ ~ Has("conn", FC("open", e))'
      BY <1>12, <2>1, <1>2, <1>f, <1>o, <1>h, <1>p, HasAfter, OnceAfter DEF ManagerHeld,
           SocketHeld, NewsOnce, News, ClosedStep
    <3> QED BY <3>1, <3>2, <3>3, <3>5 DEF NewsOnce
  <2> QED BY <2>2
<1>13. ASSUME NEW q \in Queues, NEW c \in Conns, ForgetStep(q, c) PROVE \A e \in Conns : NewsOnce(e)'
  <2>1. q = "nm"
    BY <1>13, <1>w, <1>2 DEF ManagerStep
  <2>2. ASSUME NEW e \in Conns PROVE NewsOnce(e)'
    <3>1. Once(FC("didConnect", e), work'["conn"])
      BY <1>13, <2>1, <1>2, <1>f, <1>o, <1>h, OnceAfter, OtherQueues DEF NewsOnce
    <3>2. Once(FC("connected", e), work'["nm"]) /\ Once(FC("markConnected", e), work'["nm"])
      BY <1>13, <2>1, <1>2, <1>f, <1>o, <1>h, OnceAfter, OtherQueues DEF NewsOnce
    <3>3. Once(FC("up", e), work'["net"])
      BY <1>13, <2>1, <1>2, <1>f, <1>o, <1>h, OnceAfter, OtherQueues DEF NewsOnce
    <3>4. connected' = FALSE /\ sock' = sock
      BY <1>13 DEF ForgetStep
    <3>5. /\ Has("conn", FC("didConnect", e))' => ~ Has("nm", FC("connected", e))'
          /\ Has("conn", FC("didConnect", e))' \/ Has("nm", FC("connected", e))' =>
                ~ Has("nm", FC("markConnected", e))'
          /\ News(e)' => ~ Has("net", FC("up", e))' /\ (conn' = e => ~ connected')
          /\ News(e)' \/ Has("net", FC("up", e))' => sock'[e] # "connecting" /\ ~ Has("conn", FC("open", e))'
      BY <1>13, <2>1, <3>4, <1>2, <1>f, <1>h, HasAfterForget DEF NewsOnce, News
    <3> QED BY <3>1, <3>2, <3>3, <3>5 DEF NewsOnce
  <2> QED BY <2>2
<1>14. ASSUME NEW q \in Queues, NEW c \in Conns, UpStep(q, c) PROVE \A e \in Conns : NewsOnce(e)'
  <2>1. q = "net"
    BY <1>14, <1>w, <1>2 DEF NetStep
  <2>2. ASSUME NEW e \in Conns PROVE NewsOnce(e)'
    <3>1. Once(FC("didConnect", e), work'["conn"])
      BY <1>14, <2>1, <1>2, <1>f, <1>o, <1>h, OnceAfter, OtherQueues DEF NewsOnce, UpStep
    <3>2. Once(FC("connected", e), work'["nm"]) /\ Once(FC("markConnected", e), work'["nm"])
      BY <1>14, <2>1, <1>2, <1>f, <1>o, <1>h, OnceAfter, OtherQueues DEF NewsOnce, UpStep
    <3>3. Once(FC("up", e), work'["net"])
      BY <1>14, <2>1, <1>2, <1>f, <1>o, <1>h, OnceAfter, OtherQueues DEF NewsOnce, UpStep, News
    <3>5. /\ Has("conn", FC("didConnect", e))' => ~ Has("nm", FC("connected", e))'
          /\ Has("conn", FC("didConnect", e))' \/ Has("nm", FC("connected", e))' =>
                ~ Has("nm", FC("markConnected", e))'
          /\ News(e)' => ~ Has("net", FC("up", e))' /\ (conn' = e => ~ connected')
          /\ News(e)' \/ Has("net", FC("up", e))' => sock'[e] # "connecting" /\ ~ Has("conn", FC("open", e))'
      BY <1>14, <2>1, <1>2, <1>f, <1>o, <1>h, <1>p, HasAfter, OnceAfter DEF ManagerHeld,
           SocketHeld, NewsOnce, News, UpStep
    <3> QED BY <3>1, <3>2, <3>3, <3>5 DEF NewsOnce
  <2> QED BY <2>2
<1>15. ASSUME NEW q \in Queues, NEW c \in Conns, DataStep(q, c) PROVE \A e \in Conns : NewsOnce(e)'
  <2>1. q = "net"
    BY <1>15, <1>w, <1>2 DEF NetStep
  <2>2. ASSUME NEW e \in Conns PROVE NewsOnce(e)'
    <3>1. Once(FC("didConnect", e), work'["conn"])
      BY <1>15, <2>1, <1>2, <1>f, <1>o, <1>h, OnceAfter, OtherQueues DEF NewsOnce, DataStep
    <3>2. Once(FC("connected", e), work'["nm"]) /\ Once(FC("markConnected", e), work'["nm"])
      BY <1>15, <2>1, <1>2, <1>f, <1>o, <1>h, OnceAfter, OtherQueues DEF NewsOnce, DataStep
    <3>3. Once(FC("up", e), work'["net"])
      BY <1>15, <2>1, <1>2, <1>f, <1>o, <1>h, OnceAfter, OtherQueues DEF NewsOnce, DataStep, News
    <3>5. /\ Has("conn", FC("didConnect", e))' => ~ Has("nm", FC("connected", e))'
          /\ Has("conn", FC("didConnect", e))' \/ Has("nm", FC("connected", e))' =>
                ~ Has("nm", FC("markConnected", e))'
          /\ News(e)' => ~ Has("net", FC("up", e))' /\ (conn' = e => ~ connected')
          /\ News(e)' \/ Has("net", FC("up", e))' => sock'[e] # "connecting" /\ ~ Has("conn", FC("open", e))'
      BY <1>15, <2>1, <1>2, <1>f, <1>o, <1>h, <1>p, HasAfter, OnceAfter DEF ManagerHeld,
           SocketHeld, NewsOnce, News, DataStep
    <3> QED BY <3>1, <3>2, <3>3, <3>5 DEF NewsOnce
  <2> QED BY <2>2
<1>16. ASSUME NEW q \in Queues, StartStep(q) PROVE \A e \in Conns : NewsOnce(e)'
  <2>1. q = "nm"
    BY <1>16, <1>w, <1>2 DEF PlainStep
  <2>2. ASSUME NEW e \in Conns PROVE NewsOnce(e)'
    <3>1. Once(FC("didConnect", e), work'["conn"])
      BY <1>16, <2>1, <1>2, <1>f, <1>o, <1>h, OnceAfter, OtherQueues DEF NewsOnce, StartStep
    <3>2. Once(FC("connected", e), work'["nm"]) /\ Once(FC("markConnected", e), work'["nm"])
      BY <1>16, <2>1, <1>2, <1>f, <1>o, <1>h, OnceAfter, OtherQueues DEF NewsOnce, StartStep
    <3>3. Once(FC("up", e), work'["net"])
      BY <1>16, <2>1, <1>2, <1>f, <1>o, <1>h, OnceAfter, OtherQueues DEF NewsOnce, StartStep, News
    <3>5. /\ Has("conn", FC("didConnect", e))' => ~ Has("nm", FC("connected", e))'
          /\ Has("conn", FC("didConnect", e))' \/ Has("nm", FC("connected", e))' =>
                ~ Has("nm", FC("markConnected", e))'
          /\ News(e)' => ~ Has("net", FC("up", e))' /\ (conn' = e => ~ connected')
          /\ News(e)' \/ Has("net", FC("up", e))' => sock'[e] # "connecting" /\ ~ Has("conn", FC("open", e))'
      BY <1>16, <2>1, <1>2, <1>f, <1>o, <1>h, <1>p, HasAfter, OnceAfter DEF ManagerHeld,
           SocketHeld, NewsOnce, News, StartStep
    <3> QED BY <3>1, <3>2, <3>3, <3>5 DEF NewsOnce
  <2> QED BY <2>2
<1>17. ASSUME NEW q \in Queues, CreateStep(q) PROVE \A e \in Conns : NewsOnce(e)'
  <2>1. q = "nm"
    BY <1>17, <1>w, <1>2 DEF PlainStep
  <2>2. ASSUME NEW e \in Conns PROVE NewsOnce(e)'
    <3>1. Once(FC("didConnect", e), work'["conn"])
      BY <1>17, <2>1, <1>2, <1>f, <1>o, <1>h, OnceAfter, OtherQueues DEF NewsOnce, CreateStep,
           Passes
    <3>2. Once(FC("connected", e), work'["nm"]) /\ Once(FC("markConnected", e), work'["nm"])
      BY <1>17, <2>1, <1>2, <1>f, <1>o, <1>h, OnceAfter, OtherQueues DEF NewsOnce, CreateStep,
           Passes
    <3>3. Once(FC("up", e), work'["net"])
      BY <1>17, <2>1, <1>2, <1>f, <1>o, <1>h, OnceAfter, OtherQueues DEF NewsOnce, CreateStep,
           Passes, News
    <3>5. /\ Has("conn", FC("didConnect", e))' => ~ Has("nm", FC("connected", e))'
          /\ Has("conn", FC("didConnect", e))' \/ Has("nm", FC("connected", e))' =>
                ~ Has("nm", FC("markConnected", e))'
          /\ News(e)' => ~ Has("net", FC("up", e))' /\ (conn' = e => ~ connected')
          /\ News(e)' \/ Has("net", FC("up", e))' => sock'[e] # "connecting" /\ ~ Has("conn", FC("open", e))'
      BY <1>17, <2>1, <1>2, <1>f, <1>o, <1>h, <1>p, HasAfter, OnceAfter DEF ManagerHeld,
           SocketHeld, NewsOnce, News, CreateStep, Passes
    <3> QED BY <3>1, <3>2, <3>3, <3>5 DEF NewsOnce
  <2> QED BY <2>2
<1>18. ASSUME NEW q \in Queues, NotifyDownStep(q) PROVE \A e \in Conns : NewsOnce(e)'
  <2>1. q = "nm"
    BY <1>18, <1>w, <1>2 DEF PlainStep
  <2>2. ASSUME NEW e \in Conns PROVE NewsOnce(e)'
    <3>1. Once(FC("didConnect", e), work'["conn"])
      BY <1>18, <2>1, <1>2, <1>f, <1>o, <1>h, OnceAfter, OtherQueues DEF NewsOnce, NotifyDownStep
    <3>2. Once(FC("connected", e), work'["nm"]) /\ Once(FC("markConnected", e), work'["nm"])
      BY <1>18, <2>1, <1>2, <1>f, <1>o, <1>h, OnceAfter, OtherQueues DEF NewsOnce, NotifyDownStep
    <3>3. Once(FC("up", e), work'["net"])
      BY <1>18, <2>1, <1>2, <1>f, <1>o, <1>h, OnceAfter, OtherQueues DEF NewsOnce, NotifyDownStep,
           News
    <3>5. /\ Has("conn", FC("didConnect", e))' => ~ Has("nm", FC("connected", e))'
          /\ Has("conn", FC("didConnect", e))' \/ Has("nm", FC("connected", e))' =>
                ~ Has("nm", FC("markConnected", e))'
          /\ News(e)' => ~ Has("net", FC("up", e))' /\ (conn' = e => ~ connected')
          /\ News(e)' \/ Has("net", FC("up", e))' => sock'[e] # "connecting" /\ ~ Has("conn", FC("open", e))'
      BY <1>18, <2>1, <1>2, <1>f, <1>o, <1>h, <1>p, HasAfter, OnceAfter DEF ManagerHeld,
           SocketHeld, NewsOnce, News, NotifyDownStep
    <3> QED BY <3>1, <3>2, <3>3, <3>5 DEF NewsOnce
  <2> QED BY <2>2
<1>19. ASSUME NEW q \in Queues, RetryStep(q) PROVE \A e \in Conns : NewsOnce(e)'
  <2>1. q = "nm"
    BY <1>19, <1>w, <1>2 DEF PlainStep
  <2>2. ASSUME NEW e \in Conns PROVE NewsOnce(e)'
    <3>1. Once(FC("didConnect", e), work'["conn"])
      BY <1>19, <2>1, <1>2, <1>f, <1>o, <1>h, OnceAfter, OtherQueues DEF NewsOnce, RetryStep
    <3>2. Once(FC("connected", e), work'["nm"]) /\ Once(FC("markConnected", e), work'["nm"])
      BY <1>19, <2>1, <1>2, <1>f, <1>o, <1>h, OnceAfter, OtherQueues DEF NewsOnce, RetryStep
    <3>3. Once(FC("up", e), work'["net"])
      BY <1>19, <2>1, <1>2, <1>f, <1>o, <1>h, OnceAfter, OtherQueues DEF NewsOnce, RetryStep, News
    <3>5. /\ Has("conn", FC("didConnect", e))' => ~ Has("nm", FC("connected", e))'
          /\ Has("conn", FC("didConnect", e))' \/ Has("nm", FC("connected", e))' =>
                ~ Has("nm", FC("markConnected", e))'
          /\ News(e)' => ~ Has("net", FC("up", e))' /\ (conn' = e => ~ connected')
          /\ News(e)' \/ Has("net", FC("up", e))' => sock'[e] # "connecting" /\ ~ Has("conn", FC("open", e))'
      BY <1>19, <2>1, <1>2, <1>f, <1>o, <1>h, <1>p, HasAfter, OnceAfter DEF ManagerHeld,
           SocketHeld, NewsOnce, News, RetryStep
    <3> QED BY <3>1, <3>2, <3>3, <3>5 DEF NewsOnce
  <2> QED BY <2>2
<1>20. ASSUME NEW q \in Queues, TimerStep(q) PROVE \A e \in Conns : NewsOnce(e)'
  <2>1. q = "nm"
    BY <1>20, <1>w, <1>2 DEF PlainStep
  <2>2. ASSUME NEW e \in Conns PROVE NewsOnce(e)'
    <3>1. Once(FC("didConnect", e), work'["conn"])
      BY <1>20, <2>1, <1>2, <1>f, <1>o, <1>h, OnceAfter, OtherQueues DEF NewsOnce, TimerStep
    <3>2. Once(FC("connected", e), work'["nm"]) /\ Once(FC("markConnected", e), work'["nm"])
      BY <1>20, <2>1, <1>2, <1>f, <1>o, <1>h, OnceAfter, OtherQueues DEF NewsOnce, TimerStep
    <3>3. Once(FC("up", e), work'["net"])
      BY <1>20, <2>1, <1>2, <1>f, <1>o, <1>h, OnceAfter, OtherQueues DEF NewsOnce, TimerStep, News
    <3>5. /\ Has("conn", FC("didConnect", e))' => ~ Has("nm", FC("connected", e))'
          /\ Has("conn", FC("didConnect", e))' \/ Has("nm", FC("connected", e))' =>
                ~ Has("nm", FC("markConnected", e))'
          /\ News(e)' => ~ Has("net", FC("up", e))' /\ (conn' = e => ~ connected')
          /\ News(e)' \/ Has("net", FC("up", e))' => sock'[e] # "connecting" /\ ~ Has("conn", FC("open", e))'
      BY <1>20, <2>1, <1>2, <1>f, <1>o, <1>h, <1>p, HasAfter, OnceAfter DEF ManagerHeld,
           SocketHeld, NewsOnce, News, TimerStep
    <3> QED BY <3>1, <3>2, <3>3, <3>5 DEF NewsOnce
  <2> QED BY <2>2
<1>21. ASSUME NEW q \in Queues, RequestStep(q) PROVE \A e \in Conns : NewsOnce(e)'
  <2>1. q = "nm"
    BY <1>21, <1>w, <1>2 DEF PlainStep
  <2>2. ASSUME NEW e \in Conns PROVE NewsOnce(e)'
    <3>1. Once(FC("didConnect", e), work'["conn"])
      BY <1>21, <2>1, <1>2, <1>f, <1>o, <1>h, OnceAfter, OtherQueues DEF NewsOnce, RequestStep
    <3>2. Once(FC("connected", e), work'["nm"]) /\ Once(FC("markConnected", e), work'["nm"])
      BY <1>21, <2>1, <1>2, <1>f, <1>o, <1>h, OnceAfter, OtherQueues DEF NewsOnce, RequestStep
    <3>3. Once(FC("up", e), work'["net"])
      BY <1>21, <2>1, <1>2, <1>f, <1>o, <1>h, OnceAfter, OtherQueues DEF NewsOnce, RequestStep, News
    <3>5. /\ Has("conn", FC("didConnect", e))' => ~ Has("nm", FC("connected", e))'
          /\ Has("conn", FC("didConnect", e))' \/ Has("nm", FC("connected", e))' =>
                ~ Has("nm", FC("markConnected", e))'
          /\ News(e)' => ~ Has("net", FC("up", e))' /\ (conn' = e => ~ connected')
          /\ News(e)' \/ Has("net", FC("up", e))' => sock'[e] # "connecting" /\ ~ Has("conn", FC("open", e))'
      BY <1>21, <2>1, <1>2, <1>f, <1>o, <1>h, <1>p, HasAfter, OnceAfter DEF ManagerHeld,
           SocketHeld, NewsOnce, News, RequestStep
    <3> QED BY <3>1, <3>2, <3>3, <3>5 DEF NewsOnce
  <2> QED BY <2>2
<1>22. ASSUME NEW q \in Queues, ReconnectStep(q) PROVE \A e \in Conns : NewsOnce(e)'
  <2>1. q = "nm"
    BY <1>22, <1>w, <1>2 DEF PlainStep
  <2>2. ASSUME NEW e \in Conns PROVE NewsOnce(e)'
    <3>1. Once(FC("didConnect", e), work'["conn"])
      BY <1>22, <2>1, <1>2, <1>f, <1>o, <1>h, OnceAfter, OtherQueues DEF NewsOnce
    <3>2. Once(FC("connected", e), work'["nm"]) /\ Once(FC("markConnected", e), work'["nm"])
      BY <1>22, <2>1, <1>2, <1>f, <1>o, <1>h, OnceAfter, OtherQueues DEF NewsOnce
    <3>3. Once(FC("up", e), work'["net"])
      BY <1>22, <2>1, <1>2, <1>f, <1>o, <1>h, OnceAfter, OtherQueues DEF NewsOnce
    <3>4. connected' = FALSE /\ sock' = sock
      BY <1>22 DEF ReconnectStep
    <3>5. /\ Has("conn", FC("didConnect", e))' => ~ Has("nm", FC("connected", e))'
          /\ Has("conn", FC("didConnect", e))' \/ Has("nm", FC("connected", e))' =>
                ~ Has("nm", FC("markConnected", e))'
          /\ News(e)' => ~ Has("net", FC("up", e))' /\ (conn' = e => ~ connected')
          /\ News(e)' \/ Has("net", FC("up", e))' => sock'[e] # "connecting" /\ ~ Has("conn", FC("open", e))'
      BY <1>22, <2>1, <3>4, <1>2, <1>f, <1>h, HasAfterReconnect DEF NewsOnce, News
    <3> QED BY <3>1, <3>2, <3>3, <3>5 DEF NewsOnce
  <2> QED BY <2>2
<1>23. ASSUME NEW q \in Queues, StopStep(q) PROVE \A e \in Conns : NewsOnce(e)'
  <2>1. q = "nm"
    BY <1>23, <1>w, <1>2 DEF PlainStep
  <2>2. ASSUME NEW e \in Conns PROVE NewsOnce(e)'
    <3>1. Once(FC("didConnect", e), work'["conn"])
      BY <1>23, <2>1, <1>2, <1>f, <1>o, <1>h, OnceAfter, OtherQueues DEF NewsOnce, StopStep, Passes
    <3>2. Once(FC("connected", e), work'["nm"]) /\ Once(FC("markConnected", e), work'["nm"])
      BY <1>23, <2>1, <1>2, <1>f, <1>o, <1>h, OnceAfter, OtherQueues DEF NewsOnce, StopStep, Passes
    <3>3. Once(FC("up", e), work'["net"])
      BY <1>23, <2>1, <1>2, <1>f, <1>o, <1>h, OnceAfter, OtherQueues DEF NewsOnce, StopStep,
           Passes, News
    <3>5. /\ Has("conn", FC("didConnect", e))' => ~ Has("nm", FC("connected", e))'
          /\ Has("conn", FC("didConnect", e))' \/ Has("nm", FC("connected", e))' =>
                ~ Has("nm", FC("markConnected", e))'
          /\ News(e)' => ~ Has("net", FC("up", e))' /\ (conn' = e => ~ connected')
          /\ News(e)' \/ Has("net", FC("up", e))' => sock'[e] # "connecting" /\ ~ Has("conn", FC("open", e))'
      BY <1>23, <2>1, <1>2, <1>f, <1>o, <1>h, <1>p, HasAfter, OnceAfter DEF ManagerHeld,
           SocketHeld, NewsOnce, News, StopStep, Passes
    <3> QED BY <3>1, <3>2, <3>3, <3>5 DEF NewsOnce
  <2> QED BY <2>2
<1>24. ASSUME NEW q \in Queues, DownStep(q) PROVE \A e \in Conns : NewsOnce(e)'
  <2>1. q = "net"
    BY <1>24, <1>w, <1>2 DEF NetPlainStep
  <2>2. ASSUME NEW e \in Conns PROVE NewsOnce(e)'
    <3>1. Once(FC("didConnect", e), work'["conn"])
      BY <1>24, <2>1, <1>2, <1>f, <1>o, <1>h, OnceAfter, OtherQueues DEF NewsOnce, DownStep
    <3>2. Once(FC("connected", e), work'["nm"]) /\ Once(FC("markConnected", e), work'["nm"])
      BY <1>24, <2>1, <1>2, <1>f, <1>o, <1>h, OnceAfter, OtherQueues DEF NewsOnce, DownStep
    <3>3. Once(FC("up", e), work'["net"])
      BY <1>24, <2>1, <1>2, <1>f, <1>o, <1>h, OnceAfter, OtherQueues DEF NewsOnce, DownStep, News
    <3>5. /\ Has("conn", FC("didConnect", e))' => ~ Has("nm", FC("connected", e))'
          /\ Has("conn", FC("didConnect", e))' \/ Has("nm", FC("connected", e))' =>
                ~ Has("nm", FC("markConnected", e))'
          /\ News(e)' => ~ Has("net", FC("up", e))' /\ (conn' = e => ~ connected')
          /\ News(e)' \/ Has("net", FC("up", e))' => sock'[e] # "connecting" /\ ~ Has("conn", FC("open", e))'
      BY <1>24, <2>1, <1>2, <1>f, <1>o, <1>h, <1>p, HasAfter, OnceAfter DEF ManagerHeld,
           SocketHeld, NewsOnce, News, DownStep
    <3> QED BY <3>1, <3>2, <3>3, <3>5 DEF NewsOnce
  <2> QED BY <2>2
<1>25. ASSUME NEW q \in Queues, AskStep(q) PROVE \A e \in Conns : NewsOnce(e)'
  <2>1. q = "net"
    BY <1>25, <1>w, <1>2 DEF NetPlainStep
  <2>2. ASSUME NEW e \in Conns PROVE NewsOnce(e)'
    <3>1. Once(FC("didConnect", e), work'["conn"])
      BY <1>25, <2>1, <1>2, <1>f, <1>o, <1>h, OnceAfter, OtherQueues DEF NewsOnce, AskStep, Passes
    <3>2. Once(FC("connected", e), work'["nm"]) /\ Once(FC("markConnected", e), work'["nm"])
      BY <1>25, <2>1, <1>2, <1>f, <1>o, <1>h, OnceAfter, OtherQueues DEF NewsOnce, AskStep, Passes
    <3>3. Once(FC("up", e), work'["net"])
      BY <1>25, <2>1, <1>2, <1>f, <1>o, <1>h, OnceAfter, OtherQueues DEF NewsOnce, AskStep, Passes,
           News
    <3>5. /\ Has("conn", FC("didConnect", e))' => ~ Has("nm", FC("connected", e))'
          /\ Has("conn", FC("didConnect", e))' \/ Has("nm", FC("connected", e))' =>
                ~ Has("nm", FC("markConnected", e))'
          /\ News(e)' => ~ Has("net", FC("up", e))' /\ (conn' = e => ~ connected')
          /\ News(e)' \/ Has("net", FC("up", e))' => sock'[e] # "connecting" /\ ~ Has("conn", FC("open", e))'
      BY <1>25, <2>1, <1>2, <1>f, <1>o, <1>h, <1>p, HasAfter, OnceAfter DEF ManagerHeld,
           SocketHeld, NewsOnce, News, AskStep, Passes
    <3> QED BY <3>1, <3>2, <3>3, <3>5 DEF NewsOnce
  <2> QED BY <2>2
<1>26. ASSUME AskedStep \/ FiresStep PROVE \A e \in Conns : NewsOnce(e)'
  BY <1>26, <1>2, <1>f, <1>h, HasAfter, OnceAfter, OtherQueues
     DEF NewsOnce, News, AskedStep, FiresStep
<1>27. ASSUME NEW c \in Conns, OutsideStep(c) PROVE \A e \in Conns : NewsOnce(e)'
  BY <1>27, <1>2, <1>f, <1>h, HasAfter, OnceAfter, OtherQueues
     DEF ManagerHeld, SocketHeld, NewsOnce, News, OutsideStep, EstablishStep, BreakStep, ServerDataStep
<1> QED
  BY <1>1, <1>3, <1>4, <1>5, <1>6, <1>7, <1>8, <1>9, <1>10, <1>11, <1>12, <1>13, <1>14, <1>15,
       <1>16, <1>17, <1>18, <1>19, <1>20, <1>21, <1>22, <1>23, <1>24, <1>25, <1>26, <1>27
     DEF Step, SocketStep, ManagerStep, NetStep, PlainStep, NetPlainStep

\* A step that only moves other frames leaves the two opinions as they are.
LEMMA ToldSame ==
    ASSUME Told, UNCHANGED <<connected, isConnected, session, conn>>,
           Has("nm", F("notifyDown"))' <=> Has("nm", F("notifyDown")),
           Has("net", F("down"))' <=> Has("net", F("down")),
           \A c \in Conns :
              /\ Has("net", FC("up", c))' <=> Has("net", FC("up", c))
              /\ Has("nm", FC("markConnected", c))' => Has("nm", FC("markConnected", c))
              /\ Before(F("notifyDown"), FC("connected", c), work'["nm"])
              /\ Before(F("down"), FC("up", c), work'["net"])
                    <=> Before(F("down"), FC("up", c), work["net"]),
           conn # None => conn \in Conns, connected => conn # None
    PROVE  Told'
<1>1. \A c \in Conns : LastUp(c)' <=> LastUp(c)
  BY DEF LastUp
<1>2. DownComes' <=> DownComes
  BY DEF DownComes
<1>3. connected => (LastUp(conn)' <=> LastUp(conn))
  BY <1>1 DEF LastUp
<1> QED BY <1>1, <1>2, <1>3 DEF Told

LEMMA FirstTwo ==
    ASSUME NEW q, NEW x, NEW y, x # y, In(x, q), First(x, q), First(y, q)
    PROVE  ~ In(y, q)
BY DEF In, First

LEMMA ToldKept ==
    ASSUME Shape, ~ sharedKey, Apart, Next
    PROVE  Told'
<1>1. Step
  BY StepOf
<1>2. /\ conn \in {None, created} /\ created \in Nat /\ session \in Nat /\ session <= created
      /\ sock \in [Conns -> {"nil", "connecting", "up", "broken"}]
      /\ \A c \in Conns : c \in Nat /\ c # None /\ (c > created => sock[c] = "nil" /\ c \notin closed)
      /\ conn # None => conn \in Conns
      /\ Queues = {"nm", "conn", "net"} /\ 1 \in Conns
  BY BoundsAssumption DEF Shape, TypeOK, None, Conns, Queues
<1>f. /\ \A op : F(op) = FC(op, None)
      /\ \A x, y, c, d : FC(x, c) = FC(y, d) => x = y /\ c = d
  BY FrameParts
<1>o. ~ IsOwn("net", "nm") /\ ~ IsOwn("conn", "nm") /\ ~ IsOwn("nm", "conn")
  BY DEF IsOwn
<1>w. \A q \in Queues, c \in Conns :
         /\ SocketStep(q, c) => q = "conn"
         /\ ManagerStep(q, c) \/ PlainStep(q) => q = "nm"
         /\ NetStep(q, c) \/ NetPlainStep(q) => q = "net"
  BY Where
<1> USE DEF manager, sockets, app
<1>h. /\ Told /\ ManagerHeld /\ (connected => conn # None)
      /\ \A c \in Conns : SocketHeld(c) /\ NewsOnce(c)
  BY DEF Apart, ManagerHeld
<1>H. Heads
  BY DEF Apart
<1>t. \A c \in Conns : Before(F("notifyDown"), FC("connected", c), work["nm"])
  BY <1>h DEF Told
<1>3. ASSUME NEW q \in Queues, NEW c \in Conns, OpenStep(q, c) PROVE Told'
  <2>1. q = "conn"
    BY <1>3, <1>w, <1>2 DEF SocketStep
  <2>2. UNCHANGED <<connected, isConnected, session, conn>>
    BY <1>3, <2>1 DEF OpenStep
  <2>3. /\ Has("nm", F("notifyDown"))' <=> Has("nm", F("notifyDown"))
        /\ Has("net", F("down"))' <=> Has("net", F("down"))
        /\ \A e \in Conns :
              /\ Has("net", FC("up", e))' <=> Has("net", FC("up", e))
              /\ Has("nm", FC("markConnected", e))' => Has("nm", FC("markConnected", e))
    BY <1>3, <2>1, <1>2, <1>f, <1>o, HasAfter DEF OpenStep
  <2>4. \A e \in Conns : Before(F("notifyDown"), FC("connected", e), work'["nm"])
    BY <1>3, <2>1, <1>2, <1>f, <1>o, <1>t, BeforeAfter, OtherQueues DEF OpenStep
  <2>5. \A e \in Conns : Before(F("down"), FC("up", e), work'["net"])
           <=> Before(F("down"), FC("up", e), work["net"])
    BY <1>3, <2>1, <1>2, <1>f, <1>o, BeforeAfter, BeforeBack, OtherQueues DEF OpenStep
  <2> QED BY <2>2, <2>3, <2>4, <2>5, <1>2, <1>h, ToldSame
<1>4. ASSUME NEW q \in Queues, NEW c \in Conns, CloseStep(q, c) PROVE Told'
  <2>1. q = "conn"
    BY <1>4, <1>w, <1>2 DEF SocketStep
  <2>2. UNCHANGED <<connected, isConnected, session, conn>>
    BY <1>4, <2>1 DEF CloseStep
  <2>3. /\ Has("nm", F("notifyDown"))' <=> Has("nm", F("notifyDown"))
        /\ Has("net", F("down"))' <=> Has("net", F("down"))
        /\ \A e \in Conns :
              /\ Has("net", FC("up", e))' <=> Has("net", FC("up", e))
              /\ Has("nm", FC("markConnected", e))' => Has("nm", FC("markConnected", e))
    BY <1>4, <2>1, <1>2, <1>f, <1>o, HasAfter DEF CloseStep
  <2>4. \A e \in Conns : Before(F("notifyDown"), FC("connected", e), work'["nm"])
    BY <1>4, <2>1, <1>2, <1>f, <1>o, <1>t, BeforeAfter, OtherQueues DEF CloseStep
  <2>5. \A e \in Conns : Before(F("down"), FC("up", e), work'["net"])
           <=> Before(F("down"), FC("up", e), work["net"])
    BY <1>4, <2>1, <1>2, <1>f, <1>o, BeforeAfter, BeforeBack, OtherQueues DEF CloseStep
  <2> QED BY <2>2, <2>3, <2>4, <2>5, <1>2, <1>h, ToldSame
<1>5. ASSUME NEW q \in Queues, NEW c \in Conns, ShutStep(q, c) PROVE Told'
  <2>1. q = "conn"
    BY <1>5, <1>w, <1>2 DEF SocketStep
  <2>2. UNCHANGED <<connected, isConnected, session, conn>>
    BY <1>5, <2>1 DEF ShutStep, Passes
  <2>3. /\ Has("nm", F("notifyDown"))' <=> Has("nm", F("notifyDown"))
        /\ Has("net", F("down"))' <=> Has("net", F("down"))
        /\ \A e \in Conns :
              /\ Has("net", FC("up", e))' <=> Has("net", FC("up", e))
              /\ Has("nm", FC("markConnected", e))' => Has("nm", FC("markConnected", e))
    BY <1>5, <2>1, <1>2, <1>f, <1>o, HasAfter DEF ShutStep, Passes
  <2>4. \A e \in Conns : Before(F("notifyDown"), FC("connected", e), work'["nm"])
    <3>1. CASE Ends("conn", FC("shut", c))
      BY <3>1, <1>2, <1>t, OtherQueues
    <3>2. CASE Calls("conn", FC("shut", c), "nm", FC("closed", c))
      <4>1. F("notifyDown") # FC("closed", c)
        BY <1>f
      <4> QED BY <3>2, <4>1, <1>2, <1>t, BeforeAfter
    <3> QED BY <1>5, <2>1, <3>1, <3>2, <1>o DEF ShutStep, Passes
  <2>5. \A e \in Conns : Before(F("down"), FC("up", e), work'["net"])
           <=> Before(F("down"), FC("up", e), work["net"])
    BY <1>5, <2>1, <1>2, <1>f, <1>o, BeforeAfter, BeforeBack, OtherQueues DEF ShutStep, Passes
  <2> QED BY <2>2, <2>3, <2>4, <2>5, <1>2, <1>h, ToldSame
<1>6. ASSUME NEW q \in Queues, NEW c \in Conns, DidConnectStep(q, c) PROVE Told'
  <2>1. q = "conn"
    BY <1>6, <1>w, <1>2 DEF SocketStep
  <2>2. UNCHANGED <<connected, isConnected, session, conn>>
    BY <1>6, <2>1 DEF DidConnectStep, Passes
  <2>3. /\ Has("nm", F("notifyDown"))' <=> Has("nm", F("notifyDown"))
        /\ Has("net", F("down"))' <=> Has("net", F("down"))
        /\ \A e \in Conns :
              /\ Has("net", FC("up", e))' <=> Has("net", FC("up", e))
              /\ Has("nm", FC("markConnected", e))' => Has("nm", FC("markConnected", e))
    BY <1>6, <2>1, <1>2, <1>f, <1>o, HasAfter DEF DidConnectStep, Passes
  <2>4. \A e \in Conns : Before(F("notifyDown"), FC("connected", e), work'["nm"])
    <3>1. CASE Ends("conn", FC("didConnect", c))
      BY <3>1, <1>2, <1>t, OtherQueues
    <3>2. CASE Calls("conn", FC("didConnect", c), "nm", FC("connected", c))
      <4>1. F("notifyDown") # FC("connected", c)
        BY <1>f
      <4> QED BY <3>2, <4>1, <1>2, <1>t, BeforeAfter
    <3> QED BY <1>6, <2>1, <3>1, <3>2, <1>o DEF DidConnectStep, Passes
  <2>5. \A e \in Conns : Before(F("down"), FC("up", e), work'["net"])
           <=> Before(F("down"), FC("up", e), work["net"])
    BY <1>6, <2>1, <1>2, <1>f, <1>o, BeforeAfter, BeforeBack, OtherQueues DEF DidConnectStep, Passes
  <2> QED BY <2>2, <2>3, <2>4, <2>5, <1>2, <1>h, ToldSame
<1>7. ASSUME NEW q \in Queues, NEW c \in Conns, DidDisconnectStep(q, c) PROVE Told'
  <2>1. q = "conn"
    BY <1>7, <1>w, <1>2 DEF SocketStep
  <2>2. UNCHANGED <<connected, isConnected, session, conn>>
    BY <1>7, <2>1 DEF DidDisconnectStep
  <2>3. /\ Has("nm", F("notifyDown"))' <=> Has("nm", F("notifyDown"))
        /\ Has("net", F("down"))' <=> Has("net", F("down"))
        /\ \A e \in Conns :
              /\ Has("net", FC("up", e))' <=> Has("net", FC("up", e))
              /\ Has("nm", FC("markConnected", e))' => Has("nm", FC("markConnected", e))
    BY <1>7, <2>1, <1>2, <1>f, <1>o, HasAfter DEF DidDisconnectStep
  <2>4. \A e \in Conns : Before(F("notifyDown"), FC("connected", e), work'["nm"])
    BY <1>7, <2>1, <1>2, <1>f, <1>o, <1>t, BeforeAfter, OtherQueues DEF DidDisconnectStep
  <2>5. \A e \in Conns : Before(F("down"), FC("up", e), work'["net"])
           <=> Before(F("down"), FC("up", e), work["net"])
    BY <1>7, <2>1, <1>2, <1>f, <1>o, BeforeAfter, BeforeBack, OtherQueues DEF DidDisconnectStep
  <2> QED BY <2>2, <2>3, <2>4, <2>5, <1>2, <1>h, ToldSame
<1>8. ASSUME NEW q \in Queues, NEW c \in Conns, DidReadStep(q, c) PROVE Told'
  <2>1. q = "conn"
    BY <1>8, <1>w, <1>2 DEF SocketStep
  <2>2. UNCHANGED <<connected, isConnected, session, conn>>
    BY <1>8, <2>1 DEF DidReadStep
  <2>3. /\ Has("nm", F("notifyDown"))' <=> Has("nm", F("notifyDown"))
        /\ Has("net", F("down"))' <=> Has("net", F("down"))
        /\ \A e \in Conns :
              /\ Has("net", FC("up", e))' <=> Has("net", FC("up", e))
              /\ Has("nm", FC("markConnected", e))' => Has("nm", FC("markConnected", e))
    BY <1>8, <2>1, <1>2, <1>f, <1>o, HasAfter DEF DidReadStep
  <2>4. \A e \in Conns : Before(F("notifyDown"), FC("connected", e), work'["nm"])
    BY <1>8, <2>1, <1>2, <1>f, <1>o, <1>t, BeforeAfter, OtherQueues DEF DidReadStep
  <2>5. \A e \in Conns : Before(F("down"), FC("up", e), work'["net"])
           <=> Before(F("down"), FC("up", e), work["net"])
    BY <1>8, <2>1, <1>2, <1>f, <1>o, BeforeAfter, BeforeBack, OtherQueues DEF DidReadStep
  <2> QED BY <2>2, <2>3, <2>4, <2>5, <1>2, <1>h, ToldSame
<1>9. ASSUME NEW q \in Queues, NEW c \in Conns, HandOverStep(q, c) PROVE Told'
  <2>1. q = "conn"
    BY <1>9, <1>w, <1>2 DEF SocketStep
  <2>2. UNCHANGED <<connected, isConnected, session, conn>>
    BY <1>9, <2>1 DEF HandOverStep
  <2>3. /\ Has("nm", F("notifyDown"))' <=> Has("nm", F("notifyDown"))
        /\ Has("net", F("down"))' <=> Has("net", F("down"))
        /\ \A e \in Conns :
              /\ Has("net", FC("up", e))' <=> Has("net", FC("up", e))
              /\ Has("nm", FC("markConnected", e))' => Has("nm", FC("markConnected", e))
    BY <1>9, <2>1, <1>2, <1>f, <1>o, HasAfter DEF HandOverStep
  <2>4. \A e \in Conns : Before(F("notifyDown"), FC("connected", e), work'["nm"])
    BY <1>9, <2>1, <1>2, <1>f, <1>o, <1>t, BeforeAfter, OtherQueues DEF HandOverStep
  <2>5. \A e \in Conns : Before(F("down"), FC("up", e), work'["net"])
           <=> Before(F("down"), FC("up", e), work["net"])
    <3>1. Calls("conn", FC("handOver", c), "net", FC("data", c))
      BY <1>9, <2>1 DEF HandOverStep
    <3>2. F("down") # FC("data", c)
      BY <1>f
    <3>3. Added(work["net"], FC("data", c), work'["net"])
      BY <3>1 DEF Calls
    <3> QED BY <3>2, <3>3 DEF Added
  <2> QED BY <2>2, <2>3, <2>4, <2>5, <1>2, <1>h, ToldSame
<1>10. ASSUME NEW q \in Queues, NEW c \in Conns, ConnectedStep(q, c) PROVE Told'
  <2>1. q = "nm"
    BY <1>10, <1>w, <1>2 DEF ManagerStep
  <2>2. CASE conn # c
    <3>2. UNCHANGED <<connected, isConnected, session, conn>>
      BY <1>10, <2>1, <2>2 DEF ConnectedStep
    <3>3. /\ Has("nm", F("notifyDown"))' <=> Has("nm", F("notifyDown"))
          /\ Has("net", F("down"))' <=> Has("net", F("down"))
          /\ \A e \in Conns :
                /\ Has("net", FC("up", e))' <=> Has("net", FC("up", e))
                /\ Has("nm", FC("markConnected", e))' => Has("nm", FC("markConnected", e))
      BY <1>10, <2>1, <2>2, <1>2, <1>f, <1>o, HasAfter DEF ConnectedStep
    <3>4. \A e \in Conns : Before(F("notifyDown"), FC("connected", e), work'["nm"])
      BY <1>10, <2>1, <2>2, <1>2, <1>f, <1>o, <1>t, BeforeAfter, OtherQueues DEF ConnectedStep
    <3>5. \A e \in Conns : Before(F("down"), FC("up", e), work'["net"])
             <=> Before(F("down"), FC("up", e), work["net"])
      BY <1>10, <2>1, <2>2, <1>2, <1>f, <1>o, BeforeAfter, BeforeBack, OtherQueues DEF ConnectedStep
    <3> QED BY <3>2, <3>3, <3>4, <3>5, <1>2, <1>h, ToldSame
  <2>3. CASE conn = c
    <3>1. GoesOn("nm", FC("connected", c), FC("markConnected", c)) /\ UNCHANGED <<connected, isConnected, session, conn>>
      BY <1>10, <2>1, <2>3 DEF ConnectedStep
    <3>2. Has("nm", FC("connected", c)) /\ ~ connected
      BY <3>1, <2>3, <1>2, <1>h, HasAfter DEF NewsOnce, News
    <3>3. ~ Has("nm", F("notifyDown"))'
      BY <3>1, <1>2, <1>f, <1>t, BeforeAfter
    <3>4. ~ Has("nm", F("notifyDown"))
      BY <3>1, <3>3, <1>2, <1>f, HasAfter
    <3>5. \A e \in Conns : Before(F("notifyDown"), FC("connected", e), work'["nm"])
      BY <3>1, <1>2, <1>f, <1>t, BeforeAfter
    <3>6. work'["net"] = work["net"]
      BY <3>1, <1>2, OtherQueues
    <3>7. (DownComes' <=> DownComes) /\ \A e \in Conns : LastUp(e)' <=> LastUp(e)
      BY <3>3, <3>4, <3>6 DEF DownComes, LastUp, Has
    <3>8. \A e \in Conns : Has("net", FC("up", e))' <=> Has("net", FC("up", e))
      BY <3>6 DEF Has
    <3> QED BY <3>1, <3>2, <3>3, <3>4, <3>5, <3>7, <3>8, <1>h DEF Told
  <2> QED BY <2>2, <2>3
<1>11. ASSUME NEW q \in Queues, NEW c \in Conns, MarkConnectedStep(q, c) PROVE Told'
  <2>1. q = "nm"
    BY <1>11, <1>w, <1>2 DEF ManagerStep
  <2>2. /\ Calls("nm", FC("markConnected", c), "net", FC("up", c))
        /\ connected' = TRUE /\ UNCHANGED <<conn, isConnected, session>>
    BY <1>11, <2>1 DEF MarkConnectedStep
  <2>3. Has("nm", FC("markConnected", c)) /\ conn = c /\ ~ connected
    BY <2>2, <1>2, <1>h, HasAfter DEF SocketHeld, NewsOnce, News
  <2>4. ~ Has("nm", F("notifyDown"))
    BY <2>3, <1>h DEF Told
  <2>5. ~ Has("nm", F("notifyDown"))'
    BY <2>2, <2>4, <1>2, <1>f, HasAfter
  <2>6. \A e \in Conns : Before(F("notifyDown"), FC("connected", e), work'["nm"])
    BY <2>2, <1>2, <1>f, <1>t, BeforeAfter
  <2>7. \A e \in Conns : ~ LastUp(e)
    BY <2>3, <2>4, <1>h DEF Told
  <2>8. \A e \in Conns : LastUp(e)' => e = c
    BY <2>2, <2>7, <1>2, <1>f, HasAfter, BeforeBack DEF LastUp
  <2>9. Has("net", F("down"))' <=> Has("net", F("down"))
    BY <2>2, <1>2, <1>f, HasAfter
  <2>10. isConnected => Has("net", F("down"))
    BY <2>3, <2>4, <1>h DEF Told, DownComes
  <2>11. LastUp(c)'
    <3>1. ~ Has("net", FC("up", c))
      BY <2>3, <1>h DEF NewsOnce, News
    <3>2. Before(F("down"), FC("up", c), work["net"])
      BY <3>1 DEF Before, Has, In
    <3> QED BY <2>2, <3>2, <1>2, <1>f, HasAfter, BeforeAfter DEF LastUp
  <2>12. LastUp(conn)'
    BY <2>11, <2>3, <2>2 DEF LastUp
  <2> QED BY <2>2, <2>3, <2>5, <2>6, <2>8, <2>9, <2>10, <2>12, <1>h DEF Told, DownComes
<1>12. ASSUME NEW q \in Queues, NEW c \in Conns, ClosedStep(q, c) PROVE Told'
  <2>1. q = "nm"
    BY <1>12, <1>w, <1>2 DEF ManagerStep
  <2>2. UNCHANGED <<connected, isConnected, session, conn>>
    BY <1>12, <2>1 DEF ClosedStep
  <2>3. /\ Has("nm", F("notifyDown"))' <=> Has("nm", F("notifyDown"))
        /\ Has("net", F("down"))' <=> Has("net", F("down"))
        /\ \A e \in Conns :
              /\ Has("net", FC("up", e))' <=> Has("net", FC("up", e))
              /\ Has("nm", FC("markConnected", e))' => Has("nm", FC("markConnected", e))
    BY <1>12, <2>1, <1>2, <1>f, <1>o, HasAfter DEF ClosedStep
  <2>4. \A e \in Conns : Before(F("notifyDown"), FC("connected", e), work'["nm"])
    BY <1>12, <2>1, <1>2, <1>f, <1>o, <1>t, BeforeAfter, OtherQueues DEF ClosedStep
  <2>5. \A e \in Conns : Before(F("down"), FC("up", e), work'["net"])
           <=> Before(F("down"), FC("up", e), work["net"])
    BY <1>12, <2>1, <1>2, <1>f, <1>o, BeforeAfter, BeforeBack, OtherQueues DEF ClosedStep
  <2> QED BY <2>2, <2>3, <2>4, <2>5, <1>2, <1>h, ToldSame
<1>13. ASSUME NEW q \in Queues, NEW c \in Conns, ForgetStep(q, c) PROVE Told'
  <2>1. q = "nm"
    BY <1>13, <1>w, <1>2 DEF ManagerStep
  <2>2. connected' = FALSE /\ UNCHANGED <<isConnected, session>>
    BY <1>13 DEF ForgetStep
  <2>3. Has("nm", F("notifyDown"))' /\ Has("nm", FC("forget", c))
    BY <1>13, <2>1, <1>2, HasAfterForget
  <2>4. \A e \in Conns : Before(F("notifyDown"), FC("connected", e), work'["nm"])
    BY <1>13, <2>1, <1>2, <1>f, <1>t, BeforeAfterManager
  <2>5. \A e \in Conns : ~ Has("nm", FC("markConnected", e))
    BY <2>3, <1>H, <1>f, FirstTwo DEF Heads, Has
  <2>6. \A e \in Conns : ~ Has("nm", FC("markConnected", e))'
    BY <1>13, <2>1, <2>5, <1>2, <1>f, HasAfterForget
  <2> QED BY <2>2, <2>3, <2>4, <2>6 DEF Told, DownComes
<1>14. ASSUME NEW q \in Queues, NEW c \in Conns, UpStep(q, c) PROVE Told'
  <2>1. q = "net"
    BY <1>14, <1>w, <1>2 DEF NetStep
  <2>2. Ends("net", FC("up", c)) /\ isConnected' = TRUE /\ session' = (IF isConnected THEN session ELSE c) /\ UNCHANGED <<conn, connected>>
    BY <1>14, <2>1 DEF UpStep
  <2>3. Has("net", FC("up", c)) /\ ~ Has("net", FC("up", c))'
    BY <2>2, <1>2, <1>h, HasAfter, OnceAfter DEF NewsOnce
  <2>4. /\ Has("nm", F("notifyDown"))' <=> Has("nm", F("notifyDown"))
        /\ Has("net", F("down"))' <=> Has("net", F("down"))
        /\ \A e \in Conns : /\ Has("nm", FC("markConnected", e))' => Has("nm", FC("markConnected", e))
                            /\ Has("net", FC("up", e))' => Has("net", FC("up", e)) /\ e # c
                            /\ Has("net", FC("up", e)) /\ e # c => Has("net", FC("up", e))'
    BY <2>2, <2>3, <1>2, <1>f, HasAfter
  <2>5. \A e \in Conns : Before(F("notifyDown"), FC("connected", e), work'["nm"])
    BY <2>2, <1>2, <1>t, OtherQueues
  <2>6. \A e \in Conns : LastUp(e)' => LastUp(e) /\ e # c
    BY <2>2, <2>4, <1>2, <1>f, BeforeBack DEF LastUp
  <2>7. \A e \in Conns : LastUp(e) /\ e # c => LastUp(e)'
    BY <2>2, <2>4, <1>2, <1>f, BeforeAfter DEF LastUp
  <2>8. LastUp(c) => ~ Has("net", F("down"))'
    BY <2>2, <2>4, <1>2, <1>f, BeforeAfter DEF LastUp
  <2>9. ~ Has("net", F("down")) => \A e \in Conns : Has("net", FC("up", e)) => LastUp(e)
    BY DEF LastUp, Has, Before, In
  <2>p. connected => conn \in Conns
    BY <1>2, <1>h
  <2>q. ~ DownComes => connected /\ conn = c /\ ~ isConnected /\ \A e \in Conns : Has("net", FC("up", e)) => e = c
    BY <2>3, <2>9, <1>h DEF Told, DownComes
  <2>10. isConnected' /\ ~ DownComes' => connected' /\ session' = conn' /\ \A e \in Conns : ~ Has("net", FC("up", e))'
    BY <2>q, <2>2, <2>4 DEF DownComes
  <2>11. connected' => (isConnected' /\ ~ Has("net", F("down"))') \/ LastUp(conn)'
    <3>1. CASE conn = c /\ LastUp(c)
      BY <3>1, <2>8, <2>2
    <3>2. CASE connected /\ LastUp(conn) /\ conn # c
      <4>1. LastUp(conn)'
        BY <3>2, <2>7, <2>p, <2>2 DEF LastUp
      <4> QED BY <4>1
    <3>3. CASE connected /\ ~ Has("net", F("down"))
      BY <3>3, <2>2, <2>4
    <3> QED BY <3>1, <3>2, <3>3, <2>2, <1>h DEF Told
  <2> QED BY <2>2, <2>4, <2>5, <2>6, <2>10, <2>11, <1>h DEF Told
<1>15. ASSUME NEW q \in Queues, NEW c \in Conns, DataStep(q, c) PROVE Told'
  <2>1. q = "net"
    BY <1>15, <1>w, <1>2 DEF NetStep
  <2>2. UNCHANGED <<connected, isConnected, session, conn>>
    BY <1>15, <2>1 DEF DataStep
  <2>3. /\ Has("nm", F("notifyDown"))' <=> Has("nm", F("notifyDown"))
        /\ Has("net", F("down"))' <=> Has("net", F("down"))
        /\ \A e \in Conns :
              /\ Has("net", FC("up", e))' <=> Has("net", FC("up", e))
              /\ Has("nm", FC("markConnected", e))' => Has("nm", FC("markConnected", e))
    BY <1>15, <2>1, <1>2, <1>f, <1>o, HasAfter DEF DataStep
  <2>4. \A e \in Conns : Before(F("notifyDown"), FC("connected", e), work'["nm"])
    BY <1>15, <2>1, <1>2, <1>f, <1>o, <1>t, BeforeAfter, OtherQueues DEF DataStep
  <2>5. \A e \in Conns : Before(F("down"), FC("up", e), work'["net"])
           <=> Before(F("down"), FC("up", e), work["net"])
    BY <1>15, <2>1, <1>2, <1>f, <1>o, BeforeAfter, BeforeBack, OtherQueues DEF DataStep
  <2> QED BY <2>2, <2>3, <2>4, <2>5, <1>2, <1>h, ToldSame
<1>16. ASSUME NEW q \in Queues, StartStep(q) PROVE Told'
  <2>1. q = "nm"
    BY <1>16, <1>w, <1>2 DEF PlainStep
  <2>2. UNCHANGED <<connected, isConnected, session, conn>>
    BY <1>16, <2>1 DEF StartStep
  <2>3. /\ Has("nm", F("notifyDown"))' <=> Has("nm", F("notifyDown"))
        /\ Has("net", F("down"))' <=> Has("net", F("down"))
        /\ \A e \in Conns :
              /\ Has("net", FC("up", e))' <=> Has("net", FC("up", e))
              /\ Has("nm", FC("markConnected", e))' => Has("nm", FC("markConnected", e))
    BY <1>16, <2>1, <1>2, <1>f, <1>o, HasAfter DEF StartStep
  <2>4. \A e \in Conns : Before(F("notifyDown"), FC("connected", e), work'["nm"])
    BY <1>16, <2>1, <1>2, <1>f, <1>o, <1>t, BeforeAfter, OtherQueues DEF StartStep
  <2>5. \A e \in Conns : Before(F("down"), FC("up", e), work'["net"])
           <=> Before(F("down"), FC("up", e), work["net"])
    BY <1>16, <2>1, <1>2, <1>f, <1>o, BeforeAfter, BeforeBack, OtherQueues DEF StartStep
  <2> QED BY <2>2, <2>3, <2>4, <2>5, <1>2, <1>h, ToldSame
<1>17. ASSUME NEW q \in Queues, CreateStep(q) PROVE Told'
  <2>1. q = "nm"
    BY <1>17, <1>w, <1>2 DEF PlainStep
  <2>2. conn = None /\ ~ connected /\ UNCHANGED <<connected, isConnected, session>>
    BY <1>17, <2>1, <1>h, <1>2, HasAfter DEF ManagerHeld, CreateStep, Passes
  <2>3. /\ Has("nm", F("notifyDown"))' <=> Has("nm", F("notifyDown"))
        /\ Has("net", F("down"))' <=> Has("net", F("down"))
        /\ \A e \in Conns :
              /\ Has("net", FC("up", e))' <=> Has("net", FC("up", e))
              /\ Has("nm", FC("markConnected", e))' => Has("nm", FC("markConnected", e))
    BY <1>17, <2>1, <1>2, <1>f, <1>o, HasAfter DEF CreateStep, Passes
  <2>4. \A e \in Conns : Before(F("notifyDown"), FC("connected", e), work'["nm"])
    BY <1>17, <2>1, <1>2, <1>f, <1>o, <1>t, BeforeAfter, OtherQueues DEF CreateStep, Passes
  <2>5. work'["net"] = work["net"]
    BY <1>17, <2>1, <1>2, <1>o, OtherQueues DEF CreateStep, Passes
  <2>6. (DownComes' <=> DownComes) /\ \A e \in Conns : LastUp(e)' <=> LastUp(e)
    BY <2>3, <2>5 DEF DownComes, LastUp, Has
  <2> QED BY <2>2, <2>3, <2>4, <2>6, <1>h DEF Told
<1>18. ASSUME NEW q \in Queues, NotifyDownStep(q) PROVE Told'
  <2>1. q = "nm"
    BY <1>18, <1>w, <1>2 DEF PlainStep
  <2>2. Calls("nm", F("notifyDown"), "net", F("down")) /\ UNCHANGED <<connected, conn, isConnected, session>>
    BY <1>18, <2>1 DEF NotifyDownStep
  <2>3. Has("nm", F("notifyDown")) /\ ~ connected /\ \A e \in Conns : ~ Has("nm", FC("markConnected", e))
    BY <2>2, <1>2, <1>h, HasAfter DEF Told
  <2>4. \A e \in Conns : Before(F("notifyDown"), FC("connected", e), work'["nm"])
    BY <2>2, <1>2, <1>f, <1>t, BeforeAfter
  <2>5. Has("net", F("down"))' /\ \A e \in Conns : ~ Has("nm", FC("markConnected", e))'
    BY <2>2, <2>3, <1>2, <1>f, HasAfter
  <2>6. ASSUME NEW e \in Conns PROVE ~ LastUp(e)'
    <3>1. F("down") # FC("up", e)
      BY <1>f
    <3>2. Has("net", FC("up", e))' => Has("net", FC("up", e))
      BY <2>2, <3>1, <1>2, HasAfter
    <3>3. Before(F("down"), FC("up", e), work'["net"]) => ~ Has("net", FC("up", e))
      BY <2>2, <1>2, BeforeBack
    <3> QED BY <3>2, <3>3 DEF LastUp
  <2> QED BY <2>2, <2>3, <2>4, <2>5, <2>6 DEF Told, DownComes
<1>19. ASSUME NEW q \in Queues, RetryStep(q) PROVE Told'
  <2>1. q = "nm"
    BY <1>19, <1>w, <1>2 DEF PlainStep
  <2>2. UNCHANGED <<connected, isConnected, session, conn>>
    BY <1>19, <2>1 DEF RetryStep
  <2>3. /\ Has("nm", F("notifyDown"))' <=> Has("nm", F("notifyDown"))
        /\ Has("net", F("down"))' <=> Has("net", F("down"))
        /\ \A e \in Conns :
              /\ Has("net", FC("up", e))' <=> Has("net", FC("up", e))
              /\ Has("nm", FC("markConnected", e))' => Has("nm", FC("markConnected", e))
    BY <1>19, <2>1, <1>2, <1>f, <1>o, HasAfter DEF RetryStep
  <2>4. \A e \in Conns : Before(F("notifyDown"), FC("connected", e), work'["nm"])
    BY <1>19, <2>1, <1>2, <1>f, <1>o, <1>t, BeforeAfter, OtherQueues DEF RetryStep
  <2>5. \A e \in Conns : Before(F("down"), FC("up", e), work'["net"])
           <=> Before(F("down"), FC("up", e), work["net"])
    BY <1>19, <2>1, <1>2, <1>f, <1>o, BeforeAfter, BeforeBack, OtherQueues DEF RetryStep
  <2> QED BY <2>2, <2>3, <2>4, <2>5, <1>2, <1>h, ToldSame
<1>20. ASSUME NEW q \in Queues, TimerStep(q) PROVE Told'
  <2>1. q = "nm"
    BY <1>20, <1>w, <1>2 DEF PlainStep
  <2>2. UNCHANGED <<connected, isConnected, session, conn>>
    BY <1>20, <2>1 DEF TimerStep
  <2>3. /\ Has("nm", F("notifyDown"))' <=> Has("nm", F("notifyDown"))
        /\ Has("net", F("down"))' <=> Has("net", F("down"))
        /\ \A e \in Conns :
              /\ Has("net", FC("up", e))' <=> Has("net", FC("up", e))
              /\ Has("nm", FC("markConnected", e))' => Has("nm", FC("markConnected", e))
    BY <1>20, <2>1, <1>2, <1>f, <1>o, HasAfter DEF TimerStep
  <2>4. \A e \in Conns : Before(F("notifyDown"), FC("connected", e), work'["nm"])
    BY <1>20, <2>1, <1>2, <1>f, <1>o, <1>t, BeforeAfter, OtherQueues DEF TimerStep
  <2>5. \A e \in Conns : Before(F("down"), FC("up", e), work'["net"])
           <=> Before(F("down"), FC("up", e), work["net"])
    BY <1>20, <2>1, <1>2, <1>f, <1>o, BeforeAfter, BeforeBack, OtherQueues DEF TimerStep
  <2> QED BY <2>2, <2>3, <2>4, <2>5, <1>2, <1>h, ToldSame
<1>21. ASSUME NEW q \in Queues, RequestStep(q) PROVE Told'
  <2>1. q = "nm"
    BY <1>21, <1>w, <1>2 DEF PlainStep
  <2>2. UNCHANGED <<connected, isConnected, session, conn>>
    BY <1>21, <2>1 DEF RequestStep
  <2>3. /\ Has("nm", F("notifyDown"))' <=> Has("nm", F("notifyDown"))
        /\ Has("net", F("down"))' <=> Has("net", F("down"))
        /\ \A e \in Conns :
              /\ Has("net", FC("up", e))' <=> Has("net", FC("up", e))
              /\ Has("nm", FC("markConnected", e))' => Has("nm", FC("markConnected", e))
    BY <1>21, <2>1, <1>2, <1>f, <1>o, HasAfter DEF RequestStep
  <2>4. \A e \in Conns : Before(F("notifyDown"), FC("connected", e), work'["nm"])
    BY <1>21, <2>1, <1>2, <1>f, <1>o, <1>t, BeforeAfter, OtherQueues DEF RequestStep
  <2>5. \A e \in Conns : Before(F("down"), FC("up", e), work'["net"])
           <=> Before(F("down"), FC("up", e), work["net"])
    BY <1>21, <2>1, <1>2, <1>f, <1>o, BeforeAfter, BeforeBack, OtherQueues DEF RequestStep
  <2> QED BY <2>2, <2>3, <2>4, <2>5, <1>2, <1>h, ToldSame
<1>22. ASSUME NEW q \in Queues, ReconnectStep(q) PROVE Told'
  <2>1. q = "nm"
    BY <1>22, <1>w, <1>2 DEF PlainStep
  <2>2. connected' = FALSE /\ UNCHANGED <<conn, isConnected, session>>
    BY <1>22, <2>1 DEF ReconnectStep
  <2>3. /\ Has("net", F("down"))' /\ (Has("nm", F("notifyDown"))' <=> Has("nm", F("notifyDown")))
        /\ \A e \in Conns : Has("nm", FC("markConnected", e))' => Has("nm", FC("markConnected", e))
    BY <1>22, <2>1, <1>2, <1>f, HasAfterReconnect
  <2>4. \A e \in Conns : Before(F("notifyDown"), FC("connected", e), work'["nm"])
    BY <1>22, <2>1, <1>2, <1>f, <1>t, BeforeAfterManager
  <2>6. \A e \in Conns : ~ LastUp(e)'
    BY <1>22, <2>1, <1>2, <1>f, HasAfterReconnect, BeforeBack DEF LastUp
  <2> QED BY <2>2, <2>3, <2>4, <2>6, <1>h DEF Told, DownComes
<1>23. ASSUME NEW q \in Queues, StopStep(q) PROVE Told'
  <2>1. q = "nm"
    BY <1>23, <1>w, <1>2 DEF PlainStep
  <2>2. UNCHANGED <<connected, isConnected, session, conn>>
    BY <1>23, <2>1 DEF StopStep, Passes
  <2>3. /\ Has("nm", F("notifyDown"))' <=> Has("nm", F("notifyDown"))
        /\ Has("net", F("down"))' <=> Has("net", F("down"))
        /\ \A e \in Conns :
              /\ Has("net", FC("up", e))' <=> Has("net", FC("up", e))
              /\ Has("nm", FC("markConnected", e))' => Has("nm", FC("markConnected", e))
    BY <1>23, <2>1, <1>2, <1>f, <1>o, HasAfter DEF StopStep, Passes
  <2>4. \A e \in Conns : Before(F("notifyDown"), FC("connected", e), work'["nm"])
    BY <1>23, <2>1, <1>2, <1>f, <1>o, <1>t, BeforeAfter, OtherQueues DEF StopStep, Passes
  <2>5. \A e \in Conns : Before(F("down"), FC("up", e), work'["net"])
           <=> Before(F("down"), FC("up", e), work["net"])
    BY <1>23, <2>1, <1>2, <1>f, <1>o, BeforeAfter, BeforeBack, OtherQueues DEF StopStep, Passes
  <2> QED BY <2>2, <2>3, <2>4, <2>5, <1>2, <1>h, ToldSame
<1>24. ASSUME NEW q \in Queues, DownStep(q) PROVE Told'
  <2>1. q = "net"
    BY <1>24, <1>w, <1>2 DEF NetPlainStep
  <2>2. Ends("net", F("down")) /\ isConnected' = FALSE /\ UNCHANGED <<conn, connected, session>>
    BY <1>24, <2>1 DEF DownStep
  <2>3. Has("net", F("down")) /\ (Has("nm", F("notifyDown"))' <=> Has("nm", F("notifyDown")))
        /\ \A e \in Conns : /\ Has("nm", FC("markConnected", e))' => Has("nm", FC("markConnected", e))
                            /\ Has("net", FC("up", e))' <=> Has("net", FC("up", e))
    BY <2>2, <1>2, <1>f, HasAfter
  <2>5. \A e \in Conns : Before(F("notifyDown"), FC("connected", e), work'["nm"])
    BY <2>2, <1>2, <1>t, OtherQueues
  <2>6. \A e \in Conns : LastUp(e)' <=> LastUp(e)
    BY <2>2, <2>3, <1>2, <1>f, BeforeBack, BeforeAfter DEF LastUp
  <2>7. connected' => LastUp(conn)'
    BY <2>2, <2>3, <2>6, <1>2, <1>h DEF Told, LastUp
  <2> QED BY <2>2, <2>3, <2>5, <2>6, <2>7, <1>h DEF Told
<1>25. ASSUME NEW q \in Queues, AskStep(q) PROVE Told'
  <2>1. q = "net"
    BY <1>25, <1>w, <1>2 DEF NetPlainStep
  <2>2. UNCHANGED <<connected, isConnected, session, conn>>
    BY <1>25, <2>1 DEF AskStep, Passes
  <2>3. /\ Has("nm", F("notifyDown"))' <=> Has("nm", F("notifyDown"))
        /\ Has("net", F("down"))' <=> Has("net", F("down"))
        /\ \A e \in Conns :
              /\ Has("net", FC("up", e))' <=> Has("net", FC("up", e))
              /\ Has("nm", FC("markConnected", e))' => Has("nm", FC("markConnected", e))
    BY <1>25, <2>1, <1>2, <1>f, <1>o, HasAfter DEF AskStep, Passes
  <2>4. \A e \in Conns : Before(F("notifyDown"), FC("connected", e), work'["nm"])
    BY <1>25, <2>1, <1>2, <1>f, <1>o, <1>t, BeforeAfter, OtherQueues DEF AskStep, Passes
  <2>5. \A e \in Conns : Before(F("down"), FC("up", e), work'["net"])
           <=> Before(F("down"), FC("up", e), work["net"])
    BY <1>25, <2>1, <1>2, <1>f, <1>o, BeforeAfter, BeforeBack, OtherQueues DEF AskStep, Passes
  <2> QED BY <2>2, <2>3, <2>4, <2>5, <1>2, <1>h, ToldSame
<1>26. ASSUME AskedStep \/ FiresStep PROVE Told'
  <2>2. UNCHANGED <<connected, isConnected, session, conn>>
    BY <1>26 DEF AskedStep, FiresStep
  <2>3. /\ Has("nm", F("notifyDown"))' <=> Has("nm", F("notifyDown"))
        /\ Has("net", F("down"))' <=> Has("net", F("down"))
        /\ \A e \in Conns :
              /\ Has("net", FC("up", e))' <=> Has("net", FC("up", e))
              /\ Has("nm", FC("markConnected", e))' => Has("nm", FC("markConnected", e))
    BY <1>26, <1>2, <1>f, <1>o, HasAfter DEF AskedStep, FiresStep
  <2>4. \A e \in Conns : Before(F("notifyDown"), FC("connected", e), work'["nm"])
    BY <1>26, <1>2, <1>f, <1>o, <1>t, BeforeAfter, OtherQueues DEF AskedStep, FiresStep
  <2>5. \A e \in Conns : Before(F("down"), FC("up", e), work'["net"])
           <=> Before(F("down"), FC("up", e), work["net"])
    BY <1>26, <1>2, <1>f, <1>o, BeforeAfter, BeforeBack, OtherQueues DEF AskedStep, FiresStep
  <2> QED BY <2>2, <2>3, <2>4, <2>5, <1>2, <1>h, ToldSame
<1>27. ASSUME NEW c \in Conns, OutsideStep(c) PROVE Told'
  <2>2. UNCHANGED <<connected, isConnected, session, conn>>
    BY <1>27 DEF OutsideStep, EstablishStep, BreakStep, ServerDataStep
  <2>3. /\ Has("nm", F("notifyDown"))' <=> Has("nm", F("notifyDown"))
        /\ Has("net", F("down"))' <=> Has("net", F("down"))
        /\ \A e \in Conns :
              /\ Has("net", FC("up", e))' <=> Has("net", FC("up", e))
              /\ Has("nm", FC("markConnected", e))' => Has("nm", FC("markConnected", e))
    BY <1>27, <1>2, <1>f, <1>o, HasAfter DEF OutsideStep, EstablishStep, BreakStep, ServerDataStep
  <2>4. \A e \in Conns : Before(F("notifyDown"), FC("connected", e), work'["nm"])
    BY <1>27, <1>2, <1>f, <1>o, <1>t, BeforeAfter, OtherQueues DEF OutsideStep, EstablishStep,
         BreakStep, ServerDataStep
  <2>5. \A e \in Conns : Before(F("down"), FC("up", e), work'["net"])
           <=> Before(F("down"), FC("up", e), work["net"])
    BY <1>27, <1>2, <1>f, <1>o, BeforeAfter, BeforeBack, OtherQueues DEF OutsideStep,
         EstablishStep, BreakStep, ServerDataStep
  <2> QED BY <2>2, <2>3, <2>4, <2>5, <1>2, <1>h, ToldSame
<1> QED
  BY <1>1, <1>3, <1>4, <1>5, <1>6, <1>7, <1>8, <1>9, <1>10, <1>11, <1>12, <1>13, <1>14, <1>15,
       <1>16, <1>17, <1>18, <1>19, <1>20, <1>21, <1>22, <1>23, <1>24, <1>25, <1>26, <1>27
     DEF Step, SocketStep, ManagerStep, NetStep, PlainStep, NetPlainStep
-----------------------------------------------------------------------------
(* The invariant, and what follows from it                                  *)

IInv == Shape /\ Going /\ Data /\ (~ sharedKey => Apart)

LEMMA InitIInv ==
    ASSUME Init
    PROVE  IInv
<1>1. /\ \A f : Has("nm", f) <=> f = F("start")
      /\ \A f : ~ Has("conn", f) /\ ~ Has("net", f)
      /\ work \in [Queues -> Seq(Frames)]
  <2>1. F("start") \in Frames
    BY FrameParts DEF PlainFrames
  <2>2. work["nm"] = <<F("start")>> /\ work["conn"] = <<>> /\ work["net"] = <<>>
        /\ work = [q \in Queues |-> IF q = "nm" THEN <<F("start")>> ELSE <<>>]
    BY DEF Init, Queues
  <2>3. DOMAIN <<F("start")>> = {1} /\ <<F("start")>>[1] = F("start")
    OBVIOUS
  <2>4. \A f : ~ In(f, <<>>)
    BY DEF In
  <2>5. \A f : In(f, <<F("start")>>) <=> f = F("start")
    BY <2>3 DEF In
  <2>6. work \in [Queues -> Seq(Frames)]
    BY <2>1, <2>2
  <2> QED BY <2>2, <2>4, <2>5, <2>6 DEF Has
<1>2. /\ conn = None /\ created = 0 /\ delegate = {} /\ connected = FALSE
      /\ retries = 0 /\ retryTimer = "nil" /\ sock = [c \in Conns |-> "nil"] /\ closed = {}
      /\ isConnected = FALSE /\ session = None /\ events = 0 /\ sharedKey \in BOOLEAN
  BY DEF Init
<1>3. /\ Queues = {"nm", "conn", "net"} /\ MaxConns \in Nat /\ MaxHappens \in Nat /\ None = 0
      /\ \A c \in Conns : c \in Nat /\ c # None
  BY BoundsAssumption DEF Queues, MaxHappens, Conns, None
<1>f. /\ \A op : F(op) = FC(op, None)
      /\ \A x, y, c, d : FC(x, c) = FC(y, d) => x = y /\ c = d
      /\ \A op, c : FC(op, c).op = op /\ FC(op, c).c = c
  BY FrameParts
<1>4. Shape
  <2>1. TypeOK
    <3>1. /\ None \in 0 .. 0 /\ created \in 0 .. MaxConns /\ 0 \in 0 .. MaxHappens /\ 0 \in 0 .. 2
      BY <1>2, <1>3
    <3>2. conn \in 0 .. created /\ session \in 0 .. created /\ events \in 0 .. MaxHappens
          /\ retries \in 0 .. 2 /\ created \in 0 .. MaxConns
      BY <3>1, <1>2
    <3>3. /\ sock \in [Conns -> {"nil", "connecting", "up", "broken"}]
          /\ closed \subseteq Conns /\ delegate \subseteq Conns
          /\ connected \in BOOLEAN /\ isConnected \in BOOLEAN
          /\ retryTimer \in {"nil", "armed", "fired"}
      BY <1>2
    <3> QED BY <3>2, <3>3, <1>1 DEF TypeOK
  <2>2. ASSUME NEW q \in Queues, NEW f \in Frames, Has(q, f)
        PROVE  f.c <= created /\ f.op \in Runs(q)
    <3>1. q = "nm" /\ f = F("start")
      BY <2>2, <1>1, <1>3
    <3>2. f.c = 0 /\ f.op = "start"
      BY <3>1, <1>f, <1>3
    <3> QED BY <3>1, <3>2, <1>2 DEF Runs, ManagerOps
  <2> QED BY <2>1, <2>2, <1>2 DEF Shape
<1>5. Going
  BY <1>1, <1>2, <1>3 DEF Going, Pending
<1>6. \A f, g : /\ First(f, work["conn"]) /\ Once(f, work["conn"]) /\ Once(f, work["net"])
                /\ Before(f, g, work["conn"]) /\ Before(f, g, work["net"])
                /\ (f # F("start") => First(f, work["nm"]) /\ Once(f, work["nm"]))
                /\ (f # F("start") => Before(f, g, work["nm"]))
  BY <1>1 DEF Has, First, Once, Before, In
<1>7. Data
  BY <1>1, <1>6 DEF Data
<1>8. Apart
  <2>f. /\ \A op : op # "start" => F(op) # F("start") /\ ~ Has("nm", F(op))
        /\ \A op, c : op # "start" => FC(op, c) # F("start") /\ ~ Has("nm", FC(op, c))
    BY <1>1, <1>f
  <2>1. Heads
    BY <1>6, <2>f DEF Heads
  <2>2. ManagerHeld
    BY <1>2, <2>f DEF ManagerHeld
  <2>3. Told
    BY <1>1, <1>2, <1>6, <2>f DEF Told, DownComes, LastUp
  <2>4. ASSUME NEW c \in Conns PROVE SocketHeld(c) /\ NewsOnce(c)
    BY <1>1, <1>2, <1>6, <2>f DEF SocketHeld, NewsOnce, News
  <2> QED BY <2>1, <2>2, <2>3, <2>4 DEF Apart
<1> QED BY <1>4, <1>5, <1>7, <1>8 DEF IInv

LEMMA NextIInv ==
    ASSUME IInv, [Next]_vars
    PROVE  IInv'
<1>1. CASE Next
  <2>1. Shape /\ Going /\ Data /\ (~ sharedKey => Apart)
    BY DEF IInv
  <2>2. Shape' /\ Going' /\ Data'
    BY <1>1, <2>1, ShapeKept, GoingKept, DataKept
  <2>3. sharedKey' = sharedKey
    BY <1>1, <2>1, StepOf
  <2>4. ASSUME ~ sharedKey PROVE Apart'
    <3>1. Apart /\ Heads
      BY <2>1, <2>4 DEF Apart
    <3>2. Heads'
      BY <1>1, <2>1, <2>4, <3>1, HeadsKept
    <3>3. ManagerHeld' /\ \A e \in Conns : SocketHeld(e)'
      BY <1>1, <2>1, <2>4, <3>1, SocketsKept
    <3>4. \A e \in Conns : NewsOnce(e)'
      BY <1>1, <2>1, <2>4, <3>1, NewsKept
    <3>5. Told'
      BY <1>1, <2>1, <2>4, <3>1, ToldKept
    <3> QED BY <3>2, <3>3, <3>4, <3>5 DEF Apart
  <2> QED BY <2>2, <2>3, <2>4 DEF IInv
<1>2. CASE UNCHANGED vars
  <2>1. UNCHANGED <<sharedKey, work, conn, created, sock, closed, delegate, connected, retries,
                    retryTimer, isConnected, session, events>>
    BY <1>2 DEF vars, manager, sockets, app
  <2>2. Shape'
    BY <2>1 DEF IInv, Shape, TypeOK, MaxHappens, Has, Runs
  <2>3. Going' /\ Data'
    BY <2>1 DEF IInv, Going, Data, HandedOver, Pending, Has
  <2>4. ASSUME ~ sharedKey PROVE Apart'
    <3>1. Heads /\ ManagerHeld /\ Told /\ \A c \in Conns : SocketHeld(c) /\ NewsOnce(c)
      BY <2>4 DEF IInv, Apart
    <3>2. Heads' /\ ManagerHeld' /\ \A c \in Conns : SocketHeld(c)' /\ NewsOnce(c)'
      BY <2>1, <3>1 DEF Heads, ManagerHeld, SocketHeld, NewsOnce, News, Has
    <3>3. Told'
      BY <2>1, <3>1 DEF Told, DownComes, LastUp, Has
    <3> QED BY <3>2, <3>3 DEF Apart
  <2> QED BY <2>1, <2>2, <2>3, <2>4 DEF IInv
<1> QED BY <1>1, <1>2

\* The invariant holds however the queues of Queue.m interleave and however
\* their keys were linked.
THEOREM Invariance == Spec => []IInv
<1>1. Init => IInv
  BY InitIInv
<1>2. IInv /\ [Next]_vars => IInv'
  BY NextIInv
<1> QED BY <1>1, <1>2, PTL DEF Spec

\* A chunk that didReadData handed to netQueue after its test is never parsed in
\* the session of a later connection, although the test is made on another queue.
THEOREM NoLateChunk == Spec => []NoStaleData
<1>1. ASSUME IInv PROVE NoStaleData
  <2> SUFFICES ASSUME At("net", "data") PROVE session <= Arg("net")
    BY DEF NoStaleData
  <2>1. Queued /\ "net" \in Queues
    BY <1>1 DEF IInv, Shape, TypeOK, Queued, Queues
  <2>2. Has("net", FC("data", Arg("net"))) /\ Arg("net") \in Conns
    BY <2>1, HeadFrame DEF Has, ConnFrames
  <2> QED BY <1>1, <2>2 DEF IInv, Data
<1> QED BY <1>1, Invariance, PTL

\* When no block is left, NetworkManager_Wrapper has a connection that is up or
\* connecting, or its retry timer is armed: no order of failures, reconnects and
\* timer events leaves it with nothing under way.
THEOREM NeverAtRest == Spec => []NoStall
<1>1. ASSUME IInv, Quiet
      PROVE  (conn # None /\ sock[conn] \in {"connecting", "up"}) \/ retryTimer = "armed"
  <2>1. \A f : ~ Pending(f)
    BY <1>1 DEF Quiet, Pending, Has, In
  <2>2. Going /\ retryTimer \in {"nil", "armed", "fired"}
        /\ (conn # None => sock[conn] \in {"nil", "connecting", "up", "broken"})
    BY <1>1, BoundsAssumption DEF IInv, Shape, TypeOK, Conns, None
  <2> QED BY <2>1, <2>2 DEF Going
<1>2. IInv => NoStall
  BY <1>1 DEF NoStall
<1> QED BY <1>2, Invariance, PTL

\* With queues that exclude each other the manager and NetworkManager believe the
\* same when no block is left, and what they believe in is a socket that is up
\* and that NetworkManager reset itself for.
THEOREM OneOpinion == Spec => []Agreement
<1>1. ASSUME IInv, ~ sharedKey, Quiet
      PROVE  /\ connected = isConnected
             /\ connected => conn # None /\ session = conn /\ sock[conn] = "up"
  <2>1. (\A f : ~ Pending(f)) /\ \A q \in Queues : \A f : ~ Has(q, f)
    BY <1>1 DEF Quiet, Pending, Has, In
  <2>2. Going /\ ManagerHeld /\ Told /\ connected \in BOOLEAN /\ isConnected \in BOOLEAN
        /\ (conn # None => sock[conn] \in {"nil", "connecting", "up", "broken"})
    BY <1>1, BoundsAssumption DEF IInv, Apart, Shape, TypeOK, Conns, None
  <2>3. connected => conn # None /\ sock[conn] = "up"
    BY <2>1, <2>2 DEF Going, ManagerHeld
  <2>4. ~ DownComes /\ ~ LastUp(conn)
    BY <2>1 DEF DownComes, LastUp, Queues
  <2>5. connected => isConnected
    BY <2>2, <2>4 DEF Told
  <2>6. isConnected => connected /\ session = conn
    BY <2>2, <2>4 DEF Told
  <2> QED BY <2>2, <2>3, <2>5, <2>6
<1>2. IInv => Agreement
  BY <1>1 DEF Agreement
<1> QED BY <1>2, Invariance, PTL

\* With queues that exclude each other two sockets are never open at once, and
\* _isConnectionConnected is set only for a connection that did connect.
THEOREM OneSocket == Spec => []SocketsOK
<1>1. ASSUME IInv PROVE SocketsOK
  <2>1. TypeOK
    BY <1>1 DEF IInv, Shape
  <2>2. SingleSocket
    BY <1>1 DEF IInv, Apart, SocketHeld, SingleSocket
  <2>3. ConnectedIsReal
    BY <1>1 DEF IInv, Apart, ManagerHeld, ConnectedIsReal
  <2> QED BY <2>1, <2>2, <2>3 DEF SocketsOK
<1> QED BY <1>1, Invariance, PTL

=============================================================================
