------------------------- MODULE KVReplicationProofs -------------------------
(***************************************************************************)
(* For any devices, clocks and syncs that overlap, and whatever is written, *)
(* lost or restarted in between: the remote version of a row is one the     *)
(* server gave to what the row holds, and what is fetched replaces only an  *)
(* older row.                                                               *)
(***************************************************************************)
EXTENDS KVReplication, TLAPS, SequenceTheorems

-----------------------------------------------------------------------------
(* The state and what each sync knows                                       *)

Requests == {"put", "del", "get"}
Errors == {"none", "conflict", "notFound", "tombstone", "unknown"}
Ops == [step : Steps, block : BOOLEAN, ver : Nat, object : Object, lv : Nat,
        recorded : Nat, val : Nat, req : Requests \cup {"none"}, err : Errors]
Rows == [ver : Nat, rv : Nat, time : {0} \cup Times, del : BOOLEAN, val : Nat]

Shape ==
    /\ world \in Worlds
    /\ row \in [Devices -> Rows]
    /\ running \in [Devices -> {0} \cup Slots]
    /\ op \in [Devices -> [Slots -> Ops]]
    /\ hist \in Seq(Object)
    /\ clock \in {0} \cup Times /\ writes \in 0 .. MaxWrites /\ faults \in 0 .. world.maxFaults

\* The versions the server has given, and the values written so far.
Versions == 1 .. Len(hist)
HistoryOK ==
    /\ \A i \in Versions : hist[i].val <= writes
    /\ \A i, j \in Versions : i <= j => hist[i].time <= hist[j].time

\* A row holds a value that was written; if it carries a remote version, it is
\* the server's under that version.
RowOK(r) ==
    /\ r.val <= writes /\ r.rv \in 0 .. Len(hist)
    /\ r.rv > 0 => Same(r, hist[r.rv])

\* What a sync knows: of the object it was told of, always; of the row it has
\* read, as long as no other transaction has made a newer one.
Told(o) ==
    \/ o.ver = 0 /\ o.object = NoObject
    \/ o.ver \in Versions /\ o.object = hist[o.ver]
SameAs(o, r) == o.ver \in Versions /\ (r.ver = o.lv => Same(r, hist[o.ver]))
NewerThan(o, r) ==
    /\ o.ver \in Versions /\ o.object = hist[o.ver] /\ ~ o.object.del
    /\ r.ver = o.lv => r.time < o.object.time

Knows(o, r) ==
    /\ o.lv <= r.ver /\ o.ver <= Len(hist) + 1 /\ o.val <= writes
    /\ o.step \in {"list", "start", "compare"} => Told(o)
    /\ o.step = "remove" => o.ver \in Versions /\ hist[o.ver].del
    /\ o.step = "put" => o.req = "put" /\ (r.ver = o.lv => ~ r.del /\ r.val = o.val)
    /\ o.step = "del" => o.req = "del" /\ (r.ver = o.lv => r.del)
    /\ o.step = "get" => /\ o.req = "get" /\ o.ver \in Versions
                         /\ r.ver = o.lv => r.time < hist[o.ver].time
    /\ o.step = "answer" /\ o.err = "none" =>
         /\ o.req \in Requests
         /\ o.req # "get" => SameAs(o, r)
         /\ o.req = "get" => NewerThan(o, r)
    /\ o.step = "record" => SameAs(o, r)
    /\ o.step = "apply" => NewerThan(o, r)

IndInv ==
    /\ Shape /\ HistoryOK
    /\ \A d \in Devices : RowOK(row[d])
    /\ \A d \in Devices, s \in Slots : Knows(op[d][s], row[d])

-----------------------------------------------------------------------------
(* Steps that leave a sync alone                                            *)

\* The server forgets nothing, and a row is replaced only by a newer version.
Grows ==
    /\ Len(hist) <= Len(hist') /\ (\A i \in Versions : hist'[i] = hist[i])
    /\ writes <= writes'
Follows(d) == row'[d] = row[d] \/ row'[d].ver > row[d].ver

\* What a sync knows stays true while it takes no step.
LEMMA KnowsKept ==
    ASSUME Shape, Shape', Grows, NEW d \in Devices, NEW s \in Slots, Follows(d),
           Knows(op[d][s], row[d]), op'[d][s] = op[d][s]
    PROVE  Knows(op[d][s], row[d])'
<1> DEFINE o == op[d][s]
           r == row[d]
<1>1. /\ o \in Ops /\ r \in Rows /\ row'[d] \in Rows /\ Len(hist) \in Nat /\ Len(hist') \in Nat
      /\ writes \in Nat /\ writes' \in Nat
  BY DEF Shape
<1>2. Versions \subseteq Versions' /\ \A i \in Versions : hist'[i] = hist[i]
  BY <1>1 DEF Versions, Grows
<1>3. o.lv <= row'[d].ver /\ (row'[d].ver = o.lv => row'[d] = r)
  <2>1. o.lv <= r.ver /\ (row'[d] = r \/ row'[d].ver > r.ver)
    BY DEF Knows, Follows
  <2>2. o.lv \in Nat /\ r.ver \in Nat /\ row'[d].ver \in Nat
    BY <1>1 DEF Ops, Rows
  <2> QED BY <2>1, <2>2
<1>4. o.ver <= Len(hist') + 1 /\ o.val <= writes'
  BY <1>1 DEF Knows, Grows, Ops
<1>5. Told(o) => Told(op[d][s])'
  BY <1>2 DEF Told
<1>6. SameAs(o, r) => SameAs(op[d][s], row[d])'
  BY <1>2, <1>3 DEF SameAs, Same
<1>7. NewerThan(o, r) => NewerThan(op[d][s], row[d])'
  BY <1>2, <1>3 DEF NewerThan
<1> QED BY <1>2, <1>3, <1>4, <1>5, <1>6, <1>7 DEF Knows

\* A marked row stays well marked while it is not replaced.
LEMMA RowKept ==
    ASSUME Shape, Shape', Grows, NEW d \in Devices, RowOK(row[d]), row'[d] = row[d]
    PROVE  RowOK(row[d])'
<1>1. row[d] \in Rows /\ Len(hist) \in Nat /\ Len(hist') \in Nat /\ writes \in Nat /\ writes' \in Nat
  BY DEF Shape
<1> QED BY <1>1 DEF RowOK, Grows, Versions, Rows, Same

\* A step of one sync sets what that sync is at, and nothing of another.
LEMMA BecomeIs ==
    ASSUME Shape, NEW d \in Devices, NEW s \in Slots, NEW o \in Ops, Become(d, s, o)
    PROVE  /\ op' \in [Devices -> [Slots -> Ops]] /\ op'[d][s] = o
           /\ \A e \in Devices, r \in Slots : e # d \/ r # s => op'[e][r] = op[e][r]
BY DEF Become, Shape

\* So it is enough to look at that sync, and at its row if that is replaced.
LEMMA SyncStepKeeps ==
    ASSUME IndInv, Shape', HistoryOK', Grows, NEW d \in Devices, NEW s \in Slots, NEW o \in Ops,
           Become(d, s, o), Knows(o, row[d])', Follows(d), RowOK(row[d])',
           \A e \in Devices : e # d => row'[e] = row[e]
    PROVE  IndInv'
<1>1. /\ op'[d][s] = o
      /\ \A e \in Devices, r \in Slots : e # d \/ r # s => op'[e][r] = op[e][r]
  BY BecomeIs DEF IndInv
<1>2. ASSUME NEW e \in Devices, NEW r \in Slots PROVE Knows(op[e][r], row[e])'
  <2>1. Follows(e) /\ Knows(op[e][r], row[e])
    BY DEF Follows, IndInv
  <2>2. CASE e # d \/ r # s
    BY <1>1, <2>1, <2>2, KnowsKept DEF IndInv
  <2>3. CASE e = d /\ r = s
    BY <1>1, <2>3
  <2> QED BY <2>2, <2>3
<1>3. ASSUME NEW e \in Devices PROVE RowOK(row[e])'
  BY RowKept DEF IndInv
<1> QED BY <1>2, <1>3 DEF IndInv

\* A step that replaces no row, as most do.
LEMMA QuietStep ==
    ASSUME IndInv, NEW d \in Devices, NEW s \in Slots, NEW o \in Ops, Become(d, s, o),
           Knows(o, row[d]), UNCHANGED <<world, row, hist, clock, writes>>,
           running' \in [Devices -> {0} \cup Slots], faults' \in 0 .. world.maxFaults
    PROVE  IndInv'
<1>1. op' \in [Devices -> [Slots -> Ops]]
  BY BecomeIs DEF IndInv
<1>2. Shape'
  BY <1>1 DEF IndInv, Shape
<1>3. HistoryOK' /\ Grows /\ Follows(d)
  BY DEF IndInv, HistoryOK, Versions, Grows, Follows, Shape
<1>4. Knows(o, row[d])' /\ RowOK(row[d])'
  BY DEF IndInv, Knows, Told, SameAs, NewerThan, RowOK, Same, Versions
<1> QED BY <1>2, <1>3, <1>4, SyncStepKeeps

\* A sync that is over knows nothing.
LEMMA IdleKnows ==
    ASSUME IndInv, NEW d \in Devices
    PROVE  Idle \in Ops /\ Knows(Idle, row[d]) /\ row[d] \in Rows /\ Len(hist) \in Nat /\ writes \in Nat
BY DEF IndInv, Shape, Ops, Idle, NoObject, Object, Steps, Requests, Errors, Knows, Rows

\* What a row and an object of the server are made of.
LEMMA RowFields ==
    ASSUME IndInv, NEW d \in Devices
    PROVE  /\ row[d].ver \in Nat /\ row[d].val \in Nat /\ row[d].time \in Nat
           /\ row[d].del \in BOOLEAN /\ row[d].val <= writes
<1>1. RowOK(row[d]) /\ row[d] \in Rows
  BY DEF IndInv, Shape
<1>2. /\ row[d].ver \in Nat /\ row[d].val \in Nat /\ row[d].time \in {0} \cup Times
      /\ row[d].del \in BOOLEAN
  BY <1>1 DEF Rows
<1>3. row[d].time \in Nat
  <2>1. \A t \in {0} \cup Times : t \in Nat
    BY TimesAssumption
  <2> QED BY <1>2, <2>1, Zenon
<1>4. row[d].val <= writes
  BY <1>1 DEF RowOK
<1> QED BY <1>2, <1>3, <1>4

LEMMA ObjectFields ==
    ASSUME hist \in Seq(Object), NEW i \in Versions
    PROVE  /\ hist[i] \in Object /\ hist[i].time \in Nat /\ hist[i].val \in Nat
           /\ hist[i].del \in BOOLEAN
<1>1. hist[i] \in Object
  BY ElementOfSeq DEF Versions
<1> QED BY <1>1 DEF Object

\* What a sync that goes on within _syncKey, or after an answer, is at.
LEMMA ThenType ==
    ASSUME NEW step \in Steps, NEW b \in BOOLEAN, NEW v \in Nat, NEW lv \in Nat
    PROVE  Then(step, b, v, lv) \in Ops
BY DEF Then, Ops, Idle, NoObject, Object, Requests, Errors

\* The start of a sync and the list of the server's keys.
LEMMA ListSteps ==
    ASSUME IndInv, NEW d \in Devices, NEW s \in Slots,
           SyncAllKeys(d, s) \/ ListKeys(d, s) \/ ListFails(d, s) \/ TakeList(d, s)
    PROVE  IndInv'
<1>i. /\ Idle \in Ops /\ Knows(Idle, row[d]) /\ row[d] \in Rows /\ Len(hist) \in Nat
      /\ writes \in Nat
  BY IdleKnows
<1>o. op[d][s] \in Ops /\ Knows(op[d][s], row[d]) /\ hist \in Seq(Object)
  BY DEF IndInv, Shape
<1>s. /\ running \in [Devices -> {0} \cup Slots] /\ 0 \in {0} \cup Slots
      /\ faults \in 0 .. world.maxFaults
  BY DEF IndInv, Shape
<1>1. CASE SyncAllKeys(d, s)
  <2> DEFINE o == [Idle EXCEPT !.step = "keys", !.block = TRUE]
  <2>1. o \in Ops
    BY <1>i DEF Ops, Steps
  <2>2. Knows(o, row[d])
    BY <1>i DEF Knows, Idle, Rows
  <2> QED BY <1>1, <1>s, <2>1, <2>2, QuietStep DEF SyncAllKeys
<1>2. CASE ListKeys(d, s)
  <2> DEFINE o == [op[d][s] EXCEPT !.step = "list", !.ver = Len(hist),
                   !.object = IF hist = <<>> THEN NoObject ELSE hist[Len(hist)]]
  <2>1. Told(o) /\ o.object \in Object
    <3>1. CASE hist = <<>>
      BY <3>1 DEF Told, NoObject, Object, Ops
    <3>2. CASE hist # <<>>
      <4>1. Len(hist) \in Versions /\ hist[Len(hist)] \in Object
        BY <1>o, <3>2, EmptySeq, LenProperties, ElementOfSeq DEF Versions
      <4>2. o.ver = Len(hist) /\ o.object = hist[Len(hist)]
        BY <1>o, <3>2 DEF Ops
      <4> HIDE DEF o
      <4> QED BY <4>1, <4>2 DEF Told
    <3> QED BY <3>1, <3>2
  <2>2. o \in Ops
    BY <1>o, <1>i, <2>1 DEF Ops, Steps
  <2>3. Knows(o, row[d])
    BY <1>o, <1>i, <2>1 DEF Knows, Ops
  <2> QED BY <1>2, <1>s, <2>2, <2>3, QuietStep DEF ListKeys
<1>3. CASE ListFails(d, s)
  <2>1. /\ running' \in [Devices -> {0} \cup Slots]
        /\ faults' \in 0 .. world.maxFaults
    BY <1>3, <1>s, KVAssumption DEF ListFails, IndInv, Shape, World
  <2> QED BY <1>3, <1>i, <2>1, QuietStep DEF ListFails
<1>4. CASE TakeList(d, s)
  <2> DEFINE o == [op[d][s] EXCEPT !.step = "start"]
  <2>1. o \in Ops
    BY <1>o DEF Ops, Steps
  <2>2. Knows(o, row[d])
    BY <1>4, <1>o DEF TakeList, At, Knows, Told, Ops
  <2> QED BY <1>4, <1>i, <1>s, <2>1, <2>2, QuietStep DEF TakeList
<1> QED BY <1>1, <1>2, <1>3, <1>4

\* What _syncKey decides to do from the row it has read and the object it was told of.
LEMMA ComparedOK ==
    ASSUME IndInv, NEW d \in Devices, NEW o \in Ops, Told(o), o.ver <= Len(hist)
    PROVE  Compared(o, row[d]) \in Ops /\ Knows(Compared(o, row[d]), row[d])
<1> DEFINE r == row[d]
<1>i. Idle \in Ops /\ Knows(Idle, r) /\ r \in Rows /\ Len(hist) \in Nat /\ writes \in Nat
  BY IdleKnows
<1>r. r.ver \in Nat /\ r.val \in Nat /\ r.time \in Nat /\ r.del \in BOOLEAN /\ r.val <= writes
  BY RowFields
<1>o. o.ver \in Nat /\ o.recorded \in Nat /\ o.object \in Object /\ o.object.time \in Nat
  BY DEF Ops, Object
<1>v. o.object.del \/ o.object.time > 0 => o.ver \in Versions /\ o.object = hist[o.ver]
  BY <1>o DEF Told, NoObject
<1>t. ASSUME NEW step \in Steps, NEW b \in BOOLEAN
      PROVE  Then(step, b, o.ver, r.ver) \in Ops
  BY <1>r, <1>o, ThenType
<1>a. ASSUME NEW req \in Requests, NEW v \in Nat
      PROVE  Ask(req, v, r) \in Ops
  BY <1>r, <1>o, <1>i DEF Ask, Ops, Idle, Requests, Steps
<1>1. CASE r.del /\ o.object.del
  <2>1. Compared(o, r) = Then("record", TRUE, o.ver, r.ver)
    BY <1>1 DEF Compared
  <2>2. Knows(Then("record", TRUE, o.ver, r.ver), r)
    <3>1. o.ver \in Versions /\ hist[o.ver].del = TRUE /\ r.del = TRUE
      BY <1>1, <1>v, <1>r, <1>o DEF Object
    <3>2. Same(r, hist[o.ver])
      BY <3>1 DEF Same
    <3> QED BY <3>1, <3>2, <1>r, <1>o, <1>i DEF Knows, Then, Idle, SameAs
  <2> QED BY <1>t, <2>1, <2>2 DEF Steps
<1>2. CASE ~ (r.del /\ o.object.del) /\ LocalWins(r.time, o.object.time)
  <2>1. CASE r.del
    <3>1. Compared(o, r) = Ask("del", o.ver, r)
      BY <1>2, <2>1 DEF Compared
    <3>2. Knows(Ask("del", o.ver, r), r)
      BY <2>1, <1>r, <1>o, <1>i DEF Knows, Ask, Idle
    <3> QED BY <1>a, <1>o, <3>1, <3>2 DEF Requests
  <2>2. CASE ~ r.del
    <3> DEFINE v == IF o.ver = 0 \/ o.ver < o.recorded THEN 1 ELSE o.ver
    <3>1. Compared(o, r) = Ask("put", v, r)
      BY <1>2, <2>2 DEF Compared
    <3>2. v \in Nat /\ v <= Len(hist) + 1
      BY <1>o, <1>i
    <3>3. Knows(Ask("put", v, r), r)
      BY <2>2, <1>r, <1>i, <3>2 DEF Knows, Ask, Idle
    <3> HIDE DEF v
    <3> QED BY <1>a, <3>1, <3>2, <3>3 DEF Requests
  <2> QED BY <2>1, <2>2
<1>3. CASE ~ (r.del /\ o.object.del) /\ ~ LocalWins(r.time, o.object.time)
  <2>1. r.time < o.object.time /\ o.object.time > 0
    BY <1>3, <1>r, <1>o DEF LocalWins
  <2>2. o.ver \in Versions /\ o.object = hist[o.ver]
    BY <1>v, <2>1
  <2>3. CASE ~ o.object.del
    <3>1. Compared(o, r) = Ask("get", o.ver, r)
      BY <1>3, <2>3 DEF Compared
    <3>2. Knows(Ask("get", o.ver, r), r)
      BY <2>1, <2>2, <1>r, <1>o, <1>i DEF Knows, Ask, Idle
    <3> QED BY <1>a, <1>o, <3>1, <3>2 DEF Requests
  <2>4. CASE o.object.del
    <3>1. Compared(o, r) = Idle \/ Compared(o, r) = Then("remove", TRUE, o.ver, r.ver)
      BY <1>3, <2>4 DEF Compared
    <3>2. Knows(Then("remove", TRUE, o.ver, r.ver), r)
      BY <2>2, <2>4, <1>r, <1>o, <1>i DEF Knows, Then, Idle
    <3> QED BY <1>i, <1>t, <3>1, <3>2 DEF Steps
  <2> QED BY <2>3, <2>4
<1> QED BY <1>1, <1>2, <1>3

\* The comparisons and the answers, which write nothing.
LEMMA CompareSteps ==
    ASSUME IndInv, NEW d \in Devices, NEW s \in Slots,
           \/ CompareVersions(d, s) \/ CompareTimes(d, s) \/ TakeAnswer(d, s)
           \/ LoseAnswer(d, s) \/ ServeGet(d, s)
    PROVE  IndInv'
<1>i. /\ Idle \in Ops /\ Knows(Idle, row[d]) /\ row[d] \in Rows /\ Len(hist) \in Nat
      /\ writes \in Nat
  BY IdleKnows
<1>o. op[d][s] \in Ops /\ Knows(op[d][s], row[d]) /\ hist \in Seq(Object)
  BY DEF IndInv, Shape
<1>s. running \in [Devices -> {0} \cup Slots] /\ faults \in 0 .. world.maxFaults
  BY DEF IndInv, Shape
<1>1. CASE CompareVersions(d, s)
  <2> DEFINE o == [op[d][s] EXCEPT !.step = "compare", !.recorded = row[d].rv]
  <2>1. o \in Ops
    BY <1>o, <1>i DEF Ops, Steps, Rows
  <2>2. Knows(o, row[d])
    BY <1>1, <1>o DEF CompareVersions, At, Knows, Told, Ops
  <2> QED BY <1>1, <1>i, <1>s, <2>1, <2>2, QuietStep DEF CompareVersions
<1>2. CASE CompareTimes(d, s)
  <2>1. Told(op[d][s])
    BY <1>2, <1>o DEF CompareTimes, At, Knows
  <2>2. op[d][s].ver <= Len(hist)
    BY <2>1, <1>i DEF Told, Versions
  <2>3. Compared(op[d][s], row[d]) \in Ops /\ Knows(Compared(op[d][s], row[d]), row[d])
    BY <1>o, <2>1, <2>2, ComparedOK
  <2> QED BY <1>2, <1>s, <2>3, QuietStep DEF CompareTimes
<1>3. CASE TakeAnswer(d, s)
  <2> DEFINE o == op[d][s]
  <2>1. CASE o.err # "none"
    BY <1>3, <1>i, <1>s, <2>1, QuietStep DEF TakeAnswer
  <2>2. CASE o.err = "none" /\ o.req = "get"
    <3>1. [o EXCEPT !.step = "apply"] \in Ops
      BY <1>o DEF Ops, Steps
    <3>2. Knows([o EXCEPT !.step = "apply"], row[d])
      BY <1>3, <1>o, <2>2 DEF TakeAnswer, At, Knows, NewerThan, Ops
    <3> QED BY <1>3, <1>s, <2>2, <3>1, <3>2, QuietStep DEF TakeAnswer
  <2>3. CASE o.err = "none" /\ o.req # "get"
    <3>1. Then("record", FALSE, o.ver, o.lv) \in Ops
      <4>1. o.ver \in Nat /\ o.lv \in Nat
        BY <1>o DEF Ops
      <4> QED BY <4>1, ThenType DEF Steps
    <3>2. Knows(Then("record", FALSE, o.ver, o.lv), row[d])
      BY <1>3, <1>o, <1>i, <2>3 DEF TakeAnswer, At, Then, Idle, Knows, SameAs, Ops
    <3> QED BY <1>3, <1>s, <2>3, <3>1, <3>2, QuietStep DEF TakeAnswer
  <2> QED BY <2>1, <2>2, <2>3
<1>4. CASE LoseAnswer(d, s)
  <2> DEFINE o == [op[d][s] EXCEPT !.step = "answer", !.ver = 0, !.val = 0, !.err = "unknown"]
  <2>1. o \in Ops
    BY <1>o DEF Ops, Steps, Errors
  <2>2. Knows(o, row[d])
    BY <1>o, <1>i DEF Knows, Ops
  <2>3. faults' \in 0 .. world.maxFaults /\ running' = running
    BY <1>4, <1>s, KVAssumption DEF LoseAnswer, IndInv, Shape, World
  <2> QED BY <1>4, <1>s, <2>1, <2>2, <2>3, QuietStep DEF LoseAnswer, Answered
<1>5. CASE ServeGet(d, s)
  <2> DEFINE n == Len(hist)
             o == [op[d][s] EXCEPT !.step = "answer", !.ver = n, !.object = hist[n],
                   !.err = IF hist[n].del THEN "tombstone" ELSE "none"]
  <2>1. /\ op[d][s].ver \in Versions /\ op[d][s].req = "get"
        /\ row[d].ver = op[d][s].lv => row[d].time < hist[op[d][s].ver].time
    BY <1>5, <1>o DEF ServeGet, At, Knows
  <2>2. n \in Versions /\ hist[n] \in Object /\ op[d][s].ver <= n
    BY <1>o, <1>i, <2>1, ElementOfSeq DEF Versions
  <2>3. hist[op[d][s].ver].time <= hist[n].time
    BY <2>1, <2>2 DEF IndInv, HistoryOK
  <2>4. o \in Ops
    BY <1>o, <1>i, <2>2 DEF Ops, Steps, Errors, Object
  <2>5. row[d].ver = op[d][s].lv => row[d].time < hist[n].time
    <3>1. hist[n].time \in Nat /\ hist[op[d][s].ver].time \in Nat
      BY <1>o, <2>1, <2>2, ObjectFields
    <3>2. row[d].time \in Nat
      BY RowFields
    <3> QED BY <2>1, <2>3, <3>1, <3>2
  <2>6. o.err = "none" => NewerThan(o, row[d])
    <3>1. o.ver = n /\ o.object = hist[n] /\ o.lv = op[d][s].lv /\ (o.err = "none" => ~ hist[n].del)
      BY <1>o DEF Ops
    <3> HIDE DEF o, n
    <3> QED BY <2>2, <2>5, <3>1 DEF NewerThan
  <2>7. Knows(o, row[d])
    <3>1. /\ o.step = "answer" /\ o.req = "get" /\ o.lv = op[d][s].lv /\ o.ver = n
          /\ o.val = op[d][s].val
      BY <1>o, <2>1 DEF Ops
    <3>2. o.lv <= row[d].ver /\ o.val <= writes /\ n <= Len(hist) + 1
      BY <1>o, <1>i, <3>1 DEF Knows
    <3> HIDE DEF o, n
    <3> QED BY <2>6, <3>1, <3>2 DEF Knows, Requests
  <2> QED BY <1>5, <1>s, <2>4, <2>7, QuietStep DEF ServeGet
<1> QED BY <1>1, <1>2, <1>3, <1>4, <1>5

\* Date() is a reading of the clock.
LEMMA ReadingType ==
    ASSUME IndInv, NEW t \in Times, Reading(t)
    PROVE  clock' \in {0} \cup Times /\ t \in Nat
<1>1. world.clocks \in {"skewed", "shared", "ticking"} /\ clock \in {0} \cup Times
  BY KVAssumption DEF IndInv, Shape, World
<1>2. t \in Nat
  BY TimesAssumption
<1> QED BY <1>1, <1>2 DEF Reading

\* The shape after a transaction on the row of d.
LEMMA RowStepShape ==
    ASSUME IndInv, NEW d \in Devices, NEW s \in Slots, NEW o \in Ops, Become(d, s, o),
           NEW r \in Rows, row' = [row EXCEPT ![d] = r], r.ver > row[d].ver,
           UNCHANGED <<world, running, hist, writes, faults>>, clock' \in {0} \cup Times,
           RowOK(r), Knows(o, r)
    PROVE  IndInv'
<1>1. op' \in [Devices -> [Slots -> Ops]]
  BY BecomeIs DEF IndInv
<1>2. row' \in [Devices -> Rows] /\ row'[d] = r
  BY DEF IndInv, Shape
<1>3. Shape'
  BY <1>1, <1>2 DEF IndInv, Shape
<1>4. HistoryOK' /\ Grows /\ Follows(d)
  BY <1>2 DEF IndInv, HistoryOK, Versions, Grows, Follows, Shape
<1>5. RowOK(r)' /\ Knows(o, r)'
  BY DEF RowOK, Same, Knows, Told, SameAs, NewerThan, Versions
<1>6. \A e \in Devices : e # d => row'[e] = row[e]
  BY DEF IndInv, Shape
<1> QED BY <1>2, <1>3, <1>4, <1>5, <1>6, SyncStepKeeps

\* Removing the key locally, since the server's removal is newer.
LEMMA RemoveStep ==
    ASSUME IndInv, NEW d \in Devices, NEW s \in Slots, RemoveLocally(d, s)
    PROVE  IndInv'
<1> DEFINE o == op[d][s]
<1>i. /\ Idle \in Ops /\ Knows(Idle, row[d]) /\ row[d] \in Rows /\ Len(hist) \in Nat
      /\ writes \in Nat
  BY IdleKnows
<1>s. running \in [Devices -> {0} \cup Slots] /\ faults \in 0 .. world.maxFaults
  BY DEF IndInv, Shape
<1>o. o \in Ops /\ Knows(o, row[d]) /\ o.ver \in Versions /\ hist[o.ver].del
  BY DEF IndInv, Shape, RemoveLocally, At, Knows
<1>1. CASE Unlocked(d, o.lv)
  <2>1. PICK t \in Times : Reading(t) /\ DelRow(d, t)
    BY <1>1 DEF RemoveLocally
  <2> DEFINE r == [ver |-> row[d].ver + 1, rv |-> 0, time |-> t, del |-> TRUE, val |-> row[d].val]
             n == Then("record", TRUE, o.ver, o.lv + 1)
  <2>2. row' = [row EXCEPT ![d] = r]
    BY <2>1 DEF DelRow
  <2>3. r \in Rows /\ r.ver > row[d].ver /\ RowOK(r)
    BY <1>i, RowFields DEF Rows, RowOK
  <2>4. n \in Ops
    <3>1. o.ver \in Nat /\ o.lv + 1 \in Nat
      BY <1>o DEF Ops
    <3> QED BY <3>1, ThenType DEF Steps
  <2>5. Same(r, hist[o.ver])
    BY <1>o, ObjectFields DEF Same, IndInv, Shape
  <2>6. Knows(n, r)
    <3>1. /\ n.step = "record" /\ n.ver = o.ver /\ n.lv = o.lv + 1 /\ n.val = 0
          /\ o.lv = row[d].ver /\ r.ver = row[d].ver + 1
      BY <1>1 DEF Then, Idle, Unlocked
    <3>2. o.ver <= Len(hist) + 1
      BY <1>i, <1>o DEF Versions
    <3> HIDE DEF n, r
    <3> QED BY <1>o, <1>i, <2>5, <3>1, <3>2, RowFields DEF Knows, SameAs
  <2>7. Become(d, s, n)
    BY <1>1 DEF RemoveLocally
  <2>8. clock' \in {0} \cup Times
    BY <2>1, ReadingType
  <2> HIDE DEF n, r
  <2> QED BY <2>2, <2>3, <2>4, <2>6, <2>7, <2>8, RowStepShape DEF RemoveLocally
<1>2. CASE ~ Unlocked(d, o.lv)
  BY <1>2, <1>i, <1>s, QuietStep DEF RemoveLocally
<1> QED BY <1>1, <1>2

\* The remote version is recorded with the row, if that is the one that was synced.
LEMMA RecordStep ==
    ASSUME IndInv, NEW d \in Devices, NEW s \in Slots, Record(d, s)
    PROVE  IndInv'
<1> DEFINE o == op[d][s]
<1>i. /\ Idle \in Ops /\ Knows(Idle, row[d]) /\ row[d] \in Rows /\ Len(hist) \in Nat
      /\ writes \in Nat
  BY IdleKnows
<1>s. running \in [Devices -> {0} \cup Slots] /\ faults \in 0 .. world.maxFaults
  BY DEF IndInv, Shape
<1>o. o \in Ops /\ SameAs(o, row[d])
  BY DEF IndInv, Shape, Record, At, Knows
<1>b. Become(d, s, Idle)
  BY DEF Record
<1>1. CASE Unlocked(d, o.lv)
  <2>1. PICK t \in Times : Reading(t) /\ SetRemoteVersion(d, o.ver, t)
    BY <1>1 DEF Record
  <2> DEFINE r == [ver |-> row[d].ver + 1, rv |-> o.ver, time |-> t, del |-> row[d].del,
                   val |-> row[d].val]
  <2>2. row' = [row EXCEPT ![d] = r]
    BY <2>1 DEF SetRemoteVersion
  <2>3. /\ r \in Rows /\ r.ver > row[d].ver /\ r.rv = o.ver /\ r.val = row[d].val
        /\ r.del = row[d].del
    <3>1. o.ver \in Nat
      BY <1>o DEF Ops
    <3>2. row[d].ver \in Nat /\ row[d].val \in Nat /\ row[d].del \in BOOLEAN
      BY RowFields
    <3> HIDE DEF o
    <3> QED BY <3>1, <3>2 DEF Rows
  <2>4. o.ver \in Versions /\ Same(row[d], hist[o.ver])
    BY <1>1, <1>o DEF SameAs, Unlocked
  <2>5. RowOK(r)
    <3> HIDE DEF r
    <3> QED BY <1>i, <2>3, <2>4, RowFields DEF RowOK, Same, Versions
  <2>6. Knows(Idle, r)
    <3> HIDE DEF r
    <3> QED BY <1>i, <2>3, RowFields DEF Knows, Idle, Rows
  <2>7. clock' \in {0} \cup Times
    BY <2>1, ReadingType
  <2> HIDE DEF r
  <2> QED BY <1>i, <1>b, <2>2, <2>3, <2>5, <2>6, <2>7, RowStepShape DEF Record
<1>2. CASE ~ Unlocked(d, o.lv)
  BY <1>2, <1>i, <1>s, <1>b, QuietStep DEF Record
<1> QED BY <1>1, <1>2

\* What was fetched is set, if the row is still the one it was fetched for.
LEMMA ApplyStep ==
    ASSUME IndInv, NEW d \in Devices, NEW s \in Slots, ApplyFetched(d, s)
    PROVE  IndInv'
<1> DEFINE o == op[d][s]
<1>i. /\ Idle \in Ops /\ Knows(Idle, row[d]) /\ row[d] \in Rows /\ Len(hist) \in Nat
      /\ writes \in Nat
  BY IdleKnows
<1>s. running \in [Devices -> {0} \cup Slots] /\ faults \in 0 .. world.maxFaults
  BY DEF IndInv, Shape
<1>o. o \in Ops /\ Knows(o, row[d]) /\ NewerThan(o, row[d])
  BY DEF IndInv, Shape, ApplyFetched, At, Knows
<1>h. /\ o.ver \in Versions /\ o.object = hist[o.ver] /\ o.object.del = FALSE
      /\ o.object.val \in Nat /\ o.object.val <= writes
  BY <1>o, ObjectFields DEF NewerThan, IndInv, Shape, HistoryOK
<1>1. CASE Unlocked(d, o.lv)
  <2>1. PICK t \in Times : Reading(t) /\ SetRow(d, o.object.val, t)
    BY <1>1 DEF ApplyFetched
  <2> DEFINE r == [ver |-> row[d].ver + 1, rv |-> 0, time |-> t, del |-> FALSE, val |-> o.object.val]
             n == Then("record", FALSE, o.ver, o.lv + 1)
  <2>2. row' = [row EXCEPT ![d] = r]
    BY <2>1 DEF SetRow
  <2>3. r \in Rows /\ r.ver > row[d].ver /\ RowOK(r)
    BY <1>i, <1>h, RowFields DEF Rows, RowOK
  <2>4. n \in Ops
    <3>1. o.ver \in Nat /\ o.lv + 1 \in Nat
      BY <1>o DEF Ops
    <3> QED BY <3>1, ThenType DEF Steps
  <2>5. Same(r, hist[o.ver])
    BY <1>h DEF Same
  <2>6. Knows(n, r)
    <3>1. /\ n.step = "record" /\ n.ver = o.ver /\ n.lv = o.lv + 1 /\ n.val = 0
          /\ o.lv = row[d].ver /\ r.ver = row[d].ver + 1
      BY <1>1 DEF Then, Idle, Unlocked
    <3>2. o.ver <= Len(hist) + 1
      BY <1>i, <1>h DEF Versions
    <3> HIDE DEF n, r
    <3> QED BY <1>h, <1>i, <2>5, <3>1, <3>2, RowFields DEF Knows, SameAs
  <2>7. Become(d, s, n)
    BY <1>1 DEF ApplyFetched
  <2>8. clock' \in {0} \cup Times
    BY <2>1, ReadingType
  <2> HIDE DEF n, r
  <2> QED BY <2>2, <2>3, <2>4, <2>6, <2>7, <2>8, RowStepShape DEF ApplyFetched
<1>2. CASE ~ Unlocked(d, o.lv)
  BY <1>2, <1>i, <1>s, QuietStep DEF ApplyFetched
<1> QED BY <1>1, <1>2

\* The server gives what a device sends the next version, and a time not before the last.
LEMMA HistoryGrows ==
    ASSUME IndInv, NEW x \in Object, x.val <= writes, \A i \in Versions : hist[i].time <= x.time,
           hist' = Append(hist, x), UNCHANGED writes
    PROVE  /\ hist' \in Seq(Object) /\ HistoryOK' /\ Grows
           /\ Len(hist) + 1 \in Versions' /\ hist'[Len(hist) + 1] = x /\ Len(hist') = Len(hist) + 1
<1>1. hist \in Seq(Object) /\ Len(hist) \in Nat /\ writes \in Nat
  BY DEF IndInv, Shape
<1>2. /\ hist' \in Seq(Object) /\ Len(hist') = Len(hist) + 1
      /\ \A i \in 1 .. Len(hist) : hist'[i] = hist[i]
      /\ hist'[Len(hist) + 1] = x
  BY <1>1, AppendProperties
<1>3. Grows
  BY <1>1, <1>2 DEF Grows, Versions
<1>4. Versions' = Versions \cup {Len(hist) + 1} /\ \A i \in Versions : i <= Len(hist)
  BY <1>1, <1>2 DEF Versions
<1>5. \A i \in Versions' : hist'[i].val <= writes'
  BY <1>1, <1>2, <1>4 DEF IndInv, HistoryOK, Versions
<1>6. ASSUME NEW i \in Versions', NEW j \in Versions', i <= j
      PROVE  hist'[i].time <= hist'[j].time
  <2>1. CASE i \in Versions /\ j \in Versions
    BY <1>2, <1>6, <2>1 DEF IndInv, HistoryOK, Versions
  <2>2. CASE i \in Versions /\ j \notin Versions
    <3>1. j = Len(hist) + 1
      BY <1>4, <2>2
    <3> QED BY <1>2, <2>2, <3>1 DEF Versions
  <2>3. CASE i \notin Versions
    <3>1. i = Len(hist) + 1 /\ j = Len(hist) + 1
      BY <1>1, <1>4, <1>6, <2>3 DEF Versions
    <3>2. x.time \in Nat
      BY DEF Object
    <3> QED BY <1>2, <3>1, <3>2
  <2> QED BY <2>1, <2>2, <2>3
<1> QED BY <1>2, <1>3, <1>4, <1>5, <1>6 DEF HistoryOK

\* What a device has sent becomes the newest version, and the device is told so.
LEMMA ServedStep ==
    ASSUME IndInv, NEW d \in Devices, NEW s \in Slots, NEW t \in Times, ServerTime(t),
           NEW x \in Object, x.val <= writes, x.time = t, hist' = Append(hist, x),
           Answered(d, s, Len(hist) + 1, "none"), op[d][s].req \in {"put", "del"},
           row[d].ver = op[d][s].lv => Same(row[d], x),
           UNCHANGED <<world, row, running, writes, faults>>
    PROVE  IndInv'
<1>i. hist \in Seq(Object) /\ Len(hist) \in Nat /\ writes \in Nat /\ op[d][s] \in Ops
  BY DEF IndInv, Shape
<1>n. PICK n \in Nat : n = Len(hist) + 1
  BY <1>i
<1>o. PICK o \in Ops :
        o = [op[d][s] EXCEPT !.step = "answer", !.ver = n, !.val = 0, !.err = "none"]
  BY <1>i DEF Ops, Steps, Errors
<1>1. clock' \in {0} \cup Times
  BY ReadingType DEF ServerTime
<1>2. \A i \in Versions : hist[i].time <= x.time
  <2>1. ASSUME NEW i \in Versions PROVE t >= hist[i].time /\ hist[i].time \in Nat /\ t \in Nat
    <3>1. i \in DOMAIN hist
      BY <1>i DEF Versions
    <3>2. t \in Nat
      BY TimesAssumption
    <3> QED BY <1>i, <3>1, <3>2, ObjectFields DEF ServerTime
  <2> QED BY <2>1
<1>3. /\ hist' \in Seq(Object) /\ HistoryOK' /\ Grows
      /\ n \in Versions' /\ hist'[n] = x /\ Len(hist') = n
  BY <1>2, <1>n, HistoryGrows
<1>5. Become(d, s, o)
  BY <1>n, <1>o DEF Answered
<1>6. op' \in [Devices -> [Slots -> Ops]]
  BY <1>5, BecomeIs DEF IndInv
<1>7. Shape'
  BY <1>1, <1>3, <1>6 DEF IndInv, Shape
<1>8. /\ o.step = "answer" /\ o.req \in {"put", "del"} /\ o.lv = op[d][s].lv /\ o.ver = n
      /\ o.val = 0
  BY <1>i, <1>o DEF Ops
<1>9. op[d][s].lv <= row[d].ver
  BY DEF IndInv, Knows
<1>10. SameAs(o, row[d])'
  BY <1>3, <1>8 DEF SameAs, Same
<1>11. Knows(o, row[d])'
  <2>1. o.lv <= row'[d].ver /\ o.ver <= Len(hist') + 1 /\ o.val <= writes'
    BY <1>i, <1>3, <1>8, <1>9
  <2> QED BY <1>8, <1>10, <2>1 DEF Knows, Requests
<1>12. RowOK(row[d])'
  BY <1>3, <1>7, RowKept DEF IndInv
<1>13. Follows(d)
  BY DEF Follows
<1> QED BY <1>3, <1>5, <1>7, <1>11, <1>12, <1>13, SyncStepKeeps

\* A request that is refused.
LEMMA RefusedStep ==
    ASSUME IndInv, NEW d \in Devices, NEW s \in Slots, NEW e \in {"conflict", "notFound"},
           Refused(d, s, e), UNCHANGED <<row, running, writes, faults>>
    PROVE  IndInv'
<1> DEFINE o == [op[d][s] EXCEPT !.step = "answer", !.ver = 0, !.val = 0, !.err = e]
<1>i. /\ op[d][s] \in Ops /\ Knows(op[d][s], row[d]) /\ Len(hist) \in Nat /\ writes \in Nat
      /\ running \in [Devices -> {0} \cup Slots] /\ faults \in 0 .. world.maxFaults
  BY DEF IndInv, Shape
<1>1. o \in Ops
  BY <1>i DEF Ops, Steps, Errors
<1>2. Knows(o, row[d])
  BY <1>i DEF Knows, Ops
<1> QED BY <1>i, <1>1, <1>2, QuietStep DEF Refused, Answered

LEMMA ServeSteps ==
    ASSUME IndInv, NEW d \in Devices, NEW s \in Slots, ServePut(d, s) \/ ServeDel(d, s)
    PROVE  IndInv'
<1>i. /\ op[d][s] \in Ops /\ Knows(op[d][s], row[d]) /\ Len(hist) \in Nat /\ writes \in Nat
      /\ row[d] \in Rows
  BY DEF IndInv, Shape
<1>1. CASE ServePut(d, s)
  <2>1. CASE hist = <<>> \/ op[d][s].ver = Len(hist)
    <3>1. PICK t \in Times :
            /\ ServerTime(t)
            /\ hist' = Append(hist, [val |-> op[d][s].val, del |-> FALSE, time |-> t])
      BY <1>1, <2>1 DEF ServePut
    <3> DEFINE x == [val |-> op[d][s].val, del |-> FALSE, time |-> t]
    <3>2. /\ op[d][s].val \in Nat /\ op[d][s].val <= writes /\ op[d][s].req = "put"
          /\ row[d].ver = op[d][s].lv => ~ row[d].del /\ row[d].val = op[d][s].val
      BY <1>1, <1>i DEF ServePut, At, Knows, Ops
    <3>3. x \in Object /\ x.val <= writes /\ x.time = t
      BY <3>2, TimesAssumption DEF Object
    <3>4. row[d].ver = op[d][s].lv => Same(row[d], x)
      BY <3>2, RowFields DEF Same
    <3> HIDE DEF x
    <3>5. hist' = Append(hist, x)
      BY <3>1 DEF x
    <3> QED BY <1>1, <2>1, <3>1, <3>2, <3>3, <3>4, <3>5, ServedStep DEF ServePut
  <2>2. CASE ~ (hist = <<>> \/ op[d][s].ver = Len(hist))
    BY <1>1, <2>2, RefusedStep DEF ServePut
  <2> QED BY <2>1, <2>2
<1>2. CASE ServeDel(d, s)
  <2>1. CASE hist # <<>> /\ op[d][s].ver = Len(hist)
    <3>1. PICK t \in Times :
            /\ ServerTime(t)
            /\ hist' = Append(hist, [val |-> 0, del |-> TRUE, time |-> t])
      BY <1>2, <2>1 DEF ServeDel
    <3> DEFINE x == [val |-> 0, del |-> TRUE, time |-> t]
    <3>2. /\ op[d][s].req = "del"
          /\ row[d].ver = op[d][s].lv => row[d].del
      BY <1>2, <1>i DEF ServeDel, At, Knows
    <3>3. x \in Object /\ x.val <= writes /\ x.time = t
      BY <1>i, TimesAssumption DEF Object
    <3>4. row[d].ver = op[d][s].lv => Same(row[d], x)
      BY <3>2, RowFields DEF Same
    <3> HIDE DEF x
    <3>5. hist' = Append(hist, x)
      BY <3>1 DEF x
    <3> QED BY <1>2, <2>1, <3>1, <3>2, <3>3, <3>4, <3>5, ServedStep DEF ServeDel
  <2>2. CASE ~ (hist # <<>> /\ op[d][s].ver = Len(hist))
    BY <1>2, <2>2, RefusedStep DEF ServeDel
  <2> QED BY <2>1, <2>2
<1> QED BY <1>1, <1>2

\* The app writes and removes, the group ends, and the app is killed.
LEMMA AppSteps ==
    ASSUME IndInv, NEW d \in Devices, AppSet(d) \/ AppDel(d) \/ EndSync(d) \/ Restart(d)
    PROVE  IndInv'
<1>i. /\ row \in [Devices -> Rows] /\ op \in [Devices -> [Slots -> Ops]] /\ hist \in Seq(Object)
      /\ Len(hist) \in Nat /\ writes \in 0 .. MaxWrites /\ MaxWrites \in Nat /\ Idle \in Ops
      /\ running \in [Devices -> {0} \cup Slots] /\ faults \in 0 .. world.maxFaults
      /\ world \in Worlds /\ world.maxFaults \in Nat
  BY IdleKnows, KVAssumption DEF IndInv, Shape, World
<1>1. ASSUME NEW r \in Rows, row' = [row EXCEPT ![d] = r], r.ver > row[d].ver, r.rv = 0,
             writes' = writes + 1, writes < MaxWrites, r.val <= writes', clock' \in {0} \cup Times,
             UNCHANGED <<world, running, op, hist, faults>>
      PROVE  IndInv'
  <2>1. row' \in [Devices -> Rows] /\ row'[d] = r /\ \A e \in Devices : e # d => row'[e] = row[e]
    BY <1>i, <1>1
  <2>2. writes' \in 0 .. MaxWrites /\ writes <= writes'
    BY <1>i, <1>1
  <2>3. Shape'
    BY <1>i, <1>1, <2>1, <2>2 DEF IndInv, Shape
  <2>4. Grows /\ \A e \in Devices : Follows(e)
    BY <1>i, <1>1, <2>1, <2>2 DEF Grows, Follows, Versions
  <2>5. HistoryOK'
    <3>1. \A i \in Versions : hist[i].val \in Nat /\ hist[i].val <= writes
      BY <1>i, ObjectFields DEF IndInv, HistoryOK
    <3>2. \A i \in Versions : hist[i].val <= writes'
      BY <1>i, <2>2, <3>1
    <3> QED BY <1>1, <3>2 DEF IndInv, HistoryOK, Versions
  <2>6. ASSUME NEW e \in Devices PROVE RowOK(row[e])'
    <3>1. CASE e = d
      BY <1>i, <1>1, <2>1, <3>1 DEF RowOK
    <3>2. CASE e # d
      BY <2>1, <2>3, <2>4, <3>2, RowKept DEF IndInv
    <3> QED BY <3>1, <3>2
  <2>7. ASSUME NEW e \in Devices, NEW s \in Slots PROVE Knows(op[e][s], row[e])'
    BY <1>1, <2>3, <2>4, KnowsKept DEF IndInv
  <2> QED BY <2>3, <2>5, <2>6, <2>7 DEF IndInv
<1>2. CASE AppSet(d)
  <2>1. PICK t \in Times : Reading(t) /\ SetRow(d, writes + 1, t)
    BY <1>2 DEF AppSet
  <2> DEFINE r == [ver |-> row[d].ver + 1, rv |-> 0, time |-> t, del |-> FALSE, val |-> writes + 1]
  <2>2. row' = [row EXCEPT ![d] = r]
    BY <2>1 DEF SetRow
  <2>3. r \in Rows /\ r.ver > row[d].ver /\ r.rv = 0 /\ r.val <= writes + 1
    BY <1>i, RowFields DEF Rows
  <2>4. clock' \in {0} \cup Times
    BY <2>1, ReadingType
  <2> HIDE DEF r
  <2> QED BY <1>1, <1>2, <2>2, <2>3, <2>4 DEF AppSet
<1>3. CASE AppDel(d)
  <2>1. PICK t \in Times : Reading(t) /\ DelRow(d, t)
    BY <1>3 DEF AppDel
  <2> DEFINE r == [ver |-> row[d].ver + 1, rv |-> 0, time |-> t, del |-> TRUE, val |-> row[d].val]
  <2>2. row' = [row EXCEPT ![d] = r]
    BY <2>1 DEF DelRow
  <2>3. r \in Rows /\ r.ver > row[d].ver /\ r.rv = 0 /\ r.val <= writes + 1
    BY <1>i, RowFields DEF Rows
  <2>4. clock' \in {0} \cup Times
    BY <2>1, ReadingType
  <2> HIDE DEF r
  <2> QED BY <1>1, <1>3, <2>2, <2>3, <2>4 DEF AppDel
<1>4. CASE EndSync(d)
  <2>1. /\ running' \in [Devices -> {0} \cup Slots]
        /\ UNCHANGED <<world, row, op, hist, clock, writes, faults>>
    BY <1>4, <1>i DEF EndSync
  <2>2. Shape'
    BY <2>1 DEF IndInv, Shape
  <2> QED BY <2>1, <2>2 DEF IndInv, HistoryOK, RowOK, Same, Knows, Told, SameAs, NewerThan, Versions
<1>5. CASE Restart(d)
  <2>1. /\ running' \in [Devices -> {0} \cup Slots] /\ op' \in [Devices -> [Slots -> Ops]]
        /\ faults' \in 0 .. world.maxFaults /\ UNCHANGED <<world, row, hist, clock, writes>>
        /\ \A e \in Devices, s \in Slots : op'[e][s] = op[e][s] \/ op'[e][s] = Idle
    BY <1>5, <1>i DEF Restart
  <2>2. Shape'
    BY <2>1 DEF IndInv, Shape
  <2>3. ASSUME NEW e \in Devices, NEW s \in Slots PROVE Knows(op[e][s], row[e])'
    <3>1. Knows(op'[e][s], row[e])
      BY <2>1, IdleKnows DEF IndInv
    <3> QED BY <2>1, <3>1 DEF Knows, Told, SameAs, NewerThan, Same, Versions
  <2> QED BY <2>1, <2>2, <2>3 DEF IndInv, HistoryOK, RowOK, Same, Versions
<1> QED BY <1>2, <1>3, <1>4, <1>5
-----------------------------------------------------------------------------
(* The theorems                                                             *)

LEMMA InitInv == Init => IndInv
<1> SUFFICES ASSUME Init PROVE IndInv
  OBVIOUS
<1>1. /\ hist = <<>> /\ Len(hist) = 0 /\ hist \in Seq(Object) /\ writes = 0 /\ faults = 0
      /\ clock = 0
  BY EmptySeq DEF Init
<1>2. Idle \in Ops /\ NoRow \in Rows
  BY DEF Idle, NoRow, NoObject, Object, Ops, Rows, Steps, Requests, Errors
<1>3. row \in [Devices -> Rows] /\ \A d \in Devices : row[d] = NoRow
  BY <1>2 DEF Init
<1>4. op \in [Devices -> [Slots -> Ops]] /\ \A d \in Devices, s \in Slots : op[d][s] = Idle
  BY <1>2 DEF Init
<1>5. Shape
  <2>1. world \in Worlds /\ world.maxFaults \in Nat /\ MaxWrites \in Nat
    BY KVAssumption DEF Init, World
  <2>2. running \in [Devices -> {0} \cup Slots]
    BY DEF Init
  <2> QED BY <1>1, <1>3, <1>4, <2>1, <2>2 DEF Shape
<1>6. HistoryOK
  BY <1>1 DEF HistoryOK, Versions
<1>7. ASSUME NEW d \in Devices PROVE RowOK(row[d])
  BY <1>1, <1>3 DEF RowOK, NoRow
<1>8. ASSUME NEW d \in Devices, NEW s \in Slots PROVE Knows(op[d][s], row[d])
  BY <1>1, <1>3, <1>4 DEF Knows, NoRow, Idle
<1> QED BY <1>5, <1>6, <1>7, <1>8 DEF IndInv

LEMMA NextInv == IndInv /\ [Next]_vars => IndInv'
<1> SUFFICES ASSUME IndInv, [Next]_vars PROVE IndInv'
  OBVIOUS
<1>1. CASE UNCHANGED vars
  BY <1>1 DEF vars, IndInv, Shape, HistoryOK, RowOK, Same, Knows, Told, SameAs, NewerThan, Versions
<1>2. ASSUME NEW d \in Devices, AppSet(d) \/ AppDel(d) \/ EndSync(d) \/ Restart(d)
      PROVE  IndInv'
  BY <1>2, AppSteps
<1>3. ASSUME NEW d \in Devices, NEW s \in Slots,
             SyncAllKeys(d, s) \/ SyncStep(d, s) \/ ListFails(d, s) \/ LoseAnswer(d, s)
      PROVE  IndInv'
  <2>1. CASE SyncAllKeys(d, s) \/ ListKeys(d, s) \/ ListFails(d, s) \/ TakeList(d, s)
    BY <2>1, ListSteps
  <2>2. CASE \/ CompareVersions(d, s) \/ CompareTimes(d, s) \/ TakeAnswer(d, s)
             \/ LoseAnswer(d, s) \/ ServeGet(d, s)
    BY <2>2, CompareSteps
  <2>3. CASE RemoveLocally(d, s)
    BY <2>3, RemoveStep
  <2>4. CASE Record(d, s)
    BY <2>4, RecordStep
  <2>5. CASE ApplyFetched(d, s)
    BY <2>5, ApplyStep
  <2>6. CASE ServePut(d, s) \/ ServeDel(d, s)
    BY <2>6, ServeSteps
  <2> QED BY <1>3, <2>1, <2>2, <2>3, <2>4, <2>5, <2>6 DEF SyncStep
<1> QED BY <1>1, <1>2, <1>3 DEF Next

\* What the rows, the server's versions and the syncs of every device are made
\* of, and what each sync knows of the two (_syncKey and its completions).
THEOREM Invariance == Spec => []IndInv
<1> QED BY InitInv, NextInv, PTL DEF Spec

\* Every row is well formed, and one that carries a remote version holds what
\* the server has, or had, under it, so that the early return of _syncKey never
\* passes over a row that was marked wrongly.
THEOREM RowsMarked == Spec => []RowsOK
<1>1. IndInv => RowsOK
  <2> SUFFICES ASSUME IndInv PROVE RowsOK
    OBVIOUS
  <2>1. ASSUME NEW d \in Devices
        PROVE  /\ row[d] \in [ver : Nat, rv : 0 .. Len(hist), time : {0} \cup Times,
                              del : BOOLEAN, val : 0 .. writes]
               /\ row[d].rv > 0 => Same(row[d], hist[row[d].rv])
    <3>1. RowOK(row[d]) /\ row[d] \in Rows /\ writes \in Nat
      BY DEF IndInv, Shape
    <3>2. row[d].val \in 0 .. writes /\ row[d].rv \in 0 .. Len(hist)
      BY <3>1 DEF RowOK, Rows
    <3> QED BY <3>1, <3>2 DEF RowOK, Rows
  <2>2. row \in [Devices -> [ver : Nat, rv : 0 .. Len(hist), time : {0} \cup Times,
                             del : BOOLEAN, val : 0 .. writes]]
    BY <2>1 DEF IndInv, Shape
  <2>3. ASSUME NEW d \in Devices, NEW s \in Slots
        PROVE  op[d][s].step \in Steps /\ op[d][s].ver <= Len(hist) + 1
    BY DEF IndInv, Shape, Ops, Knows
  <2> QED BY <2>1, <2>2, <2>3 DEF RowsOK, TypeOK, MarkedIsSame, IndInv, Shape
<1> QED BY <1>1, Invariance, PTL

\* What a sync has fetched replaces a row only if that row is older, whatever
\* the app wrote and other syncs did while it was fetched (_set's lock).
THEOREM FetchedReplacesOlder == Spec => FetchedIsNewer
<1> DEFINE Newer == \A d \in Devices, s \in Slots :
                       At(d, s, "apply") /\ row[d] # row'[d] /\ op[d][s] # op'[d][s]
                           => row[d].time < op[d][s].object.time
<1>1. IndInv /\ [Next]_vars => [Newer]_vars
  <2> SUFFICES ASSUME IndInv, Next, NEW d \in Devices, NEW s \in Slots, At(d, s, "apply"),
                      row[d] # row'[d], op[d][s] # op'[d][s]
               PROVE  row[d].time < op[d][s].object.time
    BY DEF Newer
  <2>1. NewerThan(op[d][s], row[d])
    BY DEF IndInv, Knows, At
  <2>2. row \in [Devices -> Rows] /\ op \in [Devices -> [Slots -> Ops]]
    BY DEF IndInv, Shape
  <2>3. PICK e \in Devices :
          \/ AppSet(e) \/ AppDel(e) \/ EndSync(e) \/ Restart(e)
          \/ \E r \in Slots : SyncAllKeys(e, r) \/ SyncStep(e, r) \/ ListFails(e, r) \/ LoseAnswer(e, r)
    BY Zenon DEF Next
  <2>4. ~ (AppSet(e) \/ AppDel(e) \/ EndSync(e))
    BY DEF AppSet, AppDel, EndSync
  <2>5. ~ Restart(e)
    BY DEF Restart
  <2>6. PICK r \in Slots : SyncAllKeys(e, r) \/ SyncStep(e, r) \/ ListFails(e, r) \/ LoseAnswer(e, r)
    BY <2>3, <2>4, <2>5
  <2>7. RemoveLocally(e, r) \/ ApplyFetched(e, r) \/ Record(e, r)
    BY <2>6 DEF SyncAllKeys, ListFails, LoseAnswer, SyncStep, ListKeys, TakeList, CompareVersions,
       CompareTimes, ServePut, ServeDel, ServeGet, TakeAnswer
  <2>8. \E o : Become(e, r, o)
    BY <2>7 DEF RemoveLocally, ApplyFetched, Record
  <2>9. e = d /\ r = s
    BY <2>2, <2>7, <2>8 DEF Become, RemoveLocally, ApplyFetched, Record, DelRow, SetRow,
       SetRemoteVersion
  <2>10. ApplyFetched(d, s)
    BY <2>7, <2>9 DEF RemoveLocally, Record, At
  <2>11. Unlocked(d, op[d][s].lv)
    BY <2>10 DEF ApplyFetched
  <2> QED BY <2>1, <2>11 DEF NewerThan, Unlocked
<1>2. Spec => [][Newer]_vars
  BY <1>1, Invariance, PTL DEF Spec
<1> QED BY <1>2 DEF FetchedIsNewer

=============================================================================
