------------------------- MODULE TxPublishingProofs -------------------------
(***************************************************************************)
(* For any number of transactions, peers and failures: PublishTx calls its  *)
(* callback once and never goes back on what it said, what the wallet holds *)
(* and what the list holds of a transaction that was not removed has not    *)
(* been freed, and a callback that waits is given up in three cases only.   *)
(***************************************************************************)
EXTENDS TxPublishing, TLAPS, SequenceTheorems, FiniteSetTheorems, WellFoundedInduction

\* A set of natural numbers that is not empty has a least element.
LEMMA LeastElement ==
    ASSUME NEW S \in SUBSET Nat, S # {}
    PROVE  Min(S) \in S /\ \A n \in S : Min(S) <= n
<1>1. PICK m \in S : \A n \in S : <<n, m>> \notin OpToRel(<, Nat)
  BY NatLessThanWellFounded, WFMin
<1>2. \A n \in S : ~ (n < m)
  BY <1>1, Zenon DEF OpToRel
<1>3. \A n \in S : m <= n
  BY <1>2
<1> QED BY <1>3 DEF Min

\* What is left of a sequence when its first e is taken out is a sequence of the same set.
LEMMA RemoveFirstSeq ==
    ASSUME NEW S, NEW s \in Seq(S), NEW e
    PROVE  RemoveFirst(s, e) \in Seq(S)
<1>1. CASE \E i \in 1 .. Len(s) : s[i] = e
  <2> DEFINE I == {i \in 1 .. Len(s) : s[i] = e}
  <2>1. Min(I) \in 1 .. Len(s)
    <3>1. I \in SUBSET Nat /\ I # {}
      BY <1>1
    <3>2. Min(I) \in I
      BY <3>1, LeastElement
    <3> QED BY <3>2
  <2>2. SelectInSeq(s, LAMBDA v : v = e) = Min(I)
    BY <1>1 DEF SelectInSeq
  <2>3. RemoveAt(s, Min(I)) \in Seq(S)
    <3> HIDE DEF I
    <3>1. SubSeq(s, 1, Min(I) - 1) \in Seq(S) /\ SubSeq(s, Min(I) + 1, Len(s)) \in Seq(S)
      BY <2>1, SubSeqProperties
    <3> QED BY <3>1, ConcatProperties DEF RemoveAt
  <2> QED BY <1>1, <2>2, <2>3 DEF RemoveFirst
<1>2. CASE ~ \E i \in 1 .. Len(s) : s[i] = e
  BY <1>2 DEF RemoveFirst
<1> QED BY <1>1, <1>2

-----------------------------------------------------------------------------
(* Types of the operators the actions are built from                        *)

Callbacks == {"inv", "filter", "mempool", "getdata"}
Objects == {None, Own, Copy}
Entries == [obj : Objects, waits : BOOLEAN]

Excuses == {None, "alone", "maximum", "unfound"}

\* An excuse is given to some transactions, and those that have one keep it.
LEMMA ExcusedType ==
    ASSUME excuse \in [Tx -> Excuses], NEW ts, NEW why \in Excuses
    PROVE  Excused(ts, why) \in [Tx -> Excuses] /\ NoExcuse \in [Tx -> Excuses]
BY DEF Excused, NoExcuse, Excuses

\* Sending a ping to some peers adds a callback.
LEMMA PingType ==
    ASSUME NEW q \in [Peers -> Seq(Callbacks)], NEW ps, NEW done \in Callbacks
    PROVE  Ping(q, ps, done) \in [Peers -> Seq(Callbacks)]
<1>1. \A p \in Peers : Append(q[p], done) \in Seq(Callbacks)
  BY AppendProperties
<1> QED BY <1>1 DEF Ping

\* So does a request for the mempool, unless an answer is awaited.
LEMMA AskMempoolType ==
    ASSUME NEW q \in [Peers -> Seq(Callbacks)], NEW p
    PROVE  AskMempool(q, p) \in [Peers -> Seq(Callbacks)]
BY PingType DEF AskMempool, Callbacks

\* The filter's pings and the request for the mempool that follows them.
LEMMA LoadMempoolsType ==
    ASSUME pongs \in [Peers -> Seq(Callbacks)], NEW dp \in Peers, NEW on, LoadMempools(dp, on)
    PROVE  pongs' \in [Peers -> Seq(Callbacks)]
<1>1. /\ Ping(pongs, on \ {dp}, "filter") \in [Peers -> Seq(Callbacks)]
      /\ Ping(pongs, on, "filter") \in [Peers -> Seq(Callbacks)]
  BY PingType DEF Callbacks
<1> QED BY <1>1, AskMempoolType DEF LoadMempools

\* Calling a callback takes it out.
LEMMA RestType ==
    ASSUME pongs \in [Peers -> Seq(Callbacks)], NEW p \in Peers, NEW done
    PROVE  Rest(p, done) \in [Peers -> Seq(Callbacks)]
<1>1. RemoveFirst(pongs[p], done) \in Seq(Callbacks)
  BY RemoveFirstSeq
<1> QED BY <1>1 DEF Rest

\* Requests to relay, the callbacks after them and the flag of the peer.
LEMMA RequestUnrelayedType ==
    ASSUME TypeOK, NEW p \in Peers, NEW done, RequestUnrelayed(p, done)
    PROVE  /\ requests' \in [Tx -> SUBSET Peers] /\ synced' \subseteq Peers
           /\ pongs' \in [Peers -> Seq(Callbacks)]
<1>1. Rest(p, done) \in [Peers -> Seq(Callbacks)]
  BY RestType DEF TypeOK, Callbacks
<1>2. pongs' \in [Peers -> Seq(Callbacks)]
  BY <1>1, PingType DEF RequestUnrelayed, Callbacks
<1> QED BY <1>2 DEF RequestUnrelayed, TypeOK

\* The changes a message of a peer makes to the list, to what was told and to the peers
\* of a transaction.
LEMMA MessageTypes ==
    ASSUME TypeOK, NEW p \in Peers, NEW t \in Tx, NEW ok \in {"ok", "failed"}
    PROVE  /\ Answer(told, t, ok) \in [Tx -> Seq({"ok", "failed"})]
           /\ Kept(t) \in [Tx -> Entries]
           /\ \A rs \in [Tx -> SUBSET Peers] :
                With(rs, t, p) \in [Tx -> SUBSET Peers] /\ Without(rs, t, p) \in [Tx -> SUBSET Peers]
<1>1. Answer(told, t, ok) \in [Tx -> Seq({"ok", "failed"})]
  <2>1. Append(told[t], ok) \in Seq({"ok", "failed"})
    BY AppendProperties DEF TypeOK
  <2> QED BY <2>1 DEF Answer, TypeOK
<1>2. Kept(t) \in [Tx -> Entries]
  BY DEF Kept, TypeOK, Entries, Objects
<1> QED BY <1>1, <1>2 DEF With, Without

\* Listing a transaction with its inputs.
LEMMA ListedWithType ==
    ASSUME NEW ls \in [Tx -> Entries], NEW w \in [Tx -> Objects], NEW t \in Tx,
           NEW entry \in Entries
    PROVE  ListedWith(ls, w, t, entry) \in [Tx -> Entries]
BY DEF ListedWith, Entries, Objects

-----------------------------------------------------------------------------
(* The state keeps its shape                                                *)

\* An entry of the list holds an object.
HasObject(t) == t \in Listed => list[t].obj # None
Shape == TypeOK /\ \A t \in Tx : HasObject(t)

LEMMA ShapeHasObjects ==
    ASSUME Shape, NEW t \in Tx, list[t].waits
    PROVE  t \in Listed /\ list[t].obj \in {Own, Copy}
BY DEF Shape, TypeOK, HasObject, Listed, NoEntry

\* The state begins with its shape.
LEMMA InitType == Init => TypeOK
<1>1. <<>> \in Seq({"inv", "filter", "mempool", "getdata"}) /\ <<>> \in Seq({"ok", "failed"})
  BY EmptySeq
<1> SUFFICES ASSUME Init PROVE TypeOK
  OBVIOUS
<1>2. setting \in Settings /\ setting.received \subseteq Tx
  BY PeerAssumption DEF Init
<1>3. /\ behind \in BOOLEAN /\ syncing \in BOOLEAN /\ due \in BOOLEAN
      /\ excuse \in [Tx -> {None, "alone", "maximum", "unfound"}]
  BY DEF Init, NoExcuse
<1>4. list \in [Tx -> [obj : {None, Own, Copy}, waits : BOOLEAN]]
  BY DEF Init, NoEntry
<1> QED BY <1>1, <1>2, <1>3, <1>4, PeerAssumption DEF Init, TypeOK

\* Connections, the download peer and the end of a connection.
LEMMA LinksType == ASSUME Shape, Links PROVE TypeOK'
<1> USE DEF Shape
<1>e. \A ts : \A why \in Excuses :
        Excused(ts, why) \in [Tx -> Excuses] /\ NoExcuse \in [Tx -> Excuses]
  BY ExcusedType DEF TypeOK, Excuses
<1>1. ASSUME NEW ps \in SUBSET Peers, Connect(ps) PROVE TypeOK'
  <2>1. Cardinality(ps) \in Nat
    BY FS_Subset, FS_CardinalityType, PeerAssumption
  <2>2. links' \in 0 .. MaxLinks /\ failures' \in 0 .. MaxFailures + 1
    BY <1>1, <2>1, PeerAssumption DEF Connect, TypeOK
  <2>3. syncing' \in BOOLEAN /\ due' \in BOOLEAN /\ excuse' \in [Tx -> Excuses]
    BY <1>1, <1>e DEF Connect, TypeOK, Excuses
  <2>4. conn' \in [Peers -> {"off", "connecting", "on"} \cup Ends]
    BY <1>1 DEF Connect, TypeOK
  <2> QED BY <1>1, <2>2, <2>3, <2>4 DEF Connect, TypeOK, chain, calls, Excuses
<1>2. ASSUME NEW last \in BOOLEAN, RelayedBlock(last) PROVE TypeOK'
  <2>1. pongs' \in [Peers -> Seq(Callbacks)]
    BY <1>2, LoadMempoolsType DEF RelayedBlock, TypeOK, Callbacks, Connected
  <2> QED BY <1>2, <2>1, PeerAssumption
      DEF RelayedBlock, TypeOK, counts, chain, calls, outcome, Callbacks
<1>3. CASE Disconnect
  <2>1. excuse' \in [Tx -> Excuses]
    BY <1>3, <1>e DEF Disconnect, Excuses
  <2> QED BY <1>3, <2>1, PeerAssumption DEF Disconnect, TypeOK, link, chain, calls, Excuses
<1>4. ASSUME NEW p \in Peers, ConnectedIdle(p) PROVE TypeOK'
  BY <1>4 DEF ConnectedIdle, TypeOK, counts, sync, chain, calls, outcome
<1>5. ASSUME NEW p \in Peers, ConnectedBeside(p) PROVE TypeOK'
  <2>1. pongs' \in [Peers -> Seq(Callbacks)]
    BY <1>5, PingType DEF ConnectedBeside, TypeOK, Callbacks
  <2>2. conn' \in [Peers -> {"off", "connecting", "on"} \cup Ends] /\ failures' \in 0 .. MaxFailures + 1
    BY <1>5, PeerAssumption DEF ConnectedBeside, TypeOK
  <2> QED BY <1>5, <2>1, <2>2 DEF ConnectedBeside, TypeOK, counts, chain, calls, outcome, Callbacks
<1>6. ASSUME NEW p \in Peers, Disconnected(p) PROVE TypeOK'
  <2>1. failures' \in 0 .. MaxFailures + 1
    BY <1>6, PeerAssumption DEF Disconnected, FailuresAfter, TypeOK
  <2>2. Cancelled(p) \subseteq {t \in Tx : list[t].waits}
    BY DEF Cancelled, Waiting
  <2>3. told' \in [Tx -> Seq({"ok", "failed"})]
    <3>1. \A t \in Tx : Append(told[t], "failed") \in Seq({"ok", "failed"})
      BY AppendProperties DEF TypeOK
    <3> QED BY <1>6, <3>1 DEF Disconnected, TypeOK
  <2>4. relays' \in [Tx -> SUBSET Peers] /\ list' \in [Tx -> [obj : {None, Own, Copy}, waits : BOOLEAN]]
    BY <1>6 DEF Disconnected, TypeOK, WithoutPeer, NoEntry
  <2>5. freed' \subseteq Tx \X {Own, Copy}
    BY <1>6, <2>2, ShapeHasObjects DEF Disconnected, TypeOK
  <2>6. due' \in BOOLEAN /\ syncing' \in BOOLEAN /\ download' \in Peers \cup {None}
    BY <1>6 DEF Disconnected, TypeOK
  <2> QED BY <1>6, <2>1, <2>3, <2>4, <2>5, <2>6 DEF Disconnected, TypeOK, counts, chain
<1>7. ASSUME NEW p \in Peers, NEW best \in Peers, NEW late \in BOOLEAN, ConnectedFirst(p, best, late)
      PROVE TypeOK'
  <2>1. pongs' \in [Peers -> Seq(Callbacks)]
    BY <1>7, LoadMempoolsType DEF ConnectedFirst, TypeOK, Callbacks
  <2>2. conn' \in [Peers -> {"off", "connecting", "on"} \cup Ends] /\ failures' \in 0 .. MaxFailures + 1
    BY <1>7, PeerAssumption DEF ConnectedFirst, TypeOK
  <2>3. excuse' \in [Tx -> Excuses]
    BY <1>7, <1>e DEF ConnectedFirst, Excuses
  <2> QED BY <1>7, <2>1, <2>2, <2>3 DEF ConnectedFirst, TypeOK, counts, chain, calls, Callbacks, Excuses
<1>8. ASSUME NEW p \in Peers, NEW end \in Ends, Close(p, end) PROVE TypeOK'
  BY <1>8 DEF Close, TypeOK, counts, sync, chain, calls, outcome
<1> QED BY <1>1, <1>2, <1>3, <1>4, <1>5, <1>6, <1>7, <1>8 DEF Links

\* What no peer has is taken out of the wallet, which holds it.
LEMMA GoneAreHeld ==
    ASSUME NEW p, NEW success, RequestUnrelayedTxGetdataDone(p, success)
    PROVE  \E gone \in SUBSET Tx :
             /\ \A t \in gone : wallet[t] # None
             /\ wallet' = [t \in Tx |-> IF t \in gone THEN None ELSE wallet[t]]
             /\ freed' = freed \cup {<<t, wallet[t]>> : t \in gone}
             /\ removed' = removed \cup gone
<1> DEFINE all == InUse \subseteq synced' /\ Cardinality(Connected) >= setting.max
           gone == IF all THEN Dropped(Unheard) ELSE {}
<1>1. gone \in SUBSET Tx /\ \A t \in gone : wallet[t] # None
  BY DEF Dropped
<1>2. /\ wallet' = [t \in Tx |-> IF t \in gone THEN None ELSE wallet[t]]
      /\ freed' = freed \cup {<<t, wallet[t]>> : t \in gone}
      /\ removed' = removed \cup gone
  BY DEF RequestUnrelayedTxGetdataDone
<1> HIDE DEF gone
<1> QED BY <1>1, <1>2

\* The callbacks of pings.
LEMMA PingsType == ASSUME Shape, Pings PROVE TypeOK'
<1> USE DEF Shape
<1> SUFFICES ASSUME NEW p \in Peers, NEW success \in BOOLEAN,
                    \/ PublishTxInvDone(p, success) \/ LoadBloomFilterDone(p, success)
                    \/ MempoolDone(p, success) \/ RequestUnrelayedTxGetdataDone(p, success)
             PROVE  TypeOK'
  BY DEF Pings
<1>r. \A done : Rest(p, done) \in [Peers -> Seq(Callbacks)]
  BY RestType DEF TypeOK, Callbacks
<1>1. CASE PublishTxInvDone(p, success)
  <2>1. /\ requests' \in [Tx -> SUBSET Peers] /\ synced' \subseteq Peers
        /\ pongs' \in [Peers -> Seq(Callbacks)]
    BY <1>1, RequestUnrelayedType DEF PublishTxInvDone
  <2> QED BY <1>1, <2>1
      DEF PublishTxInvDone, TypeOK, counts, sync, chain, calls, outcome, Callbacks
<1>2. CASE LoadBloomFilterDone(p, success)
  <2>1. pongs' \in [Peers -> Seq(Callbacks)]
    BY <1>2, <1>r, AskMempoolType DEF LoadBloomFilterDone
  <2>2. syncing' \in BOOLEAN
    BY <1>2 DEF LoadBloomFilterDone, TypeOK
  <2> QED BY <1>2, <2>1, <2>2
      DEF LoadBloomFilterDone, TypeOK, counts, chain, calls, outcome, Callbacks
<1>3. CASE MempoolDone(p, success)
  <2>1. /\ requests' \in [Tx -> SUBSET Peers] /\ synced' \subseteq Peers
        /\ pongs' \in [Peers -> Seq(Callbacks)] /\ syncing' \in BOOLEAN
    <3>1. CASE success
      BY <1>3, <3>1, RequestUnrelayedType DEF MempoolDone
    <3>2. CASE ~ success
      BY <1>3, <3>2, <1>r DEF MempoolDone, TypeOK
    <3> QED BY <3>1, <3>2
  <2> QED BY <1>3, <2>1
      DEF MempoolDone, TypeOK, counts, chain, calls, outcome, Callbacks
<1>4. CASE RequestUnrelayedTxGetdataDone(p, success)
  <2>1. pongs' \in [Peers -> Seq(Callbacks)] /\ synced' \subseteq Peers
    BY <1>4, <1>r DEF RequestUnrelayedTxGetdataDone, TypeOK
  <2>2. PICK gone \in SUBSET Tx :
          /\ \A t \in gone : wallet[t] # None
          /\ wallet' = [t \in Tx |-> IF t \in gone THEN None ELSE wallet[t]]
          /\ freed' = freed \cup {<<t, wallet[t]>> : t \in gone}
          /\ removed' = removed \cup gone
    BY <1>4, GoneAreHeld
  <2>3. /\ wallet' \in [Tx -> {None, Own, Copy}] /\ freed' \subseteq Tx \X {Own, Copy}
        /\ removed' \subseteq Tx
    BY <2>2 DEF TypeOK
  <2> QED BY <1>4, <2>1, <2>3
      DEF RequestUnrelayedTxGetdataDone, TypeOK, counts, sync, chain, calls, outcome, Callbacks
<1> QED BY <1>1, <1>2, <1>3, <1>4

\* Messages about transactions.
LEMMA MessagesType == ASSUME Shape, Messages PROVE TypeOK'
<1> USE DEF Shape
<1> SUFFICES ASSUME NEW p \in Peers, NEW t \in Tx,
                    \/ RelayedTx(p, t) \/ HasTx(p, t) \/ RequestedTx(p, t)
                    \/ DataNotfound(p, t) \/ RejectedTx(p, t)
             PROVE  TypeOK'
  BY DEF Messages
<1>t. /\ \A ok \in {"ok", "failed"} : Answer(told, t, ok) \in [Tx -> Seq({"ok", "failed"})]
      /\ Kept(t) \in [Tx -> Entries]
      /\ \A rs \in [Tx -> SUBSET Peers] :
            With(rs, t, p) \in [Tx -> SUBSET Peers] /\ Without(rs, t, p) \in [Tx -> SUBSET Peers]
  BY MessageTypes
<1>w. /\ wallet \in [Tx -> Objects] /\ list \in [Tx -> Entries]
      /\ relays \in [Tx -> SUBSET Peers] /\ requests \in [Tx -> SUBSET Peers]
      /\ told \in [Tx -> Seq({"ok", "failed"})] /\ freed \subseteq Tx \X {Own, Copy}
  BY DEF TypeOK, Objects, Entries
<1>1. ASSUME wallet' \in [Tx -> Objects], list' \in [Tx -> Entries],
             told' \in [Tx -> Seq({"ok", "failed"})], freed' \subseteq Tx \X {Own, Copy},
             relays' \in [Tx -> SUBSET Peers], requests' \in [Tx -> SUBSET Peers],
             spread' \subseteq Tx,
             UNCHANGED <<setting, conn, pongs, synced, counts, sync, chain, asked, checked,
                         outcome, removed>>
      PROVE  TypeOK'
  BY <1>1 DEF TypeOK, Objects, Entries, counts, sync, chain, outcome
<1>2. CASE RelayedTx(p, t)
  <2>1. wallet' \in [Tx -> Objects] /\ freed' \subseteq Tx \X {Own, Copy}
    BY <1>2, <1>w DEF RelayedTx, Objects
  <2>2. [obj |-> wallet'[t], waits |-> FALSE] \in Entries
    BY <2>1 DEF Entries
  <2>3. list' \in [Tx -> Entries]
    BY <1>2, <1>t, <2>1, <2>2, ListedWithType DEF RelayedTx
  <2>4. told' \in [Tx -> Seq({"ok", "failed"})]
    BY <1>2, <1>t DEF RelayedTx
  <2>5. relays' \in [Tx -> SUBSET Peers] /\ requests' \in [Tx -> SUBSET Peers]
    BY <1>2, <1>t, <1>w DEF RelayedTx
  <2>6. spread' \subseteq Tx
    BY <1>2 DEF RelayedTx, TypeOK
  <2> QED BY <1>1, <1>2, <2>1, <2>3, <2>4, <2>5, <2>6 DEF RelayedTx
<1>3. CASE HasTx(p, t)
  <2>1. wallet' \in [Tx -> Objects]
    BY <1>3, <1>w DEF HasTx, Objects, Entries
  <2>2. list' \in [Tx -> Entries] /\ told' \in [Tx -> Seq({"ok", "failed"})]
    BY <1>3, <1>t DEF HasTx
  <2>3. relays' \in [Tx -> SUBSET Peers] /\ requests' \in [Tx -> SUBSET Peers]
    BY <1>3, <1>t, <1>w DEF HasTx
  <2>4. spread' \subseteq Tx /\ freed' \subseteq Tx \X {Own, Copy}
    BY <1>3 DEF HasTx, TypeOK
  <2> QED BY <1>1, <1>3, <2>1, <2>2, <2>3, <2>4 DEF HasTx
<1>4. CASE RequestedTx(p, t)
  <2>1. UNCHANGED <<setting, conn, pongs, synced, counts, sync, chain, asked, checked,
                    outcome, requests, removed>>
    BY <1>4 DEF RequestedTx
  <2>2. CASE RequestedValid(p, t)
    <3>1. wallet' \in [Tx -> Objects] /\ freed' \subseteq Tx \X {Own, Copy}
      BY <2>2, <1>w DEF RequestedValid, Objects, Entries
    <3>2. /\ list' \in [Tx -> Entries] /\ told' \in [Tx -> Seq({"ok", "failed"})]
          /\ relays' \in [Tx -> SUBSET Peers]
      BY <2>2, <1>t, <1>w DEF RequestedValid
    <3>3. spread' \subseteq Tx
      BY <2>2 DEF RequestedValid, TypeOK
    <3> QED BY <1>1, <1>w, <2>1, <3>1, <3>2, <3>3
  <2>3. CASE RequestedInvalid(p, t)
    <3>1. list' \in [Tx -> Entries]
      BY <2>3, <1>w DEF RequestedInvalid, NoEntry, Entries, Objects
    <3>2. freed' \subseteq Tx \X {Own, Copy}
      <4>1. list[t].obj \in {Own, Copy}
        BY <1>4 DEF RequestedTx, HasObject, TypeOK
      <4> QED BY <2>3, <1>w, <4>1 DEF RequestedInvalid
    <3>3. told' \in [Tx -> Seq({"ok", "failed"})]
      BY <2>3, <1>t DEF RequestedInvalid
    <3>4. /\ wallet' \in [Tx -> Objects] /\ relays' \in [Tx -> SUBSET Peers]
          /\ spread' \subseteq Tx
      BY <2>3, <1>w DEF RequestedInvalid, TypeOK
    <3> QED BY <1>1, <1>w, <2>1, <3>1, <3>2, <3>3, <3>4
  <2> QED BY <1>4, <2>2, <2>3 DEF RequestedTx
<1>5. CASE DataNotfound(p, t)
  <2>1. relays' \in [Tx -> SUBSET Peers] /\ requests' \in [Tx -> SUBSET Peers]
    BY <1>5, <1>t, <1>w DEF DataNotfound
  <2> QED BY <1>5, <2>1 DEF DataNotfound, TypeOK, link, counts, sync, chain, calls, outcome
<1>6. CASE RejectedTx(p, t)
  <2>1. relays' \in [Tx -> SUBSET Peers] /\ requests' \in [Tx -> SUBSET Peers]
    BY <1>6, <1>t, <1>w DEF RejectedTx
  <2> QED BY <1>6, <2>1 DEF RejectedTx, TypeOK, link, counts, sync, chain, calls, outcome
<1> QED BY <1>2, <1>3, <1>4, <1>5, <1>6

\* PublishTx and what the chain and the wallet do to a transaction.
LEMMA PublishingType == ASSUME Shape, Publishing PROVE TypeOK'
<1> USE DEF Shape
<1> SUFFICES ASSUME NEW t \in Tx,
                    \/ PublishTx(t) \/ PublishRefused(t) \/ PublishChecked(t)
                    \/ PublishAfterCheck(t) \/ Confirm(t) \/ Contradict(t)
             PROVE  TypeOK'
  BY DEF Publishing
<1>e. ASSUME Enter(t)
      PROVE  /\ list' \in [Tx -> [obj : {None, Own, Copy}, waits : BOOLEAN]]
             /\ pongs' \in [Peers -> Seq(Callbacks)] /\ excuse' \in [Tx -> Excuses]
  <2>1. [obj |-> Own, waits |-> TRUE] \in Entries
    BY DEF Entries, Objects
  <2>2. list \in [Tx -> Entries] /\ wallet \in [Tx -> Objects]
    BY DEF TypeOK, Entries, Objects
  <2>3. ListedWith(list, wallet, t, [obj |-> Own, waits |-> TRUE]) \in [Tx -> Entries]
    BY <2>1, <2>2, ListedWithType
  <2>4. pongs' \in [Peers -> Seq(Callbacks)]
    BY <1>e, PingType DEF Enter, TypeOK, Callbacks
  <2>5. excuse' = excuse \/ \E why \in Excuses : excuse' = Excused({t}, why)
    BY <1>e DEF Enter, Excuses
  <2>6. excuse' \in [Tx -> Excuses]
    BY <2>5, ExcusedType DEF TypeOK, Excuses
  <2> QED BY <1>e, <2>3, <2>4, <2>6 DEF Enter, TypeOK, Entries, Objects
<1>1. CASE PublishTx(t)
  BY <1>1, <1>e DEF PublishTx, TypeOK, counts, sync, chain, Callbacks, Excuses
<1>2. CASE PublishRefused(t)
  <2>1. told' \in [Tx -> Seq({"ok", "failed"})]
    BY <1>2, AppendProperties DEF PublishRefused, TypeOK
  <2> QED BY <1>2, <2>1 DEF PublishRefused, TypeOK, link, counts, sync, chain, outcome
<1>3. CASE PublishChecked(t)
  BY <1>3 DEF PublishChecked, TypeOK, link, counts, sync, chain, outcome
<1>4. CASE PublishAfterCheck(t)
  BY <1>4, <1>e DEF PublishAfterCheck, TypeOK, counts, sync, chain, Callbacks, Excuses
<1>5. CASE Confirm(t)
  <2>1. /\ list' \in [Tx -> [obj : {None, Own, Copy}, waits : BOOLEAN]]
        /\ relays' \in [Tx -> SUBSET Peers]
    BY <1>5 DEF Confirm, TypeOK, NoEntry
  <2>2. freed' \subseteq Tx \X {Own, Copy}
    <3>1. t \in Listed => list[t].obj \in {Own, Copy}
      BY DEF HasObject, TypeOK
    <3> QED BY <1>5, <3>1 DEF Confirm, TypeOK
  <2> QED BY <1>5, <2>1, <2>2 DEF Confirm, TypeOK, link, counts, sync, calls, outcome
<1>6. CASE Contradict(t)
  BY <1>6, PeerAssumption DEF Contradict, TypeOK, link, counts, sync, calls, outcome
<1> QED BY <1>1, <1>2, <1>3, <1>4, <1>5, <1>6

\* No step leaves the shape.
LEMMA StepType == ASSUME Shape, [Next]_vars PROVE TypeOK'
<1>1. CASE UNCHANGED vars
  BY <1>1 DEF Shape, TypeOK, vars, link, counts, sync, chain, calls, outcome
<1>2. CASE Next
  BY <1>2, LinksType, PingsType, MessagesType, PublishingType DEF Next
<1> QED BY <1>1, <1>2

-----------------------------------------------------------------------------
(* What a transaction goes through: it is not handed to PublishTx yet, or   *)
(* on its way to the list, or listed with a callback, or the callback has   *)
(* been called with the one outcome or the other.                           *)

Unseen(t) == wallet[t] = None /\ list[t] = NoEntry
Untouched(t) == t \notin asked =>
    /\ told[t] = <<>> /\ t \notin checked /\ ~ list[t].waits
    /\ wallet[t] # Own /\ list[t].obj # Own /\ <<t, Own>> \notin freed
    /\ t \in spread \/ Unseen(t)
InPassing(t) == t \in checked =>
    told[t] = <<>> /\ t \notin spread /\ Unseen(t) /\ <<t, Own>> \notin freed
Offered(t) == list[t].waits => told[t] = <<>> /\ t \notin spread /\ wallet[t] = None
Refused(t) == told[t] = <<"failed">> => t \notin spread /\ Unseen(t)
Settled(t) == t \in asked =>
    t \in checked \/ list[t].waits \/ told[t] \in {<<"ok">>, <<"failed">>}
Published(t) == told[t] = <<"ok">> => wallet[t] # None \/ t \in removed

\* What the wallet and the list hold of a transaction is there, as long as it has
\* not been removed.
Held(t) ==
    /\ <<t, wallet[t]>> \notin freed
    /\ t \in Listed \ removed => <<t, list[t].obj>> \notin freed

TxOK(t) ==
    /\ HasObject(t) /\ Untouched(t) /\ InPassing(t) /\ Offered(t) /\ Refused(t)
    /\ Settled(t) /\ Published(t) /\ Held(t)

Stages == <<list, wallet, told, asked, checked, spread, freed, removed>>

\* A step that leaves t where it is, or lists it beside one that spends it.
Same(t) ==
    /\ wallet'[t] = wallet[t] /\ told'[t] = told[t]
    /\ (t \in asked' <=> t \in asked) /\ (t \in checked' <=> t \in checked)
    /\ (t \in spread' <=> t \in spread) /\ removed \subseteq removed'
    /\ \A o : <<t, o>> \in freed' => <<t, o>> \in freed
    /\ \/ list'[t] = list[t]
       \/ /\ list[t] = NoEntry /\ wallet[t] # None
          /\ list'[t] = [obj |-> wallet[t], waits |-> FALSE]

\* Such a step keeps the stage t has reached.
LEMMA SameOK ==
    ASSUME TypeOK, TypeOK', NEW t \in Tx, TxOK(t), Same(t)
    PROVE  TxOK(t)'
<1>1. /\ list[t] \in [obj : {None, Own, Copy}, waits : BOOLEAN] /\ wallet[t] \in {None, Own, Copy}
      /\ list'[t] \in [obj : {None, Own, Copy}, waits : BOOLEAN]
  BY DEF TypeOK
<1>2. CASE list'[t] = list[t]
  <2>1. HasObject(t)' /\ Untouched(t)' /\ InPassing(t)'
    BY <1>1, <1>2 DEF TxOK, Same, HasObject, Untouched, InPassing, Unseen, Listed, NoEntry
  <2>2. Offered(t)' /\ Refused(t)' /\ Settled(t)' /\ Published(t)'
    BY <1>1, <1>2 DEF TxOK, Same, Offered, Refused, Settled, Published, Unseen, NoEntry
  <2>3. Held(t)'
    BY <1>1, <1>2 DEF TxOK, Same, Held, Listed, NoEntry
  <2> QED BY <2>1, <2>2, <2>3 DEF TxOK
<1>3. CASE /\ list[t] = NoEntry /\ wallet[t] # None
           /\ list'[t] = [obj |-> wallet[t], waits |-> FALSE]
  <2>1. HasObject(t)' /\ Untouched(t)' /\ InPassing(t)'
    BY <1>1, <1>3 DEF TxOK, Same, HasObject, Untouched, InPassing, Unseen, Listed, NoEntry
  <2>2. Offered(t)' /\ Refused(t)' /\ Settled(t)' /\ Published(t)'
    BY <1>1, <1>3 DEF TxOK, Same, Offered, Refused, Settled, Published, Unseen, NoEntry
  <2>3. Held(t)'
    BY <1>1, <1>3 DEF TxOK, Same, Held, Listed, NoEntry
  <2> QED BY <2>1, <2>2, <2>3 DEF TxOK
<1> QED BY <1>2, <1>3 DEF Same

\* So does a step that touches no transaction.
LEMMA StagesOK ==
    ASSUME TypeOK, TypeOK', NEW t \in Tx, TxOK(t), UNCHANGED Stages
    PROVE  TxOK(t)'
<1>1. Same(t)
  BY DEF Stages, Same
<1> QED BY <1>1, SameOK

\* The end of a connection calls the callbacks with a failure, or leaves them.
LEMMA DisconnectedOK ==
    ASSUME TypeOK, TypeOK', NEW p, Disconnected(p), NEW t \in Tx, TxOK(t)
    PROVE  TxOK(t)'
<1>1. CASE t \notin Cancelled(p)
  <2>1. Same(t)
    BY <1>1 DEF Disconnected, Same
  <2> QED BY <2>1, SameOK
<1>2. CASE t \in Cancelled(p)
  <2>1. list[t].waits /\ list[t] # NoEntry
    BY <1>2 DEF Cancelled, Waiting, NoEntry, TypeOK
  <2>2. /\ list'[t] = NoEntry /\ wallet'[t] = None /\ wallet[t] = None /\ told'[t] = <<"failed">>
        /\ t \in asked' /\ t \notin checked' /\ t \notin spread'
        /\ <<t, None>> \notin freed'
    <3>1. told[t] = <<>> /\ t \notin spread /\ wallet[t] = None /\ t \in asked /\ t \notin checked
      BY <2>1 DEF TxOK, Offered, Untouched, InPassing, Unseen
    <3>2. Append(told[t], "failed") = <<"failed">>
      BY <3>1
    <3>3. <<t, None>> \notin freed'
      BY DEF TypeOK, None, Own, Copy
    <3> QED BY <1>2, <3>1, <3>2, <3>3 DEF Disconnected
  <2>3. HasObject(t)' /\ Untouched(t)' /\ InPassing(t)' /\ Offered(t)' /\ Refused(t)'
    BY <2>2 DEF HasObject, Untouched, InPassing, Offered, Refused, Unseen, Listed, NoEntry
  <2>4. Settled(t)' /\ Published(t)' /\ Held(t)'
    BY <2>2 DEF Settled, Published, Held, Listed
  <2> QED BY <2>3, <2>4 DEF TxOK
<1> QED BY <1>1, <1>2

\* The removal of transactions that no peer has.
LEMMA GetdataDoneOK ==
    ASSUME TypeOK, TypeOK', NEW p, NEW success, RequestUnrelayedTxGetdataDone(p, success),
           NEW t \in Tx, TxOK(t)
    PROVE  TxOK(t)'
<1>1. PICK gone \in SUBSET Tx :
        /\ \A u \in gone : wallet[u] # None
        /\ wallet' = [u \in Tx |-> IF u \in gone THEN None ELSE wallet[u]]
        /\ freed' = freed \cup {<<u, wallet[u]>> : u \in gone}
        /\ removed' = removed \cup gone
  BY GoneAreHeld
<1>2. UNCHANGED <<list, told, asked, checked, spread>>
  BY DEF RequestUnrelayedTxGetdataDone, calls
<1>3. CASE t \notin gone
  <2>1. Same(t)
    BY <1>1, <1>2, <1>3 DEF Same
  <2> QED BY <2>1, SameOK
<1>4. CASE t \in gone
  <2>1. wallet[t] # None /\ wallet'[t] = None /\ t \in removed' /\ <<t, None>> \notin freed'
    BY <1>1, <1>4 DEF TypeOK, None, Own, Copy
  <2>2. \A o : <<t, o>> \in freed' => <<t, o>> \in freed \/ o = wallet[t]
    BY <1>1
  <2>3. t \in spread \/ t \in asked
    BY <2>1 DEF TxOK, Untouched, Unseen
  <2>4. HasObject(t)' /\ InPassing(t)' /\ Offered(t)' /\ Refused(t)'
    BY <1>2, <2>1 DEF TxOK, HasObject, InPassing, Offered, Refused, Unseen, Listed
  <2>5. Untouched(t)'
    BY <1>2, <2>1, <2>2, <2>3 DEF TxOK, Untouched, None, Own
  <2>6. Settled(t)' /\ Published(t)' /\ Held(t)'
    BY <1>2, <2>1 DEF TxOK, Settled, Published, Held
  <2> QED BY <2>4, <2>5, <2>6 DEF TxOK
<1> QED BY <1>3, <1>4

\* Listing t changes t, and lists the inputs that the wallet holds.
LEMMA ListedWithEntry ==
    ASSUME NEW ls \in [Tx -> Entries], NEW w \in [Tx -> Objects], NEW t \in Tx, NEW entry \in Entries,
           NEW u \in Tx
    PROVE  /\ u = t => ListedWith(ls, w, t, entry)[u] = IF ls[t] # NoEntry THEN ls[t] ELSE entry
           /\ u # t => \/ ListedWith(ls, w, t, entry)[u] = ls[u]
                       \/ /\ ls[u] = NoEntry /\ w[u] # None
                          /\ ListedWith(ls, w, t, entry)[u] = [obj |-> w[u], waits |-> FALSE]
BY DEF ListedWith

\* A message about t calls the callback that waits for it, and clears it.
LEMMA AnswerIs ==
    ASSUME TypeOK, NEW t \in Tx, NEW ok, NEW u \in Tx
    PROVE  /\ u # t => Answer(told, t, ok)[u] = told[u] /\ Kept(t)[u] = list[u]
           /\ Answer(told, t, ok)[t] = IF list[t].waits THEN Append(told[t], ok) ELSE told[t]
           /\ Kept(t)[t] = [obj |-> list[t].obj, waits |-> FALSE]
BY DEF TypeOK, Answer, Kept

\* A transaction arrives from a peer.
LEMMA RelayedTxOK ==
    ASSUME TypeOK, TypeOK', NEW p, NEW t \in Tx, RelayedTx(p, t), NEW u \in Tx, TxOK(u), TxOK(t)
    PROVE  TxOK(u)'
<1>t. /\ list \in [Tx -> Entries] /\ wallet' \in [Tx -> Objects]
      /\ Kept(t) \in [Tx -> Entries] /\ [obj |-> wallet'[t], waits |-> FALSE] \in Entries
  BY DEF TypeOK, Entries, Objects, Kept
<1>1. CASE u # t
  <2>1. wallet'[u] = wallet[u] /\ told'[u] = told[u] /\ Kept(t)[u] = list[u]
    <3>1. Answer(told, t, "ok")[u] = told[u] /\ Kept(t)[u] = list[u]
      BY <1>1, AnswerIs
    <3> QED BY <1>1, <3>1 DEF RelayedTx, TypeOK
  <2>2. \/ list'[u] = list[u]
        \/ /\ list[u] = NoEntry /\ wallet[u] # None
           /\ list'[u] = [obj |-> wallet[u], waits |-> FALSE]
    <3> DEFINE ls == ListedWith(Kept(t), wallet', t, [obj |-> wallet'[t], waits |-> FALSE])
    <3>1. \/ ls[u] = Kept(t)[u]
          \/ /\ Kept(t)[u] = NoEntry /\ wallet'[u] # None
             /\ ls[u] = [obj |-> wallet'[u], waits |-> FALSE]
      BY <1>1, <1>t, ListedWithEntry
    <3>2. list' = ls \/ list' = Kept(t)
      BY DEF RelayedTx
    <3> HIDE DEF ls
    <3> QED BY <2>1, <3>1, <3>2
  <2>3. \A o : <<u, o>> \in freed' => <<u, o>> \in freed
    BY DEF RelayedTx
  <2>4. Same(u)
    BY <2>1, <2>2, <2>3 DEF RelayedTx, Same
  <2> QED BY <2>4, SameOK
<1>2. CASE u = t
  <2>1. t \in spread /\ ~ list[t].waits /\ list[t].obj \in Objects
    BY DEF RelayedTx, TxOK, Offered, TypeOK, Objects
  <2>2. told'[t] = told[t] /\ Kept(t)[t] = list[t]
    <3>1. list[t] = [obj |-> list[t].obj, waits |-> FALSE]
      BY <2>1 DEF TypeOK
    <3> QED BY <2>1, <3>1, AnswerIs DEF RelayedTx
  <2>3. wallet'[t] = (IF wallet[t] = None THEN Copy ELSE wallet[t]) /\ wallet'[t] # None
    BY DEF RelayedTx, TypeOK, None, Copy
  <2>4. \/ list'[t] = list[t]
        \/ list[t] = NoEntry /\ list'[t] = [obj |-> wallet'[t], waits |-> FALSE]
    <3> DEFINE ls == ListedWith(Kept(t), wallet', t, [obj |-> wallet'[t], waits |-> FALSE])
    <3>1. ls[t] = IF Kept(t)[t] # NoEntry THEN Kept(t)[t] ELSE [obj |-> wallet'[t], waits |-> FALSE]
      BY <1>t, ListedWithEntry
    <3>2. list' = ls \/ list' = Kept(t)
      BY DEF RelayedTx
    <3> HIDE DEF ls
    <3> QED BY <2>2, <3>1, <3>2
  <2>5. /\ \A o : <<t, o>> \in freed' => <<t, o>> \in freed
        /\ wallet[t] = None => <<t, Copy>> \notin freed'
    BY DEF RelayedTx
  <2>6. UNCHANGED <<asked, checked, spread, removed>>
    BY DEF RelayedTx
  <2>7. HasObject(t)' /\ InPassing(t)' /\ Offered(t)' /\ Refused(t)'
    BY <2>1, <2>2, <2>3, <2>4, <2>6 DEF TxOK, HasObject, InPassing, Offered, Refused, Listed
  <2>8. Untouched(t)'
    BY <2>1, <2>2, <2>3, <2>4, <2>5, <2>6 DEF TxOK, Untouched, Own, Copy
  <2>9. Settled(t)' /\ Published(t)'
    BY <2>1, <2>2, <2>3, <2>4, <2>6 DEF TxOK, Settled, Published
  <2>10. Held(t)'
    BY <2>3, <2>4, <2>5, <2>6 DEF TxOK, Held, Listed
  <2> QED BY <1>2, <2>7, <2>8, <2>9, <2>10 DEF TxOK
<1> QED BY <1>1, <1>2

\* A peer announces a transaction it has.
LEMMA HasTxOK ==
    ASSUME TypeOK, TypeOK', MayGoOn, NEW p, NEW t \in Tx, HasTx(p, t), NEW u \in Tx, TxOK(u), TxOK(t)
    PROVE  TxOK(u)'
<1>1. CASE u # t
  <2>1. Answer(told, t, "ok")[u] = told[u] /\ Kept(t)[u] = list[u]
    BY <1>1, AnswerIs
  <2>2. wallet'[u] = wallet[u]
    BY <1>1 DEF HasTx, TypeOK
  <2>3. Same(u)
    BY <2>1, <2>2 DEF HasTx, Same
  <2> QED BY <2>3, SameOK
<1>2. CASE u = t
  <2>1. t \in spread /\ ~ list[t].waits
    BY DEF HasTx, TxOK, Offered
  <2>2. told'[t] = told[t] /\ list'[t] = list[t]
    <3>1. list[t] = [obj |-> list[t].obj, waits |-> FALSE]
      BY <2>1 DEF TypeOK
    <3>2. Answer(told, t, "ok")[t] = told[t] /\ Kept(t)[t] = list[t]
      BY <2>1, <3>1, AnswerIs
    <3> QED BY <3>2 DEF HasTx
  <2>3. /\ \/ wallet'[t] = wallet[t]
           \/ t \in Listed /\ wallet[t] = None /\ wallet'[t] = list[t].obj
        /\ UNCHANGED <<asked, checked, spread, removed, freed>>
    BY DEF HasTx, TypeOK
  <2>4. CASE wallet'[t] = wallet[t]
    <3>1. Same(t)
      BY <2>2, <2>3, <2>4 DEF Same
    <3> QED BY <1>2, <3>1, SameOK
  <2>5. CASE t \in Listed /\ wallet[t] = None /\ wallet'[t] = list[t].obj
    <3>1. list[t].obj # None /\ <<t, list[t].obj>> \notin freed
      BY <2>5 DEF TxOK, HasObject, MayGoOn
    <3>2. HasObject(t)' /\ Untouched(t)' /\ InPassing(t)' /\ Offered(t)' /\ Refused(t)'
      BY <2>1, <2>2, <2>3, <2>5, <3>1
      DEF TxOK, HasObject, Untouched, InPassing, Offered, Refused, Unseen, Listed
    <3>3. Settled(t)' /\ Published(t)' /\ Held(t)'
      BY <2>1, <2>2, <2>3, <2>5, <3>1 DEF TxOK, Settled, Published, Held, Listed
    <3> QED BY <1>2, <3>2, <3>3 DEF TxOK
  <2> QED BY <2>3, <2>4, <2>5
<1> QED BY <1>1, <1>2

\* A peer asks for a transaction that is valid: the callback is called with a success.
LEMMA RequestedValidOK ==
    ASSUME TypeOK, TypeOK', MayGoOn, NEW p, NEW t \in Tx, t \in Listed, RequestedValid(p, t),
           UNCHANGED <<asked, checked, removed>>, NEW u \in Tx, TxOK(u), TxOK(t)
    PROVE  TxOK(u)'
<1>1. CASE u # t
  <2>1. Answer(told, t, "ok")[u] = told[u] /\ Kept(t)[u] = list[u]
    BY <1>1, AnswerIs
  <2>2. wallet'[u] = wallet[u]
    BY <1>1 DEF RequestedValid, TypeOK
  <2>3. Same(u)
    BY <1>1, <2>1, <2>2 DEF RequestedValid, Same
  <2> QED BY <2>3, SameOK
<1>2. CASE u = t
  <2>1. /\ told'[t] = IF list[t].waits THEN Append(told[t], "ok") ELSE told[t]
        /\ list'[t] = [obj |-> list[t].obj, waits |-> FALSE]
    BY AnswerIs DEF RequestedValid
  <2>2. list[t].waits => told'[t] = <<"ok">>
    <3>1. list[t].waits => told[t] = <<>>
      BY DEF TxOK, Offered
    <3>2. Append(<<>>, "ok") = <<"ok">>
      OBVIOUS
    <3> QED BY <2>1, <3>1, <3>2
  <2>3. /\ wallet'[t] # None /\ t \in spread'
        /\ \/ wallet'[t] = wallet[t]
           \/ wallet'[t] = list[t].obj /\ <<t, list[t].obj>> \notin freed
    BY DEF RequestedValid, TypeOK, TxOK, HasObject, MayGoOn
  <2>4. /\ list[t] # NoEntry /\ list[t].obj # None /\ freed' = freed
        /\ <<t, list[t].obj>> \notin freed
    BY DEF Listed, TxOK, HasObject, RequestedValid, MayGoOn
  <2>5. t \notin checked /\ told[t] # <<"failed">> /\ told'[t] # <<"failed">>
    BY <2>1, <2>2, <2>4 DEF TxOK, InPassing, Refused, Unseen
  <2>6. HasObject(t)' /\ InPassing(t)' /\ Offered(t)' /\ Refused(t)' /\ Published(t)'
    BY <2>1, <2>3, <2>4, <2>5 DEF HasObject, InPassing, Offered, Refused, Published
  <2>7. Untouched(t)'
    BY <2>1, <2>3, <2>4, <2>5 DEF TxOK, Untouched
  <2>8. Settled(t)'
    BY <2>1, <2>2, <2>5 DEF TxOK, Settled
  <2>9. Held(t)'
    BY <2>1, <2>3, <2>4 DEF TxOK, Held
  <2> QED BY <1>2, <2>6, <2>7, <2>8, <2>9 DEF TxOK
<1> QED BY <1>1, <1>2

\* A peer asks for one that is no longer valid: it is a failure, and it leaves the list.
LEMMA RequestedInvalidOK ==
    ASSUME TypeOK, TypeOK', NEW p, NEW t \in Tx, t \in Listed, RequestedInvalid(p, t),
           UNCHANGED <<asked, checked, removed>>, NEW u \in Tx, TxOK(u), TxOK(t)
    PROVE  TxOK(u)'
<1>1. CASE u # t
  <2>1. Answer(told, t, "failed")[u] = told[u]
    BY <1>1, AnswerIs
  <2>2. list'[u] = list[u]
    BY <1>1 DEF RequestedInvalid, TypeOK
  <2>3. Same(u)
    BY <1>1, <2>1, <2>2 DEF RequestedInvalid, Same
  <2> QED BY <2>3, SameOK
<1>2. CASE u = t
  <2>1. /\ told'[t] = IF list[t].waits THEN Append(told[t], "failed") ELSE told[t]
        /\ list'[t] = NoEntry /\ wallet'[t] = wallet[t]
    BY AnswerIs DEF RequestedInvalid, TypeOK
  <2>2. list[t].waits => told'[t] = <<"failed">> /\ told[t] = <<>> /\ wallet[t] = None /\ t \notin spread
    <3>1. list[t].waits => told[t] = <<>>
      BY DEF TxOK, Offered
    <3>2. Append(<<>>, "failed") = <<"failed">>
      OBVIOUS
    <3> QED BY <2>1, <3>1, <3>2 DEF TxOK, Offered
  <2>3. /\ \A o : <<t, o>> \in freed' => <<t, o>> \in freed \/ (wallet[t] = None /\ o = list[t].obj)
        /\ t \in spread' <=> (t \in spread \/ wallet[t] # None)
        /\ list[t] # NoEntry /\ list[t].obj # None
    BY DEF RequestedInvalid, Listed, TxOK, HasObject
  <2>4. t \notin checked /\ told[t] # <<"failed">>
    BY <2>3 DEF TxOK, InPassing, Refused, Unseen
  <2>5. HasObject(t)' /\ InPassing(t)' /\ Offered(t)' /\ Refused(t)' /\ Published(t)'
    BY <2>1, <2>2, <2>3, <2>4
    DEF TxOK, HasObject, InPassing, Offered, Refused, Published, Unseen, Listed, NoEntry
  <2>6. Untouched(t)'
    BY <2>1, <2>2, <2>3, <2>4 DEF TxOK, Untouched, Unseen, NoEntry, None, Own
  <2>7. Settled(t)'
    BY <2>1, <2>2, <2>4 DEF TxOK, Settled
  <2>8. Held(t)'
    BY <2>1, <2>3 DEF TxOK, Held, Listed
  <2> QED BY <1>2, <2>5, <2>6, <2>7, <2>8 DEF TxOK
<1> QED BY <1>1, <1>2

\* A transaction that no one has seen is listed with its callback, beside its inputs.
LEMMA EnterOK ==
    ASSUME TypeOK, TypeOK', NEW t \in Tx, Enter(t), Unseen(t), told[t] = <<>>, t \notin spread,
           <<t, Own>> \notin freed, t \in asked', t \notin checked', NEW u \in Tx, TxOK(u),
           u # t => (u \in asked' <=> u \in asked) /\ (u \in checked' <=> u \in checked),
           UNCHANGED <<told, spread, wallet, freed, removed>>
    PROVE  TxOK(u)'
<1>1. /\ list \in [Tx -> Entries] /\ wallet \in [Tx -> Objects]
      /\ [obj |-> Own, waits |-> TRUE] \in Entries
  BY DEF TypeOK, Entries, Objects
<1>2. CASE u # t
  <2>1. \/ list'[u] = list[u]
        \/ /\ list[u] = NoEntry /\ wallet[u] # None
           /\ list'[u] = [obj |-> wallet[u], waits |-> FALSE]
    BY <1>1, <1>2, ListedWithEntry DEF Enter
  <2>2. Same(u)
    BY <1>2, <2>1 DEF Same
  <2> QED BY <2>2, SameOK
<1>3. CASE u = t
  <2>1. list'[t] = [obj |-> Own, waits |-> TRUE]
    <3> DEFINE ls == ListedWith(list, wallet, t, [obj |-> Own, waits |-> TRUE])
    <3>1. ls[t] = IF list[t] # NoEntry THEN list[t] ELSE [obj |-> Own, waits |-> TRUE]
      BY <1>1 DEF ListedWith
    <3>2. list' = ls
      BY DEF Enter
    <3> HIDE DEF ls
    <3> QED BY <3>1, <3>2 DEF Unseen
  <2>2. HasObject(t)' /\ Untouched(t)' /\ InPassing(t)' /\ Offered(t)' /\ Refused(t)'
    BY <2>1 DEF HasObject, Untouched, InPassing, Offered, Refused, Unseen, Own, None
  <2>3. Settled(t)' /\ Published(t)' /\ Held(t)'
    BY <1>3, <2>1 DEF Settled, Published, TxOK, Held
  <2> QED BY <1>3, <2>2, <2>3 DEF TxOK
<1> QED BY <1>2, <1>3

\* PublishTx and what the chain does to a transaction.
LEMMA PublishingOK ==
    ASSUME TypeOK, TypeOK', Publishing, NEW u \in Tx, \A t \in Tx : TxOK(t)
    PROVE  TxOK(u)'
<1> SUFFICES ASSUME NEW t \in Tx,
                    \/ PublishTx(t) \/ PublishRefused(t) \/ PublishChecked(t)
                    \/ PublishAfterCheck(t) \/ Confirm(t) \/ Contradict(t)
             PROVE  TxOK(u)'
  BY DEF Publishing
<1>t. TxOK(t) /\ TxOK(u)
  OBVIOUS
<1>n. ASSUME IsNew(t)
      PROVE  /\ t \notin asked /\ t \notin spread /\ t \notin checked /\ told[t] = <<>>
             /\ <<t, Own>> \notin freed /\ Unseen(t)
  BY <1>n, <1>t DEF IsNew, TxOK, Untouched
<1>1. CASE PublishTx(t)
  BY <1>1, <1>n, <1>t, EnterOK DEF PublishTx
<1>2. CASE PublishRefused(t)
  <2>1. CASE u # t
    <3>1. Same(u)
      BY <1>2, <2>1 DEF PublishRefused, Same, TypeOK
    <3> QED BY <1>t, <3>1, SameOK
  <2>2. CASE u = t
    <3>1. told'[t] = <<"failed">>
      BY <1>2, <1>n DEF PublishRefused, TypeOK
    <3>2. /\ t \in asked' /\ t \notin checked' /\ t \notin spread' /\ Unseen(t)'
          /\ <<t, None>> \notin freed'
      BY <1>2, <1>n DEF PublishRefused, Unseen, TypeOK, None, Own, Copy
    <3>3. HasObject(t)' /\ Untouched(t)' /\ InPassing(t)' /\ Offered(t)' /\ Refused(t)'
      BY <3>1, <3>2
      DEF HasObject, Untouched, InPassing, Offered, Refused, Unseen, Listed, NoEntry
    <3>4. Settled(t)' /\ Published(t)' /\ Held(t)'
      BY <3>1, <3>2 DEF Settled, Published, Held, Unseen, Listed
    <3> QED BY <2>2, <3>3, <3>4 DEF TxOK
  <2> QED BY <2>1, <2>2
<1>3. CASE PublishChecked(t)
  <2>1. CASE u # t
    <3>1. Same(u)
      BY <1>3, <2>1 DEF PublishChecked, Same
    <3> QED BY <1>t, <3>1, SameOK
  <2>2. CASE u = t
    <3>1. /\ t \in asked' /\ t \in checked' /\ t \notin spread' /\ Unseen(t)'
          /\ told'[t] = <<>> /\ <<t, Own>> \notin freed' /\ UNCHANGED <<list, wallet, freed, removed>>
      BY <1>3, <1>n DEF PublishChecked, Unseen
    <3>2. HasObject(t)' /\ Untouched(t)' /\ InPassing(t)' /\ Offered(t)' /\ Refused(t)'
      BY <3>1 DEF HasObject, Untouched, InPassing, Offered, Refused, Unseen, Listed, NoEntry
    <3>3. Settled(t)' /\ Published(t)' /\ Held(t)'
      BY <1>t, <3>1 DEF Settled, Published, Held, Unseen, Listed, TxOK
    <3> QED BY <2>2, <3>2, <3>3 DEF TxOK
  <2> QED BY <2>1, <2>2
<1>4. CASE PublishAfterCheck(t)
  <2>1. /\ t \in asked' /\ t \notin checked' /\ t \notin spread /\ Unseen(t) /\ told[t] = <<>>
        /\ <<t, Own>> \notin freed
    BY <1>4, <1>t DEF PublishAfterCheck, TxOK, InPassing, Untouched
  <2> QED BY <1>4, <1>t, <2>1, EnterOK DEF PublishAfterCheck
<1>5. CASE Confirm(t)
  <2>1. CASE u # t
    <3>1. list'[u] = list[u]
      BY <1>5, <2>1 DEF Confirm, TypeOK
    <3>2. Same(u)
      BY <1>5, <2>1, <3>1 DEF Confirm, Same, calls
    <3> QED BY <1>t, <3>2, SameOK
  <2>2. CASE u = t
    <3>1. t \in spread /\ ~ list[t].waits
      BY <1>5, <1>t DEF Confirm, TxOK, Offered
    <3>2. list'[t] = NoEntry /\ UNCHANGED <<wallet, told, asked, checked, spread, removed>>
      BY <1>5 DEF Confirm, calls, TypeOK
    <3>3. /\ \A o : <<t, o>> \in freed' =>
                <<t, o>> \in freed \/ (wallet[t] = None /\ o = list[t].obj)
          /\ wallet[t] = None => <<t, wallet[t]>> \notin freed'
      BY <1>5 DEF Confirm, TypeOK, None, Own, Copy
    <3>4. HasObject(t)' /\ Untouched(t)' /\ InPassing(t)' /\ Offered(t)'
      BY <1>t, <3>1, <3>2, <3>3
      DEF TxOK, HasObject, Untouched, InPassing, Offered, Unseen, Listed, NoEntry, None, Own
    <3>5. Refused(t)' /\ Settled(t)' /\ Published(t)' /\ Held(t)'
      BY <1>t, <3>1, <3>2, <3>3 DEF TxOK, Refused, Settled, Published, Held, Unseen, Listed
    <3> QED BY <2>2, <3>4, <3>5 DEF TxOK
  <2> QED BY <2>1, <2>2
<1>6. CASE Contradict(t)
  <2>1. UNCHANGED Stages
    BY <1>6 DEF Contradict, Stages, calls
  <2> QED BY <1>t, <2>1, StagesOK
<1> QED BY <1>1, <1>2, <1>3, <1>4, <1>5, <1>6

\* No step takes a transaction off its way.
LEMMA StepOK ==
    ASSUME TypeOK, TypeOK', \A t \in Tx : TxOK(t), [Next]_vars, NEW u \in Tx
    PROVE  TxOK(u)'
<1>u. TxOK(u)
  OBVIOUS
<1>1. CASE UNCHANGED vars
  <2>1. UNCHANGED Stages
    BY <1>1 DEF vars, calls, Stages
  <2> QED BY <1>u, <2>1, StagesOK
<1>2. CASE MayGoOn /\ Messages
  <2>1. PICK p \in Peers, t \in Tx :
          \/ RelayedTx(p, t) \/ HasTx(p, t) \/ RequestedTx(p, t)
          \/ DataNotfound(p, t) \/ RejectedTx(p, t)
    BY <1>2 DEF Messages
  <2>2. TxOK(t)
    OBVIOUS
  <2>3. CASE RequestedTx(p, t)
    BY <1>2, <1>u, <2>2, <2>3, RequestedValidOK, RequestedInvalidOK DEF RequestedTx
  <2>4. CASE DataNotfound(p, t) \/ RejectedTx(p, t)
    <3>1. UNCHANGED Stages
      BY <2>4 DEF DataNotfound, RejectedTx, Stages, calls
    <3> QED BY <1>u, <3>1, StagesOK
  <2> QED BY <1>2, <1>u, <2>1, <2>2, <2>3, <2>4, RelayedTxOK, HasTxOK
<1>3. CASE Pings
  <2>1. PICK p \in Peers, success \in BOOLEAN :
          \/ PublishTxInvDone(p, success) \/ LoadBloomFilterDone(p, success)
          \/ MempoolDone(p, success) \/ RequestUnrelayedTxGetdataDone(p, success)
    BY <1>3 DEF Pings
  <2>2. CASE RequestUnrelayedTxGetdataDone(p, success)
    BY <1>u, <2>2, GetdataDoneOK
  <2>3. CASE ~ RequestUnrelayedTxGetdataDone(p, success)
    <3>1. UNCHANGED Stages
      BY <2>1, <2>3 DEF PublishTxInvDone, LoadBloomFilterDone, MempoolDone, Stages, calls
    <3> QED BY <1>u, <3>1, StagesOK
  <2> QED BY <2>2, <2>3
<1>4. CASE Links
  <2>1. CASE \E p \in Peers : Disconnected(p)
    BY <1>u, <2>1, DisconnectedOK
  <2>2. CASE ~ \E p \in Peers : Disconnected(p)
    <3>1. UNCHANGED Stages
      BY <1>4, <2>2 DEF Links, Connect, RelayedBlock, Disconnect, ConnectedIdle, ConnectedBeside,
         ConnectedFirst, Close, Stages, calls, link
    <3> QED BY <1>u, <3>1, StagesOK
  <2> QED BY <2>1, <2>2
<1>5. CASE Publishing
  BY <1>5, PublishingOK
<1> QED BY <1>1, <1>2, <1>3, <1>4, <1>5 DEF Next

-----------------------------------------------------------------------------
(* The peers that relay a transaction, and the way to an outcome            *)

\* The transactions that wait without an excuse.  A download peer is in use; and when
\* the failures are at the maximum with peers in use but no download peer, all have one.
Hopeful == {t \in Waiting : excuse[t] = None}
DownloadInUse == download # None => download \in InUse
NoneHopeful == IsAtMaximum => Hopeful = {}
Trying == DownloadInUse /\ NoneHopeful /\ StillTrying

LEMMA TryingIs == StillTrying <=> (Hopeful # {} => InUse # {} \/ due)
BY DEF StillTrying, Hopeful

\* A step that leaves the connections and the callbacks that wait alone, or lets go
\* of callbacks, changes nothing of it.
LEMMA TryingKept ==
    ASSUME Trying, Waiting' \subseteq Waiting, UNCHANGED <<conn, download, failures, due, excuse>>
    PROVE  Trying'
BY DEF Trying, DownloadInUse, NoneHopeful, StillTrying, InUse, IsAtMaximum, Hopeful

\* Messages answer callbacks, and add none.
LEMMA MessagesWaiting ==
    ASSUME TypeOK, Messages
    PROVE  Waiting' \subseteq Waiting
<1>1. PICK p \in Peers, t \in Tx :
        \/ RelayedTx(p, t) \/ HasTx(p, t) \/ RequestedTx(p, t)
        \/ DataNotfound(p, t) \/ RejectedTx(p, t)
  BY DEF Messages
<1>2. \A u \in Tx : Kept(t)[u].waits => list[u].waits
  BY DEF Kept, TypeOK
<1>3. CASE RelayedTx(p, t)
  <2> DEFINE ls == ListedWith(Kept(t), wallet', t, [obj |-> wallet'[t], waits |-> FALSE])
  <2>1. \A u \in Tx : ls[u].waits => Kept(t)[u].waits
    BY DEF ListedWith
  <2>2. list' = ls \/ list' = Kept(t)
    BY <1>3 DEF RelayedTx
  <2> HIDE DEF ls
  <2> QED BY <1>2, <2>1, <2>2 DEF Waiting
<1>4. CASE HasTx(p, t)
  BY <1>2, <1>4 DEF HasTx, Waiting
<1>5. CASE RequestedTx(p, t)
  <2>1. list' = Kept(t) \/ list' = [list EXCEPT ![t] = NoEntry]
    BY <1>5 DEF RequestedTx, RequestedValid, RequestedInvalid
  <2>2. CASE list' = Kept(t)
    BY <1>2, <2>2 DEF Waiting
  <2>3. CASE list' = [list EXCEPT ![t] = NoEntry]
    <3>1. \A u \in Tx : list'[u] = list[u] \/ list'[u] = NoEntry
      BY <2>3 DEF TypeOK
    <3> QED BY <3>1 DEF Waiting, NoEntry
  <2> QED BY <2>1, <2>2, <2>3
<1>6. CASE DataNotfound(p, t) \/ RejectedTx(p, t)
  BY <1>6 DEF DataNotfound, RejectedTx, Waiting
<1> QED BY <1>1, <1>3, <1>4, <1>5, <1>6

\* The end of a connection leads to another one, or leaves none waiting.
LEMMA DisconnectedTrying ==
    ASSUME TypeOK, NEW p \in Peers, Disconnected(p), Trying
    PROVE  Trying'
<1>1. p \in InUse /\ InUse' = InUse \ {p}
  BY DEF Disconnected, InUse, TypeOK, Ends
<1>2. DownloadInUse'
  BY <1>1 DEF Disconnected, Trying, DownloadInUse
<1>3. /\ failures' = FailuresAfter(p) /\ due' = (due \/ FailuresAfter(p) < MaxFailures)
      /\ UNCHANGED excuse
      /\ download' = IF p = download THEN None ELSE download
  BY DEF Disconnected
<1>4. Waiting' = Waiting \ Cancelled(p)
  BY DEF Disconnected, Waiting, NoEntry, TypeOK
<1>h. Hopeful' \subseteq Hopeful /\ Hopeful' \subseteq Waiting'
  BY <1>3, <1>4 DEF Hopeful
<1>t. ASSUME Hopeful' = {} PROVE Trying'
  BY <1>2, <1>t, TryingIs DEF Trying, NoneHopeful, StillTrying, Hopeful
<1>5. failures \in Nat /\ FailuresAfter(p) \in Nat /\ MaxFailures \in Nat /\ p # None
  BY PeerAssumption DEF FailuresAfter, TypeOK
<1>d. FailuresAfter(p) < MaxFailures => due'
  BY Zenon DEF Disconnected
<1>6. IsLost(p) => Waiting' = {}
  BY <1>4 DEF Cancelled
<1>7. CASE download \notin {p, None}
  <2>1. download' = download /\ InUse' # {}
    BY <1>1, <1>3, <1>7 DEF Trying, DownloadInUse
  <2> QED BY <1>2, <1>7, <2>1 DEF Trying, NoneHopeful, StillTrying, IsAtMaximum
<1>8. ASSUME failures' = MaxFailures, download \in {p, None} PROVE Trying'
  BY <1>3, <1>6, <1>8, <1>h, <1>t DEF IsLost
<1>9. ASSUME failures' < MaxFailures PROVE Trying'
  <2>1. due' /\ ~ (failures' >= MaxFailures)
    BY <1>3, <1>5, <1>d, <1>9
  <2> QED BY <1>2, <2>1 DEF Trying, NoneHopeful, StillTrying, IsAtMaximum
<1>10. CASE download = p
  <2>1. failures' <= MaxFailures
    BY <1>3, <1>5, <1>10 DEF FailuresAfter
  <2> QED BY <1>3, <1>5, <1>8, <1>9, <1>10, <2>1
<1>11. CASE download = None
  <2>1. CASE failures' > MaxFailures
    <3>1. failures >= MaxFailures
      BY <1>3, <1>5, <2>1 DEF FailuresAfter
    <3>2. Hopeful' = {}
      BY <1>1, <1>11, <1>h, <3>1 DEF Trying, NoneHopeful, IsAtMaximum
    <3> QED BY <1>t, <3>2
  <2> QED BY <1>3, <1>5, <1>8, <1>9, <1>11, <2>1
<1> QED BY <1>7, <1>10, <1>11

\* The manager looks for connections, and those that wait are excused if it finds none.
LEMMA ConnectTrying ==
    ASSUME TypeOK, NEW ps \in SUBSET Peers, Connect(ps), Trying
    PROVE  Trying'
<1>1. InUse' = InUse \cup ps
  BY DEF Connect, InUse, TypeOK
<1>2. DownloadInUse'
  BY <1>1 DEF Connect, Trying, DownloadInUse
<1>3. failures' \in Nat /\ failures' < MaxFailures
  BY PeerAssumption DEF Connect, TypeOK
<1>4. NoneHopeful'
  BY <1>3, PeerAssumption DEF NoneHopeful, IsAtMaximum
<1>5. StillTrying'
  <2>1. Waiting' = Waiting /\ Waiting \subseteq Tx
    BY DEF Connect, Waiting
  <2>2. CASE InUse \cup ps = {}
    <3>1. \A t \in Waiting : excuse'[t] # None
      BY <2>1, <2>2 DEF Connect, Excused, None
    <3> QED BY <2>1, <3>1 DEF StillTrying
  <2>3. CASE InUse \cup ps # {}
    BY <1>1, <2>3 DEF StillTrying
  <2> QED BY <2>2, <2>3
<1> QED BY <1>2, <1>4, <1>5 DEF Trying

\* No step on the links loses the way to an outcome.
LEMMA LinksTrying ==
    ASSUME TypeOK, Links, Trying
    PROVE  Trying'
<1>1. CASE \E ps \in SUBSET Peers : Connect(ps)
  BY <1>1, ConnectTrying
<1>2. ASSUME NEW last \in BOOLEAN, RelayedBlock(last) PROVE Trying'
  <2>1. Waiting' = Waiting /\ UNCHANGED <<conn, download, due, excuse>>
    BY <1>2 DEF RelayedBlock, Waiting, outcome
  <2>2. failures' = failures \/ failures' = 0
    BY <1>2 DEF RelayedBlock
  <2> QED BY <2>1, <2>2, PeerAssumption
      DEF Trying, DownloadInUse, NoneHopeful, StillTrying, InUse, TypeOK, IsAtMaximum, Hopeful
<1>3. CASE Disconnect
  <2>1. Waiting' = Waiting /\ Waiting \subseteq Tx /\ UNCHANGED <<conn, download, due>>
    BY <1>3 DEF Disconnect, Waiting, link
  <2>2. \A t \in Tx : excuse'[t] = None => excuse[t] = None
    BY <1>3 DEF Disconnect, Excused
  <2>3. download = None => \A t \in Waiting : excuse'[t] # None
    BY <1>3, <2>1 DEF Disconnect, Excused, None
  <2>4. NoneHopeful'
    BY <2>1, <2>3 DEF NoneHopeful, IsAtMaximum, Hopeful
  <2>5. StillTrying'
    BY <2>1, <2>2 DEF Trying, StillTrying, InUse
  <2> QED BY <2>1, <2>4, <2>5 DEF Trying, DownloadInUse, InUse
<1>4. ASSUME NEW p \in Peers, ConnectedIdle(p) \/ ConnectedBeside(p) \/ (\E end \in Ends : Close(p, end))
      PROVE  Trying'
  <2>1. InUse' = InUse
    BY <1>4 DEF ConnectedIdle, ConnectedBeside, Close, InUse, TypeOK, Ends
  <2>2. /\ Waiting' = Waiting /\ UNCHANGED <<download, due, excuse>>
        /\ failures' = failures \/ failures' = 0
    BY <1>4 DEF ConnectedIdle, ConnectedBeside, Close, Waiting, outcome, sync
  <2> QED BY <2>1, <2>2, PeerAssumption
      DEF Trying, DownloadInUse, NoneHopeful, StillTrying, TypeOK, IsAtMaximum, Hopeful
<1>5. ASSUME NEW p \in Peers, NEW best \in Peers, NEW late \in BOOLEAN, ConnectedFirst(p, best, late)
      PROVE  Trying'
  <2>1. InUse' = InUse /\ download' \in InUse /\ download' # None
    BY <1>5, PeerAssumption DEF ConnectedFirst, InUse, TypeOK, Ends
  <2> QED BY <2>1 DEF Trying, DownloadInUse, NoneHopeful, StillTrying, IsAtMaximum
<1> QED BY <1>1, <1>2, <1>3, <1>4, <1>5, DisconnectedTrying DEF Links

\* One that is listed when nothing may come of it has an excuse.
LEMMA EnterTrying ==
    ASSUME TypeOK, NEW t \in Tx, Enter(t), Trying, UNCHANGED <<conn, download, failures, due>>
    PROVE  Trying'
<1>1. Waiting' \subseteq Waiting \cup {t} /\ Waiting \subseteq Tx
  BY DEF Enter, ListedWith, Waiting
<1>2. InUse' = InUse /\ (IsAtMaximum' <=> IsAtMaximum)
  BY DEF InUse, IsAtMaximum
<1>3. /\ excuse' = excuse \/ excuse' = Excused({t}, "alone") \/ excuse' = Excused({t}, "maximum")
      /\ IsAlone \/ IsAtMaximum =>
            excuse' = Excused({t}, "alone") \/ excuse' = Excused({t}, "maximum")
  BY DEF Enter
<1>4. \A u \in Tx : excuse'[u] = None => excuse[u] = None
  BY <1>3 DEF Excused
<1>5. IsAlone \/ IsAtMaximum => excuse'[t] # None
  BY <1>3 DEF Excused, None
<1>6. Hopeful' \subseteq Hopeful \cup {t}
  BY <1>1, <1>4 DEF Hopeful
<1>7. IsAlone \/ IsAtMaximum => Hopeful' \subseteq Hopeful
  BY <1>5, <1>6 DEF Hopeful
<1>8. NoneHopeful'
  BY <1>2, <1>7 DEF Trying, NoneHopeful
<1>9. Hopeful' # {} => InUse' # {} \/ due'
  BY <1>2, <1>7, TryingIs DEF Trying, IsAlone
<1>10. StillTrying'
  BY <1>9 DEF StillTrying, Hopeful
<1> QED BY <1>2, <1>8, <1>10 DEF Trying, DownloadInUse

\* No step at all loses the way to an outcome.
LEMMA StepTrying ==
    ASSUME TypeOK, Trying, [Next]_vars
    PROVE  Trying'
<1>1. CASE UNCHANGED vars
  <2>1. Waiting' = Waiting /\ UNCHANGED <<conn, download, failures, due, excuse>>
    BY <1>1 DEF vars, link, sync, outcome, Waiting
  <2> QED BY <2>1, TryingKept
<1>2. CASE Messages
  <2>1. UNCHANGED <<conn, download, failures, due, excuse>>
    BY <1>2 DEF Messages, RelayedTx, HasTx, RequestedTx, DataNotfound, RejectedTx, link, sync, outcome
  <2> QED BY <1>2, <2>1, MessagesWaiting, TryingKept
<1>3. CASE Pings
  <2>1. Waiting' = Waiting /\ UNCHANGED <<conn, download, failures, due, excuse>>
    BY <1>3 DEF Pings, PublishTxInvDone, LoadBloomFilterDone, MempoolDone,
       RequestUnrelayedTxGetdataDone, Waiting, sync, outcome
  <2> QED BY <2>1, TryingKept
<1>4. CASE Links
  BY <1>4, LinksTrying
<1>5. CASE Publishing
  <2>1. PICK t \in Tx : \/ PublishTx(t) \/ PublishRefused(t) \/ PublishChecked(t)
                        \/ PublishAfterCheck(t) \/ Confirm(t) \/ Contradict(t)
    BY <1>5 DEF Publishing
  <2>2. CASE PublishTx(t) \/ PublishAfterCheck(t)
    BY <2>2, EnterTrying DEF PublishTx, PublishAfterCheck, sync
  <2>3. CASE ~ (PublishTx(t) \/ PublishAfterCheck(t))
    <3>1. UNCHANGED <<conn, download, failures, due, excuse>>
      BY <2>1, <2>3 DEF PublishRefused, PublishChecked, Confirm, Contradict, link, sync, outcome
    <3>2. \A u \in Tx : list'[u] = list[u] \/ list'[u] = NoEntry
      BY <2>1, <2>3 DEF PublishRefused, PublishChecked, Confirm, Contradict, TypeOK
    <3>3. Waiting' \subseteq Waiting
      BY <3>2 DEF Waiting, NoEntry
    <3> QED BY <3>1, <3>3, TryingKept
  <2> QED BY <2>2, <2>3
<1> QED BY <1>1, <1>2, <1>3, <1>4, <1>5 DEF Next

\* A peer that counts as relaying has a connection; it leaves the count when it ends.
LEMMA StepRelays ==
    ASSUME TypeOK, RelaysConnected, [Next]_vars
    PROVE  RelaysConnected'
<1> SUFFICES ASSUME NEW t \in Tx PROVE relays'[t] \subseteq InUse'
  BY DEF RelaysConnected
<1>r. relays[t] \subseteq InUse /\ relays \in [Tx -> SUBSET Peers]
  BY DEF RelaysConnected, TypeOK
<1>1. ASSUME UNCHANGED <<relays, conn>> PROVE relays'[t] \subseteq InUse'
  BY <1>1, <1>r DEF InUse
<1>2. CASE UNCHANGED vars
  BY <1>1, <1>2 DEF vars, link
<1>3. CASE Messages
  <2>1. PICK p \in Peers, u \in Tx :
          \/ RelayedTx(p, u) \/ HasTx(p, u) \/ RequestedTx(p, u)
          \/ DataNotfound(p, u) \/ RejectedTx(p, u)
    BY <1>3 DEF Messages
  <2>2. /\ UNCHANGED conn
        /\ \/ relays' = relays \/ relays' = Without(relays, u, p)
           \/ relays' = With(relays, u, p) /\ p \in InUse
    BY <2>1 DEF RelayedTx, HasTx, RequestedTx, RequestedValid, RequestedInvalid, DataNotfound,
       RejectedTx, InUse, link
  <2>3. relays'[t] \subseteq relays[t] \cup {q \in Peers : q = p /\ p \in InUse}
    BY <1>r, <2>2 DEF With, Without, InUse
  <2> QED BY <1>r, <2>2, <2>3 DEF InUse
<1>4. CASE Pings
  BY <1>1, <1>4 DEF Pings, PublishTxInvDone, LoadBloomFilterDone, MempoolDone,
     RequestUnrelayedTxGetdataDone
<1>5. CASE Links
  <2>1. CASE \E p \in Peers : Disconnected(p)
    <3>1. PICK p \in Peers : Disconnected(p)
      BY <2>1
    <3>2. relays'[t] = relays[t] \ {p} /\ InUse' = InUse \ {p}
      BY <3>1 DEF Disconnected, WithoutPeer, InUse, TypeOK
    <3> QED BY <1>r, <3>2
  <2>2. CASE ~ \E p \in Peers : Disconnected(p)
    <3>1. relays' = relays
      BY <1>5, <2>2 DEF Links, Connect, RelayedBlock, Disconnect, ConnectedIdle, ConnectedBeside,
         ConnectedFirst, Close
    <3>2. SUFFICES ASSUME NEW p \in InUse PROVE conn'[p] # "off"
      BY <1>r, <3>1 DEF InUse
    <3>3. conn \in [Peers -> {"off", "connecting", "on"} \cup Ends] /\ conn[p] # "off"
      BY <3>2 DEF InUse, TypeOK
    <3> DEFINE Stays == conn[p] # "off" => conn'[p] # "off"
    <3>4. ASSUME NEW ps \in SUBSET Peers, Connect(ps) PROVE Stays
      BY <3>2, <3>3, <3>4 DEF Connect, InUse
    <3>5. ASSUME NEW last \in BOOLEAN, RelayedBlock(last) PROVE Stays
      BY <3>5 DEF RelayedBlock
    <3>6. ASSUME Disconnect PROVE Stays
      BY <3>6 DEF Disconnect, link
    <3>7. ASSUME NEW q \in Peers, ConnectedIdle(q) \/ ConnectedBeside(q) PROVE Stays
      BY <3>2, <3>3, <3>7 DEF ConnectedIdle, ConnectedBeside, InUse
    <3>8. ASSUME NEW q \in Peers, NEW best \in Peers, NEW late \in BOOLEAN,
                 ConnectedFirst(q, best, late)
          PROVE  Stays
      BY <3>2, <3>3, <3>8 DEF ConnectedFirst, InUse
    <3>9. ASSUME NEW q \in Peers, NEW end \in Ends, Close(q, end) PROVE Stays
      BY <3>2, <3>3, <3>9 DEF Close, Ends, InUse
    <3>10. Stays
      <4> HIDE DEF Stays
      <4> QED BY <1>5, <2>2, <3>4, <3>5, <3>6, <3>7, <3>8, <3>9 DEF Links
    <3> QED BY <3>3, <3>10
  <2> QED BY <2>1, <2>2
<1>6. CASE Publishing
  <2>1. PICK u \in Tx : \/ PublishTx(u) \/ PublishRefused(u) \/ PublishChecked(u)
                        \/ PublishAfterCheck(u) \/ Confirm(u) \/ Contradict(u)
    BY <1>6 DEF Publishing
  <2>2. UNCHANGED conn /\ (relays' = relays \/ relays' = [relays EXCEPT ![u] = {}])
    BY <2>1 DEF PublishTx, PublishRefused, PublishChecked, PublishAfterCheck, Confirm, Contradict, link
  <2> QED BY <1>r, <2>2 DEF InUse
<1> QED BY <1>2, <1>3, <1>4, <1>5, <1>6 DEF Next

-----------------------------------------------------------------------------
(* The theorems                                                             *)

IndInv == TypeOK /\ (\A t \in Tx : TxOK(t)) /\ Trying /\ RelaysConnected

\* The inductive invariant holds in every reachable state, whatever the number of
\* transactions, peers, failures and settings.
THEOREM Invariance == Spec => []IndInv
<1>1. Init => IndInv
  <2> SUFFICES ASSUME Init PROVE IndInv
    OBVIOUS
  <2>1. TypeOK
    BY InitType
  <2>2. Listed = {} /\ Waiting = {} /\ RelaysConnected /\ Trying
    BY DEF Init, Listed, Waiting, NoEntry, RelaysConnected, Trying, DownloadInUse, NoneHopeful, Hopeful,
       StillTrying
  <2>3. ASSUME NEW t \in Tx PROVE TxOK(t)
    BY <2>2 DEF Init, TxOK, HasObject, Untouched, InPassing, Offered, Refused, Settled, Published, Held,
       Unseen, NoEntry, None, Own
  <2> QED BY <2>1, <2>2, <2>3 DEF IndInv
<1>2. IndInv /\ [Next]_vars => IndInv'
  <2> SUFFICES ASSUME IndInv, [Next]_vars PROVE IndInv'
    OBVIOUS
  <2>1. TypeOK'
    BY StepType DEF IndInv, Shape, TxOK
  <2>2. ASSUME NEW t \in Tx PROVE TxOK(t)'
    BY <2>1, StepOK DEF IndInv
  <2>3. Trying' /\ RelaysConnected'
    BY StepTrying, StepRelays DEF IndInv
  <2> QED BY <2>1, <2>2, <2>3 DEF IndInv
<1> QED BY <1>1, <1>2, PTL DEF Spec

\* The state keeps its shape; the wallet holds no object that was freed, and the list
\* of those to be published holds one only of a transaction that has been removed
\* because no peer had it (peerRequestedTx, requestUnrelayedTxGetdataDone).
THEOREM ObjectsHeld == Spec => []ObjectsOK
<1>1. IndInv => ObjectsOK
  BY DEF IndInv, ObjectsOK, NotFreed, MayGoOn, TxOK, Held, Listed
<1> QED BY <1>1, Invariance, PTL

\* Whatever messages, timeouts and disconnections race with each other, the callback of
\* PublishTx is called once at most, and is not lost before.
THEOREM CalledOnce == Spec => []ToldOnce
<1>1. IndInv => ToldOnce
  <2> SUFFICES ASSUME IndInv, NEW t \in asked
               PROVE  Len(told[t]) + (IF t \in checked \cup Waiting THEN 1 ELSE 0) = 1
    BY DEF ToldOnce
  <2>1. TypeOK /\ t \in Tx /\ TxOK(t)
    BY DEF IndInv, TypeOK
  <2>2. t \in checked \cup Waiting => told[t] = <<>>
    BY <2>1 DEF TxOK, InPassing, Offered, Waiting
  <2>3. t \notin checked \cup Waiting => told[t] \in {<<"ok">>, <<"failed">>}
    BY <2>1 DEF TxOK, Settled, Waiting
  <2>4. Len(<<>>) = 0 /\ Len(<<"ok">>) = 1 /\ Len(<<"failed">>) = 1
    OBVIOUS
  <2>5. CASE t \in checked \cup Waiting
    BY <2>2, <2>4, <2>5
  <2>6. CASE t \notin checked \cup Waiting
    <3>1. Len(told[t]) = 1
      BY <2>3, <2>4, <2>6
    <3> QED BY <2>6, <3>1
  <2> QED BY <2>5, <2>6
<1> QED BY <1>1, Invariance, PTL

\* A failure that was reported stays one: the transaction is with no peer and not in the
\* wallet.
THEOREM FailureIsFinal == Spec => []FailedIsFinal
<1>1. IndInv => FailedIsFinal
  BY DEF IndInv, FailedIsFinal, TxOK, Refused, Unseen, TypeOK
<1> QED BY <1>1, Invariance, PTL

\* A success that was reported is in the wallet, unless it was removed later.
THEOREM SuccessIsHeld == Spec => []PublishedInWallet
<1>1. IndInv => PublishedInWallet
  BY DEF IndInv, PublishedInWallet, TxOK, Published, TypeOK
<1> QED BY <1>1, Invariance, PTL

\* Only peers in use count as relaying a transaction (BR_PeerManagerRelayCount).
THEOREM RelaysInUse == Spec => []RelaysConnected
BY Invariance, PTL DEF IndInv

\* A callback is left waiting, with no connection and no attempt at one, only if its
\* transaction was listed then, if the failures had reached the maximum while peers
\* were in use but no download peer, or if an attempt to connect has found no peer.
THEOREM NotGivenUp == Spec => []StillTrying
<1>1. IndInv => StillTrying
  BY DEF IndInv, Trying
<1> QED BY <1>1, Invariance, PTL

=============================================================================
