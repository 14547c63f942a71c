---------------------------- MODULE TxPublishing ----------------------------
(***************************************************************************)
(* How BR_PeerManager.c publishes transactions: the list of those to be     *)
(* published with the callbacks that wait for the outcome, the peers it     *)
(* offers them to, which peers have or relay each transaction, timeouts,    *)
(* disconnections and the attempts to connect again, and the removal of     *)
(* transactions that no peer has.                                           *)
(*                                                                         *)
(* Every peer has a thread that runs one handler at a time under            *)
(* manager->lock.  A peer answers pings in the order they were sent in      *)
(* (BR_Peer.c keeps a queue of callbacks, which a request for the mempool   *)
(* joins when it is answered); when its connection ends its thread calls    *)
(* those that are left, one by one, with success = 0.                       *)
(*                                                                         *)
(* A connection may end or time out at any time, so that neither the time   *)
(* of a timeout nor BR_PeerDisconnect has a state of its own; and a peer    *)
(* may ask for, announce and send any transaction that exists, so that the  *)
(* hashes it has been sent are not kept.                                    *)
(*                                                                         *)
(* A transaction may exist twice in memory: as the object that was handed   *)
(* to PublishTx, and as the one parsed from a peer's message.  Timestamps,  *)
(* fees, the Bloom filter's updates and the choice of addresses are left    *)
(* out; the blocks are in BlockChain, the wallet's own work in Wallet.      *)
(***************************************************************************)
EXTENDS Integers, Sequences, SequencesExt, FiniteSets

CONSTANTS
    Tx,           \* transactions of the wallet
    Inputs,       \* the transactions whose outputs each spends
    Peers,
    Settings,     \* of a run: maxConnectCount, the peers with an address, and the
                  \* transactions to be sent and to be received
    MaxFailures,  \* MAX_CONNECT_FAILURES
    MaxLinks,     \* bound on the connections begun
    MaxEvents     \* bound on the user's disconnecting and contradictions together

None == "none"
Own == "own"      \* the object handed to PublishTx
Copy == "copy"    \* the object parsed from a message

ASSUME TxAssumption ==
    /\ IsFiniteSet(Tx)
    /\ Inputs \in [Tx -> SUBSET Tx]
    /\ \A t \in Tx : \A i \in Inputs[t] : Inputs[i] = {}
ASSUME PeerAssumption ==
    /\ IsFiniteSet(Peers) /\ None \notin Peers
    /\ MaxFailures \in Nat \ {0} /\ {MaxLinks, MaxEvents} \subseteq Nat
    /\ Settings \subseteq [max : Nat \ {0}, peers : SUBSET Peers,
                    sent : SUBSET Tx, received : SUBSET Tx]

VARIABLES
    setting,    \* the settings of this run, which do not change
    conn,       \* of each peer: off, connecting, on, or how its connection ended
    pongs,      \* the callbacks that wait for each peer's pongs
    synced,     \* the peers with PEER_FLAG_SYNCED
    links, events, \* counters for the bounds
    download,   \* manager->downloadPeer
    behind,     \* manager->lastBlock->height < manager->estimatedHeight
    syncing,    \* manager->syncStartHeight > 0
    failures,   \* manager->connectFailureCount, up to one more than the maximum
    due,        \* a thread that ended is about to call BR_PeerManagerConnect
    relays, requests,  \* manager->txRelays and txRequests
    list,       \* manager->publishedTx: the object, and whether a callback waits
    wallet,     \* the object of each transaction the wallet holds
    confirmed,  \* those in a block
    spent,      \* those whose inputs another transaction of the wallet spends
    freed,      \* the objects that have been freed
    spread,     \* those the network has
    checked,    \* those PublishTx has let pass, between unlock and lock
    told,       \* of each: what the callback was called with
    asked,      \* history: those PublishTx was called with
    removed,    \* history: those removed because no peer had them
    excuse      \* history: why nothing may come to a transaction that waits

counts == <<links, events>>
link == <<setting, conn, pongs, synced>>
sync == <<download, behind, syncing, failures>>
chain == <<confirmed, spent>>
calls == <<asked, checked, told>>
outcome == <<due, excuse>>
vars == <<link, counts, sync, chain, calls, outcome, relays, requests, list, wallet, freed,
          spread, removed>>

-----------------------------------------------------------------------------
(* Peers, their timeouts and their pings                                    *)

NoEntry == [obj |-> None, waits |-> FALSE]
Listed == {t \in Tx : list[t] # NoEntry}
Waiting == {t \in Tx : list[t].waits}
Connected == {p \in Peers : conn[p] = "on"}
InUse == {p \in Peers : conn[p] # "off"}   \* manager->connectedPeers
Ends == {"closed", "failed", "timed out"}

\* An object that has been freed is used when the list is next gone through.
MayGoOn == \A t \in Listed : <<t, list[t].obj>> \notin freed

\* BR_WalletTransactionIsValid, for chains of two transactions.
IsValid(t) == t \notin spent /\ \A i \in Inputs[t] : wallet[i] = None \/ i \notin spent

Ping(q, ps, done) == [p \in Peers |-> IF p \in ps THEN Append(q[p], done) ELSE q[p]]

\* BR_PeerSendMempool: once after every filter, unless an answer is awaited; the
\* answer, or ten seconds without one, bring a ping.
AskMempool(q, p) == IF \E i \in DOMAIN q[p] : q[p][i] = "mempool" THEN q ELSE Ping(q, {p}, "mempool")

\* _BR_PeerManagerLoadMempools, with the download peer dp and the peers on; dp too
\* gets a new filter first when the false positives have become many.
LoadMempools(dp, on) ==
    \/ pongs' = AskMempool(Ping(pongs, on \ {dp}, "filter"), dp)
    \/ pongs' = Ping(pongs, on, "filter")

-----------------------------------------------------------------------------
(* The transactions whose callback may wait for ever                        *)

NoExcuse == [t \in Tx |-> None]
Excused(ts, why) == [t \in Tx |-> IF t \in ts /\ excuse[t] = None THEN why ELSE excuse[t]]

\* There is no connection, and no attempt at one is under way.
IsAlone == InUse = {} /\ ~ due
\* The failures have come to the maximum before the last connection was lost, with no
\* download peer: the next one passes the maximum that is tested for.
IsAtMaximum == InUse # {} /\ download = None /\ failures >= MaxFailures

-----------------------------------------------------------------------------
(* Connections                                                              *)

Init ==
    /\ setting \in Settings
    /\ conn = [p \in Peers |-> "off"] /\ pongs = [p \in Peers |-> <<>>]
    /\ synced = {} /\ links = 0 /\ events = 0
    /\ download = None /\ behind = FALSE /\ syncing = FALSE /\ failures = 0
    /\ due = FALSE /\ excuse = NoExcuse
    /\ relays = [t \in Tx |-> {}] /\ requests = [t \in Tx |-> {}]
    /\ list = [t \in Tx |-> NoEntry] /\ wallet = [t \in Tx |-> None]
    /\ confirmed = {} /\ spent = {} /\ freed = {} /\ removed = {}
    /\ spread = setting.received /\ asked = {} /\ checked = {} /\ told = [t \in Tx |-> <<>>]

\* BR_PeerManagerConnect, which finds the addresses of some peers, or of none: then
\* the sync has failed, and the callbacks that wait are not called.
Connect(ps) ==
    /\ ps \subseteq setting.peers \ InUse /\ Cardinality(InUse \cup ps) <= setting.max
    /\ links + Cardinality(ps) <= MaxLinks /\ links' = links + Cardinality(ps)
    /\ UNCHANGED events
    /\ failures' = IF failures >= MaxFailures THEN 0 ELSE failures
    /\ syncing' = (InUse \cup ps # {} /\ (syncing \/ download = None \/ behind))
    /\ conn' = [p \in Peers |-> IF p \in ps THEN "connecting" ELSE conn[p]]
    /\ due' = FALSE
    /\ excuse' = IF InUse \cup ps = {} THEN Excused(Waiting, "unfound") ELSE NoExcuse
    /\ UNCHANGED <<setting, pongs, synced, download, behind, chain, calls, relays,
                   requests, list, wallet, freed, spread, removed>>

\* The handshake is complete, but _peerConnected drops the peer or waits with it.
ConnectedIdle(p) ==
    /\ conn[p] = "connecting"
    /\ conn' = [conn EXCEPT ![p] = "on"]
    /\ UNCHANGED <<setting, pongs, synced, counts, sync, chain, calls, outcome, relays,
                   requests, list, wallet, freed, spread, removed>>

\* The download peer stays, and the chain is as long as the new peer's.
ConnectedBeside(p) ==
    /\ conn[p] = "connecting" /\ download # None
    /\ conn' = [conn EXCEPT ![p] = "on"] /\ failures' = 0
    /\ pongs' = Ping(pongs, {p}, "filter")
    /\ UNCHANGED <<setting, synced, counts, download, behind, syncing, chain, calls,
                   outcome, relays, requests, list, wallet, freed, spread, removed>>

\* The best peer that is connected becomes the download peer, whose loss is noticed.
ConnectedFirst(p, best, late) ==
    /\ conn[p] = "connecting" /\ (best = p \/ conn[best] = "on")
    /\ conn' = [conn EXCEPT ![p] = "on"]
    /\ download' = best /\ behind' = late
    /\ IF late THEN UNCHANGED <<failures, pongs>>
       ELSE failures' = 0 /\ LoadMempools(best, Connected \cup {p})
    /\ excuse' = NoExcuse
    /\ UNCHANGED <<setting, synced, counts, syncing, chain, calls, due, relays,
                   requests, list, wallet, freed, spread, removed>>

\* _peerRelayedBlock: a block of the download peer, below the estimated height or at it.
RelayedBlock(last) ==
    /\ behind /\ download \in Connected
    /\ behind' = ~ last
    /\ IF last THEN LoadMempools(download, Connected) /\ UNCHANGED failures
       ELSE failures' = 0 /\ UNCHANGED pongs
    /\ UNCHANGED <<setting, conn, synced, counts, download, syncing, chain, calls,
                   outcome, relays, requests, list, wallet, freed, spread, removed>>

\* The peer's thread leaves its loop; a protocol error counts as closed.
Close(p, end) ==
    /\ conn[p] \in {"connecting", "on"}
    /\ conn' = [conn EXCEPT ![p] = end]
    /\ UNCHANGED <<setting, pongs, synced, counts, sync, chain, calls, outcome, relays,
                   requests, list, wallet, freed, spread, removed>>

\* BR_PeerManagerDisconnect
Disconnect ==
    /\ InUse # {} /\ failures' = MaxFailures
    /\ events < MaxEvents /\ events' = events + 1
    /\ excuse' = Excused(IF download = None THEN Waiting ELSE {}, "maximum")
    /\ UNCHANGED <<link, links, download, behind, syncing, due, chain, calls,
                   relays, requests, list, wallet, freed, spread, removed>>

\* The failure of a connection counts, up to the maximum for the download peer.
FailuresAfter_Beyond(p) ==
    IF conn[p] # "closed" /\ failures <= MaxFailures THEN failures + 1 ELSE failures
FailuresAfter(p) ==
    LET raised == IF conn[p] # "closed" /\ failures <= MaxFailures THEN failures + 1 ELSE failures
    IN  IF p = download /\ raised > MaxFailures THEN MaxFailures ELSE raised
IsLost(p) == download \in {p, None} /\ FailuresAfter(p) = MaxFailures

\* A timeout is taken for the end of what was being published.
HasTimedOut(p) == conn[p] = "timed out" /\ (p # download \/ ~ syncing \/ InUse = {p})
Cancelled(p) == IF HasTimedOut(p) \/ IsLost(p) THEN Waiting ELSE {}

WithoutPeer_Kept(rs, p) == rs
WithoutPeer(rs, p) == [t \in Tx |-> rs[t] \ {p}]

\* _peerDisconnected, after the last of the peer's callbacks.
Disconnected(p) ==
    /\ conn[p] \in Ends /\ pongs[p] = <<>>
    /\ failures' = FailuresAfter(p) /\ due' = (due \/ FailuresAfter(p) < MaxFailures)
    /\ relays' = WithoutPeer(relays, p)
    /\ download' = IF p = download THEN None ELSE download
    /\ syncing' = (syncing /\ ~ IsLost(p))
    /\ list' = [t \in Tx |-> IF t \in Cancelled(p) THEN NoEntry ELSE list[t]]
    /\ freed' = freed \cup {<<t, list[t].obj>> : t \in Cancelled(p)}
    /\ told' = [t \in Tx |-> IF t \in Cancelled(p) THEN Append(told[t], "failed") ELSE told[t]]
    /\ conn' = [conn EXCEPT ![p] = "off"] /\ synced' = synced \ {p}
    /\ UNCHANGED <<setting, pongs, counts, behind, chain, asked, checked, excuse,
                   requests, wallet, spread, removed>>

-----------------------------------------------------------------------------
(* Callbacks of pings: success is TRUE for a pong, FALSE when the            *)
(* connection has ended                                                     *)

\* The first callback is called, or the first but for a request for the mempool.
Calls(p, done, success) ==
    /\ \E i \in DOMAIN pongs[p] :
        pongs[p][i] = done /\ \A j \in 1 .. i - 1 : pongs[p][j] = "mempool"
    /\ IF success THEN conn[p] = "on" ELSE conn[p] \in Ends
Rest(p, done) == [pongs EXCEPT ![p] = RemoveFirst(@, done)]

\* _BR_PeerManagerRequestUnrelayedTx
Unrelayed(p) == {t \in Listed : p \notin relays[t] \cup requests[t]}
RequestUnrelayed(p, done) ==
    /\ requests' = [t \in Tx |-> IF t \in Unrelayed(p) THEN requests[t] \cup {p} ELSE requests[t]]
    /\ synced' = IF Unrelayed(p) = {} THEN synced \cup {p} ELSE synced
    /\ pongs' = IF Unrelayed(p) = {} \/ p \in synced THEN Rest(p, done)
                ELSE Ping(Rest(p, done), {p}, "getdata")

\* _publishTxInvDone does not look at success.
PublishTxInvDone(p, success) ==
    /\ Calls(p, "inv", success) /\ RequestUnrelayed(p, "inv")
    /\ UNCHANGED <<setting, conn, counts, sync, chain, calls, outcome, relays, list,
                   wallet, freed, spread, removed>>

\* _loadBloomFilterDone
LoadBloomFilterDone(p, success) ==
    /\ Calls(p, "filter", success)
    /\ pongs' = IF success THEN AskMempool(Rest(p, "filter"), p) ELSE Rest(p, "filter")
    /\ syncing' = (syncing /\ (success \/ p # download))
    /\ UNCHANGED <<setting, conn, synced, counts, download, behind, failures, chain,
                   calls, outcome, relays, requests, list, wallet, freed, spread,
                   removed>>

\* _mempoolDone: the chain is synced.
MempoolDone(p, success) ==
    /\ Calls(p, "mempool", success)
    /\ IF success THEN RequestUnrelayed(p, "mempool") /\ syncing' = FALSE
       ELSE pongs' = Rest(p, "mempool") /\ UNCHANGED <<requests, synced, syncing>>
    /\ UNCHANGED <<setting, conn, counts, download, behind, failures, chain, calls,
                   outcome, relays, list, wallet, freed, spread, removed>>

\* Transactions of the wallet that none of the peers has, and those that spend them.
Dropped(ts) == {t \in Tx : wallet[t] # None /\ (t \in ts \/ Inputs[t] \cap ts # {})}
Unheard ==
    {t \in Tx : /\ wallet[t] # None /\ t \notin confirmed /\ ~ list[t].waits
                /\ relays[t] = {} /\ requests[t] = {}}

\* _requestUnrelayedTxGetdataDone
RequestUnrelayedTxGetdataDone(p, success) ==
    /\ Calls(p, "getdata", success) /\ pongs' = Rest(p, "getdata")
    /\ synced' = IF success THEN synced \cup {p} ELSE synced
    /\ LET all == InUse \subseteq synced' /\ Cardinality(Connected) >= setting.max
           gone == IF all THEN Dropped(Unheard) ELSE {}
       IN  /\ wallet' = [t \in Tx |-> IF t \in gone THEN None ELSE wallet[t]]
           /\ freed' = freed \cup {<<t, wallet[t]>> : t \in gone}
           /\ removed' = removed \cup gone
    /\ UNCHANGED <<setting, conn, counts, sync, chain, calls, outcome, relays, requests,
                   list, spread>>

-----------------------------------------------------------------------------
(* Messages of a peer about transactions                                    *)

\* A peer's message about t answers the callback that waits for it.
Answer(ts, t, ok) == IF list[t].waits THEN [ts EXCEPT ![t] = Append(@, ok)] ELSE ts
Kept_Waits(t) == list
Kept(t) == [list EXCEPT ![t].waits = FALSE]

With(rs, t, p) == [rs EXCEPT ![t] = @ \cup {p}]
Without(rs, t, p) == [rs EXCEPT ![t] = @ \ {p}]

\* _BR_PeerManagerAddTxToPublishList: t with its unconfirmed inputs in the wallet w.
ListedWith(ls, w, t, entry) ==
    LET inputs == {i \in Inputs[t] : w[i] # None /\ i \notin confirmed}
    IN  IF ls[t] # NoEntry THEN ls
        ELSE [u \in Tx |-> IF u = t THEN entry
                           ELSE IF u \in inputs /\ ls[u] = NoEntry
                                THEN [obj |-> w[u], waits |-> FALSE] ELSE ls[u]]

\* _peerRelayedTx: a new object is registered, unless the wallet has the transaction.
RelayedTx(p, t) ==
    /\ conn[p] = "on" /\ t \in spread \ confirmed
    /\ wallet' = [wallet EXCEPT ![t] = IF @ = None THEN Copy ELSE @]
    /\ freed' = IF wallet[t] = None THEN freed \ {<<t, Copy>>} ELSE freed
    /\ list' = IF t \in setting.sent /\ IsValid(t)
               THEN ListedWith(Kept(t), wallet', t, [obj |-> wallet'[t], waits |-> FALSE])
               ELSE Kept(t)
    /\ told' = Answer(told, t, "ok")
    /\ relays' = IF t \in Listed \/ ~ syncing THEN With(relays, t, p) ELSE relays
    /\ requests' = Without(requests, t, p)
    /\ UNCHANGED <<setting, conn, pongs, synced, counts, sync, chain, asked, checked,
                   outcome, spread, removed>>

\* _peerHasTx: p announces a transaction that is not new to it.
HasTx(p, t) ==
    /\ conn[p] = "on" /\ t \in spread \ confirmed
    /\ list' = Kept(t) /\ told' = Answer(told, t, "ok")
    /\ IF wallet[t] # None \/ t \in Listed
       THEN /\ wallet' = [wallet EXCEPT ![t] = IF @ = None THEN list[t].obj ELSE @]
            /\ relays' = IF t \in Listed \/ ~ syncing THEN With(relays, t, p) ELSE relays
            /\ requests' = Without(requests, t, p)
       ELSE UNCHANGED <<wallet, relays, requests>>
    /\ UNCHANGED <<setting, conn, pongs, synced, counts, sync, chain, asked, checked,
                   outcome, freed, spread, removed>>

\* _peerRequestedTx: one that is no longer valid leaves the list.
RequestedValid_Unregistered(p, t) ==
    /\ list' = Kept(t) /\ told' = Answer(told, t, "ok")
    /\ relays' = With(relays, t, p) /\ spread' = spread \cup {t} /\ UNCHANGED <<wallet, freed>>
RequestedValid_Unanswered(p, t) ==
    /\ wallet' = [wallet EXCEPT ![t] = IF @ = None THEN list[t].obj ELSE @]
    /\ relays' = With(relays, t, p) /\ spread' = spread \cup {t}
    /\ UNCHANGED <<list, told, freed>>
RequestedValid(p, t) ==
    /\ list' = Kept(t) /\ told' = Answer(told, t, "ok")
    /\ wallet' = [wallet EXCEPT ![t] = IF @ = None THEN list[t].obj ELSE @]
    /\ relays' = With(relays, t, p) /\ spread' = spread \cup {t} /\ UNCHANGED freed
RequestedInvalid_Freed(p, t) ==
    /\ list' = [list EXCEPT ![t] = NoEntry] /\ told' = Answer(told, t, "failed")
    /\ freed' = freed \cup {<<t, list[t].obj>>}
    /\ UNCHANGED <<wallet, relays, spread>>
RequestedInvalid(p, t) ==
    /\ list' = [list EXCEPT ![t] = NoEntry] /\ told' = Answer(told, t, "failed")
    /\ freed' = IF wallet[t] = None THEN freed \cup {<<t, list[t].obj>>} ELSE freed
    /\ spread' = IF wallet[t] = None THEN spread ELSE spread \cup {t}
    /\ UNCHANGED <<wallet, relays>>
RequestedTx(p, t) ==
    /\ conn[p] = "on" /\ t \in Listed
    /\ IF IsValid(t) THEN RequestedValid(p, t) ELSE RequestedInvalid(p, t)
    /\ UNCHANGED <<setting, conn, pongs, synced, counts, sync, chain, asked, checked,
                   outcome, requests, removed>>

\* _peerDataNotfound
DataNotfound(p, t) ==
    /\ conn[p] = "on" /\ p \in relays[t] \cup requests[t]
    /\ relays' = Without(relays, t, p) /\ requests' = Without(requests, t, p)
    /\ UNCHANGED <<link, counts, sync, chain, calls, outcome, list, wallet, freed, spread,
                   removed>>

\* _peerRejectedTx
RejectedTx(p, t) ==
    /\ conn[p] = "on" /\ p \in relays[t] \cup requests[t]
    /\ relays' = IF wallet[t] # None THEN Without(relays, t, p) ELSE relays
    /\ requests' = Without(requests, t, p)
    /\ UNCHANGED <<link, counts, sync, chain, calls, outcome, list, wallet, freed, spread,
                   removed>>

\* _BR_PeerManagerUpdateTx, for a transaction found in a block.
Confirm(t) ==
    /\ Connected # {} /\ t \in spread \ (confirmed \cup spent)
    /\ wallet[t] # None \/ t \in Listed
    /\ \A i \in Inputs[t] : i \in confirmed
    /\ confirmed' = confirmed \cup {t}
    /\ list' = [list EXCEPT ![t] = NoEntry] /\ relays' = [relays EXCEPT ![t] = {}]
    /\ freed' = IF t \in Listed /\ wallet[t] = None THEN freed \cup {<<t, list[t].obj>>} ELSE freed
    /\ UNCHANGED <<link, counts, sync, spent, calls, outcome, requests, wallet, spread,
                   removed>>

\* The wallet learns of another transaction that spends the same outputs.
Contradict(t) ==
    /\ Connected # {} /\ t \notin confirmed \cup spent
    /\ wallet[t] # None \/ t \in Listed \cup checked
    /\ spent' = spent \cup {t}
    /\ events < MaxEvents /\ events' = events + 1
    /\ UNCHANGED <<link, links, sync, confirmed, calls, outcome, relays, requests, list,
                   wallet, freed, spread, removed>>

-----------------------------------------------------------------------------
(* BR_PeerManagerPublishTx, of a new transaction                            *)

IsNew(t) ==
    /\ t \in setting.sent \ (asked \cup spread \cup spent)
    /\ \A i \in Inputs[t] : wallet[i] # None
    /\ IsValid(t)

\* It is listed, and offered to the peers but the download peer, or to the only one.
Enter(t) ==
    LET ls == ListedWith(list, wallet, t, [obj |-> Own, waits |-> TRUE])
        ps == IF Cardinality(Connected) = 1 THEN Connected ELSE Connected \ {download}
    IN  /\ list' = ls /\ pongs' = Ping(pongs, ps, "inv")
        /\ excuse' = CASE IsAlone -> Excused({t}, "alone")
                       [] IsAtMaximum -> Excused({t}, "maximum")
                       [] OTHER -> excuse

PublishTx(t) ==
    /\ IsNew(t) /\ download # None
    /\ asked' = asked \cup {t} /\ Enter(t)
    /\ UNCHANGED <<setting, conn, synced, counts, sync, chain, checked, told, due,
                   relays, requests, wallet, freed, spread, removed>>

\* Not connected: too many failures, or the network cannot be reached.
PublishRefused(t) ==
    /\ IsNew(t) /\ download = None
    /\ asked' = asked \cup {t} /\ freed' = freed \cup {<<t, Own>>}
    /\ told' = [told EXCEPT ![t] = Append(@, "failed")]
    /\ UNCHANGED <<link, counts, sync, chain, checked, outcome, relays, requests, list,
                   wallet, spread, removed>>

\* Not connected, but there is hope: the lock is released and taken again.
PublishChecked(t) ==
    /\ IsNew(t) /\ download = None /\ failures < MaxFailures
    /\ asked' = asked \cup {t} /\ checked' = checked \cup {t}
    /\ UNCHANGED <<link, counts, sync, chain, told, outcome, relays, requests, list,
                   wallet, freed, spread, removed>>
PublishAfterCheck(t) ==
    /\ t \in checked /\ checked' = checked \ {t} /\ Enter(t)
    /\ UNCHANGED <<setting, conn, synced, counts, sync, chain, asked, told, due,
                   relays, requests, wallet, freed, spread, removed>>

-----------------------------------------------------------------------------

Messages ==
    \E p \in Peers, t \in Tx :
        \/ RelayedTx(p, t) \/ HasTx(p, t) \/ RequestedTx(p, t)
        \/ DataNotfound(p, t) \/ RejectedTx(p, t)
Pings ==
    \E p \in Peers, success \in BOOLEAN :
        \/ PublishTxInvDone(p, success) \/ LoadBloomFilterDone(p, success)
        \/ MempoolDone(p, success) \/ RequestUnrelayedTxGetdataDone(p, success)
Links ==
    \/ \E ps \in SUBSET Peers : Connect(ps)
    \/ \E last \in BOOLEAN : RelayedBlock(last)
    \/ Disconnect
    \/ \E p \in Peers :
        \/ ConnectedIdle(p) \/ ConnectedBeside(p) \/ Disconnected(p)
        \/ \E best \in Peers, late \in BOOLEAN : ConnectedFirst(p, best, late)
        \/ \E end \in Ends : Close(p, end)
Publishing ==
    \E t \in Tx : \/ PublishTx(t) \/ PublishRefused(t) \/ PublishChecked(t)
                  \/ PublishAfterCheck(t) \/ Confirm(t) \/ Contradict(t)

Next == MayGoOn /\ (Messages \/ Pings \/ Links \/ Publishing)

Spec == Init /\ [][Next]_vars

-----------------------------------------------------------------------------

\* The state has its shape.
TypeOK ==
    /\ setting \in Settings
    /\ conn \in [Peers -> {"off", "connecting", "on"} \cup Ends]
    /\ synced \subseteq Peers /\ download \in Peers \cup {None}
    /\ pongs \in [Peers -> Seq({"inv", "filter", "mempool", "getdata"})]
    /\ links \in 0 .. MaxLinks /\ events \in 0 .. MaxEvents
    /\ {behind, syncing, due} \subseteq BOOLEAN /\ failures \in 0 .. MaxFailures + 1
    /\ relays \in [Tx -> SUBSET Peers] /\ requests \in [Tx -> SUBSET Peers]
    /\ list \in [Tx -> [obj : {None, Own, Copy}, waits : BOOLEAN]]
    /\ wallet \in [Tx -> {None, Own, Copy}] /\ freed \subseteq Tx \X {Own, Copy}
    /\ {confirmed, spent, spread, checked, asked, removed} \subseteq SUBSET Tx
    /\ excuse \in [Tx -> {None, "alone", "maximum", "unfound"}]
    /\ told \in [Tx -> Seq({"ok", "failed"})]

\* The callback of PublishTx is called once at most, whatever messages, timeouts
\* and disconnections race with each other, and until then it is not lost: the
\* call is on its way to the list, or the list holds the callback.
ToldOnce ==
    \A t \in asked : Len(told[t]) + (IF t \in checked \cup Waiting THEN 1 ELSE 0) = 1

\* A failure that was reported is one: no peer has been given the transaction and
\* the wallet does not hold it, so that paying again does not pay twice.
FailedIsFinal == \A t \in asked : told[t] = <<"failed">> => t \notin spread /\ wallet[t] = None

\* A success that was reported is in the wallet, unless it was removed later.
PublishedInWallet == \A t \in asked : told[t] = <<"ok">> => wallet[t] # None \/ t \in removed

\* The peers that count as relaying a transaction are connected (the comment at
\* BR_PeerManagerRelayCount), so that the count shown for it goes down with them.
RelaysConnected == \A t \in Tx : relays[t] \subseteq InUse

\* The wallet holds no object that was freed; and the list holds one only of a
\* transaction that has been removed because no peer had it: such an entry the code
\* does leave behind.
NotFreed ==
    /\ \A t \in Tx : <<t, wallet[t]>> \notin freed
    /\ \A t \in Listed \ removed : <<t, list[t].obj>> \notin freed

\* Together: the state has its shape, and what the wallet and the list point to
\* is there, but for an entry of the list whose transaction has been removed
\* (PublishTx, peerRequestedTx, requestUnrelayedTxGetdataDone).
ObjectsOK == TypeOK /\ NotFreed

\* A callback is left waiting, with no connection and no attempt at one, in three
\* cases only: its transaction was listed when there was neither ("alone"); it was
\* listed, or the user disconnected, when the failures were at the maximum with
\* peers in use but no download peer, so that one more failure passes the test for
\* exactly the maximum ("maximum"); or an attempt to connect found no peer, which
\* reports that the sync has stopped and calls no callback ("unfound").  From then on
\* until there is a peer again (Connect), or a download peer.
StillTrying == (\E t \in Waiting : excuse[t] = None) => InUse # {} \/ due
=============================================================================
