---------------------------- MODULE ChainDownload ----------------------------
(***************************************************************************)
(* How the block chain is downloaded: BR_Peer.c, which talks to a node, and *)
(* the part of BR_PeerManager.c that keeps the Bloom filter the node looks  *)
(* for the wallet's transactions with.                                      *)
(*                                                                         *)
(* The node sends a block with those of its transactions that its filter    *)
(* matches.  The filter holds the wallet's addresses and some spare ones; a *)
(* transaction that uses up the spare ones makes the app load a new filter, *)
(* throw the blocks on their way away and ask for them again.  Messages     *)
(* arrive in the order they were sent in, so that a pong says that all that *)
(* was asked for before the ping has arrived.                               *)
(*                                                                         *)
(* The node is honest and has one chain, a block being its height; forks    *)
(* and verification are in BlockChain.  Each block holds one payment to the *)
(* wallet at most, which the block stands for too.  Addresses are numbers,  *)
(* in the order of their derivation.  The handshake, false positives but    *)
(* for the updates they cause, mempool requests (the node may announce an   *)
(* unconfirmed payment any time) and other peers are left out.              *)
(***************************************************************************)
EXTENDS Integers, Sequences, SequencesExt, FiniteSetsExt

CONSTANTS
    MaxTop,     \* height of the last block that is mined
    Tops,       \* heights of the node's chain at first
    Pays,       \* the number of the address each block pays to, 0 for none
    Gap,        \* addresses the wallet looks ahead (SEQUENCE_GAP_LIMIT_EXTERNAL)
    Spare,      \* those the filter holds on top of them (100)
    Batch,      \* block hashes in an inv message (500)
    HeaderBatch,\* headers in a headers message (2000)
    Switch,     \* first block a week and two hours before earliestKeyTime, or later
    Key,        \* first block a week before it, or later
    Ignored,    \* first block a week before it and two hours later, or later
    Recent,     \* first block that is less than a week old
    MaxLosses,  \* bound on connections that are lost
    MaxUpdates  \* bound on filters that degrade

None == 0
Block == 1 .. MaxTop
Highest(hs) == Max(hs \cup {0})
Paid(hs) == Highest({Pays[h] : h \in hs})

ASSUME BoundAssumption ==
    /\ {MaxTop, MaxLosses, MaxUpdates} \subseteq Nat /\ Tops \subseteq Block
    /\ {Switch, Key, Ignored, Recent} \subseteq Nat
    /\ {Gap, Spare, Batch, HeaderBatch} \subseteq Nat \ {0}
\* No block pays to an address further ahead than the wallet looks, and none pays
\* before the key time; no two hours pass
\* without a block, and more than a batch of them is mined in a week.
ASSUME PaysAssumption ==
    /\ Pays \in [Block -> Nat]
    /\ \A h \in Block : Pays[h] <= Paid(1 .. h - 1) + Gap
    /\ Switch <= Key /\ Key < Ignored /\ Ignored <= Recent
    /\ \A h \in Block : Pays[h] > 0 => h >= Ignored
    /\ \A t \in Tops : Key + Batch <= t

VARIABLES
    top,        \* of the node's chain
    looks,      \* the last address of the node's filter
    continue,   \* the block after whose sending the node announces its last one
    toApp,      \* messages on their way to the app
    on,         \* the app is connected
    announced,  \* lastblock, the height in the node's version message
    knownTx,    \* knownTxHashes
    single,     \* lastBlockHash
    current,    \* currentBlock, which waits for its transaction
    app,        \* the manager's state, and what the peer's functions share with it
    losses, updates, \* counters for the bounds
    dropped     \* history: the node was taken for one that breaks the protocol

peer == <<on, announced, knownTx, single, current>>
node == <<top, looks, continue>>
counts == <<losses, updates>>
vars == <<node, peer, toApp, app, counts, dropped>>

\* The fields of app.
Manager ==
    [last : {0} \cup Block,       \* lastBlock
     estimated : {0} \cup Block,  \* estimatedHeight
     orphans : SUBSET Block, lastOrphan : {None} \cup Block,
     filter : Nat,                \* bloomFilter: its last address, or None
     updating : BOOLEAN,          \* PEER_FLAG_NEEDSUPDATE and needsFilterUpdate
     known : Seq(Block),          \* knownBlockHashes
     pongs : Seq({"update", "load", "rerequest"}),  \* callbacks of the pings
     wallet : SUBSET Block, confirmed : SUBSET Block,
     toNode : Seq([m : {"getblocks", "getheaders", "getdata", "gettx", "filter", "ping"},
                   a : Seq(Nat)])]

Msg(m, a) == [m |-> m, a |-> a]
Send(s, m, a) == [s EXCEPT !.toNode = Append(@, Msg(m, a))]
Ping(s, done) == [Send(s, "ping", <<>>) EXCEPT !.pongs = Append(@, done)]
Heights(a, b) == [i \in 1 .. (IF a <= b THEN b - a + 1 ELSE 0) |-> a + i - 1]

-----------------------------------------------------------------------------
(* The manager: how its state s changes                                     *)

LoadBloomFilter_KeepsOrphans(s) ==
    LET f == Paid(s.wallet) + Gap + Spare IN [Send(s, "filter", <<f>>) EXCEPT !.filter = f]
LoadBloomFilter(s) ==
    LET f == Paid(s.wallet) + Gap + Spare
    IN  [Send(s, "filter", <<f>>) EXCEPT !.filter = f, !.orphans = {}, !.lastOrphan = None]

UpdateFilter(s) == IF s.updating THEN s ELSE [Ping(s, "update") EXCEPT !.updating = TRUE]

\* _updateFilterPingDone, _updateFilterLoadDone and _updateFilterRerequestDone
UpdateFilterPingDone(s) == Ping(LoadBloomFilter(s), "load")

\* BR_PeerRerequestBlocks: the blocks from the last mention of the last one on.
RerequestBlocks(s) ==
    LET i == SelectLastInSeq(s.known, LAMBDA h : h = s.last)
        from == SubSeq(s.known, i, Len(s.known))
    IN  IF i = 0 THEN s ELSE [Send(s, "getdata", from) EXCEPT !.known = from]

UpdateFilterLoadDone_KeepsFlag(s) ==
    IF s.last < s.estimated THEN Ping(RerequestBlocks(s), "rerequest") ELSE s
UpdateFilterLoadDone(s) ==
    LET t == [s EXCEPT !.updating = FALSE]
    IN  IF s.last < s.estimated THEN Ping(RerequestBlocks(t), "rerequest") ELSE t

UpdateFilterRerequestDone_Never(s) == s
UpdateFilterRerequestDone(s) == IF s.updating THEN s ELSE Send(s, "getblocks", <<s.last>>)

\* _peerRelayedTx
RelayedTx(s, t) ==
    LET r == [s EXCEPT !.wallet = @ \cup {t}]
    IN  IF s.filter = None \/ s.filter >= Paid(r.wallet) + Gap THEN r
        ELSE UpdateFilter([r EXCEPT !.filter = None])

\* _peerRelayedBlock, for the block h above all that are stored.
Orphan(s, h) ==
    LET asks == s.last >= announced /\ (s.lastOrphan = None \/ s.lastOrphan # h - 1)
        t == IF asks THEN Send(s, "getblocks", <<s.last>>) ELSE s
    IN  IF h < Recent THEN s ELSE [t EXCEPT !.orphans = @ \cup {h}, !.lastOrphan = h]

\* The next block, and the orphans that wait for it, one after the other.
Extend(s, h) ==
    LET end == Max({k \in h .. MaxTop : (h + 1) .. k \subseteq s.orphans})
    IN  [s EXCEPT !.last = end, !.estimated = Max({@, end}), !.orphans = @ \ (h .. end),
                  !.confirmed = @ \cup ((h .. end) \cap s.wallet)]

RelayedBlock(s, h) ==
    CASE s.filter = None -> s
      [] s.filter # None /\ h > s.last + 1 -> Orphan(s, h)
      [] s.filter # None /\ h = s.last + 1 -> Extend(s, h)
      [] OTHER -> [s EXCEPT !.confirmed = @ \cup ({h} \cap s.wallet)]

\* Headers hs, one after the other; those that are too new are left out, and the
\* others are no orphans to keep.
RelayedHeaders(s, hs) ==
    LET kept == {h \in ToSet(hs) : h < Ignored}
    IN  IF s.filter = None \/ s.last + 1 \notin kept THEN s
        ELSE Extend(s, Max(kept))

-----------------------------------------------------------------------------
(* The connection                                                           *)

Init ==
    /\ top \in Tops
    /\ app = [last |-> 0, estimated |-> 0, orphans |-> {}, lastOrphan |-> None, filter |-> None,
              updating |-> FALSE, known |-> <<>>, pongs |-> <<>>, wallet |-> {}, confirmed |-> {},
              toNode |-> <<>>]
    /\ looks = None /\ continue = None /\ toApp = <<>>
    /\ on = FALSE /\ announced = 0 /\ knownTx = {} /\ single = None /\ current = None
    /\ losses = 0 /\ updates = 0 /\ dropped = FALSE

\* _peerConnected, for the download peer: block headers up to the week before
\* the key time, blocks after that.
Connect ==
    /\ ~ on
    /\ LET s == LoadBloomFilter([app EXCEPT !.estimated = top])
           ask == IF app.last >= Key THEN "getblocks" ELSE "getheaders"
       IN  app' = IF app.last < top THEN Send(s, ask, <<app.last>>) ELSE s
    /\ on' = TRUE /\ announced' = top
    /\ UNCHANGED <<node, toApp, knownTx, single, current, counts, dropped>>

\* What the connection held is gone, with the callbacks of its pings.
Close ==
    /\ on' = FALSE /\ toApp' = <<>> /\ looks' = None /\ continue' = None
    /\ knownTx' = {} /\ single' = None /\ current' = None
    /\ app' = [app EXCEPT !.updating = FALSE, !.known = <<>>, !.pongs = <<>>, !.toNode = <<>>]
    /\ UNCHANGED <<top, announced, updates>>

Lose == on /\ losses < MaxLosses /\ Close /\ losses' = losses + 1 /\ UNCHANGED dropped

InFlight == toApp # <<>> \/ app.toNode # <<>>

\* PROTOCOL_TIMEOUT, scheduled anew with each block and transaction of a sync.
TimeOut == on /\ ~ InFlight /\ app.last < app.estimated /\ Close /\ UNCHANGED <<losses, dropped>>

Misbehaves == Close /\ dropped' = TRUE /\ UNCHANGED losses

-----------------------------------------------------------------------------
(* Messages that arrive at the app                                          *)

Gets(m) == toApp # <<>> /\ Head(toApp).m = m
Arg == Head(toApp).a
Taken == toApp' = Tail(toApp) /\ UNCHANGED <<node, on, announced, losses, dropped>>

TooFew(hs) ==
    /\ app.last > 0 /\ Len(hs) > 2 /\ Len(hs) < Batch
    /\ app.last + Len(app.known) + Len(hs) < announced

RequestBlocks(s, hs) ==
    LET t == Send(s, "getdata", hs)
    IN  IF Len(hs) >= Batch THEN Send(t, "getblocks", <<Last(hs)>>) ELSE t

\* An inv message with blocks.
AcceptInv ==
    /\ Gets("inv")
    /\ IF TooFew(Arg) THEN Misbehaves
       ELSE /\ Taken
            /\ LET again == Arg = <<single>>
                   s == [app EXCEPT !.known = @ \o Arg]
               IN  app' = IF again THEN app ELSE IF app.updating THEN s ELSE RequestBlocks(s, Arg)
            /\ single' = IF Len(Arg) = 1 THEN Arg[1] ELSE single
            /\ UNCHANGED <<knownTx, current, updates>>

\* An inv message with a transaction.
AcceptInvTx ==
    /\ Gets("invtx") /\ Taken
    /\ app' = IF Arg[1] \in knownTx THEN app ELSE Send(app, "gettx", Arg)
    /\ knownTx' = knownTx \cup {Arg[1]}
    /\ UNCHANGED <<single, current, updates>>

HeadersExpected_TooFew == Arg # <<>> /\ (Len(Arg) > HeaderBatch \/ Last(Arg) >= Switch)
HeadersExpected == Arg # <<>> /\ (Len(Arg) >= HeaderBatch \/ Last(Arg) >= Switch)

\* The header that blocks are asked for after: the one before the first, but for
\* the very first, that is recent enough.
SwitchAt(hs) ==
    hs[Min({i \in 1 .. Len(hs) : i = Len(hs) \/ hs[i + 1] >= Switch})]

AcceptHeaders ==
    /\ Gets("headers")
    /\ IF HeadersExpected
       THEN /\ Taken
            /\ LET s == IF Last(Arg) >= Switch THEN Send(app, "getblocks", <<SwitchAt(Arg)>>)
                        ELSE Send(app, "getheaders", <<Last(Arg)>>)
               IN  app' = RelayedHeaders(s, Arg)
            /\ UNCHANGED <<knownTx, single, current, updates>>
       ELSE Misbehaves

\* The filter may degrade, while there is much left to download.
Relay(s, h) ==
    \/ app' = RelayedBlock(s, h) /\ UNCHANGED updates
    \/ /\ updates < MaxUpdates /\ s.last + Batch < announced
       /\ app' = RelayedBlock(UpdateFilter(s), h) /\ updates' = updates + 1

\* The message names the block, and a second time when it lists its payment.
AcceptMerkleblock ==
    /\ Gets("merkleblock") /\ Taken
    /\ IF Len(Arg) = 2 /\ Arg[1] \notin knownTx
       THEN current' = Arg[1] /\ UNCHANGED <<app, updates>>
       ELSE Relay(app, Arg[1]) /\ UNCHANGED current
    /\ UNCHANGED <<knownTx, single>>

AcceptTx ==
    /\ Gets("tx") /\ Taken
    /\ \E s \in {RelayedTx(app, Arg[1])} :
         IF current = Arg[1] THEN Relay(s, current) /\ current' = None
         ELSE app' = s /\ UNCHANGED <<current, updates>>
    /\ UNCHANGED <<knownTx, single>>

AcceptPong ==
    /\ Gets("pong") /\ Taken
    /\ LET s == [app EXCEPT !.pongs = Tail(@)]
       IN  app' = CASE Head(app.pongs) = "update" -> UpdateFilterPingDone(s)
                    [] Head(app.pongs) = "load" -> UpdateFilterLoadDone(s)
                    [] Head(app.pongs) = "rerequest" -> UpdateFilterRerequestDone(s)
    /\ UNCHANGED <<knownTx, single, current, updates>>

-----------------------------------------------------------------------------
(* The node                                                                 *)

Inv(hs) == IF hs = <<>> THEN <<>> ELSE <<Msg("inv", hs)>>
Sends(h, f) ==
    IF Pays[h] \in 1 .. f THEN <<Msg("merkleblock", <<h, h>>), Msg("tx", <<h>>)>>
    ELSE <<Msg("merkleblock", <<h>>)>>

\* What the node answers; after the last of a batch of blocks comes an inv message
\* with its last block.
Reply(m, a, more) ==
    CASE m = "getblocks" -> Inv(Heights(a[1] + 1, Min({top, a[1] + Batch})))
      [] m = "getheaders" -> <<Msg("headers", Heights(a[1] + 1, Min({top, a[1] + HeaderBatch})))>>
      [] m = "getdata" -> FlattenSeq([i \in DOMAIN a |-> Sends(a[i], looks)])
                          \o (IF more THEN Inv(<<top>>) ELSE <<>>)
      [] m = "gettx" -> <<Msg("tx", a)>>
      [] m = "filter" -> <<>>
      [] m = "ping" -> <<Msg("pong", <<>>)>>

NodeAnswers ==
    /\ app.toNode # <<>> /\ app' = [app EXCEPT !.toNode = Tail(@)]
    /\ LET m == Head(app.toNode).m
           a == Head(app.toNode).a
           full == m = "getblocks" /\ top - a[1] >= Batch
           more == m = "getdata" /\ continue \in ToSet(a)
       IN  /\ toApp' = toApp \o Reply(m, a, more)
           /\ looks' = IF m = "filter" THEN a[1] ELSE looks
           /\ continue' = IF full THEN a[1] + Batch ELSE IF more THEN None ELSE continue
    /\ UNCHANGED <<top, peer, counts, dropped>>

Mine ==
    /\ top < MaxTop /\ top' = top + 1
    /\ toApp' = IF on THEN Append(toApp, Msg("inv", <<top + 1>>)) ELSE toApp
    /\ UNCHANGED <<looks, continue, peer, app, counts, dropped>>

\* The payment of the block that is mined next.
AnnounceTx ==
    /\ on /\ top < MaxTop /\ Pays[top + 1] \in 1 .. looks
    /\ Msg("invtx", <<top + 1>>) \notin ToSet(toApp) /\ top + 1 \notin knownTx
    /\ toApp' = Append(toApp, Msg("invtx", <<top + 1>>))
    /\ UNCHANGED <<node, peer, app, counts, dropped>>

-----------------------------------------------------------------------------
\* Only currentBlock's transaction may follow it.
Incomplete == current # None /\ ~ Gets("tx")
Accept ==
    /\ toApp # <<>>
    /\ IF Incomplete THEN Misbehaves
       ELSE \/ AcceptInv \/ AcceptInvTx \/ AcceptHeaders
            \/ AcceptMerkleblock \/ AcceptTx \/ AcceptPong
Next == Connect \/ Lose \/ TimeOut \/ Accept \/ NodeAnswers \/ Mine \/ AnnounceTx

\* The app and an honest node go on; connections are lost and blocks are mined or
\* not.
Spec == Init /\ [][Next]_vars
             /\ WF_vars(Connect) /\ WF_vars(TimeOut) /\ WF_vars(Accept) /\ WF_vars(NodeAnswers)

-----------------------------------------------------------------------------
(* Properties                                                               *)

TypeOK ==
    /\ top \in Block /\ {looks, continue, announced, single, current} \subseteq Nat
    /\ app \in Manager /\ knownTx \subseteq Block /\ on \in BOOLEAN
    /\ losses \in 0 .. MaxLosses /\ updates \in 0 .. MaxUpdates

\* The wallet knows and has confirmed each payment of the blocks the app has: no
\* block that a filter made before its address was derived let pass without its
\* payment becomes part of the chain, however blocks, filters and pongs overlap
\* (BR_PeerManager.c:1270).
NothingMissed ==
    \A h \in 1 .. app.last : Pays[h] > 0 => h \in app.wallet /\ h \in app.confirmed

\* While there is no filter, the pong after which one is loaded is on its way:
\* the app does not ignore blocks for ever (BR_PeerManager.c:1054).
FilterComes == on /\ app.filter = None => "update" \in ToSet(app.pongs)

\* Together: the state has its shape, and an app without a filter gets one
\* (updateFilter and its pongs).
FilterOK == TypeOK /\ FilterComes

\* What an honest node answers is not taken for a breach of the protocol: its headers
\* come in full batches or reach the block from which blocks are downloaded, also
\* after a connection that was lost half way, and a block's transaction comes next
\* (BR_Peer.c:461, 813).
AnswersAccepted ==
    /\ Gets("headers") => HeadersExpected
    /\ toApp # <<>> => ~ Incomplete

\* A download that is not complete always waits for an answer, however updates of
\* the filter interrupt it, except after an inv message whose only block was
\* announced before and is not taken a second time (BR_Peer.c:353, 379,
\* BR_PeerManager.c:406-452).
NoStall == on /\ app.last < app.estimated => InFlight \/ single > app.last

\* In the end the app has the chain its node had when it connected: no filter
\* update, announcement or lost connection makes the download start again and
\* again without an end (BR_PeerManager.c:848-860, BR_Peer.c:475-487).
Synced == <>[](on /\ app.last >= announced)

-----------------------------------------------------------------------------
(* What a comment of the source says.                                       *)

\* The hashes are asked for again and again "until an inv with fewer than 500 block
\* hashes is received", and then the app "sends just getdata for the final set"
\* (BR_Peer.c:82-83): it takes no honest node for one that breaks the protocol.
HonestKept == ~ dropped

=============================================================================
