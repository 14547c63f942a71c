----------------------------- MODULE BlockChain -----------------------------
(***************************************************************************)
(* The block chain of BR_PeerManager.c: the blocks it stores, the last one  *)
(* of the chain it believes in, orphans, forks and reorganisations, the     *)
(* blocks it throws away to save memory and those it saves for the next     *)
(* start, and the heights it gives to the wallet's transactions.            *)
(*                                                                         *)
(* A block is relayed by one peer at a time under manager->lock, but after  *)
(* it the lock is let go before the next one, which was waiting as an       *)
(* orphan, is handled by the same thread: other peers come in between.      *)
(*                                                                         *)
(* Blocks are names in a tree.  Headers without transactions, which come    *)
(* before the wallet's first key, and the bookkeeping of the Bloom filter's *)
(* false positives are left out.                                            *)
(***************************************************************************)
EXTENDS Integers, FiniteSets

CONSTANTS
    Block,        \* the blocks peers may relay, and the checkpoints
    Prev,         \* the block before each, None for the first one
    Height,       \* the height of each
    TxOf,         \* the wallet's transactions in each
    Tx,
    Unconfirmed,  \* TX_UNCONFIRMED, a height above all others
    Registered,   \* the orders in which the wallet may have come to list Tx
    Bad,          \* blocks with an invalid difficulty target
    Old,          \* blocks a week old
    Checkpoints,  \* those of checkpoint_array
    Start,        \* the last checkpoint before earliestKeyTime
    Interval,     \* BLOCK_DIFFICULTY_INTERVAL
    Peers,
    Announced,    \* the heights peers announce when they connect
    MaxEvents     \* bound on rescans, restarts and updates of the filter together

None == "none"

ASSUME BlockAssumption ==
    /\ IsFiniteSet(Block) /\ None \notin Block
    /\ Prev \in [Block -> Block \cup {None}] /\ Height \in [Block -> Nat]
    /\ \A b \in Block : Prev[b] # None => Height[b] = Height[Prev[b]] + 1
    /\ IsFiniteSet(Tx) /\ TxOf \in [Block -> SUBSET Tx]
    /\ Registered \subseteq {o \in [Tx -> Nat] : \A t, u \in Tx : o[t] = o[u] => t = u}
    /\ Unconfirmed \in Nat /\ \A b \in Block : Height[b] < Unconfirmed
    /\ Bad \subseteq Block /\ Old \subseteq Block
ASSUME CheckpointAssumption ==
    /\ Checkpoints \subseteq Block /\ Start \in Checkpoints /\ Interval \in Nat \ {0, 1}
    /\ \A c \in Checkpoints : Height[c] % Interval = 0 /\ TxOf[c] = {} /\ c \notin Bad
ASSUME BoundAssumption == MaxEvents \in Nat /\ Announced \subseteq Nat \ {0}

VARIABLES
    blocks,      \* manager->blocks
    stub,        \* those of them that are known from checkpoint_array only
    last,        \* manager->lastBlock
    orphans,     \* manager->orphans: no two with the same previous block
    hand,        \* the orphan whose turn it is, in each peer's thread
    filter,      \* whether manager->bloomFilter is there
    estimated,   \* manager->estimatedHeight
    height,      \* the wallet's height of each transaction
    index,       \* the place of each in wallet->transactions
    saved,       \* the blocks in the database
    refused,     \* history: the blocks judged invalid
    lost,        \* a walk through the blocks has ended before it should
    rescans, restarts, filters

vars == <<blocks, stub, last, orphans, hand, filter, estimated, height, index, saved,
          refused, lost, rescans, restarts, filters>>

-----------------------------------------------------------------------------
(* Walks through manager->blocks                                            *)

\* The block before b, if it is in bs; what is below a checkpoint is not known.
Parent(bs, b) == IF b \in stub \/ Prev[b] \notin bs THEN None ELSE Prev[b]

\* The blocks from b on, each followed by the next.
Chain(next, b) ==
    LET chain[x \in Block] == {x} \cup IF next[x] = None THEN {} ELSE chain[next[x]]
    IN  chain[b]

\* The blocks of bs from b downwards.
Line(bs, b) == Chain([x \in Block |-> Parent(bs, x)], b)

\* The block n steps below b, None if the line ends before.
Back(b, n) ==
    LET at == {x \in Line(blocks, b) : Height[x] = Height[b] - n}
    IN  IF at = {} THEN None ELSE CHOOSE x \in at : TRUE

\* Where the lines of b and c join, walking down that of b and, once lower, that
\* of c; None if one of them ends first.
Join_OneSide(bs, b, c) ==
    LET join[x \in Block \cup {None}] == IF x = None \/ x = c THEN x ELSE join[Parent(bs, x)]
    IN  join[b]
Join(bs, b, c) ==
    LET join[x, y \in Block \cup {None}] ==
            IF x = None \/ y = None THEN None
            ELSE IF x = y THEN x
            ELSE LET p == Parent(bs, x)
                 IN  join[p, IF p # None /\ Height[p] < Height[y] THEN Parent(bs, y) ELSE y]
    IN  join[b, c]

-----------------------------------------------------------------------------
(* What handling a block does, part by part                                 *)

\* _BR_PeerManagerVerifyBlock: a transition needs the block of the one before.
IsTransition(b) == Height[b] % Interval = 0
Transition_BelowIt(b) == Back(Prev[b], Interval)
Transition(b) == Back(Prev[b], Interval - 1)
IsValid(b) ==
    /\ IsTransition(b) => Transition(b) # None
    /\ b \notin Bad
    /\ \A c \in Checkpoints : Height[c] = Height[b] => c = b

\* The blocks it frees below that one, whatever it thinks of the block.
Freed(b) ==
    IF IsTransition(b) /\ Transition(b) # None
    THEN {x \in Line(blocks, Transition(b)) : ~ IsTransition(x)} ELSE {}
Remaining(b) == blocks \ Freed(b)

\* The orphans are a set by previous block: a new one replaces another.
Added(os, b) == {o \in os : Prev[o] # Prev[b]} \cup {b}

\* After b, its thread takes the orphan that waits for it.
TakeNext_AtTheEnd(p, b, os) ==
    LET next == IF Height[b] < estimated THEN {} ELSE {o \in os : Prev[o] = b}
    IN  /\ orphans' = os \ next
        /\ hand' = [hand EXCEPT ![p] = IF next = {} THEN None ELSE CHOOSE o \in next : TRUE]
        /\ estimated' = IF Height[b] > estimated THEN Height[b] ELSE estimated
TakeNext(p, b, os) ==
    LET next == {o \in os : Prev[o] = b}
    IN  /\ orphans' = os \ next
        /\ hand' = [hand EXCEPT ![p] = IF next = {} THEN None ELSE CHOOSE o \in next : TRUE]
        /\ estimated' = IF Height[b] > estimated THEN Height[b] ELSE estimated
Drop(p) == hand' = [hand EXCEPT ![p] = None] /\ UNCHANGED <<orphans, estimated>>

\* The blocks to save with b, from a transition upwards; more than one replaces
\* all that were saved before.
Saved(b, line) ==
    LET count == IF Height[b] = estimated THEN (Height[b] % Interval) + Interval + 1
                 ELSE IF IsTransition(b) THEN 1 ELSE 0
        walked == {x \in line : Height[x] > Height[b] - count}
        bs == {x \in walked : \E t \in walked : IsTransition(t) /\ Height[t] <= Height[x]}
    IN  IF Cardinality(bs) > 1 THEN bs ELSE saved \cup bs

Confirmed(hs, b) == [t \in Tx |-> IF t \in TxOf[b] THEN Height[b] ELSE hs[t]]

-----------------------------------------------------------------------------
(* _peerRelayedBlock, branch by branch                                      *)

Init ==
    /\ blocks = Checkpoints /\ stub = Checkpoints /\ last = Start
    /\ orphans = {} /\ hand = [p \in Peers |-> None]
    /\ filter = FALSE /\ estimated = 0 /\ height = [t \in Tx |-> Unconfirmed]
    /\ index \in Registered
    /\ saved = {} /\ refused = {} /\ lost = FALSE
    /\ rescans = 0 /\ restarts = 0 /\ filters = 0

counters == <<rescans, restarts, filters>>
MayHappen == rescans + restarts + filters < MaxEvents

\* A filter update is pending.
Ignore(p, b) ==
    /\ ~ filter /\ Drop(p)
    /\ UNCHANGED <<blocks, stub, last, height, saved, refused, lost>>

Orphan(p, b) ==
    /\ filter /\ Prev[b] \notin blocks
    /\ orphans' = IF b \in Old THEN orphans ELSE Added(orphans, b)
    /\ hand' = [hand EXCEPT ![p] = None]
    /\ UNCHANGED <<blocks, stub, last, estimated, height, saved, refused, lost>>

Refuse(p, b) ==
    /\ filter /\ Prev[b] \in blocks /\ ~ IsValid(b)
    /\ blocks' = Remaining(b) /\ stub' = stub \cap blocks'
    /\ refused' = refused \cup {b} /\ Drop(p)
    /\ UNCHANGED <<last, height, saved, lost>>

IsVerified(b) == filter /\ Prev[b] \in blocks /\ IsValid(b)

Extend(p, b) ==
    /\ IsVerified(b) /\ Prev[b] = last
    /\ blocks' = Remaining(b) \cup {b} /\ stub' = (stub \ {b}) \cap blocks'
    /\ last' = b /\ height' = Confirmed(height, b)
    /\ saved' = Saved(b, {b} \cup Line(Remaining(b), Prev[b]))
    /\ TakeNext(p, b, orphans)
    /\ UNCHANGED <<refused, lost>>

\* A block that is stored already confirms its transactions again if it is in
\* the main chain.
Known(p, b) ==
    /\ IsVerified(b) /\ Prev[b] # last /\ b \in Remaining(b)
    /\ LET main == Line(Remaining(b), last)
           at == {x \in main : Height[x] <= Height[b]}
       IN  /\ lost' = (lost \/ at = {})
           /\ height' = IF b \in main THEN Confirmed(height, b) ELSE height
    /\ blocks' = Remaining(b) /\ stub' = (stub \ {b}) \cap blocks'
    /\ TakeNext(p, b, orphans)
    /\ UNCHANGED <<last, saved, refused>>

IsNew(b) == IsVerified(b) /\ Prev[b] # last /\ b \notin Remaining(b)
IsAhead(b) == Height[last] < estimated /\ Height[b] > Height[last] + 1
IsTooOld(b) == \E c \in Checkpoints : Height[b] <= Height[c]

\* A block mined during a rescan waits until the scan has caught up.  The height
\* the peer announced is taken to be that of the download peer.
Postpone(p, b) ==
    /\ IsNew(b) /\ IsAhead(b)
    /\ blocks' = Remaining(b) /\ stub' = stub \cap blocks'
    /\ TakeNext(p, b, Added(orphans, b))
    /\ UNCHANGED <<last, height, saved, refused, lost>>

IgnoreFork(p, b) ==
    /\ IsNew(b) /\ ~ IsAhead(b) /\ IsTooOld(b)
    /\ blocks' = Remaining(b) /\ stub' = stub \cap blocks' /\ Drop(p)
    /\ UNCHANGED <<last, height, saved, refused, lost>>

IsFork(b) == IsNew(b) /\ ~ IsAhead(b) /\ ~ IsTooOld(b)
IsLonger_ByTwo(b) == Height[b] > Height[last] + 1
IsLonger(b) == Height[b] > Height[last]

Fork(p, b) ==
    /\ IsFork(b) /\ ~ IsLonger(b)
    /\ blocks' = Remaining(b) \cup {b} /\ stub' = stub \cap blocks'
    /\ TakeNext(p, b, orphans)
    /\ UNCHANGED <<last, height, saved, refused, lost>>

\* The transactions from t on in the wallet's list.
From(t) == {u \in Tx : index[u] >= index[t]}

\* BR_WalletSetTxUnconfirmedAfter goes through the list from its end, up to the
\* first transaction that is not above h.
Unconfirm_Below(hs, h) ==
    [t \in Tx |-> IF \A u \in From(t) : hs[u] > h + 1 THEN Unconfirmed ELSE hs[t]]
Unconfirm(hs, h) == [t \in Tx |-> IF \A u \in From(t) : hs[u] > h THEN Unconfirmed ELSE hs[t]]

\* The fork is longer than the chain so far: the transactions above the join
\* are unconfirmed, and those of the fork's blocks get new heights.
Reorganize(p, b) ==
    /\ IsFork(b) /\ IsLonger(b)
    /\ LET join == Join(Remaining(b), Prev[b], last)
           branch == {b} \cup {x \in Line(Remaining(b), Prev[b]) : Height[x] > Height[join]}
           confirms(t) == {x \in branch : t \in TxOf[x]}
           hs == Unconfirm(height, Height[join])
       IN  /\ lost' = (lost \/ join = None)
           /\ height' = IF join = None THEN height
                        ELSE [t \in Tx |-> IF confirms(t) = {} THEN hs[t]
                                           ELSE Height[CHOOSE x \in confirms(t) : TRUE]]
    /\ blocks' = Remaining(b) \cup {b} /\ stub' = stub \cap blocks'
    /\ last' = b
    /\ saved' = IF Height[b] = estimated THEN Saved(b, {b} \cup Line(Remaining(b), Prev[b])) ELSE saved
    /\ TakeNext(p, b, orphans)
    /\ UNCHANGED refused

Handle(p, b) ==
    /\ \/ Ignore(p, b) \/ Orphan(p, b) \/ Refuse(p, b) \/ Extend(p, b) \/ Known(p, b)
       \/ Postpone(p, b) \/ IgnoreFork(p, b) \/ Fork(p, b) \/ Reorganize(p, b)
    /\ UNCHANGED <<filter, index, counters>>

\* A peer relays a block, one of those the manager asked for or a new one: no
\* fork is as long as a difficulty interval.  Or its thread goes on with the
\* orphan it took.
IsRecent(b) == Prev[b] # None /\ Height[b] + Interval > Height[last]
Relay(p, b) == ~ lost /\ hand[p] = None /\ IsRecent(b) /\ Handle(p, b)
RelayNext(p) == ~ lost /\ hand[p] # None /\ Handle(p, hand[p])

-----------------------------------------------------------------------------
(* The rest of the manager                                                  *)

\* _peerConnected: a new download peer.
Connected(top) ==
    /\ ~ lost /\ estimated' = top
    /\ filter' = TRUE /\ orphans' = {}
    /\ UNCHANGED <<blocks, stub, last, hand, height, index, saved, refused, lost, counters>>

\* _updateFilterPingDone: without a peer to load the new one, the filter is
\* gone until the next peer connects.
UpdateFilter(loads) ==
    /\ ~ lost /\ filter /\ MayHappen /\ filters' = filters + 1
    /\ filter' = loads /\ orphans' = IF loads THEN {} ELSE orphans
    /\ UNCHANGED <<blocks, stub, last, hand, estimated, height, index, saved, refused,
                   lost, rescans, restarts>>

Rescan ==
    /\ ~ lost /\ filter /\ MayHappen /\ rescans' = rescans + 1
    /\ last' = Start
    /\ UNCHANGED <<blocks, stub, orphans, hand, filter, estimated, height, index, saved,
                   refused, lost, restarts, filters>>

\* BR_PeerManagerNew with the saved blocks, of which the set keeps one by previous
\* block: up from their last transition.  Those it does not reach stay orphans.
Indexed == {os \in SUBSET saved : \A b \in saved : \E o \in os :
                Prev[o] = Prev[b] /\ \A q \in os : Prev[q] = Prev[b] => q = o}
LastTransitions ==
    LET tops == {b \in saved : IsTransition(b)}
    IN  {b \in tops : \A c \in tops : Height[c] <= Height[b]}
Load(os, kept) ==
    /\ blocks' = Checkpoints \cup kept /\ stub' = Checkpoints \ kept
    /\ last' = IF kept = {} THEN Start
               ELSE CHOOSE b \in kept : \A c \in kept : Height[c] <= Height[b]
    /\ orphans' = {o \in os : \A c \in kept : Prev[o] # Prev[c]}

\* BR_WalletNew inserts the transactions with the heights that were saved, so that
\* the list is in their order again; those of one height are taken to stay as they were.
IsBefore(t, u) == height[t] < height[u] \/ (height[t] = height[u] /\ index[t] < index[u])
Sorted == [t \in Tx |-> Cardinality({u \in Tx : IsBefore(u, t)}) + 1]
Restart ==
    /\ MayHappen /\ restarts' = restarts + 1
    /\ \E os \in Indexed :
         LET above(b) == {c \in os : Prev[c] = b}
             next == [b \in Block |-> IF above(b) = {} THEN None ELSE CHOOSE c \in above(b) : TRUE]
         IN  \/ LastTransitions = {} /\ Load(os, {})
             \/ \E b \in LastTransitions : Load(os, Chain(next, b))
    /\ hand' = [p \in Peers |-> None] /\ filter' = FALSE /\ estimated' = 0
    /\ lost' = FALSE /\ index' = Sorted
    /\ UNCHANGED <<height, saved, refused, rescans, filters>>

Next ==
    \/ \E p \in Peers, b \in Block : Relay(p, b)
    \/ \E p \in Peers : RelayNext(p)
    \/ \E top \in Announced : Connected(top)
    \/ \E loads \in BOOLEAN : UpdateFilter(loads)
    \/ Rescan \/ Restart

Spec == Init /\ [][Next]_vars

-----------------------------------------------------------------------------
(* Properties                                                               *)

\* Every variable has its type, and manager->orphans is indexed by the previous
\* block: the app holds no two orphans of one block.
TypeOK ==
    /\ blocks \subseteq Block /\ stub \subseteq blocks \cap Checkpoints /\ last \in Block
    /\ orphans \subseteq Block /\ \A o, q \in orphans : Prev[o] = Prev[q] => o = q
    /\ hand \in [Peers -> Block \cup {None}]
    /\ filter \in BOOLEAN /\ estimated \in Announced \cup {0} \cup {Height[b] : b \in Block}
    /\ height \in [Tx -> {Height[b] : b \in Block} \cup {Unconfirmed}] /\ index \in [Tx -> Nat]
    /\ saved \subseteq Block /\ refused \subseteq Block /\ lost \in BOOLEAN

\* As long as the user has not asked for a rescan, the last block is stored and
\* no chain that is stored is longer: whatever the order in which the peers relay
\* two branches, restarts in between included, the app ends up on the longer one.
BestChain == rescans = 0 => last \in blocks /\ \A b \in blocks \ stub : Height[b] <= Height[last]

\* The main chain, whether its blocks are still stored or not.
MainChain ==
    LET below[b \in Block \cup {None}] == IF b = None THEN {} ELSE {b} \cup below[Prev[b]]
    IN  below[last]

\* The wallet's heights follow the chain through forks and reorganisations: a
\* transaction has the height of a block of the main chain that holds it, and
\* none if there is no such block; but in front of a transaction with a lower
\* height, where BR_WalletSetTxUnconfirmedAfter does not come, it may keep the height
\* of a block that is gone.  (After a restart the chain begins again below
\* transactions that keep their height, so that this cannot hold.)
HeightsFollowChain ==
    rescans = 0 /\ restarts = 0 => \A t \in Tx :
        LET in == {b \in MainChain : t \in TxOf[b] /\ Height[b] > Height[Start]}
        IN  IF in # {} THEN \E b \in in : height[t] = Height[b]
            ELSE height[t] = Unconfirmed \/ \E u \in From(t) : height[u] < height[t]

\* A block is judged invalid, and the peer that relayed it misbehaving, only when
\* it is: the blocks freed to save memory, and those not loaded after a restart,
\* never include the one that the next difficulty transition is verified with.
NoHonestRefused == refused \subseteq Bad

\* As long as the user has not asked for a rescan, the walk back to where a fork
\* joins the main chain, and the walk to a block of it, end at a block that is
\* still stored: the code follows the pointers they return without a test.
NoNullWalk == rescans = 0 => ~ lost

\* Together: the sets of blocks are those the hash tables can hold, and no walk
\* over them ends in a null pointer (_BR_PeerManagerVerifyBlock).
WalksOK == TypeOK /\ NoNullWalk

\* No block waits as an orphan while the block before it is stored, unless it is
\* the next in the hand of the thread that stored it: a block that came early is
\* not forgotten.
OrphansWait == rescans = 0 /\ filter => \A o \in orphans : Prev[o] \notin blocks

\* The last block is stored, in a rescan too: a block mined during a rescan is
\* only marked as an orphan until the app has caught up.
LastIsStored == last \in blocks
=============================================================================
