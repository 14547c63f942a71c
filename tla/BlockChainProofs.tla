-------------------------- MODULE BlockChainProofs --------------------------
(***************************************************************************)
(* For any tree of blocks, any peers, rescans and restarts, when the chain  *)
(* starts at the highest checkpoint: no stored chain is longer than the one *)
(* the app believes in, and no block waits as an orphan while the one       *)
(* before it is stored.                                                     *)
(***************************************************************************)
EXTENDS BlockChain, TLAPS, FiniteSetTheorems, WellFoundedInduction

-----------------------------------------------------------------------------
(* Least and highest                                                        *)

\* A set of natural numbers that is not empty has a least element.
LEMMA LeastElement ==
    ASSUME NEW S \in SUBSET Nat, S # {}
    PROVE  \E m \in S : \A n \in S : m <= n
<1>1. PICK m \in S : \A n \in S : <<n, m>> \notin OpToRel(<, Nat)
  BY NatLessThanWellFounded, WFMin, Zenon
<1>2. \A n \in S : ~ (n < m)
  BY <1>1, Zenon DEF OpToRel
<1> QED BY <1>2

\* Blocks are finitely many, so that some have the greatest height: those with
\* the smallest set of blocks as high as them.
LEMMA HighestIn ==
    ASSUME NEW S \in SUBSET Block, S # {}
    PROVE  \E b \in S : \A c \in S : Height[c] <= Height[b]
<1> DEFINE up(b) == {c \in S : Height[b] <= Height[c]}
           F == {up(b) : b \in S}
<1>1. F \subseteq FiniteSubsetsOf(Block) /\ F # {}
  <2>1. ASSUME NEW b \in S PROVE up(b) \in FiniteSubsetsOf(Block)
    <3>1. up(b) \subseteq Block
      OBVIOUS
    <3>2. IsFiniteSet(up(b))
      BY <3>1, FS_Subset, BlockAssumption
    <3> QED BY <3>1, <3>2 DEF FiniteSubsetsOf
  <2> QED BY <2>1
<1>2. IsWellFoundedOn(StrictSubsetOrdering(Block), FiniteSubsetsOf(Block))
  BY FS_StrictSubsetOrderingWellFounded
<1>3. PICK X \in F : \A Y \in F : ~ (<<Y, X>> \in StrictSubsetOrdering(Block))
  <2> HIDE DEF F
  <2> QED BY <1>1, <1>2, WFMin
<1>4. PICK b \in S : X = up(b)
  BY <1>3
<1>h. \A c \in S : Height[c] \in Nat
  BY BlockAssumption
<1>5. ASSUME NEW c \in S, ~ (Height[c] <= Height[b]) PROVE FALSE
  <2>1. up(c) \subseteq up(b) /\ b \in up(b) /\ b \notin up(c)
    BY <1>5, <1>h
  <2>2. up(c) \in F /\ up(c) \in SUBSET Block /\ up(b) \in SUBSET Block
    OBVIOUS
  <2>3. <<up(c), up(b)>> \in StrictSubsetOrdering(Block)
    <3> HIDE DEF F, up
    <3> QED BY <2>1, <2>2 DEF StrictSubsetOrdering
  <2> HIDE DEF F, up
  <2> QED BY <1>3, <1>4, <2>2, <2>3
<1> QED BY <1>5

-----------------------------------------------------------------------------
(* Chains of blocks                                                         *)

\* The recursive definition of Chain has a solution: what each set that is closed
\* under next contains.
LEMMA ChainIs ==
    ASSUME NEW next \in [Block -> Block \cup {None}], NEW b \in Block
    PROVE  Chain(next, b) = {b} \cup IF next[b] = None THEN {} ELSE Chain(next, next[b])
<1> DEFINE Closed(S) == \A y \in S : next[y] # None => next[y] \in S
           Reach(x) == {y \in Block : \A S \in SUBSET Block : x \in S /\ Closed(S) => y \in S}
           L == [x \in Block |-> Reach(x)]
           E(f, x) == {x} \cup IF next[x] = None THEN {} ELSE f[next[x]]
<1>1. ASSUME NEW x \in Block PROVE Reach(x) = {x} \cup IF next[x] = None THEN {} ELSE Reach(next[x])
  <2>1. x \in Reach(x)
    OBVIOUS
  <2>2. CASE next[x] = None
    <3>1. {x} \in SUBSET Block /\ Closed({x})
      BY <2>2
    <3>2. \A y \in Reach(x) : y \in {x}
      <4> HIDE DEF Closed
      <4> QED BY <3>1
    <3> QED BY <2>1, <2>2, <3>2
  <2>3. CASE next[x] # None
    <3>0. next[x] \in Block
      BY <2>3
    <3>1. \A y \in Reach(next[x]) : y \in Reach(x)
      BY <2>3
    <3> DEFINE T == {x} \cup Reach(next[x])
    <3>2. T \in SUBSET Block
      OBVIOUS
    <3>3. next[x] \in Reach(next[x])
      BY <3>0
    <3>4. ASSUME NEW y \in Reach(next[x]), next[y] # None PROVE next[y] \in Reach(next[x])
      <4>1. next[y] \in Block
        BY <3>4
      <4>2. ASSUME NEW S \in SUBSET Block, next[x] \in S, Closed(S) PROVE next[y] \in S
        BY <4>2, <3>4
      <4> QED BY <4>1, <4>2
    <3>5. Closed(T)
      BY <3>3, <3>4
    <3>6. \A y \in Reach(x) : y \in T
      <4> HIDE DEF Closed
      <4>1. x \in T
        OBVIOUS
      <4> HIDE DEF T
      <4> QED BY <3>2, <3>5, <4>1
    <3> QED BY <2>1, <2>3, <3>1, <3>6
  <2> QED BY <2>2, <2>3
<1>2. \A x \in Block : L[x] = E(L, x)
  <2>1. \A x \in Block : L[x] = Reach(x)
    OBVIOUS
  <2> HIDE DEF L, Reach
  <2> QED BY <1>1, <2>1
<1>3. L = [x \in Block |-> E(L, x)]
  <2>1. L = [x \in Block |-> L[x]]
    OBVIOUS
  <2> HIDE DEF L, E
  <2> QED BY <1>2, <2>1
<1> DEFINE C == CHOOSE f : f = [x \in Block |-> E(f, x)]
<1> HIDE DEF L
<1>4. C = [x \in Block |-> E(C, x)]
  BY <1>3
<1>5. \A x \in Block : Chain(next, x) = C[x]
  BY Zenon DEF Chain
<1> HIDE DEF C
<1>6. C[b] = E(C, b)
  BY <1>4
<1>7. next[b] # None => next[b] \in Block
  OBVIOUS
<1> QED BY <1>5, <1>6, <1>7

\* What holds of a block and is handed on by next holds of its chain; and when
\* next leads downwards, the block itself is the highest.
LEMMA ChainWithin ==
    ASSUME NEW next \in [Block -> Block \cup {None}], NEW P \in SUBSET Block,
           \A x \in P : next[x] # None => next[x] \in P,
           NEW size \in [Block -> Nat],
           \A x \in P : next[x] # None => size[next[x]] < size[x]
    PROVE  \A b \in P : /\ b \in Chain(next, b) /\ Chain(next, b) \subseteq P
                        /\ \A y \in Chain(next, b) : size[y] <= size[b]
<1> DEFINE Fine(b) == /\ b \in Chain(next, b) /\ Chain(next, b) \subseteq P
                      /\ \A y \in Chain(next, b) : size[y] <= size[b]
           S == {n \in Nat : \E b \in P : size[b] = n /\ ~ Fine(b)}
<1>0. SUFFICES S = {}
  <2>1. ASSUME S = {}, NEW b \in P PROVE Fine(b)
    <3>1. size[b] \in Nat
      OBVIOUS
    <3> HIDE DEF Fine
    <3> QED BY <2>1, <3>1
  <2> QED BY <2>1
<1>1. SUFFICES ASSUME S # {} PROVE FALSE
  OBVIOUS
<1>2. PICK m \in S : \A n \in S : m <= n
  <2>1. S \in SUBSET Nat
    OBVIOUS
  <2> HIDE DEF S
  <2> QED BY <1>1, <2>1, LeastElement
<1>3. PICK b \in P : size[b] = m /\ ~ Fine(b)
  BY <1>2
<1>4. Chain(next, b) = {b} \cup IF next[b] = None THEN {} ELSE Chain(next, next[b])
  BY ChainIs
<1>5. CASE next[b] = None
  BY <1>3, <1>4, <1>5
<1>6. CASE next[b] # None
  <2>1. next[b] \in P /\ size[next[b]] \in Nat /\ size[b] \in Nat /\ size[next[b]] < size[b]
    BY <1>6
  <2>2. size[next[b]] \notin S
    BY <2>1, <1>2, <1>3
  <2>3. Fine(next[b])
    <3> HIDE DEF Fine
    <3> QED BY <2>1, <2>2
  <2>4. \A y \in Chain(next, next[b]) : y \in P /\ size[y] \in Nat /\ size[y] <= size[b]
    BY <2>1, <2>3
  <2> QED BY <1>3, <1>4, <1>6, <2>4
<1> QED BY <1>5, <1>6

\* So a line consists of blocks, and its first is the highest.
LEMMA LineIs ==
    ASSUME NEW bs, NEW b \in Block
    PROVE  /\ b \in Line(bs, b) /\ Line(bs, b) \subseteq Block
           /\ \A y \in Line(bs, b) : Height[y] <= Height[b]
<1> DEFINE next == [x \in Block |-> Parent(bs, x)]
<1>1. next \in [Block -> Block \cup {None}]
  BY BlockAssumption DEF Parent
<1>2. \A x \in Block : next[x] # None => next[x] \in Block /\ Height[next[x]] < Height[x]
  BY BlockAssumption DEF Parent
<1>3. Height \in [Block -> Nat]
  BY BlockAssumption
<1>4. Line(bs, b) = Chain(next, b)
  BY DEF Line
<1> HIDE DEF next
<1> QED BY <1>1, <1>2, <1>3, <1>4, ChainWithin

-----------------------------------------------------------------------------
(* Types                                                                    *)

Heights == {Height[b] : b \in Block}
OneEach(os) == os \subseteq Block /\ \A o, q \in os : Prev[o] = Prev[q] => o = q
HandsOK ==
    /\ OneEach(orphans) /\ hand \in [Peers -> Block \cup {None}]
    /\ estimated \in Announced \cup {0} \cup Heights
StoreOK ==
    /\ blocks \subseteq Block /\ stub \subseteq blocks \cap Checkpoints /\ last \in Block
    /\ height \in [Tx -> Heights \cup {Unconfirmed}]
    /\ saved \subseteq Block /\ refused \subseteq Block

LEMMA TypeParts ==
    TypeOK <=> /\ HandsOK /\ StoreOK /\ index \in [Tx -> Nat]
               /\ filter \in BOOLEAN /\ lost \in BOOLEAN
BY DEF TypeOK, HandsOK, StoreOK, OneEach, Heights

LEMMA AddedOneEach ==
    ASSUME NEW os, OneEach(os), NEW b \in Block
    PROVE  OneEach(Added(os, b))
BY DEF OneEach, Added

\* Whatever is done with the block, its thread takes an orphan or none.
LEMMA TakeNextTypes ==
    ASSUME HandsOK, NEW p \in Peers, NEW b \in Block, NEW os, OneEach(os), TakeNext(p, b, os)
    PROVE  HandsOK'
<1> DEFINE next == {o \in os : Prev[o] = b}
<1>1. orphans' = os \ next /\ OneEach(orphans')
  BY DEF TakeNext, OneEach
<1>2. hand' \in [Peers -> Block \cup {None}]
  <2>1. hand' = [hand EXCEPT ![p] = IF next = {} THEN None ELSE CHOOSE o \in next : TRUE]
    BY DEF TakeNext
  <2>2. next # {} => (CHOOSE o \in next : TRUE) \in Block
    BY DEF OneEach
  <2> HIDE DEF next
  <2> QED BY <2>1, <2>2 DEF HandsOK
<1>3. estimated' \in Announced \cup {0} \cup Heights
  BY DEF TakeNext, HandsOK, Heights
<1> QED BY <1>1, <1>2, <1>3 DEF HandsOK

LEMMA DropTypes ==
    ASSUME HandsOK, NEW p \in Peers, Drop(p)
    PROVE  HandsOK'
BY DEF HandsOK, Drop, OneEach

LEMMA ConfirmedType ==
    ASSUME NEW hs \in [Tx -> Heights \cup {Unconfirmed}], NEW b \in Block
    PROVE  Confirmed(hs, b) \in [Tx -> Heights \cup {Unconfirmed}]
BY DEF Confirmed, Heights

LEMMA SavedType ==
    ASSUME saved \subseteq Block, NEW b \in Block, NEW line, line \subseteq Block
    PROVE  Saved(b, line) \subseteq Block
BY DEF Saved

\* A reorganisation takes heights away and gives those of blocks.
LEMMA ReorganizeType ==
    ASSUME StoreOK, NEW p \in Peers, NEW b \in Block, Reorganize(p, b)
    PROVE  height' \in [Tx -> Heights \cup {Unconfirmed}]
<1> DEFINE join == Join(Remaining(b), Prev[b], last)
           branch == {b} \cup {x \in Line(Remaining(b), Prev[b]) : Height[x] > Height[join]}
           confirms(t) == {x \in branch : t \in TxOf[x]}
           hs == Unconfirm(height, Height[join])
<1>1. height' = IF join = None THEN height
                ELSE [t \in Tx |-> IF confirms(t) = {} THEN hs[t]
                                   ELSE Height[CHOOSE x \in confirms(t) : TRUE]]
  BY DEF Reorganize
<1>2. hs \in [Tx -> Heights \cup {Unconfirmed}]
  BY DEF Unconfirm, StoreOK
<1>3. branch \subseteq Block
  <2>1. Prev[b] \in Block
    BY DEF Reorganize, IsFork, IsNew, IsVerified, StoreOK
  <2> QED BY <2>1, LineIs
<1>4. ASSUME NEW t \in Tx, confirms(t) # {} PROVE Height[CHOOSE x \in confirms(t) : TRUE] \in Heights
  <2>1. (CHOOSE x \in confirms(t) : TRUE) \in Block
    BY <1>3, <1>4
  <2> QED BY <2>1 DEF Heights
<1> HIDE DEF join, branch, confirms, hs
<1> QED BY <1>1, <1>2, <1>4 DEF StoreOK

LEMMA HandleTypes ==
    ASSUME TypeOK, NEW p \in Peers, NEW b \in Block, Handle(p, b)
    PROVE  TypeOK'
<1>1. /\ HandsOK /\ StoreOK /\ filter \in BOOLEAN /\ lost \in BOOLEAN /\ filter' = filter
      /\ OneEach(orphans) /\ index \in [Tx -> Nat] /\ index' = index
  BY TypeParts DEF Handle, HandsOK
<1>2. Remaining(b) \subseteq blocks
  BY DEF Remaining
<1>3. Prev[b] \in blocks => Prev[b] \in Block
  BY <1>1 DEF StoreOK
<1>4. SUFFICES HandsOK' /\ StoreOK' /\ lost' \in BOOLEAN
  BY <1>1 DEF TypeOK, HandsOK, StoreOK, OneEach, Heights
<1>5. CASE Ignore(p, b)
  BY <1>1, <1>5, DropTypes DEF Ignore, StoreOK
<1>6. CASE Orphan(p, b)
  <2>1. OneEach(orphans')
    BY <1>1, <1>6, AddedOneEach DEF Orphan
  <2> QED BY <1>1, <1>6, <2>1 DEF Orphan, HandsOK, StoreOK
<1>7. CASE Refuse(p, b)
  BY <1>1, <1>2, <1>7, DropTypes DEF Refuse, StoreOK
<1>8. CASE Extend(p, b)
  <2>1. HandsOK'
    BY <1>1, <1>8, TakeNextTypes DEF Extend
  <2>2. saved' \subseteq Block
    BY <1>1, <1>3, <1>8, LineIs, SavedType DEF Extend, IsVerified, StoreOK
  <2>3. height' \in [Tx -> Heights \cup {Unconfirmed}]
    BY <1>1, <1>8, ConfirmedType DEF Extend, StoreOK
  <2> QED BY <1>1, <1>2, <1>8, <2>1, <2>2, <2>3 DEF Extend, StoreOK
<1>9. CASE Known(p, b)
  <2>1. HandsOK'
    BY <1>1, <1>9, TakeNextTypes DEF Known
  <2>2. height' \in [Tx -> Heights \cup {Unconfirmed}]
    BY <1>1, <1>9, ConfirmedType DEF Known, StoreOK
  <2>3. lost' \in BOOLEAN
    BY <1>1, <1>9, Zenon DEF Known
  <2> QED BY <1>1, <1>2, <1>9, <2>1, <2>2, <2>3 DEF Known, StoreOK
<1>10. CASE Postpone(p, b)
  <2>1. HandsOK'
    BY <1>1, <1>10, TakeNextTypes, AddedOneEach DEF Postpone
  <2> QED BY <1>1, <1>2, <1>10, <2>1 DEF Postpone, StoreOK
<1>11. CASE IgnoreFork(p, b)
  BY <1>1, <1>2, <1>11, DropTypes DEF IgnoreFork, StoreOK
<1>12. CASE Fork(p, b)
  <2>1. HandsOK'
    BY <1>1, <1>12, TakeNextTypes DEF Fork
  <2> QED BY <1>1, <1>2, <1>12, <2>1 DEF Fork, StoreOK
<1>13. CASE Reorganize(p, b)
  <2>1. HandsOK'
    BY <1>1, <1>13, TakeNextTypes DEF Reorganize
  <2>2. saved' \subseteq Block
    BY <1>1, <1>3, <1>13, LineIs, SavedType DEF Reorganize, IsFork, IsNew, IsVerified, StoreOK
  <2>3. height' \in [Tx -> Heights \cup {Unconfirmed}]
    BY <1>1, <1>13, ReorganizeType
  <2>4. lost' \in BOOLEAN
    BY <1>1, <1>13, Zenon DEF Reorganize
  <2> QED BY <1>1, <1>2, <1>13, <2>1, <2>2, <2>3, <2>4 DEF Reorganize, StoreOK
<1> QED BY <1>5, <1>6, <1>7, <1>8, <1>9, <1>10, <1>11, <1>12, <1>13 DEF Handle

\* The other steps.
LEMMA LoadTypes ==
    ASSUME TypeOK, NEW os \in Indexed, NEW kept, kept \subseteq Block, Load(os, kept)
    PROVE  /\ blocks' \subseteq Block /\ stub' \subseteq blocks' \cap Checkpoints /\ last' \in Block
           /\ OneEach(orphans')
<1>1. OneEach(os)
  <2>1. os \subseteq Block
    BY DEF Indexed, TypeOK
  <2>2. ASSUME NEW o \in os, NEW q \in os, Prev[o] = Prev[q] PROVE o = q
    <3>1. o \in saved
      BY DEF Indexed
    <3>2. PICK r \in os : \A z \in os : Prev[z] = Prev[o] => z = r
      BY <3>1 DEF Indexed
    <3> QED BY <2>2, <3>2
  <2> QED BY <2>1, <2>2 DEF OneEach
<1>2. last' \in Block
  <2>1. CASE kept = {}
    BY <2>1, CheckpointAssumption DEF Load
  <2>2. CASE kept # {}
    BY <2>2, HighestIn DEF Load
  <2> QED BY <2>1, <2>2
<1>3. OneEach(orphans')
  BY <1>1 DEF Load, OneEach
<1> QED BY <1>2, <1>3, CheckpointAssumption DEF Load

\* What a restart loads: a chain of saved blocks upwards, or none.
LEMMA RestartLoads ==
    ASSUME TypeOK, Restart
    PROVE  \E os \in Indexed, kept \in SUBSET saved : Load(os, kept)
<1>1. PICK os \in Indexed :
         LET above(b) == {c \in os : Prev[c] = b}
             next == [b \in Block |-> IF above(b) = {} THEN None ELSE CHOOSE c \in above(b) : TRUE]
         IN  \/ LastTransitions = {} /\ Load(os, {})
             \/ \E b \in LastTransitions : Load(os, Chain(next, b))
  BY DEF Restart
<1> DEFINE above(b) == {c \in os : Prev[c] = b}
           next == [b \in Block |-> IF above(b) = {} THEN None ELSE CHOOSE c \in above(b) : TRUE]
<1>2. CASE LastTransitions = {} /\ Load(os, {})
  BY <1>2
<1>3. CASE \E b \in LastTransitions : Load(os, Chain(next, b))
  <2>1. PICK b \in LastTransitions : Load(os, Chain(next, b))
    BY <1>3
  <2>2. os \subseteq saved /\ saved \subseteq Block /\ b \in saved
    BY DEF Indexed, LastTransitions, TypeOK
  <2>3. \A x \in Block : next[x] # None => next[x] \in saved /\ Prev[next[x]] = x
    BY <2>2
  <2>4. next \in [Block -> Block \cup {None}]
    BY <2>2, <2>3
  <2>5. PICK top \in saved : \A c \in saved : Height[c] <= Height[top]
    BY <2>2, HighestIn
  <2> DEFINE room == [x \in Block |-> IF x \in saved THEN Height[top] - Height[x] ELSE 0]
  <2>6. room \in [Block -> Nat] /\ \A x \in saved : room[x] = Height[top] - Height[x]
    BY <2>2, <2>5, BlockAssumption
  <2>7. \A x \in saved : next[x] # None => next[x] \in saved /\ room[next[x]] < room[x]
    <3>1. \A x \in saved : next[x] # None =>
             /\ next[x] \in saved /\ Height[next[x]] = Height[x] + 1
             /\ Height[x] \in Nat /\ Height[top] \in Nat
      BY <2>2, <2>3, BlockAssumption
    <3> HIDE DEF next, room
    <3> QED BY <2>6, <3>1
  <2>8. Chain(next, b) \subseteq saved
    <3> HIDE DEF next, room
    <3> QED BY <2>2, <2>4, <2>6, <2>7, ChainWithin
  <2> QED BY <2>1, <2>8
<1> QED BY <1>1, <1>2, <1>3

LEMMA NextTypes ==
    ASSUME TypeOK, [Next]_vars
    PROVE  TypeOK'
<1>1. ASSUME NEW p \in Peers, NEW b \in Block, Relay(p, b) PROVE TypeOK'
  BY <1>1, HandleTypes DEF Relay
<1>2. ASSUME NEW p \in Peers, RelayNext(p) PROVE TypeOK'
  <2>1. hand[p] \in Block
    BY <1>2 DEF TypeOK, RelayNext
  <2> QED BY <1>2, <2>1, HandleTypes DEF RelayNext
<1>3. ASSUME NEW top \in Announced, Connected(top) PROVE TypeOK'
  BY <1>3 DEF TypeOK, Connected
<1>4. ASSUME NEW loads \in BOOLEAN, UpdateFilter(loads) PROVE TypeOK'
  BY <1>4 DEF TypeOK, UpdateFilter
<1>5. CASE Rescan
  BY <1>5, CheckpointAssumption DEF TypeOK, Rescan
<1>6. CASE Restart
  <2>1. PICK os \in Indexed, kept \in SUBSET saved : Load(os, kept)
    BY <1>6, RestartLoads
  <2>2. kept \subseteq Block
    BY DEF TypeOK
  <2>3. /\ blocks' \subseteq Block /\ stub' \subseteq blocks' \cap Checkpoints /\ last' \in Block
        /\ OneEach(orphans')
    BY <2>1, <2>2, LoadTypes
  <2>4. /\ hand' \in [Peers -> Block \cup {None}] /\ filter' = FALSE /\ estimated' = 0 /\ lost' = FALSE
        /\ UNCHANGED <<height, saved, refused>>
    BY <1>6 DEF Restart
  <2>5. index' \in [Tx -> Nat]
    <3>1. \A t \in Tx : Cardinality({u \in Tx : IsBefore(u, t)}) \in Nat
      BY BlockAssumption, FS_Subset, FS_CardinalityType
    <3> QED BY <1>6, <3>1 DEF Restart, Sorted
  <2> QED BY <2>3, <2>4, <2>5 DEF TypeOK, OneEach
<1>7. CASE UNCHANGED vars
  BY <1>7 DEF TypeOK, vars
<1> QED BY <1>1, <1>2, <1>3, <1>4, <1>5, <1>6, <1>7 DEF Next

LEMMA InitTypes ==
    ASSUME Init
    PROVE  TypeOK
BY BlockAssumption, CheckpointAssumption DEF Init, TypeOK

\* Types, and that the app holds no two orphans of one block.
THEOREM Typed == Spec => []TypeOK
<1> QED BY InitTypes, NextTypes, PTL DEF Spec

-----------------------------------------------------------------------------
(* The chain the app believes in                                            *)

StartIsHighest == \A c \in Checkpoints : Height[c] <= Height[Start]

\* Nothing below the start is stored but checkpoints, and nothing is saved.
High ==
    /\ Height[Start] <= Height[last]
    /\ \A b \in blocks \ stub : Height[Start] <= Height[b]
    /\ \A b \in saved : Height[Start] <= Height[b]
LastIsBest == last \in blocks /\ \A b \in blocks \ stub : Height[b] <= Height[last]
EarlyOnes == \A o \in orphans : Prev[o] \notin blocks

IndInv ==
    /\ TypeOK /\ High /\ rescans \in Nat
    /\ rescans = 0 => LastIsBest /\ (filter => EarlyOnes)

\* Checkpoints are at multiples of the interval: none comes right after another.
LEMMA NoNeighbours ==
    ASSUME NEW c \in Checkpoints, NEW d \in Checkpoints
    PROVE  Height[d] # Height[c] + 1
<1>1. ASSUME NEW n \in Nat, n % Interval = 0, (n + 1) % Interval = 0 PROVE FALSE
  <2>1. Interval \in Nat \ {0, 1}
    BY CheckpointAssumption
  <2> QED BY <1>1, <2>1, SMT
<1>2. Height[c] \in Nat /\ Height[c] % Interval = 0 /\ Height[d] % Interval = 0
  BY BlockAssumption, CheckpointAssumption
<1> QED BY <1>1, <1>2

LEMMA PrevHeight ==
    ASSUME NEW b \in Block, Prev[b] \in Block
    PROVE  /\ Height[b] \in Nat /\ Height[Prev[b]] \in Nat /\ Height[Start] \in Nat
           /\ Height[b] = Height[Prev[b]] + 1
BY BlockAssumption, CheckpointAssumption

\* A line that begins at the start or above stays there.
LEMMA LineHigh ==
    ASSUME TypeOK, High, NEW bs, bs \subseteq blocks,
           NEW b \in Block, Height[Start] <= Height[b]
    PROVE  \A y \in Line(bs, b) : y \in Block /\ Height[Start] <= Height[y]
<1> DEFINE next == [x \in Block |-> Parent(bs, x)]
           P == {x \in Block : Height[Start] <= Height[x]}
<1>1. next \in [Block -> Block \cup {None}] /\ Height \in [Block -> Nat]
  BY BlockAssumption DEF Parent
<1>2. ASSUME NEW x \in P, next[x] # None PROVE next[x] \in P /\ Height[next[x]] < Height[x]
  <2>1. next[x] = Prev[x] /\ Prev[x] \in blocks /\ Prev[x] \in Block
    BY <1>2 DEF Parent, TypeOK
  <2>2. Height[x] \in Nat /\ Height[Prev[x]] \in Nat /\ Height[Start] \in Nat /\ Height[x] = Height[Prev[x]] + 1
    BY <2>1, PrevHeight
  <2>3. Height[Start] <= Height[Prev[x]]
    <3>1. CASE Prev[x] \in stub
      <4>1. Height[Start] # Height[Prev[x]] + 1
        BY <3>1, NoNeighbours, CheckpointAssumption DEF TypeOK
      <4> QED BY <2>2, <4>1
    <3>2. CASE Prev[x] \notin stub
      BY <2>1, <3>2 DEF High
    <3> QED BY <3>1, <3>2
  <2> QED BY <2>1, <2>2, <2>3
<1>3. b \in P /\ P \in SUBSET Block
  OBVIOUS
<1>4. Line(bs, b) = Chain(next, b)
  BY DEF Line
<1>5. Line(bs, b) \subseteq P
  <2> HIDE DEF next, P
  <2> QED BY <1>1, <1>2, <1>3, <1>4, ChainWithin
<1> QED BY <1>5

\* What verifying a block frees is an interval below it, on the line of a block
\* that was relayed.
LEMMA FreedIsLow ==
    ASSUME TypeOK, NEW b \in Block, Prev[b] \in blocks, NEW x \in Freed(b)
    PROVE  x \in Block /\ Height[x] <= Height[b] - Interval /\ Prev[b] \notin stub
<1> DEFINE q == Prev[b]
           n == Interval - 1
           at == {y \in Line(blocks, q) : Height[y] = Height[q] - n}
<1>1. q \in Block /\ Height[b] = Height[q] + 1 /\ Height[q] \in Nat /\ Interval \in Nat \ {0, 1}
  BY PrevHeight, CheckpointAssumption DEF TypeOK
<1>2. Transition(b) # None /\ x \in Line(blocks, Transition(b))
  BY DEF Freed
<1>3. Transition(b) \in at
  <2>1. Transition(b) = IF at = {} THEN None ELSE CHOOSE y \in at : TRUE
    BY DEF Transition, Back
  <2> HIDE DEF at
  <2> QED BY <1>2, <2>1
<1>4. Transition(b) \in Block /\ Height[Transition(b)] = Height[b] - Interval
  BY <1>1, <1>3, LineIs
<1>5. x \in Block /\ Height[x] <= Height[b] - Interval
  BY <1>2, <1>4, LineIs
<1>6. ASSUME q \in stub PROVE FALSE
  <2> DEFINE next == [y \in Block |-> Parent(blocks, y)]
  <2>1. next \in [Block -> Block \cup {None}] /\ next[q] = None
    BY <1>1, <1>6, BlockAssumption DEF Parent
  <2>2. Line(blocks, q) = Chain(next, q)
    BY DEF Line
  <2>3. Line(blocks, q) = {q}
    <3> HIDE DEF next
    <3> QED BY <1>1, <2>1, <2>2, ChainIs
  <2> QED BY <1>1, <1>3, <2>3
<1> QED BY <1>5, <1>6

\* So it is never the last block, which is an interval higher.
LEMMA LastStays ==
    ASSUME TypeOK, LastIsBest, NEW b \in Block, Prev[b] \in blocks
    PROVE  last \in Remaining(b)
<1>1. SUFFICES ASSUME last \in Freed(b) PROVE FALSE
  BY DEF Remaining, LastIsBest
<1>2. Height[last] <= Height[b] - Interval /\ Prev[b] \notin stub
  BY <1>1, FreedIsLow
<1>3. Height[Prev[b]] <= Height[last] /\ Prev[b] \in Block
  BY <1>2 DEF LastIsBest, TypeOK
<1>4. Height[last] \in Nat /\ Interval \in Nat \ {0, 1}
  BY BlockAssumption, CheckpointAssumption DEF TypeOK
<1> QED BY <1>2, <1>3, <1>4, PrevHeight

\* What is saved with a block is the block and its line.
LEMMA SavedHigh ==
    ASSUME TypeOK, High, NEW b \in Block, Prev[b] \in blocks, Height[Start] < Height[b]
    PROVE  \A y \in Saved(b, {b} \cup Line(Remaining(b), Prev[b])) : Height[Start] <= Height[y]
<1> DEFINE line == {b} \cup Line(Remaining(b), Prev[b])
<1>1. Prev[b] \in Block /\ Height[Start] <= Height[Prev[b]] /\ Height[Start] <= Height[b]
  BY PrevHeight DEF TypeOK
<1>2. Remaining(b) \subseteq blocks
  BY DEF Remaining
<1>3. \A y \in line : Height[Start] <= Height[y]
  BY <1>1, <1>2, LineHigh
<1>4. Saved(b, line) \subseteq line \cup saved
  <2> HIDE DEF line
  <2> QED BY DEF Saved
<1>5. \A y \in Saved(b, line) : Height[Start] <= Height[y]
  <2> HIDE DEF line
  <2> QED BY <1>3, <1>4 DEF High
<1> QED BY <1>5

\* A block that is new and not too old is above the start.
LEMMA ForkIsHigh ==
    ASSUME TypeOK, NEW b \in Block, IsFork(b)
    PROVE  Height[Start] < Height[b]
BY BlockAssumption, CheckpointAssumption DEF IsFork, IsTooOld, TypeOK

LEMMA HandleHigh ==
    ASSUME TypeOK, High, NEW p \in Peers, NEW b \in Block, Handle(p, b)
    PROVE  High'
<1>1. /\ last \in Block /\ Height[last] \in Nat /\ Height[Start] \in Nat /\ Height[b] \in Nat
      /\ Remaining(b) \subseteq blocks
  BY BlockAssumption, CheckpointAssumption DEF TypeOK, Remaining
<1>2. CASE Ignore(p, b) \/ Orphan(p, b)
  BY <1>2 DEF Ignore, Orphan, High
<1>3. CASE Refuse(p, b) \/ Postpone(p, b) \/ IgnoreFork(p, b)
  BY <1>1, <1>3 DEF Refuse, Postpone, IgnoreFork, High
<1>4. CASE Extend(p, b)
  <2>1. Prev[b] = last /\ Prev[b] \in blocks /\ Height[Start] < Height[b]
    BY <1>1, <1>4, PrevHeight DEF Extend, IsVerified, High
  <2>2. \A y \in saved' : Height[Start] <= Height[y]
    BY <1>4, <2>1, SavedHigh DEF Extend
  <2>3. \A x \in blocks' \ stub' : x = b \/ x \in blocks \ stub
    BY <1>1, <1>4 DEF Extend
  <2>4. last' = b
    BY <1>4 DEF Extend
  <2> QED BY <1>1, <2>1, <2>2, <2>3, <2>4 DEF High
<1>5. CASE Known(p, b)
  <2>1. /\ Prev[b] \in blocks /\ b \in blocks /\ Prev[b] \in Block
        /\ last' = last /\ saved' = saved /\ blocks' = Remaining(b) /\ stub' = (stub \ {b}) \cap blocks'
    BY <1>1, <1>5 DEF Known, IsVerified, TypeOK
  <2>2. CASE b \in stub
    <3>1. Height[b] = Height[Prev[b]] + 1 /\ Height[Prev[b]] \in Nat
      BY <2>1, PrevHeight
    <3>2. Prev[b] \notin stub
      BY <2>2, <3>1, NoNeighbours DEF TypeOK
    <3>3. Height[Start] <= Height[b]
      BY <1>1, <2>1, <3>1, <3>2 DEF High
    <3>4. \A x \in blocks' \ stub' : x = b \/ x \in blocks \ stub
      BY <1>1, <2>1
    <3> QED BY <2>1, <3>3, <3>4 DEF High
  <2>3. CASE b \notin stub
    BY <1>1, <2>1, <2>3 DEF High
  <2> QED BY <2>2, <2>3
<1>6. CASE Fork(p, b)
  <2>1. Height[Start] < Height[b]
    BY <1>6, ForkIsHigh DEF Fork
  <2>2. \A x \in blocks' \ stub' : x = b \/ x \in blocks \ stub
    BY <1>1, <1>6 DEF Fork
  <2> QED BY <1>1, <1>6, <2>1, <2>2 DEF Fork, High
<1>7. CASE Reorganize(p, b)
  <2>1. Height[Start] < Height[b] /\ Prev[b] \in blocks
    BY <1>7, ForkIsHigh DEF Reorganize, IsFork, IsNew, IsVerified
  <2>2. \A x \in blocks' \ stub' : x = b \/ x \in blocks \ stub
    BY <1>1, <1>7 DEF Reorganize
  <2>3. \A y \in saved' : Height[Start] <= Height[y]
    BY <1>7, <2>1, SavedHigh DEF Reorganize, High
  <2>4. last' = b
    BY <1>7 DEF Reorganize
  <2> QED BY <1>1, <2>1, <2>2, <2>3, <2>4 DEF High
<1> QED BY <1>2, <1>3, <1>4, <1>5, <1>6, <1>7 DEF Handle

\* A longer chain is taken up with the block that makes it longer.
LEMMA HandleBest ==
    ASSUME StartIsHighest, TypeOK, High, LastIsBest, NEW p \in Peers, NEW b \in Block, Handle(p, b)
    PROVE  LastIsBest'
<1>1. /\ last \in Block /\ Height[last] \in Nat /\ Height[b] \in Nat /\ \A x \in blocks : Height[x] \in Nat
      /\ Remaining(b) \subseteq blocks
  BY BlockAssumption DEF TypeOK, Remaining
<1>2. Prev[b] \in blocks => last \in Remaining(b)
  BY LastStays
<1>3. CASE Ignore(p, b) \/ Orphan(p, b)
  BY <1>3 DEF Ignore, Orphan, LastIsBest
<1>4. CASE Refuse(p, b)
  BY <1>1, <1>2, <1>4 DEF Refuse, LastIsBest
<1>5. CASE Postpone(p, b) \/ IgnoreFork(p, b)
  BY <1>1, <1>2, <1>5 DEF Postpone, IgnoreFork, IsNew, IsVerified, LastIsBest
<1>6. CASE Extend(p, b)
  <2>1. Height[b] = Height[last] + 1
    BY <1>1, <1>6, PrevHeight DEF Extend
  <2>2. \A x \in blocks' \ stub' : x = b \/ x \in blocks \ stub
    BY <1>1, <1>6 DEF Extend
  <2> QED BY <1>1, <1>6, <2>1, <2>2 DEF Extend, LastIsBest
<1>7. CASE Known(p, b)
  <2>1. b \in stub => Height[b] <= Height[last]
    <3>1. b \in stub => Height[b] <= Height[Start]
      BY DEF TypeOK, StartIsHighest
    <3>2. Height[Start] \in Nat
      BY BlockAssumption, CheckpointAssumption
    <3> QED BY <1>1, <3>1, <3>2 DEF High
  <2>2. \A x \in blocks' \ stub' : (x = b /\ b \in stub) \/ x \in blocks \ stub
    BY <1>1, <1>7 DEF Known
  <2>3. last' = last /\ last \in blocks'
    BY <1>2, <1>7 DEF Known, IsVerified
  <2> QED BY <2>1, <2>2, <2>3 DEF LastIsBest
<1>8. CASE Fork(p, b)
  <2>1. ~ (Height[b] > Height[last])
    BY <1>8 DEF Fork, IsLonger
  <2>2. \A x \in blocks' \ stub' : x = b \/ x \in blocks \ stub
    BY <1>1, <1>8 DEF Fork
  <2>3. last' = last /\ last \in blocks'
    BY <1>2, <1>8 DEF Fork, IsFork, IsNew, IsVerified
  <2> QED BY <1>1, <2>1, <2>2, <2>3 DEF LastIsBest
<1>9. CASE Reorganize(p, b)
  <2>1. Height[b] > Height[last]
    BY <1>9 DEF Reorganize, IsLonger
  <2>2. \A x \in blocks' \ stub' : x = b \/ x \in blocks \ stub
    BY <1>1, <1>9 DEF Reorganize
  <2>3. last' = b /\ b \in blocks'
    BY <1>9 DEF Reorganize
  <2> QED BY <1>1, <2>1, <2>2, <2>3 DEF LastIsBest
<1> QED BY <1>3, <1>4, <1>5, <1>6, <1>7, <1>8, <1>9 DEF Handle

\* A stored block is not ahead of the last by more than its child is, so that no
\* block is put back to wait while the one before it is stored.
LEMMA NonePostponed ==
    ASSUME StartIsHighest, TypeOK, High, LastIsBest, NEW p \in Peers, NEW b \in Block, Postpone(p, b)
    PROVE  FALSE
<1>1. Prev[b] \in blocks /\ Height[b] > Height[last] + 1
  BY DEF Postpone, IsNew, IsVerified, IsAhead
<1>2. Prev[b] \in Block /\ Height[last] \in Nat
  BY <1>1, BlockAssumption DEF TypeOK
<1>3. Height[Prev[b]] <= Height[last]
  <2>1. CASE Prev[b] \in stub
    <3>1. Height[Prev[b]] <= Height[Start] /\ Height[Start] <= Height[last]
      BY <2>1 DEF TypeOK, StartIsHighest, High
    <3> QED BY <1>2, <3>1, PrevHeight
  <2>2. CASE Prev[b] \notin stub
    BY <1>1, <2>2 DEF LastIsBest
  <2> QED BY <2>1, <2>2
<1> QED BY <1>1, <1>2, <1>3, PrevHeight

\* A block that is stored takes with it the orphan that waits for it.
LEMMA HandleEarly ==
    ASSUME StartIsHighest, TypeOK, High, LastIsBest, filter, EarlyOnes,
           NEW p \in Peers, NEW b \in Block, Handle(p, b)
    PROVE  EarlyOnes'
<1>1. Remaining(b) \subseteq blocks
  BY DEF Remaining
<1>2. CASE Ignore(p, b)
  BY <1>2 DEF Ignore
<1>3. CASE Orphan(p, b)
  BY <1>3 DEF Orphan, Added, EarlyOnes
<1>4. CASE Refuse(p, b) \/ IgnoreFork(p, b)
  BY <1>1, <1>4 DEF Refuse, IgnoreFork, Drop, EarlyOnes
<1>5. CASE Postpone(p, b)
  BY <1>5, NonePostponed
<1>6. CASE Extend(p, b) \/ Known(p, b) \/ Fork(p, b) \/ Reorganize(p, b)
  <2>1. blocks' \subseteq blocks \cup {b} /\ TakeNext(p, b, orphans)
    BY <1>1, <1>6 DEF Extend, Known, Fork, Reorganize
  <2> QED BY <2>1 DEF TakeNext, EarlyOnes
<1> QED BY <1>2, <1>3, <1>4, <1>5, <1>6 DEF Handle
-----------------------------------------------------------------------------
(* Every step                                                               *)

LEMMA InitIndInv ==
    ASSUME StartIsHighest, Init
    PROVE  IndInv
<1>1. Start \in Checkpoints /\ Start \in Block /\ Height[Start] \in Nat
  BY BlockAssumption, CheckpointAssumption
<1>2. TypeOK
  BY InitTypes
<1> QED BY <1>1, <1>2 DEF Init, IndInv, High, LastIsBest, EarlyOnes

LEMMA HandleIndInv ==
    ASSUME StartIsHighest, IndInv, NEW p \in Peers, NEW b \in Block, Handle(p, b)
    PROVE  IndInv'
<1>1. filter' = filter /\ rescans' = rescans
  BY DEF Handle, counters
<1>2. TypeOK' /\ High'
  BY HandleTypes, HandleHigh DEF IndInv
<1>3. ASSUME rescans = 0 PROVE LastIsBest' /\ (filter => EarlyOnes')
  BY <1>3, HandleBest, HandleEarly DEF IndInv
<1> QED BY <1>1, <1>2, <1>3 DEF IndInv

\* A restart begins with saved blocks, the highest of them the last, or at the start.
LEMMA RestartIndInv ==
    ASSUME IndInv, Restart
    PROVE  IndInv'
<1>1. TypeOK /\ TypeOK'
  BY NextTypes DEF IndInv, Next
<1>2. PICK os \in Indexed, kept \in SUBSET saved : Load(os, kept)
  BY <1>1, RestartLoads
<1>3. /\ blocks' = Checkpoints \cup kept /\ stub' = Checkpoints \ kept /\ saved' = saved
      /\ rescans' = rescans /\ filter' = FALSE
      /\ last' = IF kept = {} THEN Start ELSE CHOOSE b \in kept : \A c \in kept : Height[c] <= Height[b]
  BY <1>2 DEF Load, Restart
<1>4. \A b \in kept : Height[Start] <= Height[b]
  BY DEF IndInv, High
<1>5. blocks' \ stub' = kept
  BY <1>3
<1>6. /\ last' \in blocks' /\ Height[Start] <= Height[last']
      /\ \A b \in blocks' \ stub' : Height[b] <= Height[last']
  <2>1. CASE kept = {}
    BY <1>3, <1>5, <2>1, BlockAssumption, CheckpointAssumption
  <2>2. CASE kept # {}
    <3>1. kept \subseteq Block
      BY <1>1 DEF TypeOK
    <3>2. last' \in kept /\ \A c \in kept : Height[c] <= Height[last']
      BY <1>3, <2>2, <3>1, HighestIn
    <3> QED BY <1>3, <1>4, <1>5, <3>2
  <2> QED BY <2>1, <2>2
<1> QED BY <1>1, <1>3, <1>4, <1>5, <1>6 DEF IndInv, High, LastIsBest

LEMMA NextIndInv ==
    ASSUME StartIsHighest, IndInv, [Next]_vars
    PROVE  IndInv'
<1>1. TypeOK /\ TypeOK'
  BY NextTypes DEF IndInv
<1>2. ASSUME NEW p \in Peers, NEW b \in Block, Relay(p, b) PROVE IndInv'
  BY <1>2, HandleIndInv DEF Relay
<1>3. ASSUME NEW p \in Peers, RelayNext(p) PROVE IndInv'
  <2>1. hand[p] \in Block
    BY <1>1, <1>3 DEF TypeOK, RelayNext
  <2> QED BY <1>3, <2>1, HandleIndInv DEF RelayNext
<1>4. ASSUME NEW top \in Announced, Connected(top) PROVE IndInv'
  BY <1>1, <1>4 DEF Connected, counters, IndInv, High, LastIsBest, EarlyOnes
<1>5. ASSUME NEW loads \in BOOLEAN, UpdateFilter(loads) PROVE IndInv'
  BY <1>1, <1>5 DEF UpdateFilter, IndInv, High, LastIsBest, EarlyOnes
<1>6. CASE Rescan
  <2>1. Height[Start] \in Nat /\ rescans' \in Nat /\ rescans' # 0
    BY <1>6, BlockAssumption, CheckpointAssumption DEF Rescan, IndInv
  <2> QED BY <1>1, <1>6, <2>1 DEF Rescan, IndInv, High
<1>7. CASE Restart
  BY <1>7, RestartIndInv
<1>8. CASE UNCHANGED vars
  BY <1>1, <1>8 DEF vars, IndInv, High, LastIsBest, EarlyOnes
<1> QED BY <1>2, <1>3, <1>4, <1>5, <1>6, <1>7, <1>8 DEF Next

\* When the chain starts at the highest checkpoint, nothing stored or saved is
\* below it, no stored block is higher than the last as long as nobody asks for a
\* rescan, and no orphan waits for a block that is stored.
THEOREM Invariance ==
    ASSUME StartIsHighest
    PROVE  Spec => []IndInv
<1>1. Init => IndInv
  BY InitIndInv
<1>2. IndInv /\ [Next]_vars => IndInv'
  BY NextIndInv
<1> QED BY <1>1, <1>2, PTL DEF Spec

\* The app ends up on the longer chain, whatever the order in which the peers
\* relay branches and whenever it is restarted (_peerRelayedBlock).
THEOREM LongerChainWins ==
    ASSUME StartIsHighest
    PROVE  Spec => []BestChain
<1>1. IndInv => BestChain
  BY DEF IndInv, LastIsBest, BestChain
<1> QED BY <1>1, Invariance, PTL

\* A block that came before its previous one is taken up as soon as that is
\* stored (_peerRelayedBlock, manager->orphans).
THEOREM EarlyBlocksWait ==
    ASSUME StartIsHighest
    PROVE  Spec => []OrphansWait
<1>1. IndInv => OrphansWait
  BY DEF IndInv, EarlyOnes, OrphansWait
<1> QED BY <1>1, Invariance, PTL

=============================================================================
