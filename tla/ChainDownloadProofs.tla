------------------------- MODULE ChainDownloadProofs -------------------------
(***************************************************************************)
(* For any chain, payments, batches, lost connections and filters that run  *)
(* out of addresses or degrade: no payment of the blocks the app has is     *)
(* missed.                                                                  *)
(***************************************************************************)
EXTENDS ChainDownload, TLAPS, SequenceTheorems, FiniteSetTheorems, WellFoundedInduction

-----------------------------------------------------------------------------
(* Numbers                                                                  *)

\* A set of natural numbers that is not empty has a least element, and a finite
\* one a greatest.
LEMMA LeastOf ==
    ASSUME NEW S \in SUBSET Nat, S # {}
    PROVE  Min(S) \in S /\ \A n \in S : Min(S) <= n
<1>1. PICK m \in S : \A n \in S : <<n, m>> \notin OpToRel(<, Nat)
  BY NatLessThanWellFounded, WFMin, Zenon
<1>2. \A n \in S : ~ (n < m)
  BY <1>1, Zenon DEF OpToRel
<1>3. \A n \in S : m <= n
  BY <1>2
<1> QED BY <1>3 DEF Min

LEMMA GreatestOf ==
    ASSUME NEW S \in SUBSET Nat, S # {}, NEW n \in Nat, \A x \in S : x <= n
    PROVE  Max(S) \in S /\ \A x \in S : x <= Max(S)
<1> DEFINE T == {y \in Nat : n - y \in S}
<1>1. T \in SUBSET Nat /\ T # {}
  <2>1. \A x \in S : n - x \in T
    OBVIOUS
  <2> QED BY <2>1
<1>2. Min(T) \in T /\ \A y \in T : Min(T) <= y
  <2> HIDE DEF T
  <2> QED BY <1>1, LeastOf
<1>3. PICK x \in S : x = n - Min(T)
  BY <1>2
<1>4. \A y \in S : Min(T) <= n - y
  BY <1>2
<1>5. \A y \in S : y <= x
  <2> HIDE DEF T
  <2>1. Min(T) \in Nat
    BY <1>1, <1>2
  <2> QED BY <1>3, <1>4, <2>1
<1> QED BY <1>5 DEF Max

LEMMA BoundTypes ==
    /\ MaxTop \in Nat /\ Gap \in Nat /\ Spare \in Nat /\ Batch \in Nat /\ HeaderBatch \in Nat
    /\ Gap > 0 /\ Spare > 0 /\ Batch > 0 /\ HeaderBatch > 0
    /\ \A h \in Block : h \in Nat /\ h > 0 /\ Pays[h] \in Nat
<1>1. /\ MaxTop \in Nat /\ Gap \in Nat /\ Spare \in Nat /\ Batch \in Nat /\ HeaderBatch \in Nat
      /\ Gap > 0 /\ Spare > 0 /\ Batch > 0 /\ HeaderBatch > 0
  BY BoundAssumption
<1>2. \A h \in Block : h \in Nat /\ h > 0 /\ Pays[h] \in Nat
  <2>1. Pays \in [Block -> Nat]
    BY PaysAssumption
  <2> QED BY <2>1 DEF Block
<1> QED BY <1>1, <1>2

\* Blocks are finitely many, so that one of them pays to the last address: that
\* with the smallest set of blocks that pay as far.
LEMMA LastPaid ==
    ASSUME NEW hs \in SUBSET Block, hs # {}
    PROVE  \E b \in hs : \A c \in hs : Pays[c] <= Pays[b]
<1> DEFINE far(b) == {c \in hs : Pays[b] <= Pays[c]}
           F == {far(b) : b \in hs}
<1>1. F \subseteq FiniteSubsetsOf(Block) /\ F # {}
  <2>1. IsFiniteSet(Block)
    BY BoundTypes, FS_Interval DEF Block
  <2>2. ASSUME NEW b \in hs PROVE far(b) \in FiniteSubsetsOf(Block)
    <3>1. far(b) \subseteq Block
      OBVIOUS
    <3>2. IsFiniteSet(far(b))
      BY <2>1, <3>1, FS_Subset
    <3> QED BY <3>1, <3>2 DEF FiniteSubsetsOf
  <2> QED BY <2>2
<1>2. IsWellFoundedOn(StrictSubsetOrdering(Block), FiniteSubsetsOf(Block))
  BY FS_StrictSubsetOrderingWellFounded
<1>3. PICK X \in F : \A Y \in F : ~ (<<Y, X>> \in StrictSubsetOrdering(Block))
  <2> HIDE DEF F
  <2> QED BY <1>1, <1>2, WFMin
<1>4. PICK b \in hs : X = far(b)
  BY <1>3
<1>h. \A c \in hs : Pays[c] \in Nat
  BY BoundTypes
<1>5. ASSUME NEW c \in hs, ~ (Pays[c] <= Pays[b]) PROVE FALSE
  <2>1. far(c) \subseteq far(b) /\ b \in far(b) /\ b \notin far(c)
    BY <1>5, <1>h
  <2>2. far(c) \in F /\ far(c) \in SUBSET Block /\ far(b) \in SUBSET Block
    OBVIOUS
  <2>3. <<far(c), far(b)>> \in StrictSubsetOrdering(Block)
    <3> HIDE DEF F, far
    <3> QED BY <2>1, <2>2 DEF StrictSubsetOrdering
  <2> HIDE DEF F, far
  <2> QED BY <1>3, <1>4, <2>2, <2>3
<1> QED BY <1>5

\* Paid is the last address that is paid to.
LEMMA PaidIs ==
    ASSUME NEW hs \in SUBSET Block
    PROVE  /\ Paid(hs) \in Nat /\ \A h \in hs : Pays[h] <= Paid(hs)
           /\ \A n \in Nat : (\A h \in hs : Pays[h] <= n) => Paid(hs) <= n
<1> DEFINE Z == {Pays[h] : h \in hs} \cup {0}
<1>1. Paid(hs) = Max(Z)
  BY DEF Paid, Highest
<1>2. \E z \in Z : \A y \in Z : z >= y
  <2>1. CASE hs = {}
    BY <2>1
  <2>2. CASE hs # {}
    <3>1. PICK b \in hs : \A c \in hs : Pays[c] <= Pays[b]
      BY <2>2, LastPaid
    <3>2. \A h \in hs : Pays[h] \in Nat
      BY BoundTypes
    <3> QED BY <3>1, <3>2
  <2> QED BY <2>1, <2>2
<1>3. Max(Z) \in Z /\ \A y \in Z : Max(Z) >= y
  <2> HIDE DEF Z
  <2> QED BY <1>2 DEF Max
<1>4. \A h \in hs : Pays[h] \in Nat
  BY BoundTypes
<1>5. \A n \in Nat : (\A h \in hs : Pays[h] <= n) => \A y \in Z : y <= n
  BY <1>4
<1> QED BY <1>1, <1>3, <1>4, <1>5

LEMMA PaidGrows ==
    ASSUME NEW hs \in SUBSET Block, NEW gs \in SUBSET Block, \A h \in hs : Pays[h] > 0 => h \in gs
    PROVE  Paid(hs) <= Paid(gs)
BY PaidIs, BoundTypes

-----------------------------------------------------------------------------
(* Sequences                                                                *)

\* How many messages of a kind wait.
Kind(q, m) == {i \in DOMAIN q : q[i].m = m}
Count(q, m) == Cardinality(Kind(q, m))

LEMMA SeqIs ==
    ASSUME NEW S, NEW q \in Seq(S)
    PROVE  Len(q) \in Nat /\ DOMAIN q = 1 .. Len(q) /\ \A i \in DOMAIN q : q[i] \in S
BY LenProperties, ElementOfSeq

LEMMA AppendIs ==
    ASSUME NEW S, NEW q \in Seq(S), NEW x \in S, NEW w, w = Append(q, x)
    PROVE  /\ w \in Seq(S) /\ Len(w) = Len(q) + 1 /\ w # <<>> /\ Len(q) \in Nat
           /\ DOMAIN q = 1 .. Len(q) /\ DOMAIN w = 1 .. Len(q) + 1
           /\ \A i \in DOMAIN q : i \in DOMAIN w /\ w[i] = q[i]
           /\ w[Len(q) + 1] = x
           /\ \A i \in DOMAIN w : i \in DOMAIN q \/ i = Len(q) + 1
BY AppendProperties, LenProperties

LEMMA TailIs ==
    ASSUME NEW S, NEW q \in Seq(S), q # <<>>, NEW w, w = Tail(q)
    PROVE  /\ w \in Seq(S) /\ Len(w) = Len(q) - 1 /\ Len(q) \in Nat /\ Len(q) > 0
           /\ DOMAIN q = 1 .. Len(q) /\ DOMAIN w = 1 .. Len(q) - 1
           /\ 1 \in DOMAIN q /\ Head(q) = q[1] /\ Head(q) \in S
           /\ \A i \in DOMAIN w : i + 1 \in DOMAIN q /\ w[i] = q[i + 1]
           /\ \A i \in DOMAIN q : i = 1 \/ (i - 1 \in DOMAIN w /\ w[i - 1] = q[i])
<1>1. /\ w \in Seq(S) /\ Len(w) = Len(q) - 1 /\ Len(q) \in Nat /\ Len(q) > 0
      /\ DOMAIN q = 1 .. Len(q) /\ DOMAIN w = 1 .. Len(w) /\ Head(q) \in S
      /\ \A i \in 1 .. Len(w) : w[i] = q[i + 1]
  BY HeadTailProperties, LenProperties, EmptySeq
<1>2. Head(q) = q[1]
  OBVIOUS
<1>3. DOMAIN w = 1 .. Len(q) - 1 /\ 1 \in DOMAIN q
  BY <1>1
<1>4. \A i \in DOMAIN w : i + 1 \in DOMAIN q /\ w[i] = q[i + 1]
  BY <1>1
<1>5. \A i \in DOMAIN q : i = 1 \/ (i - 1 \in DOMAIN w /\ w[i - 1] = q[i])
  <2> TAKE i \in DOMAIN q
  <2> SUFFICES ASSUME i # 1 PROVE i - 1 \in DOMAIN w /\ w[i - 1] = q[i]
    OBVIOUS
  <2>1. i - 1 \in DOMAIN w /\ i - 1 + 1 = i
    BY <1>1
  <2> QED BY <1>4, <2>1
<1> QED BY <1>1, <1>2, <1>3, <1>4, <1>5

LEMMA ConcatIs ==
    ASSUME NEW S, NEW q \in Seq(S), NEW r \in Seq(S), NEW w, w = q \o r
    PROVE  /\ w \in Seq(S) /\ Len(w) = Len(q) + Len(r) /\ Len(q) \in Nat /\ Len(r) \in Nat
           /\ DOMAIN q = 1 .. Len(q) /\ DOMAIN r = 1 .. Len(r)
           /\ \A i \in DOMAIN q : i \in DOMAIN w /\ w[i] = q[i]
           /\ \A i \in DOMAIN r : Len(q) + i \in DOMAIN w /\ w[Len(q) + i] = r[i]
           /\ \A i \in DOMAIN w : i \in DOMAIN q \/ (i > Len(q) /\ i - Len(q) \in DOMAIN r)
<1>1. /\ w \in Seq(S) /\ Len(w) = Len(q) + Len(r) /\ Len(q) \in Nat /\ Len(r) \in Nat
      /\ DOMAIN q = 1 .. Len(q) /\ DOMAIN r = 1 .. Len(r) /\ DOMAIN w = 1 .. Len(w)
      /\ \A i \in 1 .. Len(q) + Len(r) : w[i] = IF i <= Len(q) THEN q[i] ELSE r[i - Len(q)]
  BY ConcatProperties, LenProperties
<1>2. \A i \in DOMAIN q : i \in DOMAIN w /\ w[i] = q[i]
  BY <1>1
<1>3. \A i \in DOMAIN r : Len(q) + i \in DOMAIN w /\ w[Len(q) + i] = r[i]
  <2> TAKE i \in DOMAIN r
  <2>1. Len(q) + i \in 1 .. Len(q) + Len(r) /\ ~ (Len(q) + i <= Len(q)) /\ Len(q) + i - Len(q) = i
    BY <1>1
  <2> QED BY <1>1, <2>1
<1>4. \A i \in DOMAIN w : i \in DOMAIN q \/ (i > Len(q) /\ i - Len(q) \in DOMAIN r)
  BY <1>1
<1> QED BY <1>1, <1>2, <1>3, <1>4

LEMMA CountIs ==
    ASSUME NEW S, NEW q \in Seq(S), NEW c
    PROVE  /\ IsFiniteSet(Kind(q, c)) /\ Count(q, c) \in Nat
           /\ Count(q, c) = 0 <=> \A i \in DOMAIN q : q[i].m # c
<1>1. IsFiniteSet(Kind(q, c))
  <2>1. Len(q) \in Nat /\ Kind(q, c) \subseteq 1 .. Len(q)
    BY SeqIs DEF Kind
  <2>2. IsFiniteSet(1 .. Len(q))
    BY <2>1, FS_Interval
  <2> QED BY <2>1, <2>2, FS_Subset
<1>2. Count(q, c) \in Nat
  BY <1>1, FS_CardinalityType DEF Count
<1>3. Count(q, c) = 0 <=> Kind(q, c) = {}
  BY <1>1, FS_EmptySet DEF Count
<1> QED BY <1>1, <1>2, <1>3 DEF Kind

LEMMA CountAppend ==
    ASSUME NEW S, NEW q \in Seq(S), NEW x \in S, NEW c
    PROVE  /\ x.m = c => Count(Append(q, x), c) = Count(q, c) + 1
           /\ x.m # c => Count(Append(q, x), c) = Count(q, c)
<1> DEFINE w == Append(q, x)
<1>1. /\ Len(q) \in Nat /\ DOMAIN q = 1 .. Len(q)
      /\ \A i \in DOMAIN q : i \in DOMAIN w /\ w[i] = q[i]
      /\ Len(q) + 1 \in DOMAIN w /\ w[Len(q) + 1] = x
      /\ \A i \in DOMAIN w : i \in DOMAIN q \/ i = Len(q) + 1
  BY AppendIs
<1>2. IsFiniteSet(Kind(q, c)) /\ Count(q, c) \in Nat
  BY CountIs
<1>3. CASE x.m = c
  <2>1. Kind(w, c) = Kind(q, c) \cup {Len(q) + 1} /\ Len(q) + 1 \notin Kind(q, c)
    BY <1>1, <1>3 DEF Kind
  <2> QED BY <1>2, <1>3, <2>1, FS_AddElement DEF Count
<1>4. CASE x.m # c
  <2>1. Kind(w, c) = Kind(q, c)
    BY <1>1, <1>4 DEF Kind
  <2> QED BY <1>2, <1>4, <2>1 DEF Count
<1> QED BY <1>3, <1>4

LEMMA CountTail ==
    ASSUME NEW S, NEW q \in Seq(S), q # <<>>, NEW c
    PROVE  /\ q[1].m = c => Count(q, c) = Count(Tail(q), c) + 1
           /\ q[1].m # c => Count(q, c) = Count(Tail(q), c)
<1> DEFINE w == Tail(q)
<1>1. /\ w \in Seq(S) /\ 1 \in DOMAIN q /\ DOMAIN q \subseteq Nat /\ DOMAIN w \subseteq Nat \ {0}
      /\ \A i \in DOMAIN w : i + 1 \in DOMAIN q /\ w[i] = q[i + 1]
      /\ \A i \in DOMAIN q : i = 1 \/ (i - 1 \in DOMAIN w /\ w[i - 1] = q[i])
  BY TailIs
<1> DEFINE A == Kind(w, c)
           B == Kind(q, c) \ {1}
           f == [i \in A |-> i + 1]
<1>2. f \in Bijection(A, B)
  <2>1. \A i \in A : i + 1 \in B
    BY <1>1 DEF Kind
  <2>2. f \in Injection(A, B)
    BY <1>1, <2>1 DEF Injection, IsInjective, Kind
  <2>3. \A j \in B : \E i \in A : f[i] = j
    <3> TAKE j \in B
    <3>1. j - 1 \in A /\ j - 1 + 1 = j
      BY <1>1 DEF Kind
    <3> QED BY <3>1
  <2> QED BY <2>1, <2>2, <2>3 DEF Bijection, Surjection
<1>3. IsFiniteSet(A) /\ IsFiniteSet(Kind(q, c)) /\ Count(q, c) \in Nat /\ Count(w, c) \in Nat
  BY <1>1, CountIs
<1>4. Cardinality(B) = Cardinality(A)
  <2> HIDE DEF A, B, f
  <2> QED BY <1>2, <1>3, FS_Bijection DEF ExistsBijection
<1>5. Count(w, c) = Cardinality(B)
  BY <1>4 DEF Count
<1>6. CASE q[1].m = c
  <2>1. 1 \in Kind(q, c)
    BY <1>1, <1>6 DEF Kind
  <2>2. Cardinality(B) = Count(q, c) - 1
    BY <1>3, <2>1, FS_RemoveElement DEF Count
  <2> HIDE DEF A, B, f
  <2> QED BY <1>3, <1>5, <1>6, <2>2
<1>7. CASE q[1].m # c
  <2>1. B = Kind(q, c)
    BY <1>7 DEF Kind
  <2>2. Cardinality(B) = Count(q, c)
    BY <2>1 DEF Count
  <2> HIDE DEF A, B, f
  <2> QED BY <1>3, <1>5, <1>7, <2>2
<1> QED BY <1>6, <1>7

LEMMA CountConcat ==
    ASSUME NEW S, NEW q \in Seq(S), NEW r \in Seq(S), NEW c,
           \A i \in DOMAIN r : r[i].m # c
    PROVE  Count(q \o r, c) = Count(q, c)
<1> DEFINE w == q \o r
<1>1. /\ \A i \in DOMAIN q : i \in DOMAIN w /\ w[i] = q[i]
      /\ \A i \in DOMAIN r : Len(q) + i \in DOMAIN w /\ w[Len(q) + i] = r[i]
      /\ \A i \in DOMAIN w : i \in DOMAIN q \/ (i > Len(q) /\ i - Len(q) \in DOMAIN r)
      /\ Len(q) \in Nat /\ DOMAIN r = 1 .. Len(r)
  BY ConcatIs
<1>2. ASSUME NEW i \in DOMAIN w, i \notin DOMAIN q PROVE w[i].m # c
  <2>1. i - Len(q) \in DOMAIN r /\ Len(q) + (i - Len(q)) = i
    BY <1>1, <1>2
  <2> QED BY <1>1, <2>1
<1>3. Kind(w, c) = Kind(q, c)
  BY <1>1, <1>2 DEF Kind
<1> QED BY <1>3 DEF Count

-----------------------------------------------------------------------------
(* The inductive invariant, of the manager's state s and the messages q that *)
(* are on their way to the app.                                             *)

AppMsg == [m : {"inv", "invtx", "headers", "merkleblock", "tx", "pong"}, a : Seq(Block)]
NodeMsg == [m : {"getblocks", "getheaders", "getdata", "gettx", "filter", "ping"}, a : Seq(Nat)]

\* Whether q has a message m, has one with h first in it, or names h in one.
Has(q, m) == \E i \in DOMAIN q : q[i].m = m
HasOne(q, m, h) == \E i \in DOMAIN q : q[i].m = m /\ q[i].a[1] = h
Names(x, h) == \E j \in DOMAIN x.a : x.a[j] = h

\* The messages have their form, and speak of blocks that are mined.
Formed(x, t) ==
    /\ x.m = "headers" => \A i \in DOMAIN x.a : i > 1 => x.a[i] = x.a[i - 1] + 1
    /\ x.m \in {"invtx", "tx"} => Len(x.a) = 1
    /\ x.m = "merkleblock" => Len(x.a) \in {1, 2}
    /\ x.m \notin {"invtx", "tx"} => \A i \in DOMAIN x.a : x.a[i] <= t
Asked(x, t) ==
    /\ x.m = "getdata" => \A i \in DOMAIN x.a : x.a[i] \in 1 .. t
    /\ x.m = "gettx" => Len(x.a) = 1 /\ x.a[1] \in Block
    /\ x.m \in {"getblocks", "getheaders", "filter"} => Len(x.a) = 1
Mined(s, q, t) ==
    /\ s \in Manager /\ s.last <= t /\ s.orphans \subseteq 1 .. t
    /\ \A i \in DOMAIN s.known : s.known[i] <= t
    /\ q \in Seq(AppMsg) /\ \A i \in DOMAIN q : Formed(q[i], t)
    /\ \A i \in DOMAIN s.toNode : Asked(s.toNode[i], t)

\* Each callback waits for its pong, and an update has one at a time.
Waits(s, done) == s.pongs # <<>> /\ s.pongs[Len(s.pongs)] = done
Ponged(s, q) ==
    /\ Count(q, "pong") + Count(s.toNode, "ping") = Len(s.pongs) /\ Len(s.pongs) <= 2
    /\ Len(s.pongs) = 2 => s.pongs[1] = "rerequest" /\ s.pongs[2] = "update"
    /\ s.updating <=> Waits(s, "update") \/ Waits(s, "load")

\* What was asked for before an update's ping comes before its pong, and nothing
\* is asked for after it.
Flushed(s, q) ==
    /\ Waits(s, "update") =>
         /\ \A i \in DOMAIN s.toNode : s.toNode[i].m \in {"getdata", "filter"} =>
                \E j \in DOMAIN s.toNode : j > i /\ s.toNode[j].m = "ping"
         /\ \A i \in DOMAIN q : q[i].m = "merkleblock" =>
                Has(s.toNode, "ping") \/ \E j \in DOMAIN q : j > i /\ q[j].m = "pong"
    /\ Waits(s, "load") => ~ Has(s.toNode, "getdata") /\ ~ Has(q, "merkleblock")

\* A block whose payment the manager's filter holds does not come without it.
Matches(s, h) == Pays[h] = 0 \/ h \in s.wallet \/ Pays[h] > s.filter
Matched(s, q, lk, up) ==
    s.filter # None =>
        /\ Paid(s.wallet) + Gap <= s.filter
        /\ \A h \in s.orphans : Matches(s, h)
        /\ \A i \in DOMAIN q : q[i].m = "merkleblock" /\ Len(q[i].a) = 1 => Matches(s, q[i].a[1])
        /\ \A i \in DOMAIN s.toNode : s.toNode[i].m = "filter" =>
              /\ s.toNode[i].a[1] = s.filter
              /\ \A j \in DOMAIN s.toNode : s.toNode[j].m = "getdata" => j > i
        /\ up /\ ~ Has(s.toNode, "filter") => lk = s.filter

\* A payment follows its block, unless the app has asked for it: then it came before.
Paired(q, cur) ==
    /\ \A i \in DOMAIN q : q[i].m = "merkleblock" /\ Len(q[i].a) = 2 =>
          i + 1 \in DOMAIN q /\ q[i + 1].m = "tx" /\ q[i + 1].a[1] = q[i].a[1]
    /\ cur # None => q # <<>> /\ q[1].m = "tx" /\ q[1].a[1] = cur
TxFirst(s, q, kt) ==
    /\ \A h \in kt \ s.wallet :
         /\ HasOne(s.toNode, "gettx", h) \/ HasOne(q, "tx", h)
         /\ \A i \in DOMAIN q : q[i].m = "merkleblock" /\ q[i].a[1] = h =>
               \E j \in DOMAIN q : j < i /\ q[j].m = "tx" /\ q[j].a[1] = h
         /\ \A i \in DOMAIN s.toNode : s.toNode[i].m = "getdata" /\ Names(s.toNode[i], h) =>
               \/ HasOne(q, "tx", h)
               \/ \E j \in DOMAIN s.toNode : j < i /\ s.toNode[j].m = "gettx" /\ s.toNode[j].a[1] = h
    /\ \A k \in DOMAIN q : q[k].m = "invtx" /\ q[k].a[1] \notin kt =>
         /\ \A i \in DOMAIN s.known : s.known[i] # q[k].a[1]
         /\ \A i \in DOMAIN s.toNode : s.toNode[i].m = "getdata" => ~ Names(s.toNode[i], q[k].a[1])
         /\ \A i \in DOMAIN q : q[i].m = "merkleblock" => q[i].a[1] # q[k].a[1]
         /\ \A i \in DOMAIN q : q[i].m = "inv" /\ Names(q[i], q[k].a[1]) => i > k

\* Without a connection there is nothing on its way.
Apart(s, q, cur, kt) ==
    q = <<>> /\ s.toNode = <<>> /\ s.pongs = <<>> /\ s.known = <<>> /\ cur = None /\ kt = {}

NoneMissed(s) == \A h \in 1 .. s.last : Pays[h] > 0 => h \in s.wallet /\ h \in s.confirmed

Sound(s, q, lk, kt, cur, up, t) ==
    /\ Mined(s, q, t) /\ Ponged(s, q) /\ Flushed(s, q) /\ Matched(s, q, lk, up)
    /\ Paired(q, cur) /\ TxFirst(s, q, kt) /\ NoneMissed(s)
    /\ ~ up => Apart(s, q, cur, kt)

-----------------------------------------------------------------------------
(* What the manager's functions do to it                                    *)

\* r and s differ in what the node is asked at most.
Alike(r, s) ==
    /\ r.last = s.last /\ r.estimated = s.estimated /\ r.orphans = s.orphans
    /\ r.lastOrphan = s.lastOrphan /\ r.filter = s.filter /\ r.known = s.known
    /\ r.wallet = s.wallet /\ r.confirmed = s.confirmed

LEMMA ManagerIs ==
    ASSUME NEW s \in Manager
    PROVE  /\ s.last \in {0} \cup Block /\ s.estimated \in {0} \cup Block
           /\ s.orphans \in SUBSET Block /\ s.lastOrphan \in {None} \cup Block /\ s.filter \in Nat
           /\ s.updating \in BOOLEAN /\ s.known \in Seq(Block)
           /\ s.pongs \in Seq({"update", "load", "rerequest"})
           /\ s.wallet \in SUBSET Block /\ s.confirmed \in SUBSET Block /\ s.toNode \in Seq(NodeMsg)
BY DEF Manager, NodeMsg

LEMMA SendIs ==
    ASSUME NEW s \in Manager, NEW m, NEW a, NEW x \in NodeMsg, x = Msg(m, a),
           NEW r, r = Send(s, m, a)
    PROVE  /\ r \in Manager /\ Alike(r, s) /\ r.pongs = s.pongs /\ r.updating = s.updating
           /\ r.toNode = Append(s.toNode, x)
<1>2. Append(s.toNode, x) \in Seq(NodeMsg)
  BY ManagerIs, AppendProperties
<1>3. r = [s EXCEPT !.toNode = Append(s.toNode, x)]
  BY DEF Send
<1>4. r \in Manager
  BY <1>2, <1>3 DEF Manager, NodeMsg
<1> QED BY <1>3, <1>4 DEF Alike, Manager

LEMMA PingIs ==
    ASSUME NEW s \in Manager, NEW done \in {"update", "load", "rerequest"}, NEW r, r = Ping(s, done)
    PROVE  /\ r \in Manager /\ Alike(r, s) /\ r.pongs = Append(s.pongs, done)
           /\ r.updating = s.updating /\ r.toNode = Append(s.toNode, Msg("ping", <<>>))
           /\ Msg("ping", <<>>) \in NodeMsg /\ Msg("ping", <<>>).m = "ping"
<1> DEFINE x == Msg("ping", <<>>)
<1>1. x \in NodeMsg /\ x.m = "ping"
  <2>1. <<>> \in Seq(Nat)
    BY EmptySeq
  <2> QED BY <2>1 DEF Msg, NodeMsg
<1>2. r = [[s EXCEPT !.toNode = Append(s.toNode, x)] EXCEPT !.pongs = Append(s.pongs, done)]
  BY DEF Ping, Send, Manager
<1> HIDE DEF x
<1>3. /\ Append(s.pongs, done) \in Seq({"update", "load", "rerequest"})
      /\ Append(s.toNode, x) \in Seq(NodeMsg)
  BY <1>1, ManagerIs, AppendProperties
<1>4. r \in Manager
  BY <1>2, <1>3 DEF Manager, NodeMsg
<1> QED BY <1>1, <1>2, <1>4 DEF Alike, Manager, x

\* Anything but a filter or a ping may be asked for, but no blocks while the filter
\* is updated, nor those whose payments the node has announced and the app not read.
LEMMA SendingKeeps ==
    ASSUME NEW s, NEW q, NEW lk, NEW kt, NEW cur, NEW up, NEW t, Sound(s, q, lk, kt, cur, up, t),
           up = TRUE, NEW m \in {"getblocks", "getheaders", "getdata", "gettx"}, NEW a \in Seq(Nat),
           Asked(Msg(m, a), t),
           m = "getdata" =>
              /\ ~ Waits(s, "update") /\ ~ Waits(s, "load")
              /\ \A k \in DOMAIN q : q[k].m = "invtx" /\ q[k].a[1] \notin kt =>
                    ~ Names(Msg(m, a), q[k].a[1]),
           NEW r, r = Send(s, m, a)
    PROVE  Sound(r, q, lk, kt, cur, up, t)
<1> DEFINE n == Len(s.toNode)
<1>0. s \in Manager
  BY DEF Sound, Mined
<1>1. PICK x \in NodeMsg : x = Msg(m, a) /\ x.m = m /\ x.a = a
  BY DEF Msg, NodeMsg
<1>r. /\ r \in Manager /\ Alike(r, s) /\ r.pongs = s.pongs /\ r.updating = s.updating
      /\ r.toNode = Append(s.toNode, x)
  BY <1>0, <1>1, SendIs
<1>2. s.toNode \in Seq(NodeMsg)
  BY <1>0, ManagerIs
<1>3. /\ n \in Nat /\ DOMAIN s.toNode = 1 .. n
      /\ \A i \in DOMAIN s.toNode : i \in DOMAIN r.toNode /\ r.toNode[i] = s.toNode[i]
      /\ n + 1 \in DOMAIN r.toNode /\ r.toNode[n + 1] = x
      /\ \A i \in DOMAIN r.toNode : i \in DOMAIN s.toNode \/ i = n + 1
  BY <1>1, <1>r, <1>2, AppendIs
<1> HIDE DEF n
<1>4. Mined(r, q, t)
  BY <1>0, <1>1, <1>r, <1>3 DEF Sound, Mined, Alike
<1>5. Ponged(r, q)
  <2>1. Count(r.toNode, "ping") = Count(s.toNode, "ping")
    <3>1. x.m # "ping"
      BY <1>1
    <3> QED BY <1>2, <1>r, <3>1, CountAppend
  <2> QED BY <1>1, <1>r, <2>1 DEF Sound, Ponged, Waits
<1>6. Flushed(r, q)
  BY <1>1, <1>r, <1>3 DEF Sound, Flushed, Waits, Has
<1>7. Matched(r, q, lk, up)
  BY <1>1, <1>r, <1>3 DEF Sound, Matched, Alike, Matches, Has
<1>8. Paired(q, cur) /\ NoneMissed(r)
  BY <1>1, <1>r DEF Sound, NoneMissed, Alike
<1>9. TxFirst(r, q, kt)
  <2>0. TxFirst(s, q, kt) /\ r.wallet = s.wallet /\ r.known = s.known
    BY <1>1, <1>r DEF Sound, Alike
  <2>1. \A h \in kt \ s.wallet :
          /\ HasOne(r.toNode, "gettx", h) \/ HasOne(q, "tx", h)
          /\ \A i \in DOMAIN r.toNode : r.toNode[i].m = "getdata" /\ Names(r.toNode[i], h) =>
               \/ HasOne(q, "tx", h)
               \/ \E j \in DOMAIN r.toNode : j < i /\ r.toNode[j].m = "gettx" /\ r.toNode[j].a[1] = h
    <3> TAKE h \in kt \ s.wallet
    <3>1. HasOne(r.toNode, "gettx", h) \/ HasOne(q, "tx", h)
      BY <1>3, <2>0 DEF TxFirst, HasOne
    <3>2. ASSUME NEW i \in DOMAIN r.toNode, r.toNode[i].m = "getdata", Names(r.toNode[i], h),
                 ~ HasOne(q, "tx", h)
          PROVE  \E j \in DOMAIN r.toNode : j < i /\ r.toNode[j].m = "gettx" /\ r.toNode[j].a[1] = h
      <4>1. CASE i \in DOMAIN s.toNode
        BY <1>3, <2>0, <3>2, <4>1 DEF TxFirst
      <4>2. CASE i = n + 1
        <5>1. PICK j \in DOMAIN s.toNode : s.toNode[j].m = "gettx" /\ s.toNode[j].a[1] = h
          BY <2>0, <3>2 DEF TxFirst, HasOne
        <5> QED BY <1>3, <4>2, <5>1
      <4> QED BY <1>3, <4>1, <4>2
    <3> QED BY <3>1, <3>2
  <2>2. \A k \in DOMAIN q : q[k].m = "invtx" /\ q[k].a[1] \notin kt =>
          \A i \in DOMAIN r.toNode : r.toNode[i].m = "getdata" => ~ Names(r.toNode[i], q[k].a[1])
    BY <1>1, <1>r, <1>3, <2>0 DEF TxFirst
  <2> QED BY <2>0, <2>1, <2>2 DEF TxFirst
<1> QED BY <1>4, <1>5, <1>6, <1>7, <1>8, <1>9 DEF Sound

\* r is s with one more ping.
Pinged(r, s, done) ==
    /\ r \in Manager /\ Alike(r, s) /\ r.pongs = Append(s.pongs, done)
    /\ r.toNode = Append(s.toNode, Msg("ping", <<>>))

\* A ping may be sent for an update that is to begin, after a filter with none of the
\* blocks on their way, or after blocks that are asked for again.
LEMMA PingingKeeps ==
    ASSUME NEW s, NEW q, NEW lk, NEW kt, NEW cur, NEW up, NEW t, Sound(s, q, lk, kt, cur, up, t),
           up = TRUE, s.updating = FALSE, NEW done \in {"update", "load", "rerequest"},
           done # "update" => s.pongs = <<>>,
           done = "load" => ~ Has(s.toNode, "getdata") /\ ~ Has(q, "merkleblock"),
           NEW r, Pinged(r, s, done),
           done # "rerequest" => r.updating = TRUE, done = "rerequest" => r.updating = FALSE
    PROVE  Sound(r, q, lk, kt, cur, up, t)
<1> DEFINE n == Len(s.toNode)
<1>0. s \in Manager /\ s.toNode \in Seq(NodeMsg) /\ s.pongs \in Seq({"update", "load", "rerequest"})
  BY ManagerIs DEF Sound, Mined
<1>1. PICK x \in NodeMsg : x = Msg("ping", <<>>) /\ x.m = "ping"
  <2> DEFINE a == <<>>
  <2>1. a \in Seq(Nat)
    BY EmptySeq
  <2> HIDE DEF a
  <2>2. Msg("ping", a) \in NodeMsg /\ Msg("ping", a).m = "ping"
    BY <2>1 DEF Msg, NodeMsg
  <2> QED BY <2>2 DEF a
<1>3. /\ n \in Nat /\ DOMAIN s.toNode = 1 .. n
      /\ \A i \in DOMAIN s.toNode : i \in DOMAIN r.toNode /\ r.toNode[i] = s.toNode[i]
      /\ n + 1 \in DOMAIN r.toNode /\ r.toNode[n + 1] = x
      /\ \A i \in DOMAIN r.toNode : i \in DOMAIN s.toNode \/ i = n + 1
  BY <1>0, <1>1, AppendIs DEF Pinged
<1> HIDE DEF n
<1>r. r \in Manager /\ Alike(r, s)
  BY DEF Pinged
<1>p. /\ ~ Waits(s, "update") /\ ~ Waits(s, "load") /\ Len(s.pongs) <= 1
      /\ Len(r.pongs) = Len(s.pongs) + 1 /\ r.pongs[Len(r.pongs)] = done /\ r.pongs # <<>>
      /\ Len(s.pongs) = 1 => r.pongs[1] = "rerequest"
      /\ Len(s.pongs) \in Nat
  <2>1. /\ Len(s.pongs) \in Nat /\ DOMAIN s.pongs = 1 .. Len(s.pongs)
        /\ \A i \in DOMAIN s.pongs : s.pongs[i] \in {"update", "load", "rerequest"}
    BY <1>0, SeqIs
  <2>2. /\ Len(r.pongs) = Len(s.pongs) + 1 /\ r.pongs # <<>>
        /\ \A i \in DOMAIN s.pongs : r.pongs[i] = s.pongs[i]
        /\ r.pongs[Len(s.pongs) + 1] = done
    <3> DEFINE D == {"update", "load", "rerequest"}
    <3>1. s.pongs \in Seq(D) /\ done \in D
      BY <1>0
    <3>2. r.pongs = Append(s.pongs, done)
      BY DEF Pinged
    <3> HIDE DEF D
    <3> DEFINE p == s.pongs
               w == r.pongs
               d == done
    <3>3. p \in Seq(D) /\ d \in D /\ w = Append(p, d)
      BY <3>1, <3>2
    <3> HIDE DEF p, w, d
    <3>4. /\ Len(w) = Len(p) + 1 /\ w # <<>>
          /\ \A i \in DOMAIN p : w[i] = p[i]
          /\ w[Len(p) + 1] = d
      BY <3>3, AppendIs
    <3> QED BY <3>4 DEF p, w, d
  <2>3. ~ Waits(s, "update") /\ ~ Waits(s, "load")
    BY DEF Sound, Ponged
  <2>n. Len(s.pongs) \in Nat
    BY <2>1
  <2>4. Len(s.pongs) <= 1
    <3>1. Len(s.pongs) <= 2 /\ (Len(s.pongs) = 2 => s.pongs[2] = "update")
      BY DEF Sound, Ponged
    <3>2. ASSUME Len(s.pongs) = 2 PROVE FALSE
      <4>1. s.pongs # <<>>
        BY <3>2
      <4>2. s.pongs[Len(s.pongs)] = "update"
        BY <3>1, <3>2
      <4> QED BY <2>3, <4>1, <4>2 DEF Waits
    <3>3. Len(s.pongs) <= 2
      BY <3>1
    <3> DEFINE k == Len(s.pongs)
    <3>4. k \in Nat /\ k # 2 /\ k <= 2
      BY <2>n, <3>2, <3>3
    <3> HIDE DEF k
    <3>5. k <= 1
      BY <3>4
    <3> QED BY <3>5 DEF k
  <2>5. Len(s.pongs) = 1 => s.pongs[1] = "rerequest"
    <3>1. Len(s.pongs) = 1 => s.pongs # <<>> /\ s.pongs[1] \in {"update", "load", "rerequest"}
      BY <2>1
    <3> QED BY <2>3, <3>1 DEF Waits
  <2> QED BY <2>1, <2>2, <2>3, <2>4, <2>5
<1>4. Mined(r, q, t)
  BY <1>1, <1>r, <1>3 DEF Sound, Mined, Alike, Asked
<1>5. Ponged(r, q)
  <2>1. Count(r.toNode, "ping") = Count(s.toNode, "ping") + 1
    BY <1>0, <1>1, CountAppend DEF Pinged
  <2>2. Count(s.toNode, "ping") \in Nat
    BY <1>0, CountIs
  <2>3. q \in Seq(AppMsg)
    BY DEF Sound, Mined
  <2>4. Count(q, "pong") \in Nat
    BY <2>3, CountIs
  <2>5. Count(q, "pong") + Count(s.toNode, "ping") = Len(s.pongs)
    BY DEF Sound, Ponged
  <2>6. Len(r.pongs) = 2 => r.pongs[1] = "rerequest" /\ r.pongs[2] = "update"
    <3>1. SUFFICES ASSUME Len(r.pongs) = 2 PROVE done = "update" /\ Len(s.pongs) = 1
      BY <1>p
    <3>2. done # "update" => Len(s.pongs) = 0
      OBVIOUS
    <3>3. Len(s.pongs) = 1
      <4>1. Len(s.pongs) \in Nat /\ Len(r.pongs) = Len(s.pongs) + 1
        BY <1>p
      <4> DEFINE k == Len(s.pongs)
      <4>2. k \in Nat /\ k + 1 = 2
        BY <3>1, <4>1
      <4> HIDE DEF k
      <4>3. k = 1
        BY <4>2
      <4> QED BY <4>3 DEF k
    <3>4. done = "update"
      BY <3>2, <3>3
    <3> QED BY <3>3, <3>4
  <2>7. r.updating <=> Waits(r, "update") \/ Waits(r, "load")
    BY <1>p DEF Waits
  <2>8. Count(q, "pong") + Count(r.toNode, "ping") = Len(r.pongs) /\ Len(r.pongs) <= 2
    BY <1>p, <2>1, <2>2, <2>4, <2>5
  <2> QED BY <2>6, <2>7, <2>8 DEF Ponged
<1>6. Flushed(r, q)
  <2>1. Waits(r, "update") =>
         /\ \A i \in DOMAIN r.toNode : r.toNode[i].m \in {"getdata", "filter"} =>
                \E j \in DOMAIN r.toNode : j > i /\ r.toNode[j].m = "ping"
         /\ Has(r.toNode, "ping")
    BY <1>1, <1>3 DEF Has
  <2>2. Waits(r, "load") => ~ Has(r.toNode, "getdata") /\ ~ Has(q, "merkleblock")
    <3>1. Waits(r, "load") => done = "load"
      BY <1>p DEF Waits
    <3> QED BY <1>1, <1>3, <3>1 DEF Has
  <2> QED BY <2>1, <2>2 DEF Flushed
<1>7. Matched(r, q, lk, up)
  BY <1>1, <1>r, <1>3 DEF Sound, Matched, Alike, Matches, Has
<1>8. Paired(q, cur) /\ NoneMissed(r)
  BY <1>r DEF Sound, NoneMissed, Alike
<1>9. TxFirst(r, q, kt)
  <2>0. TxFirst(s, q, kt) /\ r.wallet = s.wallet /\ r.known = s.known
    BY <1>r DEF Sound, Alike
  <2>1. \A h \in kt \ s.wallet :
          /\ HasOne(r.toNode, "gettx", h) \/ HasOne(q, "tx", h)
          /\ \A i \in DOMAIN r.toNode : r.toNode[i].m = "getdata" /\ Names(r.toNode[i], h) =>
               \/ HasOne(q, "tx", h)
               \/ \E j \in DOMAIN r.toNode : j < i /\ r.toNode[j].m = "gettx" /\ r.toNode[j].a[1] = h
    <3> TAKE h \in kt \ s.wallet
    <3>1. HasOne(r.toNode, "gettx", h) \/ HasOne(q, "tx", h)
      BY <1>3, <2>0 DEF TxFirst, HasOne
    <3>2. ASSUME NEW i \in DOMAIN r.toNode, r.toNode[i].m = "getdata", Names(r.toNode[i], h),
                 ~ HasOne(q, "tx", h)
          PROVE  \E j \in DOMAIN r.toNode : j < i /\ r.toNode[j].m = "gettx" /\ r.toNode[j].a[1] = h
      <4>1. i \in DOMAIN s.toNode
        BY <1>1, <1>3, <3>2
      <4> QED BY <1>3, <2>0, <3>2, <4>1 DEF TxFirst
    <3> QED BY <3>1, <3>2
  <2>2. \A k \in DOMAIN q : q[k].m = "invtx" /\ q[k].a[1] \notin kt =>
          \A i \in DOMAIN r.toNode : r.toNode[i].m = "getdata" => ~ Names(r.toNode[i], q[k].a[1])
    BY <1>1, <1>3, <2>0 DEF TxFirst
  <2> QED BY <2>0, <2>1, <2>2 DEF TxFirst
<1> QED BY <1>4, <1>5, <1>6, <1>7, <1>8, <1>9 DEF Sound

LEMMA UpdateFilterKeeps ==
    ASSUME NEW s, NEW q, NEW lk, NEW kt, NEW cur, NEW up, NEW t, Sound(s, q, lk, kt, cur, up, t),
           up = TRUE
    PROVE  Sound(UpdateFilter(s), q, lk, kt, cur, up, t) /\ Alike(UpdateFilter(s), s)
<1>0. s \in Manager
  BY DEF Sound, Mined
<1>1. CASE s.updating
  BY <1>1 DEF UpdateFilter, Alike
<1>2. CASE ~ s.updating
  <2>1. PICK p \in Manager :
           /\ p = Ping(s, "update") /\ Alike(p, s) /\ p.pongs = Append(s.pongs, "update")
           /\ p.updating = s.updating /\ p.toNode = Append(s.toNode, Msg("ping", <<>>))
    BY <1>0, PingIs
  <2> DEFINE r == [p EXCEPT !.updating = TRUE]
  <2>2. UpdateFilter(s) = r
    BY <1>2, <2>1 DEF UpdateFilter
  <2>3. /\ r \in Manager /\ Alike(r, s) /\ r.pongs = Append(s.pongs, "update")
        /\ r.updating = TRUE /\ r.toNode = Append(s.toNode, Msg("ping", <<>>))
    BY <2>1 DEF Alike, Manager
  <2>4. s.updating = FALSE
    BY <1>0, <1>2, ManagerIs
  <2> HIDE DEF r
  <2>5. Sound(r, q, lk, kt, cur, up, t)
    <3> DEFINE d == "update"
    <3>1. /\ d \in {"update", "load", "rerequest"} /\ Pinged(r, s, d) /\ d = "update"
          /\ r.updating = TRUE
          /\ d = "rerequest" => s.pongs = <<>>
      BY <2>3 DEF Pinged
    <3>2. d # "rerequest" /\ d # "load"
      OBVIOUS
    <3> HIDE DEF d
    <3> QED BY <2>4, <3>1, <3>2, PingingKeeps
  <2> QED BY <2>2, <2>3, <2>5
<1> QED BY <1>0, <1>1, <1>2, ManagerIs

\* What is stored may change, as long as what the filter holds stays true.
Stored(r, s, t) ==
    /\ r \in Manager /\ r.toNode = s.toNode /\ r.pongs = s.pongs /\ r.updating = s.updating
    /\ r.known = s.known /\ s.wallet \subseteq r.wallet
    /\ r.last <= t /\ r.orphans \subseteq 1 .. t /\ NoneMissed(r)
    /\ r.filter # None =>
          /\ r.filter = s.filter /\ Paid(r.wallet) + Gap <= r.filter
          /\ \A h \in r.orphans : Matches(r, h)

LEMMA StoringKeeps ==
    ASSUME NEW s, NEW q, NEW lk, NEW kt, NEW cur, NEW up, NEW t, Sound(s, q, lk, kt, cur, up, t),
           NEW r, Stored(r, s, t)
    PROVE  Sound(r, q, lk, kt, cur, up, t)
<1>1. Mined(r, q, t) /\ Ponged(r, q) /\ Flushed(r, q)
  BY DEF Sound, Stored, Mined, Ponged, Flushed, Waits
<1>2. Matched(r, q, lk, up)
  BY DEF Sound, Stored, Matched, Matches
<1>3. Paired(q, cur) /\ NoneMissed(r)
  BY DEF Sound, Stored
<1>4. TxFirst(r, q, kt)
  <2>1. kt \ r.wallet \subseteq kt \ s.wallet /\ r.toNode = s.toNode /\ r.known = s.known
    BY DEF Stored
  <2>2. TxFirst(s, q, kt)
    BY DEF Sound
  <2>3. \A h \in kt \ r.wallet :
         /\ HasOne(r.toNode, "gettx", h) \/ HasOne(q, "tx", h)
         /\ \A i \in DOMAIN q : q[i].m = "merkleblock" /\ q[i].a[1] = h =>
               \E j \in DOMAIN q : j < i /\ q[j].m = "tx" /\ q[j].a[1] = h
         /\ \A i \in DOMAIN r.toNode : r.toNode[i].m = "getdata" /\ Names(r.toNode[i], h) =>
               \/ HasOne(q, "tx", h)
               \/ \E j \in DOMAIN r.toNode : j < i /\ r.toNode[j].m = "gettx" /\ r.toNode[j].a[1] = h
    BY <2>1, <2>2 DEF TxFirst
  <2>4. \A k \in DOMAIN q : q[k].m = "invtx" /\ q[k].a[1] \notin kt =>
         /\ \A i \in DOMAIN r.known : r.known[i] # q[k].a[1]
         /\ \A i \in DOMAIN r.toNode : r.toNode[i].m = "getdata" => ~ Names(r.toNode[i], q[k].a[1])
         /\ \A i \in DOMAIN q : q[i].m = "merkleblock" => q[i].a[1] # q[k].a[1]
         /\ \A i \in DOMAIN q : q[i].m = "inv" /\ Names(q[i], q[k].a[1]) => i > k
    BY <2>1, <2>2 DEF TxFirst
  <2> QED BY <2>3, <2>4 DEF TxFirst
<1>5. ~ up => Apart(r, q, cur, kt)
  BY DEF Sound, Stored, Apart
<1> QED BY <1>1, <1>2, <1>3, <1>4, <1>5 DEF Sound

\* The last block that is stored after h.
End(s, h) == Max({k \in h .. MaxTop : (h + 1) .. k \subseteq s.orphans})

LEMMA EndIs ==
    ASSUME NEW s \in Manager, NEW h \in Block
    PROVE  /\ End(s, h) \in Block /\ End(s, h) >= h
           /\ \A k \in (h + 1) .. End(s, h) : k \in s.orphans
<1> DEFINE S == {k \in h .. MaxTop : (h + 1) .. k \subseteq s.orphans}
<1>0. MaxTop \in Nat /\ h \in Nat /\ h > 0 /\ h <= MaxTop
  BY BoundTypes DEF Block
<1>1. h \in S
  <2>1. (h + 1) .. h = {}
    BY <1>0
  <2> QED BY <1>0, <2>1
<1>2. S \in SUBSET Nat /\ S # {} /\ \A k \in S : k <= MaxTop
  BY <1>0, <1>1
<1>3. End(s, h) = Max(S)
  BY DEF End
<1>4. Max(S) \in S
  <2> HIDE DEF S
  <2> QED BY <1>0, <1>2, GreatestOf
<1>5. Max(S) \in h .. MaxTop /\ (h + 1) .. Max(S) \subseteq s.orphans
  BY <1>4
<1> HIDE DEF S
<1> QED BY <1>0, <1>3, <1>5 DEF Block

\* The payments of blocks that are stored have come with them: before a payment
\* that the filter does not hold comes one that the wallet would not know.
LEMMA NextArePaid ==
    ASSUME NEW s \in Manager, NEW h \in Block, NEW end \in Block, h > s.last,
           NoneMissed(s), Paid(s.wallet) + Gap <= s.filter, Matches(s, h),
           \A k \in (h + 1) .. end : Matches(s, k),
           \A k \in (s.last + 1) .. (h - 1) : Pays[k] = 0
    PROVE  \A k \in 1 .. end : Pays[k] > 0 => k \in s.wallet
<1> DEFINE B == {k \in 1 .. end : Pays[k] > 0 /\ k \notin s.wallet}
<1>0. /\ s.last \in Nat /\ h \in Nat /\ end \in Nat /\ MaxTop \in Nat /\ end <= MaxTop /\ Gap \in Nat
      /\ s.wallet \in SUBSET Block /\ s.filter \in Nat
  BY BoundTypes, ManagerIs DEF Block
<1>1. SUFFICES ASSUME B # {} PROVE FALSE
  OBVIOUS
<1>2. B \in SUBSET Nat /\ \A k \in B : k \in Block
  BY <1>0 DEF Block
<1>3. PICK k \in B : \A n \in B : k <= n
  <2> HIDE DEF B
  <2> QED BY <1>1, <1>2, LeastOf
<1>4. k \in Block /\ k \in Nat /\ k <= end /\ Pays[k] > 0 /\ k \notin s.wallet
  BY <1>2, <1>3
<1>5. k >= h
  BY <1>0, <1>4 DEF NoneMissed
<1>6. Pays[k] > s.filter
  <2>1. Matches(s, k)
    <3>1. k = h \/ k \in (h + 1) .. end
      BY <1>0, <1>4, <1>5
    <3> QED BY <3>1
  <2>2. Pays[k] \in Nat
    BY <1>4, BoundTypes
  <2> QED BY <1>4, <2>1, <2>2 DEF Matches
<1>7. \A j \in 1 .. k - 1 : Pays[j] > 0 => j \in s.wallet
  <2> TAKE j \in 1 .. k - 1
  <2>1. j \in 1 .. end /\ ~ (k <= j)
    BY <1>0, <1>4
  <2>2. j \notin B
    BY <1>3, <2>1
  <2> QED BY <2>1, <2>2
<1> HIDE DEF B
<1>8. Paid(1 .. k - 1) <= Paid(s.wallet)
  <2> DEFINE W == 1 .. k - 1
  <2>1. W \in SUBSET Block
    BY <1>0, <1>4 DEF Block
  <2>2. \A j \in W : Pays[j] > 0 => j \in s.wallet
    BY <1>7
  <2> HIDE DEF W
  <2>3. Paid(W) <= Paid(s.wallet)
    BY <1>0, <2>1, <2>2, PaidGrows
  <2> QED BY <2>3 DEF W
<1>9. Pays[k] <= Paid(1 .. k - 1) + Gap
  BY <1>4, PaysAssumption
<1>10. Paid(1 .. k - 1) \in Nat /\ Paid(s.wallet) \in Nat /\ Pays[k] \in Nat
  <2>1. 1 .. k - 1 \in SUBSET Block
    BY <1>0, <1>4 DEF Block
  <2> QED BY <1>0, <1>4, <2>1, PaidIs, BoundTypes
<1> QED BY <1>0, <1>6, <1>8, <1>9, <1>10

\* A block that extends the chain, and those that waited for it, are stored.
LEMMA ExtendStores ==
    ASSUME NEW s, NEW q, NEW lk, NEW kt, NEW cur, NEW up, NEW t \in Block,
           Sound(s, q, lk, kt, cur, up, t), s.filter # None,
           NEW h \in Block, h > s.last, h <= t, Matches(s, h),
           \A k \in (s.last + 1) .. (h - 1) : Pays[k] = 0
    PROVE  Sound(Extend(s, h), q, lk, kt, cur, up, t)
<1> DEFINE end == End(s, h)
           est == Max({s.estimated, end})
           r == Extend(s, h)
<1>0. s \in Manager /\ s.last \in Nat /\ h \in Nat /\ t \in Nat /\ s.wallet \in SUBSET Block
  BY BoundTypes, ManagerIs DEF Sound, Mined
<1>1. end \in Block /\ end >= h /\ \A k \in (h + 1) .. end : k \in s.orphans
  BY <1>0, EndIs
<1>e. end \in Nat
  BY <1>1, BoundTypes
<1>2. est \in {0} \cup Block
  <2>1. s.estimated \in {0} \cup Block /\ s.estimated \in Nat
    <3>1. s.estimated \in {0} \cup Block
      BY <1>0, ManagerIs
    <3> QED BY <3>1, BoundTypes
  <2> DEFINE S == {s.estimated, end}
  <2>2. S \in SUBSET Nat /\ S # {} /\ \A x \in S : x <= s.estimated + end
    BY <1>e, <2>1
  <2>3. s.estimated + end \in Nat /\ S \subseteq {0} \cup Block
    BY <1>1, <1>e, <2>1
  <2> HIDE DEF S
  <2>4. Max(S) \in S
    BY <2>2, <2>3, GreatestOf
  <2> QED BY <2>3, <2>4 DEF S
<1>3. r = [s EXCEPT !.last = end, !.estimated = est, !.orphans = s.orphans \ (h .. end),
                    !.confirmed = s.confirmed \cup ((h .. end) \cap s.wallet)]
  BY <1>0 DEF Extend, End
<1> HIDE DEF end, est, r
<1>4. r \in Manager
  <2>1. s.orphans \ (h .. end) \in SUBSET Block /\ s.confirmed \cup ((h .. end) \cap s.wallet) \in SUBSET Block
    BY <1>0, ManagerIs
  <2> QED BY <1>0, <1>1, <1>2, <1>3, <2>1 DEF Manager
<1>5. /\ r.toNode = s.toNode /\ r.pongs = s.pongs /\ r.updating = s.updating /\ r.known = s.known
      /\ r.wallet = s.wallet /\ r.filter = s.filter
      /\ r.last = end /\ r.orphans = s.orphans \ (h .. end)
      /\ r.confirmed = s.confirmed \cup ((h .. end) \cap s.wallet)
  BY <1>0, <1>3 DEF Manager
<1>6. Paid(s.wallet) + Gap <= s.filter /\ \A k \in s.orphans : Matches(s, k)
  BY DEF Sound, Matched
<1>7. end <= t
  <2>1. s.orphans \subseteq 1 .. t
    BY DEF Sound, Mined
  <2>2. CASE end = h
    BY <2>2
  <2>3. CASE end # h
    <3>1. end \in (h + 1) .. end
      BY <1>0, <1>1, <1>e, <2>3
    <3> QED BY <1>0, <1>1, <2>1, <3>1
  <2> QED BY <2>2, <2>3
<1>8. \A k \in 1 .. end : Pays[k] > 0 => k \in s.wallet
  <2>1. NoneMissed(s) /\ \A k \in (h + 1) .. end : Matches(s, k)
    BY <1>1, <1>6 DEF Sound
  <2> QED BY <1>0, <1>1, <1>6, <2>1, NextArePaid
<1>9. NoneMissed(r)
  <2> SUFFICES ASSUME NEW k \in 1 .. end, Pays[k] > 0 PROVE k \in s.wallet /\ k \in r.confirmed
    BY <1>5 DEF NoneMissed
  <2>1. k \in s.wallet
    BY <1>8
  <2>2. CASE k <= s.last
    <3>1. NoneMissed(s) /\ k \in 1 .. s.last
      BY <1>0, <2>2 DEF Sound
    <3> QED BY <1>5, <2>1, <3>1 DEF NoneMissed
  <2>3. CASE k > s.last /\ k < h
    <3>1. k \in (s.last + 1) .. (h - 1)
      BY <1>0, <2>3
    <3> QED BY <3>1
  <2>4. CASE k >= h
    <3>1. k \in h .. end
      BY <2>4
    <3> QED BY <1>5, <2>1, <3>1
  <2> QED BY <1>0, <2>2, <2>3, <2>4
<1>10. Stored(r, s, t)
  <2>1. r.orphans \subseteq 1 .. t /\ \A k \in r.orphans : Matches(r, k)
    BY <1>5, <1>6 DEF Sound, Mined, Matches
  <2> QED BY <1>4, <1>5, <1>6, <1>7, <1>9, <2>1 DEF Stored
<1>11. Sound(r, q, lk, kt, cur, up, t)
  BY <1>10, StoringKeeps
<1> QED BY <1>11 DEF r

\* A block that is too high waits, and those before it may be asked for.
LEMMA OrphanKeeps ==
    ASSUME NEW s, NEW q, NEW lk, NEW kt, NEW cur, NEW up, NEW t \in Block,
           Sound(s, q, lk, kt, cur, up, t), up = TRUE, NEW h \in Block, h <= t, Matches(s, h)
    PROVE  Sound(Orphan(s, h), q, lk, kt, cur, up, t)
<1> DEFINE a == <<s.last>>
           u == Send(s, "getblocks", a)
           v == [s EXCEPT !.orphans = s.orphans \cup {h}, !.lastOrphan = h]
           w == [u EXCEPT !.orphans = u.orphans \cup {h}, !.lastOrphan = h]
<1>0. s \in Manager /\ s.last \in Nat /\ h \in 1 .. t
  BY BoundTypes, ManagerIs DEF Sound, Mined
<1>1. Sound(u, q, lk, kt, cur, up, t) /\ u \in Manager /\ Alike(u, s)
  <2> DEFINE m == "getblocks"
  <2>1. a \in Seq(Nat) /\ Len(a) = 1
    BY <1>0
  <2>2. m \in {"getblocks", "getheaders", "getdata", "gettx"} /\ m # "getdata"
    OBVIOUS
  <2>3. Asked(Msg(m, a), t)
    BY <2>1 DEF Asked, Msg
  <2>4. PICK x \in NodeMsg : x = Msg(m, a)
    BY <2>1 DEF Msg, NodeMsg
  <2> DEFINE z == Send(s, m, a)
  <2> HIDE DEF a, m
  <2>5. Sound(z, q, lk, kt, cur, up, t)
    BY <2>1, <2>2, <2>3, SendingKeeps
  <2>6. z \in Manager /\ Alike(z, s)
    BY <1>0, <2>4, SendIs
  <2> QED BY <2>5, <2>6 DEF m
<1> HIDE DEF a, u
<1>2. ASSUME NEW y, Sound(y, q, lk, kt, cur, up, t), Matches(y, h)
      PROVE  Sound([y EXCEPT !.orphans = y.orphans \cup {h}, !.lastOrphan = h], q, lk, kt, cur, up, t)
  <2> DEFINE r == [y EXCEPT !.orphans = y.orphans \cup {h}, !.lastOrphan = h]
  <2>1. y \in Manager
    BY <1>2 DEF Sound, Mined
  <2>2. r \in Manager /\ r.orphans = y.orphans \cup {h}
    BY <2>1 DEF Manager
  <2>3. /\ r.toNode = y.toNode /\ r.pongs = y.pongs /\ r.updating = y.updating /\ r.known = y.known
        /\ r.wallet = y.wallet /\ r.filter = y.filter /\ r.last = y.last /\ r.confirmed = y.confirmed
    BY <2>1 DEF Manager
  <2> HIDE DEF r
  <2>4. NoneMissed(r) /\ r.orphans \subseteq 1 .. t /\ r.last <= t
    BY <1>0, <1>2, <2>2, <2>3 DEF Sound, Mined, NoneMissed
  <2>5. r.filter # None => Paid(r.wallet) + Gap <= r.filter /\ \A k \in r.orphans : Matches(r, k)
    BY <1>2, <2>2, <2>3 DEF Sound, Matched, Matches
  <2>6. Stored(r, y, t)
    BY <2>2, <2>3, <2>4, <2>5 DEF Stored
  <2>7. Sound(r, q, lk, kt, cur, up, t)
    BY <1>2, <2>6, StoringKeeps
  <2> QED BY <2>7 DEF r
<1>3. Sound(v, q, lk, kt, cur, up, t)
  BY <1>2
<1>4. Sound(w, q, lk, kt, cur, up, t)
  <2>1. Matches(u, h)
    BY <1>1 DEF Matches, Alike
  <2> QED BY <1>1, <1>2, <2>1
<1>5. Orphan(s, h) \in {s, v, w}
  BY DEF Orphan, a, u
<1> QED BY <1>3, <1>4, <1>5

LEMMA RelayedBlockKeeps ==
    ASSUME NEW s, NEW q, NEW lk, NEW kt, NEW cur, NEW up, NEW t \in Block,
           Sound(s, q, lk, kt, cur, up, t), up = TRUE, NEW h \in Block, h <= t,
           s.filter # None => Matches(s, h)
    PROVE  Sound(RelayedBlock(s, h), q, lk, kt, cur, up, t)
<1>0. s \in Manager /\ s.last \in Nat /\ h \in Nat /\ s.wallet \in SUBSET Block
  BY BoundTypes, ManagerIs DEF Sound, Mined
<1>1. CASE s.filter = None
  BY <1>1 DEF RelayedBlock
<1>2. CASE s.filter # None /\ h > s.last + 1
  <2>1. RelayedBlock(s, h) = Orphan(s, h)
    BY <1>0, <1>2 DEF RelayedBlock
  <2> QED BY <1>2, <2>1, OrphanKeeps
<1>3. CASE s.filter # None /\ h = s.last + 1
  <2>1. RelayedBlock(s, h) = Extend(s, h)
    BY <1>0, <1>3 DEF RelayedBlock
  <2>2. h > s.last /\ (s.last + 1) .. (h - 1) = {}
    BY <1>0, <1>3
  <2> QED BY <1>3, <2>1, <2>2, ExtendStores
<1>4. CASE s.filter # None /\ h <= s.last
  <2> DEFINE r == [s EXCEPT !.confirmed = s.confirmed \cup ({h} \cap s.wallet)]
  <2>1. RelayedBlock(s, h) = r
    BY <1>0, <1>4 DEF RelayedBlock
  <2>2. r \in Manager
    <3>1. s.confirmed \cup ({h} \cap s.wallet) \in SUBSET Block
      BY <1>0, ManagerIs
    <3> QED BY <1>0, <3>1 DEF Manager
  <2>3. /\ r.toNode = s.toNode /\ r.pongs = s.pongs /\ r.updating = s.updating /\ r.known = s.known
        /\ r.wallet = s.wallet /\ r.filter = s.filter /\ r.last = s.last /\ r.orphans = s.orphans
        /\ r.confirmed = s.confirmed \cup ({h} \cap s.wallet)
    BY <1>0 DEF Manager
  <2> HIDE DEF r
  <2>4. Stored(r, s, t)
    BY <2>2, <2>3 DEF Stored, Sound, Mined, Matched, Matches, NoneMissed
  <2> QED BY <2>1, <2>4, StoringKeeps
<1>5. h > s.last + 1 \/ h = s.last + 1 \/ h <= s.last
  <2> DEFINE n == s.last
  <2>1. n \in Nat /\ h \in Nat
    BY <1>0
  <2> HIDE DEF n
  <2>2. h > n + 1 \/ h = n + 1 \/ h <= n
    BY <2>1
  <2> QED BY <2>2 DEF n
<1> QED BY <1>1, <1>2, <1>3, <1>4, <1>5

\* The filter may degrade at the block.
LEMMA RelayKeeps ==
    ASSUME NEW s, NEW q, NEW lk, NEW kt, NEW cur, NEW up, NEW t \in Block,
           Sound(s, q, lk, kt, cur, up, t), up = TRUE, NEW h \in Block, h <= t,
           s.filter # None => Matches(s, h)
    PROVE  /\ Sound(RelayedBlock(s, h), q, lk, kt, cur, up, t)
           /\ Sound(RelayedBlock(UpdateFilter(s), h), q, lk, kt, cur, up, t)
<1>1. Sound(RelayedBlock(s, h), q, lk, kt, cur, up, t)
  BY RelayedBlockKeeps
<1> DEFINE u == UpdateFilter(s)
<1>2. Sound(u, q, lk, kt, cur, up, t) /\ Alike(u, s)
  BY UpdateFilterKeeps
<1>3. u.filter # None => Matches(u, h)
  BY <1>2 DEF Alike, Matches
<1> HIDE DEF u
<1>4. Sound(RelayedBlock(u, h), q, lk, kt, cur, up, t)
  BY <1>2, <1>3, RelayedBlockKeeps
<1> QED BY <1>1, <1>4 DEF u

LEMMA RelayedTxKeeps ==
    ASSUME NEW s, NEW q, NEW lk, NEW kt, NEW cur, NEW up, NEW t,
           Sound(s, q, lk, kt, cur, up, t), up = TRUE, NEW h \in Block
    PROVE  /\ Sound(RelayedTx(s, h), q, lk, kt, cur, up, t)
           /\ h \in RelayedTx(s, h).wallet
<1> DEFINE u == [s EXCEPT !.wallet = s.wallet \cup {h}]
           v == [u EXCEPT !.filter = None]
<1>0. s \in Manager /\ s.wallet \in SUBSET Block /\ s.filter \in Nat
  BY ManagerIs DEF Sound, Mined
<1>1. u \in Manager /\ u.wallet = s.wallet \cup {h} /\ u.filter = s.filter
  BY <1>0 DEF Manager
<1>2. /\ u.toNode = s.toNode /\ u.pongs = s.pongs /\ u.updating = s.updating /\ u.known = s.known
      /\ u.last = s.last /\ u.orphans = s.orphans /\ u.confirmed = s.confirmed
  BY <1>0 DEF Manager
<1>3. v \in Manager /\ v.wallet = u.wallet /\ v.filter = None
  BY <1>0 DEF Manager, None
<1>4. /\ v.toNode = s.toNode /\ v.pongs = s.pongs /\ v.updating = s.updating /\ v.known = s.known
      /\ v.last = s.last /\ v.orphans = s.orphans /\ v.confirmed = s.confirmed
  BY <1>0 DEF Manager
<1>5. RelayedTx(s, h) = IF s.filter = None \/ s.filter >= Paid(u.wallet) + Gap THEN u ELSE UpdateFilter(v)
  BY <1>1 DEF RelayedTx
<1> HIDE DEF u, v
<1>6. CASE s.filter = None \/ s.filter >= Paid(u.wallet) + Gap
  <2>1. Paid(u.wallet) \in Nat /\ Gap \in Nat
    BY <1>1, ManagerIs, PaidIs, BoundTypes
  <2>2. Stored(u, s, t)
    <3>1. u.filter # None => Paid(u.wallet) + Gap <= u.filter
      BY <1>0, <1>1, <1>6, <2>1
    <3>2. u.filter # None => \A k \in u.orphans : Matches(u, k)
      BY <1>1, <1>2 DEF Sound, Matched, Matches
    <3>3. NoneMissed(u) /\ u.last <= t /\ u.orphans \subseteq 1 .. t
      BY <1>1, <1>2 DEF Sound, Mined, NoneMissed
    <3> QED BY <1>1, <1>2, <3>1, <3>2, <3>3 DEF Stored
  <2>3. Sound(u, q, lk, kt, cur, up, t)
    BY <2>2, StoringKeeps
  <2> QED BY <1>1, <1>5, <1>6, <2>3
<1>7. CASE ~ (s.filter = None \/ s.filter >= Paid(u.wallet) + Gap)
  <2>1. Stored(v, s, t)
    BY <1>1, <1>3, <1>4 DEF Stored, Sound, Mined, NoneMissed
  <2>2. Sound(v, q, lk, kt, cur, up, t)
    BY <2>1, StoringKeeps
  <2>3. Sound(UpdateFilter(v), q, lk, kt, cur, up, t) /\ Alike(UpdateFilter(v), v)
    BY <2>2, UpdateFilterKeeps
  <2>4. h \in UpdateFilter(v).wallet
    BY <1>1, <1>3, <2>3 DEF Alike
  <2> QED BY <1>5, <1>7, <2>3, <2>4
<1> QED BY <1>6, <1>7

\* Of the headers those before the first payment are kept.
LEMMA RelayedHeadersKeep ==
    ASSUME NEW s, NEW q, NEW lk, NEW kt, NEW cur, NEW up, NEW t \in Block,
           Sound(s, q, lk, kt, cur, up, t), up = TRUE, NEW hs \in Seq(Block),
           \A i \in DOMAIN hs : hs[i] <= t
    PROVE  Sound(RelayedHeaders(s, hs), q, lk, kt, cur, up, t)
<1> DEFINE kept == {h \in ToSet(hs) : h < Ignored}
<1>0. s \in Manager /\ s.last \in Nat /\ t \in Nat
  <2>1. s \in Manager
    BY DEF Sound, Mined
  <2>2. s.last \in {0} \cup Block
    BY <2>1, ManagerIs
  <2> QED BY <2>1, <2>2, BoundTypes
<1>1. \A h \in kept : h \in Block /\ h <= t /\ h < Ignored /\ h \in Nat
  <2>1. \A i \in DOMAIN hs : hs[i] \in Block
    BY SeqIs
  <2> QED BY <2>1, BoundTypes DEF ToSet
<1>2. CASE s.filter = None \/ s.last + 1 \notin kept
  BY <1>2 DEF RelayedHeaders
<1>3. CASE s.filter # None /\ s.last + 1 \in kept
  <2> DEFINE h == Max(kept)
  <2>1. RelayedHeaders(s, hs) = Extend(s, h)
    BY <1>3 DEF RelayedHeaders
  <2>2. kept \in SUBSET Nat /\ kept # {} /\ \A x \in kept : x <= t
    BY <1>1, <1>3
  <2> HIDE DEF kept
  <2>3. h \in kept /\ \A x \in kept : x <= h
    BY <1>0, <2>2, GreatestOf
  <2> HIDE DEF h
  <2>4. h \in Block /\ h <= t /\ h < Ignored /\ h > s.last /\ h \in Nat
    BY <1>0, <1>1, <1>3, <2>3
  <2>5. \A k \in Block : k <= h => Pays[k] = 0
    <3> TAKE k \in Block
    <3>1. k \in Nat /\ Pays[k] \in Nat
      BY BoundTypes
    <3>2. Pays[k] > 0 => k >= Ignored
      BY PaysAssumption
    <3>3. Ignored \in Int
      BY BoundAssumption
    <3> QED BY <2>4, <3>1, <3>2, <3>3
  <2>6. Matches(s, h)
    BY <2>4, <2>5 DEF Matches
  <2>7. \A k \in (s.last + 1) .. (h - 1) : Pays[k] = 0
    <3>1. \A k \in (s.last + 1) .. (h - 1) : k \in Block /\ k <= h
      BY <1>0, <2>4, BoundTypes DEF Block
    <3> QED BY <2>5, <3>1
  <2> QED BY <1>3, <2>1, <2>4, <2>6, <2>7, ExtendStores
<1> QED BY <1>2, <1>3

-----------------------------------------------------------------------------
(* What messages do to it                                                   *)

\* The first message is read: it is no payment that the wallet does not know.
LEMMA TakingKeeps ==
    ASSUME NEW s, NEW q, NEW lk, NEW kt, NEW cur, NEW up, NEW t, Sound(s, q, lk, kt, cur, up, t),
           q # <<>>, q[1].m = "tx" => q[1].a[1] \in s.wallet,
           NEW r, r \in Manager, Alike(r, s), r.toNode = s.toNode,
           Ponged(r, Tail(q)), Flushed(r, Tail(q)), NEW now,
           now # None => q[1].m = "merkleblock" /\ Len(q[1].a) = 2 /\ now = q[1].a[1]
    PROVE  Sound(r, Tail(q), lk, kt, now, up, t)
<1> DEFINE w == Tail(q)
<1>0. q \in Seq(AppMsg)
  BY DEF Sound, Mined
<1>1. /\ w \in Seq(AppMsg) /\ 1 \in DOMAIN q
      /\ \A i \in DOMAIN w : i \in Nat /\ i > 0 /\ i + 1 \in DOMAIN q /\ w[i] = q[i + 1]
      /\ \A i \in DOMAIN q : i \in Nat /\ (i = 1 \/ (i - 1 \in DOMAIN w /\ w[i - 1] = q[i]))
  BY <1>0, TailIs
<1> HIDE DEF w
<1>2. Mined(r, w, t)
  BY <1>1 DEF Sound, Mined, Alike
<1>3. Matched(r, w, lk, up)
  BY <1>1 DEF Sound, Matched, Alike, Matches, Has
<1>4. Paired(w, now)
  <2>1. Paired(q, cur)
    BY DEF Sound
  <2>2. ASSUME NEW i \in DOMAIN w, w[i].m = "merkleblock", Len(w[i].a) = 2
        PROVE  i + 1 \in DOMAIN w /\ w[i + 1].m = "tx" /\ w[i + 1].a[1] = w[i].a[1]
    <3>1. /\ i + 1 \in DOMAIN q /\ w[i] = q[i + 1] /\ i \in Nat /\ i > 0
          /\ (i + 1) + 1 \in DOMAIN q /\ q[(i + 1) + 1].m = "tx"
          /\ q[(i + 1) + 1].a[1] = q[i + 1].a[1]
      BY <1>1, <2>1, <2>2 DEF Paired
    <3>2. i + 1 \in DOMAIN w /\ w[i + 1] = q[(i + 1) + 1]
      <4> DEFINE j == (i + 1) + 1
      <4>1. j \in DOMAIN q /\ j # 1 /\ j - 1 = i + 1
        BY <3>1
      <4> HIDE DEF j
      <4>2. j - 1 \in DOMAIN w /\ w[j - 1] = q[j]
        BY <1>1, <4>1
      <4> QED BY <4>1, <4>2 DEF j
    <3> QED BY <3>1, <3>2
  <2>3. ASSUME now # None PROVE w # <<>> /\ w[1].m = "tx" /\ w[1].a[1] = now
    <3>1. 2 \in DOMAIN q /\ q[2].m = "tx" /\ q[2].a[1] = now
      <4>1. 1 + 1 \in DOMAIN q /\ q[1 + 1].m = "tx" /\ q[1 + 1].a[1] = q[1].a[1]
        BY <1>1, <2>1, <2>3 DEF Paired
      <4> QED BY <2>3, <4>1
    <3>2. 1 \in DOMAIN w /\ w[1] = q[2]
      <4> DEFINE j == 2
      <4>1. j \in DOMAIN q /\ j # 1 /\ j - 1 = 1
        BY <3>1
      <4> HIDE DEF j
      <4>2. j - 1 \in DOMAIN w /\ w[j - 1] = q[j]
        BY <1>1, <4>1
      <4> QED BY <4>1, <4>2 DEF j
    <3>3. w # <<>>
      BY <3>2
    <3> QED BY <3>1, <3>2, <3>3
  <2> QED BY <2>2, <2>3 DEF Paired
<1>5. TxFirst(r, w, kt)
  <2>0. TxFirst(s, q, kt) /\ r.wallet = s.wallet /\ r.known = s.known
    BY DEF Sound, Alike
  <2>1. \A h \in kt \ s.wallet : HasOne(q, "tx", h) => HasOne(w, "tx", h)
    <3> SUFFICES ASSUME NEW h, h \notin s.wallet, NEW i \in DOMAIN q, q[i].m = "tx", q[i].a[1] = h
                 PROVE  HasOne(w, "tx", h)
      BY DEF HasOne
    <3>1. i # 1
      OBVIOUS
    <3>2. i - 1 \in DOMAIN w /\ w[i - 1] = q[i]
      BY <1>1, <3>1
    <3> QED BY <3>2 DEF HasOne
  <2>2. ASSUME NEW h \in kt \ s.wallet, NEW i \in DOMAIN w, w[i].m = "merkleblock", w[i].a[1] = h
        PROVE  \E j \in DOMAIN w : j < i /\ w[j].m = "tx" /\ w[j].a[1] = h
    <3>1. i + 1 \in DOMAIN q /\ w[i] = q[i + 1] /\ i \in Nat
      BY <1>1
    <3>2. PICK j \in DOMAIN q : j < i + 1 /\ q[j].m = "tx" /\ q[j].a[1] = h
      BY <2>0, <2>2, <3>1 DEF TxFirst
    <3>3. j # 1 /\ j \in Nat
      BY <1>1, <3>2
    <3>4. j - 1 \in DOMAIN w /\ w[j - 1] = q[j] /\ j - 1 < i
      BY <1>1, <3>1, <3>2, <3>3
    <3> QED BY <3>2, <3>4
  <2>3. \A h \in kt \ r.wallet :
         /\ HasOne(r.toNode, "gettx", h) \/ HasOne(w, "tx", h)
         /\ \A i \in DOMAIN w : w[i].m = "merkleblock" /\ w[i].a[1] = h =>
               \E j \in DOMAIN w : j < i /\ w[j].m = "tx" /\ w[j].a[1] = h
         /\ \A i \in DOMAIN r.toNode : r.toNode[i].m = "getdata" /\ Names(r.toNode[i], h) =>
               \/ HasOne(w, "tx", h)
               \/ \E j \in DOMAIN r.toNode : j < i /\ r.toNode[j].m = "gettx" /\ r.toNode[j].a[1] = h
    <3> TAKE h \in kt \ r.wallet
    <3>1. h \in kt \ s.wallet
      BY <2>0
    <3>2. HasOne(r.toNode, "gettx", h) \/ HasOne(w, "tx", h)
      BY <2>0, <2>1, <3>1 DEF TxFirst
    <3>3. \A i \in DOMAIN w : w[i].m = "merkleblock" /\ w[i].a[1] = h =>
               \E j \in DOMAIN w : j < i /\ w[j].m = "tx" /\ w[j].a[1] = h
      BY <2>2, <3>1
    <3>4. \A i \in DOMAIN r.toNode : r.toNode[i].m = "getdata" /\ Names(r.toNode[i], h) =>
               \/ HasOne(w, "tx", h)
               \/ \E j \in DOMAIN r.toNode : j < i /\ r.toNode[j].m = "gettx" /\ r.toNode[j].a[1] = h
      BY <2>0, <2>1, <3>1 DEF TxFirst
    <3> QED BY <3>2, <3>3, <3>4
  <2>4. \A k \in DOMAIN w : w[k].m = "invtx" /\ w[k].a[1] \notin kt =>
         /\ \A i \in DOMAIN r.known : r.known[i] # w[k].a[1]
         /\ \A i \in DOMAIN r.toNode : r.toNode[i].m = "getdata" => ~ Names(r.toNode[i], w[k].a[1])
         /\ \A i \in DOMAIN w : w[i].m = "merkleblock" => w[i].a[1] # w[k].a[1]
         /\ \A i \in DOMAIN w : w[i].m = "inv" /\ Names(w[i], w[k].a[1]) => i > k
    <3> TAKE k \in DOMAIN w
    <3> SUFFICES ASSUME w[k].m = "invtx", w[k].a[1] \notin kt
                 PROVE  /\ \A i \in DOMAIN r.known : r.known[i] # w[k].a[1]
                        /\ \A i \in DOMAIN r.toNode : r.toNode[i].m = "getdata" => ~ Names(r.toNode[i], w[k].a[1])
                        /\ \A i \in DOMAIN w : w[i].m = "merkleblock" => w[i].a[1] # w[k].a[1]
                        /\ \A i \in DOMAIN w : w[i].m = "inv" /\ Names(w[i], w[k].a[1]) => i > k
      OBVIOUS
    <3>1. k + 1 \in DOMAIN q /\ q[k + 1] = w[k] /\ k \in Nat
      BY <1>1
    <3>2. /\ \A i \in DOMAIN r.known : r.known[i] # w[k].a[1]
          /\ \A i \in DOMAIN r.toNode : r.toNode[i].m = "getdata" => ~ Names(r.toNode[i], w[k].a[1])
          /\ \A i \in DOMAIN q : q[i].m = "merkleblock" => q[i].a[1] # w[k].a[1]
          /\ \A i \in DOMAIN q : q[i].m = "inv" /\ Names(q[i], w[k].a[1]) => i > k + 1
      BY <2>0, <3>1 DEF TxFirst
    <3>3. \A i \in DOMAIN w : i + 1 \in DOMAIN q /\ w[i] = q[i + 1] /\ i \in Nat
      BY <1>1
    <3>4. \A i \in DOMAIN w : w[i].m = "inv" /\ Names(w[i], w[k].a[1]) => i > k
      <4> TAKE i \in DOMAIN w
      <4> SUFFICES ASSUME w[i].m = "inv", Names(w[i], w[k].a[1]) PROVE i > k
        OBVIOUS
      <4>1. i + 1 > k + 1 /\ i \in Nat
        BY <3>2, <3>3
      <4> QED BY <3>1, <4>1
    <3> QED BY <3>2, <3>3, <3>4
  <2> QED BY <2>3, <2>4 DEF TxFirst
<1>6. NoneMissed(r) /\ Ponged(r, w) /\ Flushed(r, w) /\ up
  <2>1. NoneMissed(r) /\ up
    BY DEF Sound, NoneMissed, Alike, Apart
  <2> QED BY <2>1 DEF w
<1> QED BY <1>2, <1>3, <1>4, <1>5, <1>6 DEF Sound, w

LEMMA ReadingKeeps ==
    ASSUME NEW s, NEW q, NEW lk, NEW kt, NEW cur, NEW up, NEW t, Sound(s, q, lk, kt, cur, up, t),
           q # <<>>, q[1].m # "pong", q[1].m = "tx" => q[1].a[1] \in s.wallet, NEW now,
           now # None => q[1].m = "merkleblock" /\ Len(q[1].a) = 2 /\ now = q[1].a[1]
    PROVE  Sound(s, Tail(q), lk, kt, now, up, t)
<1> DEFINE w == Tail(q)
<1>0. q \in Seq(AppMsg) /\ s \in Manager
  BY DEF Sound, Mined
<1>1. /\ \A i \in DOMAIN w : i \in Nat /\ i > 0 /\ i + 1 \in DOMAIN q /\ w[i] = q[i + 1]
      /\ \A i \in DOMAIN q : i \in Nat /\ (i = 1 \/ (i - 1 \in DOMAIN w /\ w[i - 1] = q[i]))
  BY <1>0, TailIs
<1>2. Count(w, "pong") = Count(q, "pong")
  BY <1>0, CountTail
<1> HIDE DEF w
<1>3. Ponged(s, w)
  BY <1>2 DEF Sound, Ponged
<1>4. Flushed(s, w)
  <2>1. Flushed(s, q)
    BY DEF Sound
  <2>2. ASSUME Waits(s, "update"), NEW i \in DOMAIN w, w[i].m = "merkleblock", ~ Has(s.toNode, "ping")
        PROVE  \E j \in DOMAIN w : j > i /\ w[j].m = "pong"
    <3>1. i + 1 \in DOMAIN q /\ w[i] = q[i + 1] /\ i \in Nat /\ i > 0
      BY <1>1
    <3>2. PICK j \in DOMAIN q : j > i + 1 /\ q[j].m = "pong"
      BY <2>1, <2>2, <3>1 DEF Flushed
    <3>3. j - 1 \in DOMAIN w /\ w[j - 1] = q[j] /\ j - 1 > i
      BY <1>1, <3>1, <3>2
    <3> QED BY <3>2, <3>3
  <2>3. Waits(s, "load") => ~ Has(w, "merkleblock")
    BY <1>1, <2>1 DEF Flushed, Has
  <2> QED BY <2>1, <2>2, <2>3 DEF Flushed
<1>5. Alike(s, s)
  BY DEF Alike
<1> QED BY <1>0, <1>3, <1>4, <1>5, TakingKeeps DEF w

\* Blocks that an inv message names become known.
LEMMA LearningKeeps ==
    ASSUME NEW s, NEW q, NEW lk, NEW kt, NEW cur, NEW up, NEW t, Sound(s, q, lk, kt, cur, up, t),
           q # <<>>, q[1].m = "inv"
    PROVE  Sound([s EXCEPT !.known = s.known \o q[1].a], q, lk, kt, cur, up, t)
<1> DEFINE b == q[1].a
           known == s.known \o b
           r == [s EXCEPT !.known = known]
<1>0. s \in Manager /\ q \in Seq(AppMsg)
  BY DEF Sound, Mined
<1>1. 1 \in DOMAIN q /\ \A i \in DOMAIN q : i \in Nat /\ i >= 1
  BY <1>0, TailIs
<1>2. b \in Seq(Block) /\ \A i \in DOMAIN b : b[i] <= t
  <2>1. Formed(q[1], t) /\ q[1] \in AppMsg
    BY <1>0, <1>1, SeqIs DEF Sound, Mined
  <2> QED BY <2>1 DEF Formed, AppMsg
<1>3. s.known \in Seq(Block)
  BY <1>0, ManagerIs
<1>n. \A n : (\E i \in DOMAIN b : b[i] = n) => Names(q[1], n)
  BY DEF Names
<1> HIDE DEF b
<1>4. /\ known \in Seq(Block)
      /\ \A i \in DOMAIN known : \/ i \in DOMAIN s.known /\ known[i] = s.known[i]
                                 \/ \E j \in DOMAIN b : known[i] = b[j]
  <2>1. /\ known \in Seq(Block) /\ Len(s.known) \in Nat
        /\ \A i \in DOMAIN s.known : i \in DOMAIN known /\ known[i] = s.known[i]
        /\ \A i \in DOMAIN b : Len(s.known) + i \in DOMAIN known /\ known[Len(s.known) + i] = b[i]
        /\ \A i \in DOMAIN known : i \in DOMAIN s.known \/ (i > Len(s.known) /\ i - Len(s.known) \in DOMAIN b)
    BY <1>2, <1>3, ConcatIs
  <2> DEFINE n == Len(s.known)
  <2>2. ASSUME NEW i \in DOMAIN known, i \notin DOMAIN s.known PROVE \E j \in DOMAIN b : known[i] = b[j]
    <3>1. i - n \in DOMAIN b /\ i \in Nat /\ n \in Nat
      BY <2>1, <2>2
    <3> HIDE DEF n
    <3>2. n + (i - n) = i
      BY <3>1
    <3>3. known[n + (i - n)] = b[i - n]
      BY <2>1, <3>1 DEF n
    <3> QED BY <3>1, <3>2, <3>3
  <2> HIDE DEF known, n
  <2> QED BY <2>1, <2>2
<1> HIDE DEF known
<1>5. r \in Manager /\ r.known = known
  BY <1>0, <1>4 DEF Manager
<1>6. /\ r.toNode = s.toNode /\ r.pongs = s.pongs /\ r.updating = s.updating
      /\ r.wallet = s.wallet /\ r.filter = s.filter /\ r.last = s.last /\ r.orphans = s.orphans
      /\ r.confirmed = s.confirmed
  BY <1>0 DEF Manager
<1> HIDE DEF r
<1>7. Mined(r, q, t)
  <2>1. Mined(s, q, t)
    BY DEF Sound
  <2>2. \A i \in DOMAIN r.known : r.known[i] <= t
    BY <1>2, <1>4, <1>5, <2>1 DEF Mined
  <2> QED BY <1>5, <1>6, <2>1, <2>2 DEF Mined
<1>8. Ponged(r, q) /\ Flushed(r, q) /\ Matched(r, q, lk, up) /\ Paired(q, cur) /\ NoneMissed(r) /\ up
  BY <1>6 DEF Sound, Ponged, Flushed, Waits, Matched, Matches, NoneMissed, Apart
<1>9. TxFirst(r, q, kt)
  <2>1. TxFirst(s, q, kt)
    BY DEF Sound
  <2>2. ASSUME NEW k \in DOMAIN q, q[k].m = "invtx", q[k].a[1] \notin kt, NEW i \in DOMAIN r.known
        PROVE  r.known[i] # q[k].a[1]
    <3>1. \A j \in DOMAIN s.known : s.known[j] # q[k].a[1]
      BY <2>1, <2>2 DEF TxFirst
    <3>2. \A j \in DOMAIN b : b[j] # q[k].a[1]
      <4>1. ~ Names(q[1], q[k].a[1])
        <5>1. Names(q[1], q[k].a[1]) => 1 > k
          BY <1>1, <2>1, <2>2 DEF TxFirst
        <5> QED BY <1>1, <5>1
      <4> QED BY <1>n, <4>1
    <3> QED BY <1>4, <1>5, <3>1, <3>2
  <2> QED BY <1>6, <2>1, <2>2 DEF TxFirst
<1>10. Sound(r, q, lk, kt, cur, up, t)
  BY <1>7, <1>8, <1>9 DEF Sound
<1> QED BY <1>10 DEF r, known, b

\* A payment that is announced and asked for becomes known.
LEMMA NotingKeeps ==
    ASSUME NEW s, NEW q, NEW lk, NEW kt, NEW cur, NEW up, NEW t, Sound(s, q, lk, kt, cur, up, t),
           q # <<>>, q[1].m = "invtx", NEW h, h = q[1].a[1],
           h \in kt \/ HasOne(s.toNode, "gettx", h)
    PROVE  Sound(s, q, lk, kt \cup {h}, cur, up, t)
<1>1. CASE h \in kt
  <2>1. kt \cup {h} = kt
    BY <1>1
  <2> QED BY <2>1
<1>2. CASE h \notin kt
  <2>0. q \in Seq(AppMsg) /\ 1 \in DOMAIN q
    BY TailIs DEF Sound, Mined
  <2>1. TxFirst(s, q, kt) /\ up
    BY DEF Sound, Apart
  <2>2. /\ \A i \in DOMAIN s.toNode : s.toNode[i].m = "getdata" => ~ Names(s.toNode[i], h)
        /\ \A i \in DOMAIN q : q[i].m = "merkleblock" => q[i].a[1] # h
    BY <1>2, <2>0, <2>1 DEF TxFirst
  <2>3. TxFirst(s, q, kt \cup {h})
    <3>1. ASSUME NEW g \in (kt \cup {h}) \ s.wallet
          PROVE  /\ HasOne(s.toNode, "gettx", g) \/ HasOne(q, "tx", g)
                 /\ \A i \in DOMAIN q : q[i].m = "merkleblock" /\ q[i].a[1] = g =>
                       \E j \in DOMAIN q : j < i /\ q[j].m = "tx" /\ q[j].a[1] = g
                 /\ \A i \in DOMAIN s.toNode : s.toNode[i].m = "getdata" /\ Names(s.toNode[i], g) =>
                       \/ HasOne(q, "tx", g)
                       \/ \E j \in DOMAIN s.toNode : j < i /\ s.toNode[j].m = "gettx" /\ s.toNode[j].a[1] = g
      <4>1. CASE g = h
        BY <1>2, <2>2, <4>1
      <4>2. CASE g # h
        <5>1. g \in kt \ s.wallet
          BY <3>1, <4>2
        <5> QED BY <2>1, <5>1 DEF TxFirst
      <4> QED BY <4>1, <4>2
    <3> QED BY <2>1, <3>1 DEF TxFirst
  <2> QED BY <2>1, <2>3 DEF Sound
<1> QED BY <1>1, <1>2

\* A pong answers one ping, and the pings of an update come alone.
LEMMA PongIs ==
    ASSUME NEW s, NEW q, NEW lk, NEW kt, NEW cur, NEW up, NEW t, Sound(s, q, lk, kt, cur, up, t),
           q # <<>>, q[1].m = "pong"
    PROVE  /\ s.pongs \in Seq({"update", "load", "rerequest"}) /\ s.pongs # <<>>
           /\ Head(s.pongs) = s.pongs[1] /\ Head(s.pongs) \in {"update", "load", "rerequest"}
           /\ Count(Tail(q), "pong") + Count(s.toNode, "ping") = Len(s.pongs) - 1
           /\ Len(s.pongs) \in {1, 2}
           /\ Len(s.pongs) = 2 => Head(s.pongs) = "rerequest" /\ s.pongs[2] = "update"
           /\ Len(s.pongs) = 1 =>
                 Tail(s.pongs) = <<>> /\ ~ Has(Tail(q), "pong") /\ ~ Has(s.toNode, "ping")
<1>0. /\ q \in Seq(AppMsg) /\ s \in Manager /\ s.toNode \in Seq(NodeMsg)
      /\ s.pongs \in Seq({"update", "load", "rerequest"})
  BY ManagerIs DEF Sound, Mined
<1>1. Count(q, "pong") = Count(Tail(q), "pong") + 1
  BY <1>0, CountTail
<1>2. Count(Tail(q), "pong") \in Nat /\ Count(s.toNode, "ping") \in Nat
  <2>1. Tail(q) \in Seq(AppMsg)
    BY <1>0, TailIs
  <2> QED BY <1>0, <2>1, CountIs
<1>3. Count(q, "pong") + Count(s.toNode, "ping") = Len(s.pongs) /\ Len(s.pongs) <= 2
  BY DEF Sound, Ponged
<1> DEFINE n == Len(s.pongs)
           a == Count(Tail(q), "pong")
           b == Count(s.toNode, "ping")
<1>4. a + b = n - 1 /\ n \in {1, 2} /\ (n = 1 => a = 0 /\ b = 0)
  <2>1. a \in Nat /\ b \in Nat /\ (a + 1) + b = n /\ n <= 2
    BY <1>1, <1>2, <1>3
  <2> HIDE DEF n, a, b
  <2> QED BY <2>1
<1>5. s.pongs # <<>>
  <2>1. n # 0
    BY <1>4
  <2> QED BY <2>1
<1>6. Head(s.pongs) = s.pongs[1] /\ Head(s.pongs) \in {"update", "load", "rerequest"}
  <2> DEFINE D == {"update", "load", "rerequest"}
             p == s.pongs
  <2>1. p \in Seq(D) /\ p # <<>>
    BY <1>0, <1>5
  <2> HIDE DEF D, p
  <2>2. Head(p) = p[1] /\ Head(p) \in D
    BY <2>1, TailIs
  <2> QED BY <2>2 DEF D, p
<1>7. n = 2 => s.pongs[1] = "rerequest" /\ s.pongs[2] = "update"
  BY DEF Sound, Ponged
<1>8. n = 1 => ~ Has(Tail(q), "pong") /\ ~ Has(s.toNode, "ping")
  <2>1. a = 0 => ~ Has(Tail(q), "pong")
    <3>1. Tail(q) \in Seq(AppMsg)
      BY <1>0, TailIs
    <3> QED BY <3>1, CountIs DEF Has
  <2>2. b = 0 => ~ Has(s.toNode, "ping")
    BY <1>0, CountIs DEF Has
  <2> QED BY <1>4, <2>1, <2>2
<1>9. n = 1 => Tail(s.pongs) = <<>>
  <2> DEFINE D == {"update", "load", "rerequest"}
             p == s.pongs
             v == Tail(p)
  <2>1. p \in Seq(D) /\ p # <<>>
    BY <1>0, <1>5
  <2> HIDE DEF D, p, v
  <2>2. v \in Seq(D) /\ Len(v) = Len(p) - 1
    BY <2>1, TailIs DEF v
  <2>3. Len(p) = 1 => Len(v) = 0
    BY <2>2
  <2>4. Len(p) = 1 => v = <<>>
    BY <2>2, <2>3
  <2> QED BY <2>4 DEF v, p
<1> QED BY <1>0, <1>4, <1>5, <1>6, <1>7, <1>8, <1>9

\* The pong after which blocks are asked for says nothing of the filter.
LEMMA RerequestPong ==
    ASSUME NEW s, NEW q, NEW lk, NEW kt, NEW cur, NEW up, NEW t, Sound(s, q, lk, kt, cur, up, t),
           q # <<>>, q[1].m = "pong", Head(s.pongs) = "rerequest"
    PROVE  Sound([s EXCEPT !.pongs = Tail(s.pongs)], Tail(q), lk, kt, None, up, t)
<1> DEFINE w == Tail(q)
           p == s.pongs
           v == Tail(s.pongs)
           r == [s EXCEPT !.pongs = v]
<1>0. q \in Seq(AppMsg) /\ s \in Manager
  BY DEF Sound, Mined
<1>1. /\ \A i \in DOMAIN w : i \in Nat /\ i > 0 /\ i + 1 \in DOMAIN q /\ w[i] = q[i + 1]
      /\ \A i \in DOMAIN q : i \in Nat /\ (i = 1 \/ (i - 1 \in DOMAIN w /\ w[i - 1] = q[i]))
  BY <1>0, TailIs
<1>2. /\ p \in Seq({"update", "load", "rerequest"}) /\ p # <<>> /\ p[1] = "rerequest"
      /\ Count(w, "pong") + Count(s.toNode, "ping") = Len(p) - 1
      /\ Len(p) \in {1, 2} /\ (Len(p) = 2 => p[2] = "update")
  BY PongIs
<1>3. v \in Seq({"update", "load", "rerequest"}) /\ Len(v) = Len(p) - 1 /\ (Len(p) = 2 => v[1] = p[2])
  <2> DEFINE D == {"update", "load", "rerequest"}
  <2>1. p \in Seq(D) /\ p # <<>> /\ v = Tail(p)
    BY <1>2
  <2> HIDE DEF D, p, v
  <2>2. /\ v \in Seq(D) /\ Len(v) = Len(p) - 1 /\ Len(p) \in Nat /\ DOMAIN v = 1 .. Len(p) - 1
        /\ \A i \in DOMAIN v : v[i] = p[i + 1]
    BY <2>1, TailIs
  <2>3. ASSUME Len(p) = 2 PROVE v[1] = p[2]
    <3>1. 1 \in DOMAIN v
      BY <2>2, <2>3
    <3>2. v[1] = p[1 + 1]
      BY <2>2, <3>1
    <3> QED BY <3>2
  <2> QED BY <2>2, <2>3 DEF D
<1>4. /\ r \in Manager /\ Alike(r, s) /\ r.toNode = s.toNode /\ r.pongs = v /\ r.updating = s.updating
  BY <1>0, <1>3 DEF Manager, Alike
<1> HIDE DEF w, v, r
<1>5. \A d \in {"update", "load"} : Waits(r, d) <=> Waits(s, d)
  <2>1. CASE Len(p) = 1
    <3>1. Len(v) = 0
      BY <1>3, <2>1
    <3>2. v = <<>>
      BY <1>3, <3>1
    <3> QED BY <1>2, <1>4, <2>1, <3>2 DEF Waits
  <2>2. CASE Len(p) = 2
    <3>1. v[1] = "update" /\ p[2] = "update" /\ p # <<>>
      BY <1>2, <1>3, <2>2
    <3>2. Len(v) = 1
      BY <1>3, <2>2
    <3>3. v # <<>>
      BY <3>2
    <3> QED BY <1>4, <2>2, <3>1, <3>2, <3>3 DEF Waits
  <2> QED BY <1>2, <2>1, <2>2
<1>6. Ponged(r, w)
  <2>1. Count(w, "pong") + Count(r.toNode, "ping") = Len(r.pongs) /\ Len(r.pongs) <= 1
    BY <1>2, <1>3, <1>4
  <2>2. r.updating <=> Waits(r, "update") \/ Waits(r, "load")
    BY <1>4, <1>5 DEF Sound, Ponged
  <2>3. ~ (Len(r.pongs) = 2) /\ Len(r.pongs) <= 2
    BY <1>2, <1>3, <1>4
  <2> QED BY <2>1, <2>2, <2>3 DEF Ponged
<1>7. Flushed(r, w)
  <2>1. Flushed(s, q)
    BY DEF Sound
  <2>2. ASSUME Waits(s, "update"), NEW i \in DOMAIN w, w[i].m = "merkleblock", ~ Has(s.toNode, "ping")
        PROVE  \E j \in DOMAIN w : j > i /\ w[j].m = "pong"
    <3>1. i + 1 \in DOMAIN q /\ w[i] = q[i + 1] /\ i \in Nat /\ i > 0
      BY <1>1
    <3>2. PICK j \in DOMAIN q : j > i + 1 /\ q[j].m = "pong"
      BY <2>1, <2>2, <3>1 DEF Flushed
    <3>3. j - 1 \in DOMAIN w /\ w[j - 1] = q[j] /\ j - 1 > i
      BY <1>1, <3>1, <3>2
    <3> QED BY <3>2, <3>3
  <2>3. Waits(s, "load") => ~ Has(w, "merkleblock")
    BY <1>1, <2>1 DEF Flushed, Has
  <2>4. Waits(r, "update") = Waits(s, "update") /\ Waits(r, "load") = Waits(s, "load")
    BY <1>5 DEF Waits
  <2> QED BY <1>4, <2>1, <2>2, <2>3, <2>4 DEF Flushed
<1>8. Sound(r, w, lk, kt, None, up, t)
  BY <1>4, <1>6, <1>7, TakingKeeps DEF w
<1> QED BY <1>8 DEF r, v, w

\* The pong of an update comes after all that was asked for before.
LEMMA UpdatePong ==
    ASSUME NEW s, NEW q, NEW lk, NEW kt, NEW cur, NEW up, NEW t, Sound(s, q, lk, kt, cur, up, t),
           q # <<>>, q[1].m = "pong", Head(s.pongs) \in {"update", "load"},
           NEW r, r \in Manager, Alike(r, s), r.toNode = s.toNode, r.pongs = <<>>, r.updating = FALSE
    PROVE  /\ Sound(r, Tail(q), lk, kt, None, up, t)
           /\ ~ Has(r.toNode, "getdata") /\ ~ Has(Tail(q), "merkleblock")
           /\ Head(s.pongs) = "update" => ~ Has(r.toNode, "filter")
<1> DEFINE w == Tail(q)
           p == s.pongs
<1>0. q \in Seq(AppMsg) /\ s \in Manager
  BY DEF Sound, Mined
<1>1. /\ \A i \in DOMAIN w : i \in Nat /\ i > 0 /\ i + 1 \in DOMAIN q /\ w[i] = q[i + 1]
      /\ \A i \in DOMAIN q : i \in Nat /\ (i = 1 \/ (i - 1 \in DOMAIN w /\ w[i - 1] = q[i]))
  BY <1>0, TailIs
<1>2. /\ p \in Seq({"update", "load", "rerequest"}) /\ p # <<>> /\ p[1] = Head(p)
      /\ Count(w, "pong") + Count(s.toNode, "ping") = Len(p) - 1
      /\ Len(p) = 1 /\ ~ Has(w, "pong") /\ ~ Has(s.toNode, "ping")
  <2>1. /\ p \in Seq({"update", "load", "rerequest"}) /\ p # <<>> /\ p[1] = Head(p)
        /\ Count(w, "pong") + Count(s.toNode, "ping") = Len(p) - 1
        /\ Len(p) \in {1, 2} /\ (Len(p) = 2 => Head(p) = "rerequest")
        /\ Len(p) = 1 => ~ Has(w, "pong") /\ ~ Has(s.toNode, "ping")
    BY PongIs
  <2>2. Len(p) = 1
    BY <2>1
  <2> QED BY <2>1, <2>2
<1> HIDE DEF w
<1>6. Waits(s, "update") \/ Waits(s, "load")
  BY <1>2 DEF Waits
<1>7. Flushed(s, q)
  BY DEF Sound
<1>8. ~ Has(s.toNode, "getdata") /\ ~ Has(w, "merkleblock") /\ (Head(p) = "update" => ~ Has(s.toNode, "filter"))
  <2>1. CASE Waits(s, "load")
    <3>1. Head(p) # "update"
      BY <1>2, <2>1 DEF Waits
    <3> QED BY <1>1, <1>7, <2>1, <3>1 DEF Flushed, Has
  <2>2. CASE Waits(s, "update")
    <3>1. ~ Has(s.toNode, "getdata") /\ ~ Has(s.toNode, "filter")
      BY <1>2, <1>7, <2>2 DEF Flushed, Has
    <3>2. ASSUME NEW i \in DOMAIN w, w[i].m = "merkleblock" PROVE FALSE
      <4>1. i + 1 \in DOMAIN q /\ w[i] = q[i + 1] /\ i \in Nat /\ i > 0
        BY <1>1
      <4>2. PICK j \in DOMAIN q : j > i + 1 /\ q[j].m = "pong"
        BY <1>2, <1>7, <2>2, <3>2, <4>1 DEF Flushed
      <4>3. j - 1 \in DOMAIN w /\ w[j - 1] = q[j]
        BY <1>1, <4>1, <4>2
      <4> QED BY <1>2, <4>2, <4>3 DEF Has
    <3> QED BY <3>1, <3>2 DEF Has
  <2> QED BY <1>6, <2>1, <2>2
<1>9. Ponged(r, w) /\ Flushed(r, w)
  <2>1. Len(r.pongs) = 0
    OBVIOUS
  <2>2. ~ Waits(r, "update") /\ ~ Waits(r, "load")
    BY DEF Waits
  <2>3. Count(w, "pong") + Count(r.toNode, "ping") = 0
    <3>1. Count(w, "pong") + Count(s.toNode, "ping") = 1 - 1
      BY <1>2
    <3> QED BY <3>1
  <2>4. Ponged(r, w)
    BY <2>1, <2>2, <2>3 DEF Ponged
  <2>5. Flushed(r, w)
    BY <2>2 DEF Flushed
  <2> QED BY <2>4, <2>5
<1>10. Sound(r, w, lk, kt, None, up, t)
  BY <1>9, TakingKeeps DEF w
<1> QED BY <1>8, <1>10 DEF w

\* A new filter may be sent when no blocks are on their way.
LEMMA LoadKeeps ==
    ASSUME NEW s, NEW q, NEW lk, NEW kt, NEW cur, NEW up, NEW t, Sound(s, q, lk, kt, cur, up, t),
           up = TRUE, ~ Waits(s, "update"), ~ Has(s.toNode, "getdata"), ~ Has(s.toNode, "filter"),
           ~ Has(q, "merkleblock")
    PROVE  /\ Sound(LoadBloomFilter(s), q, lk, kt, cur, up, t)
           /\ LoadBloomFilter(s).pongs = s.pongs /\ LoadBloomFilter(s).updating = s.updating
           /\ LoadBloomFilter(s).last = s.last /\ ~ Has(LoadBloomFilter(s).toNode, "getdata")
           /\ LoadBloomFilter(s) \in Manager
<1> DEFINE f == Paid(s.wallet) + Gap + Spare
           x == Msg("filter", <<f>>)
           n == Len(s.toNode)
           sent == Append(s.toNode, x)
           r == LoadBloomFilter(s)
<1>0. s \in Manager /\ s.toNode \in Seq(NodeMsg) /\ s.wallet \in SUBSET Block
  BY ManagerIs DEF Sound, Mined
<1>f. f \in Nat /\ Paid(s.wallet) + Gap <= f
  BY <1>0, PaidIs, BoundTypes
<1> HIDE DEF f
<1>1. x \in NodeMsg /\ x.m = "filter" /\ x.a[1] = f /\ Len(x.a) = 1
  <2> DEFINE a == <<f>>
  <2>1. a \in Seq(Nat) /\ a[1] = f /\ Len(a) = 1
    BY <1>f
  <2> HIDE DEF a
  <2>2. Msg("filter", a) \in NodeMsg /\ Msg("filter", a).m = "filter" /\ Msg("filter", a).a = a
    BY <2>1 DEF Msg, NodeMsg
  <2> QED BY <2>1, <2>2 DEF a
<1>2. r = [[s EXCEPT !.toNode = sent] EXCEPT !.filter = f, !.orphans = {}, !.lastOrphan = None]
  BY DEF LoadBloomFilter, Send, f
<1> HIDE DEF x
<1>3. /\ n \in Nat /\ DOMAIN s.toNode = 1 .. n /\ sent \in Seq(NodeMsg)
      /\ \A i \in DOMAIN s.toNode : i \in DOMAIN sent /\ sent[i] = s.toNode[i]
      /\ n + 1 \in DOMAIN sent /\ sent[n + 1] = x
      /\ \A i \in DOMAIN sent : i \in DOMAIN s.toNode \/ i = n + 1
  BY <1>0, <1>1, AppendIs
<1>c. Count(sent, "ping") = Count(s.toNode, "ping")
  <2>1. x.m # "ping"
    BY <1>1
  <2> QED BY <1>0, <1>1, <2>1, CountAppend
<1> HIDE DEF n, sent, r
<1>4. /\ r \in Manager /\ r.toNode = sent /\ r.filter = f /\ r.orphans = {}
      /\ r.last = s.last /\ r.known = s.known /\ r.wallet = s.wallet /\ r.confirmed = s.confirmed
      /\ r.pongs = s.pongs /\ r.updating = s.updating
  BY <1>0, <1>2, <1>3, <1>f DEF Manager, NodeMsg, None
<1>5. Mined(r, q, t)
  BY <1>1, <1>3, <1>4 DEF Sound, Mined, Asked
<1>6. Ponged(r, q)
  BY <1>c, <1>4 DEF Sound, Ponged, Waits
<1>g. ~ Has(r.toNode, "getdata")
  BY <1>1, <1>3, <1>4 DEF Has
<1>7. Flushed(r, q)
  <2>1. ~ Waits(r, "update")
    BY <1>4 DEF Waits
  <2> QED BY <1>g, <2>1 DEF Flushed
<1>8. Matched(r, q, lk, up)
  <2>1. Has(r.toNode, "filter")
    BY <1>1, <1>3, <1>4 DEF Has
  <2>2. \A i \in DOMAIN r.toNode : r.toNode[i].m = "filter" => r.toNode[i].a[1] = f
    BY <1>1, <1>3, <1>4 DEF Has
  <2>3. \A i \in DOMAIN q : q[i].m # "merkleblock"
    BY DEF Has
  <2>4. \A i \in DOMAIN r.toNode : r.toNode[i].m # "getdata"
    BY <1>g DEF Has
  <2> QED BY <1>4, <1>f, <2>1, <2>2, <2>3, <2>4 DEF Matched
<1>9. Paired(q, cur) /\ NoneMissed(r)
  BY <1>4 DEF Sound, NoneMissed
<1>10. TxFirst(r, q, kt)
  <2>1. TxFirst(s, q, kt)
    BY DEF Sound
  <2>2. \A i \in DOMAIN r.toNode : r.toNode[i].m # "getdata"
    BY <1>g DEF Has
  <2>3. \A h : HasOne(s.toNode, "gettx", h) => HasOne(r.toNode, "gettx", h)
    BY <1>3, <1>4 DEF HasOne
  <2> QED BY <1>4, <2>1, <2>2, <2>3 DEF TxFirst
<1> QED BY <1>4, <1>5, <1>6, <1>g, <1>7, <1>8, <1>9, <1>10 DEF Sound, r

LEMMA LoadIs ==
    ASSUME NEW s \in Manager
    PROVE  LET r == LoadBloomFilter(s)
           IN  /\ r \in Manager /\ r.toNode = Append(s.toNode, Msg("filter", <<r.filter>>))
               /\ r.filter = Paid(s.wallet) + Gap + Spare /\ r.orphans = {} /\ r.lastOrphan = None
               /\ r.last = s.last /\ r.estimated = s.estimated /\ r.known = s.known
               /\ r.wallet = s.wallet /\ r.confirmed = s.confirmed
               /\ r.pongs = s.pongs /\ r.updating = s.updating
<1> DEFINE f == Paid(s.wallet) + Gap + Spare
           r == LoadBloomFilter(s)
           sent == Append(s.toNode, Msg("filter", <<f>>))
<1>0. s.toNode \in Seq(NodeMsg) /\ s.wallet \in SUBSET Block
  BY ManagerIs
<1>1. f \in Nat
  BY <1>0, PaidIs, BoundTypes
<1>2. r = [[s EXCEPT !.toNode = sent] EXCEPT !.filter = f, !.orphans = {}, !.lastOrphan = None]
  BY DEF LoadBloomFilter, Send
<1> HIDE DEF f
<1>3. Msg("filter", <<f>>) \in NodeMsg
  <2> DEFINE a == <<f>>
  <2>1. a \in Seq(Nat)
    BY <1>1
  <2> HIDE DEF a
  <2>2. Msg("filter", a) \in NodeMsg
    BY <2>1 DEF Msg, NodeMsg
  <2> QED BY <2>2 DEF a
<1>4. sent \in Seq(NodeMsg)
  BY <1>0, <1>3, AppendProperties
<1> HIDE DEF sent, r
<1>5. /\ r \in Manager /\ r.toNode = sent /\ r.filter = f /\ r.orphans = {} /\ r.lastOrphan = None
      /\ r.last = s.last /\ r.estimated = s.estimated /\ r.known = s.known
      /\ r.wallet = s.wallet /\ r.confirmed = s.confirmed
      /\ r.pongs = s.pongs /\ r.updating = s.updating
  BY <1>1, <1>2, <1>4 DEF Manager, NodeMsg, None
<1> QED BY <1>5 DEF r, sent, f

\* The update's pong: the filter is loaded, and a ping sent after it.
LEMMA UpdatePingDoneKeeps ==
    ASSUME NEW s, NEW q, NEW lk, NEW kt, NEW cur, NEW up, NEW t, Sound(s, q, lk, kt, cur, up, t),
           up = TRUE, q # <<>>, q[1].m = "pong", Head(s.pongs) = "update"
    PROVE  Sound(UpdateFilterPingDone([s EXCEPT !.pongs = Tail(s.pongs)]), Tail(q), lk, kt, None, up, t)
<1> DEFINE v == [s EXCEPT !.pongs = Tail(s.pongs)]
           u == [v EXCEPT !.updating = FALSE]
           w == Tail(q)
           loaded == LoadBloomFilter(v)
           l == LoadBloomFilter(u)
           z == Ping(loaded, "load")
<1>0. s \in Manager
  BY DEF Sound, Mined
<1>h. /\ Head(s.pongs) = s.pongs[1] /\ s.pongs # <<>> /\ Len(s.pongs) = 1
      /\ Tail(s.pongs) = <<>> /\ <<>> \in Seq({"update", "load", "rerequest"})
  <2>1. /\ Head(s.pongs) = s.pongs[1] /\ s.pongs # <<>> /\ Len(s.pongs) \in {1, 2}
        /\ Len(s.pongs) = 2 => Head(s.pongs) = "rerequest"
        /\ Len(s.pongs) = 1 => Tail(s.pongs) = <<>>
    BY PongIs
  <2>2. Len(s.pongs) = 1
    BY <2>1
  <2>3. <<>> \in Seq({"update", "load", "rerequest"})
    BY EmptySeq
  <2> QED BY <2>1, <2>2, <2>3
<1>v. /\ v \in Manager /\ v.pongs = <<>> /\ v.updating = s.updating /\ Alike(v, s) /\ v.toNode = s.toNode
  BY <1>0, <1>h DEF Manager, Alike
<1>2. /\ u \in Manager /\ u.pongs = <<>> /\ u.updating = FALSE /\ Alike(u, s) /\ u.toNode = s.toNode
      /\ Alike(v, u)
  BY <1>v DEF Manager, Alike
<1> HIDE DEF u, v
<1>1. /\ Sound(u, w, lk, kt, None, up, t)
      /\ ~ Has(u.toNode, "getdata") /\ ~ Has(w, "merkleblock") /\ ~ Has(u.toNode, "filter")
  BY <1>2, UpdatePong
<1>4. s.updating = TRUE
  <2>3. Waits(s, "update")
    BY <1>h DEF Waits
  <2>4. s.updating \in BOOLEAN
    BY <1>0, ManagerIs
  <2> QED BY <2>3, <2>4 DEF Sound, Ponged
<1> HIDE DEF w
<1>5. /\ v \in Manager /\ v.toNode = u.toNode /\ v.pongs = u.pongs /\ v.updating = TRUE /\ v.last = u.last
      /\ v.estimated = u.estimated /\ v.known = u.known /\ v.wallet = u.wallet /\ v.confirmed = u.confirmed
  BY <1>v, <1>2, <1>4 DEF Alike
<1>6. /\ Sound(l, w, lk, kt, None, up, t) /\ l \in Manager /\ l.pongs = <<>> /\ l.updating = FALSE
      /\ ~ Has(l.toNode, "getdata")
  <2>1. ~ Waits(u, "update")
    BY <1>2 DEF Waits
  <2> QED BY <1>1, <1>2, <2>1, LoadKeeps
<1>7. /\ loaded \in Manager /\ Alike(loaded, l) /\ loaded.toNode = l.toNode /\ loaded.pongs = l.pongs
      /\ loaded.updating = TRUE
  <2>1. /\ loaded \in Manager /\ loaded.toNode = Append(v.toNode, Msg("filter", <<loaded.filter>>))
        /\ loaded.filter = Paid(v.wallet) + Gap + Spare /\ loaded.orphans = {} /\ loaded.lastOrphan = None
        /\ loaded.last = v.last /\ loaded.estimated = v.estimated /\ loaded.known = v.known
        /\ loaded.wallet = v.wallet /\ loaded.confirmed = v.confirmed
        /\ loaded.pongs = v.pongs /\ loaded.updating = v.updating
    BY <1>5, LoadIs
  <2>2. /\ l.toNode = Append(u.toNode, Msg("filter", <<l.filter>>))
        /\ l.filter = Paid(u.wallet) + Gap + Spare /\ l.orphans = {} /\ l.lastOrphan = None
        /\ l.last = u.last /\ l.estimated = u.estimated /\ l.known = u.known
        /\ l.wallet = u.wallet /\ l.confirmed = u.confirmed
        /\ l.pongs = u.pongs
    BY <1>2, LoadIs
  <2> HIDE DEF l, loaded
  <2> QED BY <1>5, <2>1, <2>2 DEF Alike
<1> HIDE DEF l, loaded
<1>8. /\ z \in Manager /\ Alike(z, loaded) /\ z.pongs = Append(loaded.pongs, "load")
      /\ z.updating = TRUE /\ z.toNode = Append(loaded.toNode, Msg("ping", <<>>))
  BY <1>7, PingIs
<1> HIDE DEF z
<1>9. Sound(z, w, lk, kt, None, up, t)
  <2> DEFINE d == "load"
  <2>1. Pinged(z, l, d)
    BY <1>7, <1>8 DEF Pinged, Alike
  <2>2. d \in {"update", "load", "rerequest"} /\ d # "rerequest" /\ d # "update"
    OBVIOUS
  <2> HIDE DEF d
  <2> QED BY <1>1, <1>6, <1>8, <2>1, <2>2, PingingKeeps
<1> QED BY <1>9 DEF z, loaded, v, w, UpdateFilterPingDone

\* Blocks that are known are asked for again.
LEMMA RerequestKeeps ==
    ASSUME NEW s, NEW q, NEW lk, NEW kt, NEW cur, NEW up, NEW t, Sound(s, q, lk, kt, cur, up, t),
           up = TRUE, s.pongs = <<>>
    PROVE  LET r == RerequestBlocks(s)
           IN  Sound(r, q, lk, kt, cur, up, t) /\ r.pongs = s.pongs /\ r.updating = s.updating
<1> DEFINE I == {k \in 1 .. Len(s.known) : s.known[k] = s.last}
           i == IF I # {} THEN Max(I) ELSE 0
           from == SubSeq(s.known, i, Len(s.known))
           u == Send(s, "getdata", from)
           r == [u EXCEPT !.known = from]
<1>0. s \in Manager /\ s.known \in Seq(Block) /\ Len(s.known) \in Nat /\ DOMAIN s.known = 1 .. Len(s.known)
  <2>1. s \in Manager
    BY DEF Sound, Mined
  <2>2. s.known \in Seq(Block)
    BY <2>1, ManagerIs
  <2> QED BY <2>1, <2>2, SeqIs
<1>1. RerequestBlocks(s) = IF i = 0 THEN s ELSE r
  BY DEF RerequestBlocks, SelectLastInSeq
<1>2. CASE i = 0
  BY <1>1, <1>2
<1>3. CASE i # 0
  <2>1. i \in 1 .. Len(s.known)
    <3>1. I # {}
      BY <1>3
    <3>2. I \in SUBSET Nat /\ \A k \in I : k <= Len(s.known)
      BY <1>0
    <3>3. Max(I) \in I
      <4> HIDE DEF I
      <4> QED BY <1>0, <3>1, <3>2, GreatestOf
    <3> QED BY <3>1, <3>3
  <2> HIDE DEF i, I
  <2>2. /\ from \in Seq(Block) /\ from \in Seq(Nat)
        /\ \A j \in DOMAIN from : \E k \in DOMAIN s.known : from[j] = s.known[k]
    <3> DEFINE n == Len(s.known)
    <3>1. i \in Nat /\ n \in Nat /\ i >= 1 /\ i <= n
      BY <1>0, <2>1
    <3>2. from \in Seq(Block) /\ Len(from) = n - i + 1 /\ \A j \in 1 .. Len(from) : from[j] = s.known[i + j - 1]
      <4>1. \A k \in i .. n : s.known[k] \in Block
        BY <1>0, <3>1, SeqIs
      <4>2. i \in 1 .. n + 1
        BY <3>1
      <4> QED BY <1>0, <3>1, <4>1, <4>2, SubSeqProperties
    <3>3. DOMAIN from = 1 .. Len(from)
      BY <3>2, SeqIs
    <3> HIDE DEF from, n
    <3>4. \A j \in DOMAIN from : i + j - 1 \in DOMAIN s.known /\ from[j] = s.known[i + j - 1]
      BY <1>0, <3>1, <3>2, <3>3 DEF n
    <3>5. \A b \in Block : b \in Nat
      BY BoundTypes
    <3>6. from \in Seq(Nat)
      <4>1. \A j \in 1 .. Len(from) : from[j] \in Nat
        BY <3>2, <3>3, <3>5, SeqIs
      <4>2. Seq(Block) \subseteq Seq(Nat)
        BY <3>5
      <4> QED BY <3>2, <4>2
    <3> QED BY <3>2, <3>4, <3>6
  <2> HIDE DEF from
  <2>3. Sound(u, q, lk, kt, cur, up, t)
    <3> DEFINE m == "getdata"
    <3>1. m \in {"getblocks", "getheaders", "getdata", "gettx"}
      OBVIOUS
    <3>2. Asked(Msg(m, from), t)
      <4>1. \A j \in DOMAIN from : from[j] \in 1 .. t
        <5>1. \A j \in DOMAIN s.known : s.known[j] <= t /\ s.known[j] \in Nat /\ s.known[j] > 0
          BY <1>0, SeqIs, BoundTypes DEF Sound, Mined
        <5> QED BY <2>2, <5>1
      <4> QED BY <4>1 DEF Asked, Msg
    <3>3. ~ Waits(s, "update") /\ ~ Waits(s, "load")
      BY DEF Waits
    <3>4. \A k \in DOMAIN q : q[k].m = "invtx" /\ q[k].a[1] \notin kt => ~ Names(Msg(m, from), q[k].a[1])
      <4>1. \A k \in DOMAIN q : q[k].m = "invtx" /\ q[k].a[1] \notin kt =>
                \A j \in DOMAIN s.known : s.known[j] # q[k].a[1]
        BY DEF Sound, TxFirst
      <4>2. \A h : Names(Msg(m, from), h) => \E j \in DOMAIN from : from[j] = h
        BY DEF Names, Msg
      <4> QED BY <2>2, <4>1, <4>2
    <3> HIDE DEF m
    <3>5. Sound(Send(s, m, from), q, lk, kt, cur, up, t)
      BY <2>2, <3>1, <3>2, <3>3, <3>4, SendingKeeps
    <3> QED BY <3>5 DEF m
  <2>4. u \in Manager /\ Alike(u, s) /\ u.pongs = s.pongs /\ u.updating = s.updating
    <3> DEFINE m == "getdata"
    <3>1. Msg(m, from) \in NodeMsg
      BY <2>2 DEF Msg, NodeMsg
    <3> HIDE DEF m
    <3>2. LET z == Send(s, m, from)
          IN  z \in Manager /\ Alike(z, s) /\ z.pongs = s.pongs /\ z.updating = s.updating
      BY <1>0, <3>1, SendIs
    <3> QED BY <3>2 DEF m
  <2> HIDE DEF u
  <2>5. r \in Manager /\ r.known = from
    BY <2>2, <2>4 DEF Manager
  <2>6. /\ r.toNode = u.toNode /\ r.pongs = u.pongs /\ r.updating = u.updating
        /\ r.wallet = u.wallet /\ r.filter = u.filter /\ r.last = u.last /\ r.orphans = u.orphans
        /\ r.confirmed = u.confirmed
    BY <2>4 DEF Manager
  <2> HIDE DEF r
  <2>7. \A j \in DOMAIN from : \E k \in DOMAIN u.known : from[j] = u.known[k]
    BY <2>2, <2>4 DEF Alike
  <2>8. Mined(r, q, t)
    BY <2>3, <2>5, <2>6, <2>7 DEF Sound, Mined
  <2>9. Ponged(r, q) /\ Flushed(r, q) /\ Matched(r, q, lk, up) /\ Paired(q, cur) /\ NoneMissed(r)
    BY <2>3, <2>6 DEF Sound, Ponged, Flushed, Waits, Matched, Matches, NoneMissed
  <2>10. TxFirst(r, q, kt)
    BY <2>3, <2>5, <2>6, <2>7 DEF Sound, TxFirst
  <2>11. Sound(r, q, lk, kt, cur, up, t) /\ r.pongs = s.pongs /\ r.updating = s.updating
    BY <2>4, <2>6, <2>8, <2>9, <2>10 DEF Sound
  <2> QED BY <1>1, <1>3, <2>11
<1> QED BY <1>2, <1>3

\* The filter is loaded: blocks may be asked for, beginning with the last stored one.
LEMMA UpdateLoadDoneKeeps ==
    ASSUME NEW s, NEW q, NEW lk, NEW kt, NEW cur, NEW up, NEW t, Sound(s, q, lk, kt, cur, up, t),
           up = TRUE, q # <<>>, q[1].m = "pong", Head(s.pongs) = "load"
    PROVE  Sound(UpdateFilterLoadDone([s EXCEPT !.pongs = Tail(s.pongs)]), Tail(q), lk, kt, None, up, t)
<1> DEFINE v == [s EXCEPT !.pongs = Tail(s.pongs)]
           u == [v EXCEPT !.updating = FALSE]
           w == Tail(q)
           z == RerequestBlocks(u)
           p == Ping(z, "rerequest")
<1>0. s \in Manager
  BY DEF Sound, Mined
<1>h. Tail(s.pongs) = <<>> /\ <<>> \in Seq({"update", "load", "rerequest"})
  <2>1. /\ Len(s.pongs) \in {1, 2}
        /\ Len(s.pongs) = 2 => Head(s.pongs) = "rerequest"
        /\ Len(s.pongs) = 1 => Tail(s.pongs) = <<>>
    BY PongIs
  <2>2. Len(s.pongs) = 1
    BY <2>1
  <2>3. <<>> \in Seq({"update", "load", "rerequest"})
    BY EmptySeq
  <2> QED BY <2>1, <2>2, <2>3
<1>v. /\ v \in Manager /\ v.pongs = <<>> /\ Alike(v, s) /\ v.toNode = s.toNode
  BY <1>0, <1>h DEF Manager, Alike
<1>1. UpdateFilterLoadDone(v) \in {p, u}
  BY DEF UpdateFilterLoadDone
<1>2. u \in Manager /\ u.pongs = <<>> /\ u.updating = FALSE /\ Alike(u, s) /\ u.toNode = s.toNode
  BY <1>v DEF Manager, Alike
<1> HIDE DEF u, v, w
<1>3. Sound(u, w, lk, kt, None, up, t)
  BY <1>2, UpdatePong DEF w
<1>4. Sound(z, w, lk, kt, None, up, t) /\ z.pongs = <<>> /\ z.updating = FALSE
  BY <1>2, <1>3, RerequestKeeps
<1>5. z \in Manager
  BY <1>4 DEF Sound, Mined
<1> HIDE DEF z
<1>6. /\ p \in Manager /\ Alike(p, z) /\ p.pongs = Append(z.pongs, "rerequest")
      /\ p.updating = FALSE /\ p.toNode = Append(z.toNode, Msg("ping", <<>>))
  BY <1>4, <1>5, PingIs
<1> HIDE DEF p
<1>7. Sound(p, w, lk, kt, None, up, t)
  <2> DEFINE d == "rerequest"
  <2>1. Pinged(p, z, d)
    BY <1>6 DEF Pinged
  <2>2. d \in {"update", "load", "rerequest"} /\ d # "load" /\ d # "update"
    OBVIOUS
  <2> HIDE DEF d
  <2> QED BY <1>4, <1>6, <2>1, <2>2, PingingKeeps
<1>8. Sound(UpdateFilterLoadDone(v), w, lk, kt, None, up, t)
  BY <1>1, <1>3, <1>7
<1> QED BY <1>8 DEF v, w

LEMMA UpdateRerequestDoneKeeps ==
    ASSUME NEW s, NEW q, NEW lk, NEW kt, NEW cur, NEW up, NEW t, Sound(s, q, lk, kt, cur, up, t),
           up = TRUE, q # <<>>, q[1].m = "pong", Head(s.pongs) = "rerequest"
    PROVE  Sound(UpdateFilterRerequestDone([s EXCEPT !.pongs = Tail(s.pongs)]), Tail(q), lk, kt, None, up, t)
<1> DEFINE v == [s EXCEPT !.pongs = Tail(s.pongs)]
           w == Tail(q)
           a == <<v.last>>
<1>1. Sound(v, w, lk, kt, None, up, t)
  BY RerequestPong
<1>2. UpdateFilterRerequestDone(v) \in {v, Send(v, "getblocks", a)}
  BY DEF UpdateFilterRerequestDone
<1> HIDE DEF v, w
<1>3. a \in Seq(Nat) /\ Len(a) = 1
  <2>1. v \in Manager
    BY <1>1 DEF Sound, Mined
  <2>2. v.last \in Nat
    BY <2>1, ManagerIs, BoundTypes
  <2> QED BY <2>2
<1> HIDE DEF a
<1>4. Sound(Send(v, "getblocks", a), w, lk, kt, None, up, t)
  <2> DEFINE m == "getblocks"
  <2>1. m \in {"getblocks", "getheaders", "getdata", "gettx"} /\ m # "getdata"
    OBVIOUS
  <2>2. Asked(Msg(m, a), t)
    BY <1>3 DEF Asked, Msg
  <2> HIDE DEF m
  <2>3. Sound(Send(v, m, a), w, lk, kt, None, up, t)
    BY <1>1, <1>3, <2>1, <2>2, SendingKeeps
  <2> QED BY <2>3 DEF m
<1>5. Sound(UpdateFilterRerequestDone(v), w, lk, kt, None, up, t)
  BY <1>1, <1>2, <1>4
<1> QED BY <1>5 DEF v, w

-----------------------------------------------------------------------------
(* What the node does to it                                                 *)

\* A payment y that is sent for x: it was asked for, or the filter lk holds it.
\* Headers are only sent when they were asked for.
Carried(y, x, lk) ==
    /\ y.m = "tx" => \/ x.m = "gettx" /\ y.a[1] = x.a[1]
                     \/ x.m = "getdata" /\ Pays[y.a[1]] <= lk
    /\ y.m = "headers" => x.m = "getheaders"

\* An answer r to a message x, of a node with the filter lk.
Answer(r, x, lk, t) ==
    /\ r \in Seq(AppMsg)
    /\ \A i \in DOMAIN r : Carried(r[i], x, lk)
    /\ \A i \in DOMAIN r : Formed(r[i], t) /\ r[i].m # "invtx" /\ (r[i].m = "pong" => x.m = "ping")
    /\ \A i \in DOMAIN r : r[i].m = "merkleblock" =>
         /\ x.m = "getdata" /\ Names(x, r[i].a[1])
         /\ Len(r[i].a) = 1 => Pays[r[i].a[1]] \notin 1 .. lk
         /\ Len(r[i].a) = 2 =>
              i + 1 \in DOMAIN r /\ r[i + 1].m = "tx" /\ r[i + 1].a[1] = r[i].a[1]

\* Answers may follow each other.
LEMMA AnswersJoin ==
    ASSUME NEW r, NEW u, NEW x, NEW lk, NEW t, Answer(r, x, lk, t), Answer(u, x, lk, t)
    PROVE  Answer(r \o u, x, lk, t)
<1> DEFINE w == r \o u
           n == Len(r)
<1>1. /\ w \in Seq(AppMsg) /\ n \in Nat /\ DOMAIN r = 1 .. n /\ DOMAIN u = 1 .. Len(u) /\ Len(u) \in Nat
      /\ \A i \in DOMAIN r : i \in DOMAIN w /\ w[i] = r[i]
      /\ \A i \in DOMAIN u : n + i \in DOMAIN w /\ w[n + i] = u[i]
      /\ \A i \in DOMAIN w : i \in DOMAIN r \/ (i > n /\ i - n \in DOMAIN u)
  <2>1. r \in Seq(AppMsg) /\ u \in Seq(AppMsg)
    BY DEF Answer
  <2> QED BY <2>1, ConcatIs
<1> HIDE DEF w, n
<1>2. ASSUME NEW i \in DOMAIN w, i \notin DOMAIN r
      PROVE  \E j \in DOMAIN u : i = n + j /\ w[i] = u[j] /\ (j + 1 \in DOMAIN u => i + 1 = n + (j + 1))
  <2>1. i - n \in DOMAIN u /\ i - n \in Nat /\ i \in Int
    BY <1>1, <1>2
  <2>2. n + (i - n) = i /\ w[n + (i - n)] = u[i - n] /\ i + 1 = n + ((i - n) + 1)
    BY <1>1, <2>1
  <2> QED BY <2>1, <2>2
<1>3. ASSUME NEW i \in DOMAIN w
      PROVE  /\ Formed(w[i], t) /\ w[i].m # "invtx" /\ (w[i].m = "pong" => x.m = "ping")
             /\ Carried(w[i], x, lk)
  BY <1>1, <1>2 DEF Answer
<1>4. ASSUME NEW i \in DOMAIN w, w[i].m = "merkleblock"
      PROVE  /\ x.m = "getdata" /\ Names(x, w[i].a[1])
             /\ Len(w[i].a) = 1 => Pays[w[i].a[1]] \notin 1 .. lk
             /\ Len(w[i].a) = 2 =>
                  i + 1 \in DOMAIN w /\ w[i + 1].m = "tx" /\ w[i + 1].a[1] = w[i].a[1]
  <2>1. CASE i \in DOMAIN r
    BY <1>1, <1>4, <2>1 DEF Answer
  <2>2. CASE i \notin DOMAIN r
    <3>1. PICK j \in DOMAIN u : i = n + j /\ w[i] = u[j] /\ (j + 1 \in DOMAIN u => i + 1 = n + (j + 1))
      BY <1>2, <2>2
    <3>2. /\ x.m = "getdata" /\ Names(x, u[j].a[1])
          /\ Len(u[j].a) = 1 => Pays[u[j].a[1]] \notin 1 .. lk
          /\ Len(u[j].a) = 2 => j + 1 \in DOMAIN u /\ u[j + 1].m = "tx" /\ u[j + 1].a[1] = u[j].a[1]
      BY <1>4, <3>1 DEF Answer
    <3>3. j + 1 \in DOMAIN u => i + 1 \in DOMAIN w /\ w[i + 1] = u[j + 1]
      BY <1>1, <3>1
    <3> QED BY <3>1, <3>2, <3>3
  <2> QED BY <2>1, <2>2
<1>5. Answer(w, x, lk, t)
  BY <1>1, <1>3, <1>4 DEF Answer
<1> QED BY <1>5 DEF w

LEMMA SetInduction ==
    ASSUME NEW S, 0 \in S, \A n \in Nat : n \in S => n + 1 \in S
    PROVE  Nat \subseteq S
<1> DEFINE T == Nat \ S
<1>1. SUFFICES ASSUME T # {} PROVE FALSE
  OBVIOUS
<1>2. T \in SUBSET Nat
  OBVIOUS
<1> HIDE DEF T
<1>3. PICK n \in T : \A y \in T : n <= y
  BY <1>1, <1>2, LeastOf
<1>4. n \in Nat /\ n \notin S
  BY DEF T
<1>5. n - 1 \in Nat /\ n - 1 \in S /\ n - 1 + 1 = n
  <2>1. n # 0
    BY <1>4
  <2>2. n - 1 \in Nat /\ ~ (n <= n - 1)
    BY <1>4, <2>1
  <2> QED BY <1>3, <1>4, <2>2 DEF T
<1> QED BY <1>4, <1>5

\* FlattenSeq puts one sequence after the other.
LEMMA FlattenIs ==
    ASSUME NEW ss, Len(ss) \in Nat, Len(ss) > 0
    PROVE  \E F : /\ F = [i \in 1 .. Len(ss) |-> IF i = 1 THEN ss[i] ELSE F[i - 1] \o ss[i]]
                  /\ FlattenSeq(ss) = F[Len(ss)]
<1> DEFINE E(g, i) == IF i = 1 THEN ss[i] ELSE g[i - 1] \o ss[i]
           Upto == {n \in Nat : \E g : g = [i \in 1 .. n |-> E(g, i)]}
<1>1. 0 \in Upto
  <2>1. \A g : [i \in 1 .. 0 |-> E(g, i)] = [i \in 1 .. 0 |-> 0]
    OBVIOUS
  <2> QED BY <2>1
<1>2. ASSUME NEW n \in Nat, n \in Upto PROVE n + 1 \in Upto
  <2>1. PICK g : g = [i \in 1 .. n |-> E(g, i)]
    BY <1>2
  <2> DEFINE h == [i \in 1 .. n + 1 |-> IF i = n + 1 THEN E(g, n + 1) ELSE g[i]]
  <2>2. ASSUME NEW i \in 1 .. n + 1 PROVE h[i] = E(h, i)
    <3>1. CASE i = n + 1
      <4>1. i # 1 => h[i - 1] = g[i - 1]
        BY <3>1
      <4>2. h[i] = E(g, i)
        BY <3>1
      <4> QED BY <4>1, <4>2
    <3>2. CASE i \in 1 .. n
      <4>1. h[i] = g[i] /\ g[i] = E(g, i)
        BY <2>1, <3>2
      <4>2. i # 1 => h[i - 1] = g[i - 1]
        BY <3>2
      <4> QED BY <4>1, <4>2
    <3> QED BY <3>1, <3>2
  <2>3. h = [i \in 1 .. n + 1 |-> E(h, i)]
    <3> HIDE DEF E
    <3>1. h = [i \in 1 .. n + 1 |-> h[i]]
      OBVIOUS
    <3> HIDE DEF h
    <3> QED BY <2>2, <3>1
  <2> HIDE DEF h, E
  <2> QED BY <2>3
<1>3. Len(ss) \in Upto
  <2> HIDE DEF Upto
  <2> QED BY <1>1, <1>2, SetInduction
<1>4. PICK g : g = [i \in 1 .. Len(ss) |-> E(g, i)]
  BY <1>3, Zenon
<1> DEFINE F == CHOOSE f : f = [i \in 1 .. Len(ss) |-> E(f, i)]
<1>5. F = [i \in 1 .. Len(ss) |-> E(F, i)]
  BY <1>4, Zenon
<1>6. FlattenSeq(ss) = F[Len(ss)]
  <2>1. ~ (Len(ss) = 0)
    OBVIOUS
  <2> QED BY <2>1, Zenon DEF FlattenSeq
<1> HIDE DEF F
<1> QED BY <1>5, <1>6

\* The node answers the first message x, with r; lm is its filter then.
LEMMA AnsweringKeeps ==
    ASSUME NEW s, NEW q, NEW lk, NEW kt, NEW cur, NEW up, NEW t, Sound(s, q, lk, kt, cur, up, t),
           s.toNode # <<>>, NEW x, x = s.toNode[1], NEW r, Answer(r, x, lk, t),
           x.m = "gettx" => HasOne(r, "tx", x.a[1]), x.m = "ping" => Has(r, "pong"),
           NEW lm, x.m = "filter" => lm = x.a[1], x.m # "filter" => lm = lk,
           NEW z, z = [s EXCEPT !.toNode = Tail(s.toNode)], Ponged(z, q \o r)
    PROVE  Sound(z, q \o r, lm, kt, cur, up, t)
<1> DEFINE w == q \o r
           n == Len(q)
           v == s.toNode
           y == Tail(s.toNode)
<1>0. /\ s \in Manager /\ q \in Seq(AppMsg) /\ v \in Seq(NodeMsg) /\ r \in Seq(AppMsg)
      /\ s.wallet \in SUBSET Block /\ \A h \in Block : Pays[h] \in Nat
  BY ManagerIs, BoundTypes DEF Sound, Mined, Answer
<1>1. /\ w \in Seq(AppMsg) /\ n \in Nat /\ DOMAIN q = 1 .. n
      /\ \A i \in DOMAIN r : i \in Nat /\ i >= 1
      /\ \A i \in DOMAIN q : i \in DOMAIN w /\ w[i] = q[i]
      /\ \A i \in DOMAIN r : n + i \in DOMAIN w /\ w[n + i] = r[i]
      /\ \A i \in DOMAIN w : i \in DOMAIN q \/ (i > n /\ i - n \in DOMAIN r)
  BY <1>0, ConcatIs
<1>2. /\ y \in Seq(NodeMsg) /\ 1 \in DOMAIN v
      /\ \A i \in DOMAIN y : i \in Nat /\ i > 0 /\ i + 1 \in DOMAIN v /\ y[i] = v[i + 1]
      /\ \A i \in DOMAIN v : i \in Nat /\ (i = 1 \/ (i - 1 \in DOMAIN y /\ y[i - 1] = v[i]))
  <2>1. v \in Seq(NodeMsg) /\ v # <<>> /\ y = Tail(v)
    BY <1>0
  <2> HIDE DEF v, y, w, n
  <2>2. /\ y \in Seq(NodeMsg) /\ Len(v) \in Nat /\ DOMAIN v = 1 .. Len(v) /\ DOMAIN y = 1 .. Len(v) - 1
        /\ 1 \in DOMAIN v /\ \A i \in DOMAIN y : i + 1 \in DOMAIN v /\ y[i] = v[i + 1]
        /\ \A i \in DOMAIN v : i = 1 \/ (i - 1 \in DOMAIN y /\ y[i - 1] = v[i])
    BY <2>1, TailIs
  <2> QED BY <2>2
<1>3. /\ z \in Manager /\ z.toNode = y /\ z.last = s.last /\ z.estimated = s.estimated
      /\ z.orphans = s.orphans /\ z.filter = s.filter /\ z.updating = s.updating
      /\ z.known = s.known /\ z.pongs = s.pongs /\ z.wallet = s.wallet /\ z.confirmed = s.confirmed
  BY <1>0, <1>2 DEF Manager, NodeMsg
<1>u. up
  BY DEF Sound, Apart
<1> HIDE DEF w, n, y
<1>4. ASSUME NEW i \in DOMAIN w, i \notin DOMAIN q
      PROVE  \E j \in DOMAIN r : i = n + j /\ w[i] = r[j] /\ i > n /\ i + 1 = n + (j + 1)
  <2>1. i - n \in DOMAIN r /\ i - n \in Nat /\ i \in Int /\ i > n
    BY <1>1, <1>4
  <2>2. n + (i - n) = i /\ w[n + (i - n)] = r[i - n] /\ i + 1 = n + ((i - n) + 1)
    BY <1>1, <2>1
  <2> QED BY <2>1, <2>2
<1>x. v[1] = x
  OBVIOUS
<1> HIDE DEF v
<1>m. /\ \A i \in DOMAIN w : i \notin DOMAIN q => w[i].m # "invtx"
      /\ \A i \in DOMAIN w : i \notin DOMAIN q /\ w[i].m = "merkleblock" =>
            /\ x.m = "getdata" /\ Names(x, w[i].a[1]) /\ i > n
            /\ Len(w[i].a) = 1 => Pays[w[i].a[1]] \notin 1 .. lk
            /\ Len(w[i].a) = 2 =>
                  i + 1 \in DOMAIN w /\ w[i + 1].m = "tx" /\ w[i + 1].a[1] = w[i].a[1]
  <2>1. ASSUME NEW i \in DOMAIN w, i \notin DOMAIN q, w[i].m = "merkleblock"
        PROVE  /\ x.m = "getdata" /\ Names(x, w[i].a[1]) /\ i > n
               /\ Len(w[i].a) = 1 => Pays[w[i].a[1]] \notin 1 .. lk
               /\ Len(w[i].a) = 2 =>
                  i + 1 \in DOMAIN w /\ w[i + 1].m = "tx" /\ w[i + 1].a[1] = w[i].a[1]
    <3>1. PICK j \in DOMAIN r : i = n + j /\ w[i] = r[j] /\ i > n /\ i + 1 = n + (j + 1)
      BY <1>4, <2>1
    <3>2. /\ x.m = "getdata" /\ Names(x, r[j].a[1])
          /\ Len(r[j].a) = 1 => Pays[r[j].a[1]] \notin 1 .. lk
          /\ Len(r[j].a) = 2 => j + 1 \in DOMAIN r /\ r[j + 1].m = "tx" /\ r[j + 1].a[1] = r[j].a[1]
      BY <2>1, <3>1 DEF Answer
    <3>3. j + 1 \in DOMAIN r => i + 1 \in DOMAIN w /\ w[i + 1] = r[j + 1]
      BY <1>1, <3>1
    <3> QED BY <3>1, <3>2, <3>3
  <2>2. ASSUME NEW i \in DOMAIN w, i \notin DOMAIN q PROVE w[i].m # "invtx"
    BY <1>4, <2>2 DEF Answer
  <2> QED BY <2>1, <2>2
<1>5. Mined(z, w, t)
  <2>1. Mined(s, q, t)
    BY DEF Sound
  <2>2. \A i \in DOMAIN w : Formed(w[i], t)
    BY <1>1, <1>4, <2>1 DEF Mined, Answer
  <2>3. \A i \in DOMAIN y : Asked(y[i], t)
    BY <1>2, <2>1 DEF Mined, v
  <2> QED BY <1>1, <1>3, <2>1, <2>2, <2>3 DEF Mined
<1>6. Flushed(z, w)
  <2>1. Flushed(s, q)
    BY DEF Sound
  <2>2. ASSUME Waits(s, "update"), NEW i \in DOMAIN y, y[i].m \in {"getdata", "filter"}
        PROVE  \E j \in DOMAIN y : j > i /\ y[j].m = "ping"
    <3>1. i + 1 \in DOMAIN v /\ y[i] = v[i + 1] /\ i \in Nat /\ i > 0
      BY <1>2
    <3>2. PICK j \in DOMAIN v : j > i + 1 /\ v[j].m = "ping"
      BY <2>1, <2>2, <3>1 DEF Flushed, v
    <3>3. j - 1 \in DOMAIN y /\ y[j - 1] = v[j] /\ j - 1 > i
      BY <1>2, <3>1, <3>2
    <3> QED BY <3>2, <3>3
  <2>3. ASSUME Waits(s, "update"), NEW i \in DOMAIN w, w[i].m = "merkleblock", ~ Has(y, "ping")
        PROVE  \E j \in DOMAIN w : j > i /\ w[j].m = "pong"
    <3>1. CASE i \in DOMAIN q
      <4>1. CASE Has(v, "ping")
        <5>1. PICK k \in DOMAIN v : v[k].m = "ping"
          BY <4>1 DEF Has
        <5>2. k = 1
          BY <1>2, <2>3, <5>1 DEF Has
        <5>3. Has(r, "pong")
          BY <1>x, <5>1, <5>2
        <5>4. PICK j \in DOMAIN r : r[j].m = "pong"
          BY <5>3 DEF Has
        <5>5. n + j \in DOMAIN w /\ w[n + j] = r[j] /\ n + j > i
          BY <1>1, <3>1
        <5> QED BY <5>4, <5>5
      <4>2. CASE ~ Has(v, "ping")
        <5>1. \E j \in DOMAIN q : j > i /\ q[j].m = "pong"
          BY <1>1, <2>1, <2>3, <3>1, <4>2 DEF Flushed, v
        <5> QED BY <1>1, <5>1
      <4> QED BY <4>1, <4>2
    <3>2. CASE i \notin DOMAIN q
      <4>1. v[1].m = "getdata"
        BY <1>m, <1>x, <2>3, <3>2
      <4>2. PICK j \in DOMAIN v : j > 1 /\ v[j].m = "ping"
        BY <1>2, <2>1, <2>3, <4>1 DEF Flushed, v
      <4>3. j - 1 \in DOMAIN y /\ y[j - 1] = v[j]
        BY <1>2, <4>2
      <4> QED BY <2>3, <4>2, <4>3 DEF Has
    <3> QED BY <3>1, <3>2
  <2>4. ASSUME Waits(s, "load") PROVE ~ Has(y, "getdata") /\ ~ Has(w, "merkleblock")
    <3>1. ~ Has(v, "getdata") /\ ~ Has(q, "merkleblock")
      BY <2>1, <2>4 DEF Flushed, v
    <3>2. x.m # "getdata"
      BY <1>2, <1>x, <3>1 DEF Has
    <3>3. ~ Has(w, "merkleblock")
      BY <1>1, <1>m, <3>1, <3>2 DEF Has
    <3> QED BY <1>2, <3>1, <3>3 DEF Has
  <2>5. (Waits(z, "update") <=> Waits(s, "update")) /\ (Waits(z, "load") <=> Waits(s, "load"))
    BY <1>3 DEF Waits
  <2>6. Waits(z, "update") =>
          \A i \in DOMAIN z.toNode : z.toNode[i].m \in {"getdata", "filter"} =>
             \E j \in DOMAIN z.toNode : j > i /\ z.toNode[j].m = "ping"
    <3>1. Waits(s, "update") =>
            \A i \in DOMAIN y : y[i].m \in {"getdata", "filter"} =>
               \E j \in DOMAIN y : j > i /\ y[j].m = "ping"
      BY <2>2
    <3> DEFINE u == z.toNode
    <3>2. u = y
      BY <1>3
    <3> HIDE DEF u
    <3>3. Waits(s, "update") =>
            \A i \in DOMAIN u : u[i].m \in {"getdata", "filter"} =>
               \E j \in DOMAIN u : j > i /\ u[j].m = "ping"
      BY <3>1, <3>2
    <3> QED BY <2>5, <3>3 DEF u
  <2>7. Waits(z, "update") =>
          \A i \in DOMAIN w : w[i].m = "merkleblock" =>
             Has(z.toNode, "ping") \/ \E j \in DOMAIN w : j > i /\ w[j].m = "pong"
    BY <1>3, <2>3, <2>5
  <2>8. Waits(z, "load") => ~ Has(z.toNode, "getdata") /\ ~ Has(w, "merkleblock")
    BY <1>3, <2>4, <2>5
  <2> QED BY <2>6, <2>7, <2>8 DEF Flushed
<1>7. Matched(z, w, lm, up)
  <2> SUFFICES ASSUME s.filter # None PROVE Matched(z, w, lm, up)
    BY <1>3 DEF Matched
  <2>0. Matched(s, q, lk, up)
    BY DEF Sound
  <2>1. ASSUME NEW i \in DOMAIN w, w[i].m = "merkleblock", Len(w[i].a) = 1 PROVE Matches(s, w[i].a[1])
    <3>1. CASE i \in DOMAIN q
      BY <1>1, <2>0, <2>1, <3>1 DEF Matched
    <3>2. CASE i \notin DOMAIN q
      <4> DEFINE h == w[i].a[1]
      <4>1. x.m = "getdata" /\ Names(x, h) /\ Pays[h] \notin 1 .. lk
        BY <1>m, <2>1, <3>2
      <4>2. ~ Has(v, "filter")
        <5>1. ASSUME NEW k \in DOMAIN v, v[k].m = "filter" PROVE FALSE
          <6>1. 1 > k
            BY <1>2, <1>x, <2>0, <4>1, <5>1 DEF Matched, v
          <6> QED BY <1>2, <6>1, SeqIs
        <5> QED BY <5>1 DEF Has
      <4>3. lk = s.filter
        BY <1>u, <2>0, <4>2 DEF Matched, v
      <4>4. h \in Block
        <5>1. w[i] \in AppMsg
          BY <1>1, SeqIs
        <5>2. w[i].a \in Seq(Block) /\ 1 \in DOMAIN w[i].a
          BY <2>1, <5>1 DEF AppMsg
        <5> QED BY <5>2, SeqIs
      <4>5. Pays[h] \in Nat /\ s.filter \in Nat
        BY <1>0, <4>4, ManagerIs
      <4> HIDE DEF h
      <4>6. Pays[h] = 0 \/ Pays[h] > s.filter
        BY <4>1, <4>3, <4>5
      <4> QED BY <4>6 DEF Matches, h
    <3> QED BY <3>1, <3>2
  <2>2. ASSUME NEW i \in DOMAIN y, y[i].m = "filter"
        PROVE  y[i].a[1] = s.filter /\ \A j \in DOMAIN y : y[j].m = "getdata" => j > i
    <3>1. i + 1 \in DOMAIN v /\ y[i] = v[i + 1] /\ i \in Nat
      BY <1>2
    <3>2. v[i + 1].a[1] = s.filter /\ \A j \in DOMAIN v : v[j].m = "getdata" => j > i + 1
      BY <2>0, <2>2, <3>1 DEF Matched, v
    <3>3. ASSUME NEW j \in DOMAIN y, y[j].m = "getdata" PROVE j > i
      <4>1. j + 1 \in DOMAIN v /\ y[j] = v[j + 1] /\ j \in Nat
        BY <1>2
      <4>2. j + 1 > i + 1
        BY <3>2, <3>3, <4>1
      <4> QED BY <3>1, <4>1, <4>2
    <3> QED BY <3>1, <3>2, <3>3
  <2>3. ~ Has(y, "filter") => lm = s.filter
    <3> SUFFICES ASSUME ~ Has(y, "filter") PROVE lm = s.filter
      OBVIOUS
    <3>1. CASE x.m = "filter"
      BY <1>2, <1>x, <2>0, <3>1 DEF Matched, v
    <3>2. CASE x.m # "filter"
      <4>1. ~ Has(v, "filter")
        BY <1>2, <1>x, <3>2 DEF Has
      <4> QED BY <1>u, <2>0, <3>2, <4>1 DEF Matched, v
    <3> QED BY <3>1, <3>2
  <2>4. Paid(s.wallet) + Gap <= s.filter /\ \A h \in s.orphans : Matches(s, h)
    BY <2>0 DEF Matched
  <2>5. \A h : Matches(s, h) => Matches(z, h)
    BY <1>3 DEF Matches
  <2> QED BY <1>3, <2>1, <2>2, <2>3, <2>4, <2>5 DEF Matched
<1>8. Paired(w, cur)
  <2>0. Paired(q, cur)
    BY DEF Sound
  <2>1. ASSUME NEW i \in DOMAIN w, w[i].m = "merkleblock", Len(w[i].a) = 2
        PROVE  i + 1 \in DOMAIN w /\ w[i + 1].m = "tx" /\ w[i + 1].a[1] = w[i].a[1]
    <3>1. CASE i \in DOMAIN q
      <4>1. i + 1 \in DOMAIN q /\ q[i + 1].m = "tx" /\ q[i + 1].a[1] = q[i].a[1] /\ w[i] = q[i]
        BY <1>1, <2>0, <2>1, <3>1 DEF Paired
      <4> QED BY <1>1, <4>1
    <3>2. CASE i \notin DOMAIN q
      BY <1>m, <2>1, <3>2
    <3> QED BY <3>1, <3>2
  <2>2. ASSUME cur # None PROVE w # <<>> /\ w[1].m = "tx" /\ w[1].a[1] = cur
    <3>1. q # <<>> /\ q[1].m = "tx" /\ q[1].a[1] = cur
      BY <2>0, <2>2 DEF Paired
    <3>2. 1 \in DOMAIN q
      BY <1>0, <3>1, TailIs
    <3>3. 1 \in DOMAIN w /\ w[1] = q[1]
      BY <1>1, <3>2
    <3>4. w # <<>>
      BY <3>3
    <3> QED BY <3>1, <3>3, <3>4
  <2> QED BY <2>1, <2>2 DEF Paired
<1>9. TxFirst(z, w, kt)
  <2>0. TxFirst(s, q, kt)
    BY DEF Sound
  <2>q. \A h : HasOne(q, "tx", h) => HasOne(w, "tx", h)
    BY <1>1 DEF HasOne
  <2>r. \A h : x.m = "gettx" /\ x.a[1] = h => HasOne(w, "tx", h)
    <3> SUFFICES ASSUME NEW h, x.m = "gettx", x.a[1] = h PROVE HasOne(w, "tx", h)
      OBVIOUS
    <3>1. PICK j \in DOMAIN r : r[j].m = "tx" /\ r[j].a[1] = h
      BY DEF HasOne
    <3>2. n + j \in DOMAIN w /\ w[n + j] = r[j]
      BY <1>1
    <3> QED BY <3>1, <3>2 DEF HasOne
  <2>1. ASSUME NEW h \in kt \ s.wallet PROVE HasOne(y, "gettx", h) \/ HasOne(w, "tx", h)
    <3>1. CASE HasOne(q, "tx", h)
      BY <2>q, <3>1
    <3>2. CASE HasOne(v, "gettx", h)
      <4>1. PICK i \in DOMAIN v : v[i].m = "gettx" /\ v[i].a[1] = h
        BY <3>2 DEF HasOne
      <4>2. CASE i = 1
        BY <1>x, <2>r, <4>1, <4>2
      <4>3. CASE i # 1
        BY <1>2, <4>1, <4>3 DEF HasOne
      <4> QED BY <4>2, <4>3
    <3> QED BY <2>0, <3>1, <3>2 DEF TxFirst, v
  <2>2. ASSUME NEW h \in kt \ s.wallet, NEW i \in DOMAIN w, w[i].m = "merkleblock", w[i].a[1] = h
        PROVE  \E j \in DOMAIN w : j < i /\ w[j].m = "tx" /\ w[j].a[1] = h
    <3>1. CASE i \in DOMAIN q
      <4>1. \E j \in DOMAIN q : j < i /\ q[j].m = "tx" /\ q[j].a[1] = h
        BY <1>1, <2>0, <2>2, <3>1 DEF TxFirst
      <4> QED BY <1>1, <4>1
    <3>2. CASE i \notin DOMAIN q
      <4>1. x.m = "getdata" /\ Names(x, h) /\ i > n
        BY <1>m, <2>2, <3>2
      <4>2. HasOne(q, "tx", h)
        <5>1. \/ HasOne(q, "tx", h)
              \/ \E j \in DOMAIN v : j < 1 /\ v[j].m = "gettx" /\ v[j].a[1] = h
          BY <1>2, <1>x, <2>0, <4>1 DEF TxFirst, v
        <5>2. \A j \in DOMAIN v : ~ (j < 1)
          BY <1>0, SeqIs
        <5> QED BY <5>1, <5>2
      <4>3. PICK j \in DOMAIN q : q[j].m = "tx" /\ q[j].a[1] = h
        BY <4>2 DEF HasOne
      <4>4. j < i /\ j \in DOMAIN w /\ w[j] = q[j]
        <5>1. i \in Int
          <6>1. w \in Seq(AppMsg) /\ i \in DOMAIN w
            BY <1>1
          <6> QED BY <6>1, SeqIs
        <5> QED BY <1>1, <4>1, <5>1
      <4> QED BY <4>3, <4>4
    <3> QED BY <3>1, <3>2
  <2>3. ASSUME NEW h \in kt \ s.wallet, NEW i \in DOMAIN y, y[i].m = "getdata", Names(y[i], h),
               ~ HasOne(w, "tx", h)
        PROVE  \E j \in DOMAIN y : j < i /\ y[j].m = "gettx" /\ y[j].a[1] = h
    <3>1. i + 1 \in DOMAIN v /\ y[i] = v[i + 1] /\ i \in Nat
      BY <1>2
    <3>2. PICK j \in DOMAIN v : j < i + 1 /\ v[j].m = "gettx" /\ v[j].a[1] = h
      BY <2>0, <2>q, <2>3, <3>1 DEF TxFirst, v
    <3>3. j # 1
      BY <1>x, <2>r, <2>3, <3>2
    <3>4. j - 1 \in DOMAIN y /\ y[j - 1] = v[j] /\ j - 1 < i
      BY <1>2, <3>1, <3>2, <3>3
    <3> QED BY <3>2, <3>4
  <2>4. ASSUME NEW k \in DOMAIN w, w[k].m = "invtx", w[k].a[1] \notin kt
        PROVE  /\ \A i \in DOMAIN z.known : z.known[i] # w[k].a[1]
               /\ \A i \in DOMAIN y : y[i].m = "getdata" => ~ Names(y[i], w[k].a[1])
               /\ \A i \in DOMAIN w : w[i].m = "merkleblock" => w[i].a[1] # w[k].a[1]
               /\ \A i \in DOMAIN w : w[i].m = "inv" /\ Names(w[i], w[k].a[1]) => i > k
    <3>1. k \in DOMAIN q /\ w[k] = q[k]
      BY <1>1, <1>m, <2>4
    <3>2. /\ \A i \in DOMAIN s.known : s.known[i] # w[k].a[1]
          /\ \A i \in DOMAIN v : v[i].m = "getdata" => ~ Names(v[i], w[k].a[1])
          /\ \A i \in DOMAIN q : q[i].m = "merkleblock" => q[i].a[1] # w[k].a[1]
          /\ \A i \in DOMAIN q : q[i].m = "inv" /\ Names(q[i], w[k].a[1]) => i > k
      BY <2>0, <2>4, <3>1 DEF TxFirst, v
    <3>3. \A i \in DOMAIN w : w[i].m = "merkleblock" => w[i].a[1] # w[k].a[1]
      <4> TAKE i \in DOMAIN w
      <4>1. CASE i \in DOMAIN q
        BY <1>1, <3>2, <4>1
      <4>2. CASE i \notin DOMAIN q
        <5>1. w[i].m = "merkleblock" => x.m = "getdata" /\ Names(x, w[i].a[1])
          BY <1>m, <4>2
        <5>2. x.m = "getdata" => ~ Names(x, w[k].a[1])
          BY <1>2, <1>x, <3>2
        <5> QED BY <5>1, <5>2
      <4> QED BY <4>1, <4>2
    <3>4. \A i \in DOMAIN w : w[i].m = "inv" /\ Names(w[i], w[k].a[1]) => i > k
      <4> TAKE i \in DOMAIN w
      <4>1. CASE i \in DOMAIN q
        BY <1>1, <3>2, <4>1
      <4>2. CASE i \notin DOMAIN q
        <5>1. i > n /\ i \in Int
          <6>1. w \in Seq(AppMsg) /\ i \in DOMAIN w
            BY <1>1
          <6> QED BY <1>4, <4>2, <6>1, SeqIs
        <5> QED BY <1>1, <3>1, <5>1
      <4> QED BY <4>1, <4>2
    <3> QED BY <1>2, <1>3, <3>2, <3>3, <3>4
  <2>5. \A h \in kt \ z.wallet :
          /\ HasOne(z.toNode, "gettx", h) \/ HasOne(w, "tx", h)
          /\ \A i \in DOMAIN w : w[i].m = "merkleblock" /\ w[i].a[1] = h =>
                \E j \in DOMAIN w : j < i /\ w[j].m = "tx" /\ w[j].a[1] = h
          /\ \A i \in DOMAIN z.toNode : z.toNode[i].m = "getdata" /\ Names(z.toNode[i], h) =>
                \/ HasOne(w, "tx", h)
                \/ \E j \in DOMAIN z.toNode : j < i /\ z.toNode[j].m = "gettx" /\ z.toNode[j].a[1] = h
    <3> TAKE h \in kt \ z.wallet
    <3>1. h \in kt \ s.wallet
      BY <1>3
    <3>2. z.toNode = y
      BY <1>3
    <3>3. HasOne(z.toNode, "gettx", h) \/ HasOne(w, "tx", h)
      BY <2>1, <3>1, <3>2
    <3>4. \A i \in DOMAIN w : w[i].m = "merkleblock" /\ w[i].a[1] = h =>
             \E j \in DOMAIN w : j < i /\ w[j].m = "tx" /\ w[j].a[1] = h
      BY <2>2, <3>1
    <3>5. \A i \in DOMAIN y : y[i].m = "getdata" /\ Names(y[i], h) =>
             \/ HasOne(w, "tx", h)
             \/ \E j \in DOMAIN y : j < i /\ y[j].m = "gettx" /\ y[j].a[1] = h
      BY <2>3, <3>1
    <3>6. \A i \in DOMAIN z.toNode : z.toNode[i].m = "getdata" /\ Names(z.toNode[i], h) =>
             \/ HasOne(w, "tx", h)
             \/ \E j \in DOMAIN z.toNode : j < i /\ z.toNode[j].m = "gettx" /\ z.toNode[j].a[1] = h
      <4> DEFINE u == z.toNode
      <4>1. u = y
        BY <3>2
      <4> HIDE DEF u
      <4>2. \A i \in DOMAIN u : u[i].m = "getdata" /\ Names(u[i], h) =>
              \/ HasOne(w, "tx", h)
              \/ \E j \in DOMAIN u : j < i /\ u[j].m = "gettx" /\ u[j].a[1] = h
        BY <3>5, <4>1
      <4> QED BY <4>2 DEF u
    <3> QED BY <3>3, <3>4, <3>6
  <2>6. \A k \in DOMAIN w : w[k].m = "invtx" /\ w[k].a[1] \notin kt =>
          /\ \A i \in DOMAIN z.known : z.known[i] # w[k].a[1]
          /\ \A i \in DOMAIN z.toNode : z.toNode[i].m = "getdata" => ~ Names(z.toNode[i], w[k].a[1])
          /\ \A i \in DOMAIN w : w[i].m = "merkleblock" => w[i].a[1] # w[k].a[1]
          /\ \A i \in DOMAIN w : w[i].m = "inv" /\ Names(w[i], w[k].a[1]) => i > k
    BY <1>3, <2>4
  <2> QED BY <2>5, <2>6 DEF TxFirst
<1>10. NoneMissed(z) /\ Ponged(z, w)
  BY <1>3 DEF Sound, NoneMissed, w
<1>11. Sound(z, w, lm, kt, cur, up, t)
  BY <1>u, <1>5, <1>6, <1>7, <1>8, <1>9, <1>10 DEF Sound
<1> QED BY <1>11 DEF w

LEMMA MessageIs ==
    ASSUME NEW m \in {"inv", "invtx", "headers", "merkleblock", "tx", "pong"}, NEW a \in Seq(Block)
    PROVE  Msg(m, a) \in AppMsg /\ Msg(m, a).m = m /\ Msg(m, a).a = a
BY DEF Msg, AppMsg

\* A message that is no block answers alone.
LEMMA OneAnswers ==
    ASSUME NEW y \in AppMsg, NEW x, NEW lk, NEW t, Formed(y, t), y.m \notin {"invtx", "merkleblock"},
           y.m = "pong" => x.m = "ping", Carried(y, x, lk)
    PROVE  Answer(<<y>>, x, lk, t)
<1> DEFINE r == <<y>>
<1>1. r \in Seq(AppMsg) /\ DOMAIN r = {1} /\ r[1] = y
  OBVIOUS
<1> HIDE DEF r
<1>2. Answer(r, x, lk, t)
  BY <1>1 DEF Answer
<1> QED BY <1>2 DEF r

LEMMA NoneAnswers ==
    ASSUME NEW x, NEW lk, NEW t
    PROVE  Answer(<<>>, x, lk, t)
<1> DEFINE r == <<>>
<1>1. r \in Seq(AppMsg) /\ DOMAIN r = {}
  OBVIOUS
<1> HIDE DEF r
<1>2. Answer(r, x, lk, t)
  BY <1>1 DEF Answer
<1> QED BY <1>2 DEF r

\* A block of those that were asked for.
LEMMA SendsAnswer ==
    ASSUME NEW x, NEW lk \in Nat, NEW t \in Block, NEW h \in Block, h <= t, x.m = "getdata", Names(x, h)
    PROVE  Answer(Sends(h, lk), x, lk, t)
<1>1. <<h, h>> \in Seq(Block) /\ <<h>> \in Seq(Block)
  OBVIOUS
<1> DEFINE d == <<h, h>>
           o == <<h>>
<1>2. /\ Len(d) = 2 /\ DOMAIN d = {1, 2} /\ d[1] = h /\ d[2] = h /\ d \in Seq(Block)
      /\ Len(o) = 1 /\ DOMAIN o = {1} /\ o[1] = h /\ o \in Seq(Block)
  BY <1>1
<1>3. CASE Pays[h] \in 1 .. lk
  <2> DEFINE b == Msg("merkleblock", d)
             p == Msg("tx", o)
             r == <<b, p>>
  <2>1. Sends(h, lk) = r
    BY <1>3 DEF Sends
  <2>2. b \in AppMsg /\ b.m = "merkleblock" /\ b.a = d
    <3> HIDE DEF d
    <3> QED BY <1>2, MessageIs
  <2>3. p \in AppMsg /\ p.m = "tx" /\ p.a = o
    <3> HIDE DEF o
    <3> QED BY <1>2, MessageIs
  <2> HIDE DEF b, p, d, o
  <2>4. r \in Seq(AppMsg) /\ DOMAIN r = {1, 2} /\ r[1] = b /\ r[2] = p
    BY <2>2, <2>3
  <2> HIDE DEF r
  <2>5. Formed(b, t) /\ Formed(p, t)
    BY <1>2, <2>2, <2>3 DEF Formed
  <2>c. Carried(b, x, lk) /\ Carried(p, x, lk)
    BY <1>2, <1>3, <2>2, <2>3 DEF Carried
  <2>6. \A i \in DOMAIN r : /\ Formed(r[i], t) /\ r[i].m # "invtx" /\ (r[i].m = "pong" => x.m = "ping")
                            /\ Carried(r[i], x, lk)
    BY <2>2, <2>3, <2>4, <2>5, <2>c
  <2>7. \A i \in DOMAIN r : r[i].m = "merkleblock" => i = 1
    BY <2>3, <2>4
  <2>8. r[1].a[1] = h /\ Len(r[1].a) = 2 /\ 1 + 1 \in DOMAIN r /\ r[1 + 1].m = "tx" /\ r[1 + 1].a[1] = h
    BY <1>2, <2>2, <2>3, <2>4
  <2>9. Answer(r, x, lk, t)
    BY <2>4, <2>6, <2>7, <2>8 DEF Answer
  <2> QED BY <2>1, <2>9
<1>4. CASE Pays[h] \notin 1 .. lk
  <2> DEFINE b == Msg("merkleblock", o)
             r == <<b>>
  <2>1. Sends(h, lk) = r
    BY <1>4 DEF Sends
  <2>2. b \in AppMsg /\ b.m = "merkleblock" /\ b.a = o
    <3> HIDE DEF o
    <3> QED BY <1>2, MessageIs
  <2> HIDE DEF b, d, o
  <2>4. r \in Seq(AppMsg) /\ DOMAIN r = {1} /\ r[1] = b
    BY <2>2
  <2> HIDE DEF r
  <2>5. Formed(b, t)
    BY <1>2, <2>2 DEF Formed
  <2>6. r[1].a[1] = h /\ Len(r[1].a) = 1
    BY <1>2, <2>2, <2>4
  <2>c. Carried(b, x, lk)
    BY <2>2 DEF Carried
  <2>7. \A i \in DOMAIN r : /\ Formed(r[i], t) /\ r[i].m # "invtx" /\ (r[i].m = "pong" => x.m = "ping")
                            /\ Carried(r[i], x, lk)
    BY <2>2, <2>4, <2>5, <2>c
  <2>8. \A i \in DOMAIN r : i = 1
    BY <2>4
  <2>o. Len(r[1].a) # 2
    BY <2>6
  <2>9. Answer(r, x, lk, t)
    BY <1>4, <2>4, <2>6, <2>7, <2>8, <2>o DEF Answer
  <2> QED BY <2>1, <2>9
<1> QED BY <1>3, <1>4

LEMMA BlocksAnswer ==
    ASSUME NEW x, NEW lk \in Nat, NEW t \in Block, x.m = "getdata", x.a \in Seq(Nat),
           \A i \in DOMAIN x.a : x.a[i] \in 1 .. t
    PROVE  Answer(FlattenSeq([i \in DOMAIN x.a |-> Sends(x.a[i], lk)]), x, lk, t)
<1> DEFINE a == x.a
           n == Len(a)
           ss == [i \in DOMAIN a |-> Sends(a[i], lk)]
<1>1. /\ n \in Nat /\ DOMAIN a = 1 .. n
      /\ \A i \in DOMAIN a : a[i] \in Block /\ a[i] <= t /\ Names(x, a[i])
  <2>1. n \in Nat /\ DOMAIN a = 1 .. n
    BY SeqIs
  <2>2. \A i \in DOMAIN a : a[i] \in Block /\ a[i] <= t
    <3> HIDE DEF a
    <3>1. MaxTop \in Nat /\ t \in Nat /\ t <= MaxTop
      BY BoundTypes DEF Block
    <3>2. \A i \in DOMAIN a : a[i] \in 1 .. t
      BY DEF a
    <3>3. \A h \in 1 .. t : h \in Block /\ h <= t
      BY <3>1 DEF Block
    <3> QED BY <3>2, <3>3
  <2> QED BY <2>1, <2>2 DEF Names
<1>2. \A i \in 1 .. n : ss[i] = Sends(a[i], lk) /\ Answer(ss[i], x, lk, t)
  <2>1. \A i \in 1 .. n : ss[i] = Sends(a[i], lk)
    BY <1>1
  <2>2. \A i \in 1 .. n : Answer(Sends(a[i], lk), x, lk, t)
    <3> HIDE DEF a, n
    <3> QED BY <1>1, SendsAnswer
  <2> HIDE DEF ss
  <2> QED BY <2>1, <2>2
<1>3. ss \in Seq(Seq(AppMsg)) /\ Len(ss) = n
  <2>1. \A i \in 1 .. n : ss[i] \in Seq(AppMsg)
    <3> HIDE DEF ss
    <3> QED BY <1>2 DEF Answer
  <2>2. ss = [i \in 1 .. n |-> ss[i]]
    BY <1>1
  <2> HIDE DEF ss, n
  <2> QED BY <1>1, <2>1, <2>2
<1> HIDE DEF ss, n, a
<1>4. CASE n = 0
  <2>1. ss = <<>>
    BY <1>3, <1>4, EmptySeq
  <2>2. FlattenSeq(ss) = ss
    BY <1>3, <1>4, Zenon DEF FlattenSeq
  <2>3. Answer(<<>>, x, lk, t)
    BY NoneAnswers
  <2>4. Answer(FlattenSeq(ss), x, lk, t)
    BY <2>1, <2>2, <2>3
  <2> QED BY <2>4 DEF ss, a
<1>5. CASE n > 0
  <2>1. PICK F : /\ F = [i \in 1 .. n |-> IF i = 1 THEN ss[i] ELSE F[i - 1] \o ss[i]]
                 /\ FlattenSeq(ss) = F[n]
    <3>1. \E F : /\ F = [i \in 1 .. Len(ss) |-> IF i = 1 THEN ss[i] ELSE F[i - 1] \o ss[i]]
                 /\ FlattenSeq(ss) = F[Len(ss)]
      BY <1>1, <1>3, <1>5, FlattenIs
    <3> QED BY <1>3, <3>1
  <2> DEFINE S == {k \in Nat : k + 1 \in 1 .. n => Answer(F[k + 1], x, lk, t)}
  <2> DEFINE E(g, i) == IF i = 1 THEN ss[i] ELSE g[i - 1] \o ss[i]
  <2>e. F = [i \in 1 .. n |-> E(F, i)]
    BY <2>1
  <2>f. \A k \in 1 .. n : F[k] = E(F, k)
    <3> HIDE DEF E
    <3> QED BY <2>e, Zenon
  <2>2. F[1] = ss[1] /\ \A k \in 1 .. n : k # 1 => F[k] = F[k - 1] \o ss[k]
    <3>1. 1 \in 1 .. n
      BY <1>1, <1>5
    <3> QED BY <2>f, <3>1
  <2>3. 0 \in S
    BY <1>1, <1>2, <1>5, <2>2
  <2>4. ASSUME NEW k \in Nat, k \in S PROVE k + 1 \in S
    <3> DEFINE l == k + 1 + 1
    <3>1. SUFFICES ASSUME l \in 1 .. n PROVE Answer(F[l], x, lk, t)
      BY <2>4
    <3>2. k + 1 \in 1 .. n /\ l # 1 /\ l - 1 = k + 1
      BY <1>1, <3>1
    <3>3. Answer(F[k + 1], x, lk, t)
      BY <2>4, <3>2
    <3> HIDE DEF l, E
    <3>4. F[l] = F[l - 1] \o ss[l]
      BY <2>2, <3>1, <3>2, Zenon
    <3>5. Answer(F[l - 1] \o ss[l], x, lk, t)
      <4>1. Answer(F[l - 1], x, lk, t)
        BY <3>2, <3>3
      <4> QED BY <1>2, <3>1, <4>1, AnswersJoin
    <3> QED BY <3>4, <3>5
  <2>5. n - 1 \in S
    <3> HIDE DEF S
    <3>1. Nat \subseteq S
      BY <2>3, <2>4, SetInduction
    <3> QED BY <1>1, <1>5, <3>1
  <2>6. n - 1 + 1 = n /\ n \in 1 .. n
    BY <1>1, <1>5
  <2>7. Answer(FlattenSeq(ss), x, lk, t)
    BY <2>1, <2>5, <2>6
  <2> QED BY <2>7 DEF ss, a
<1> QED BY <1>1, <1>4, <1>5

\* The blocks after one that the app names, up to b.
LEMMA HeightsAre ==
    ASSUME NEW t \in Block, NEW a \in Nat, NEW b \in Int, b <= t
    PROVE  LET hs == Heights(a + 1, b)
           IN  /\ hs \in Seq(Block)
               /\ \A i \in DOMAIN hs : hs[i] <= t /\ (i > 1 => hs[i] = hs[i - 1] + 1)
<1> DEFINE n == IF a + 1 <= b THEN b - (a + 1) + 1 ELSE 0
           hs == Heights(a + 1, b)
<1>t. MaxTop \in Nat /\ t \in Nat /\ t <= MaxTop
  BY BoundTypes DEF Block
<1>1. n \in Nat /\ \A i \in 1 .. n : a + 1 + i - 1 \in Block /\ a + 1 + i - 1 <= t
  <2>1. CASE a + 1 <= b
    <3>1. n = b - a
      BY <2>1
    <3> HIDE DEF n
    <3> QED BY <1>t, <2>1, <3>1 DEF Block
  <2>2. CASE ~ (a + 1 <= b)
    <3>1. n = 0
      BY <2>2
    <3> HIDE DEF n
    <3> QED BY <3>1
  <2> QED BY <2>1, <2>2
<1>2. hs = [i \in 1 .. n |-> a + 1 + i - 1]
  BY DEF Heights
<1> HIDE DEF n, hs
<1>3. hs \in Seq(Block) /\ DOMAIN hs = 1 .. n
  <2>1. DOMAIN hs = 1 .. n
    BY <1>2
  <2>2. \A i \in 1 .. n : hs[i] \in Block
    BY <1>1, <1>2
  <2>3. hs = [i \in 1 .. n |-> hs[i]]
    BY <1>2
  <2> QED BY <1>1, <2>1, <2>2, <2>3
<1>4. \A i \in 1 .. n : hs[i] = a + 1 + i - 1
  BY <1>2
<1>5. ASSUME NEW i \in DOMAIN hs PROVE hs[i] <= t /\ (i > 1 => hs[i] = hs[i - 1] + 1)
  <2>1. i \in 1 .. n /\ hs[i] = a + 1 + i - 1 /\ hs[i] <= t
    BY <1>1, <1>3, <1>4
  <2>2. i > 1 => i - 1 \in 1 .. n
    BY <1>1, <2>1
  <2>3. i > 1 => hs[i - 1] = a + 1 + (i - 1) - 1
    BY <1>4, <2>2
  <2> QED BY <2>1, <2>3
<1>6. hs \in Seq(Block) /\ \A i \in DOMAIN hs : hs[i] <= t /\ (i > 1 => hs[i] = hs[i - 1] + 1)
  BY <1>3, <1>5
<1> QED BY <1>6 DEF hs

LEMMA InvAnswers ==
    ASSUME NEW x, NEW lk, NEW t, NEW hs \in Seq(Block), \A i \in DOMAIN hs : hs[i] <= t
    PROVE  Answer(Inv(hs), x, lk, t)
<1>1. CASE hs = <<>>
  BY <1>1, NoneAnswers DEF Inv
<1>2. CASE hs # <<>>
  <2> DEFINE y == Msg("inv", hs)
  <2>1. y \in AppMsg /\ y.m = "inv" /\ y.a = hs
    BY MessageIs
  <2>2. Inv(hs) = <<y>>
    BY <1>2 DEF Inv
  <2> HIDE DEF y
  <2>3. Formed(y, t) /\ Carried(y, x, lk)
    BY <2>1 DEF Formed, Carried
  <2> QED BY <2>1, <2>2, <2>3, OneAnswers
<1> QED BY <1>1, <1>2

LEMMA LeastOfTwo ==
    ASSUME NEW a \in Nat, NEW b \in Nat
    PROVE  Min({a, b}) \in {a, b} /\ Min({a, b}) \in Nat /\ Min({a, b}) <= a /\ Min({a, b}) <= b
<1> DEFINE S == {a, b}
<1>1. S \in SUBSET Nat /\ S # {} /\ a \in S /\ b \in S
  OBVIOUS
<1> HIDE DEF S
<1>2. Min(S) \in S /\ \A n \in S : Min(S) <= n
  BY <1>1, LeastOf
<1>3. Min(S) \in S /\ Min(S) \in Nat /\ Min(S) <= a /\ Min(S) <= b
  BY <1>1, <1>2
<1> QED BY <1>3 DEF S

\* What the node answers to the message x is an answer to it.
LEMMA ReplyAnswers ==
    ASSUME NEW x \in NodeMsg, Asked(x, top), top \in Block, looks \in Nat, NEW more \in BOOLEAN,
           NEW r, r = Reply(x.m, x.a, more)
    PROVE  /\ Answer(r, x, looks, top)
           /\ x.m = "gettx" => HasOne(r, "tx", x.a[1])
           /\ x.m = "ping" => \E y \in AppMsg : y.m = "pong" /\ r = <<y>>
<1> DEFINE a == x.a
<1>0. a \in Seq(Nat) /\ Batch \in Nat /\ HeaderBatch \in Nat /\ top \in Nat
  BY BoundTypes DEF NodeMsg
<1>n. x.m \in {"getblocks", "getheaders", "gettx"} => Len(a) = 1 /\ a[1] \in Nat
  <2>1. x.m \in {"getblocks", "getheaders", "gettx"} => Len(a) = 1
    BY DEF Asked
  <2>2. Len(a) = 1 => 1 \in DOMAIN a
    BY <1>0, SeqIs
  <2> QED BY <1>0, <2>1, <2>2, SeqIs
<1> HIDE DEF a
<1>1. CASE x.m = "getblocks"
  <2> DEFINE b == Min({top, a[1] + Batch})
             hs == Heights(a[1] + 1, b)
  <2>1. b \in Nat /\ b <= top
    BY <1>0, <1>1, <1>n, LeastOfTwo
  <2> HIDE DEF b
  <2>2. hs \in Seq(Block) /\ \A i \in DOMAIN hs : hs[i] <= top
    <3>1. hs \in Seq(Block) /\ \A i \in DOMAIN hs : hs[i] <= top /\ (i > 1 => hs[i] = hs[i - 1] + 1)
      BY <1>1, <1>n, <2>1, HeightsAre
    <3> HIDE DEF hs
    <3> QED BY <3>1
  <2>3. r = Inv(hs)
    BY <1>1 DEF Reply, a, b
  <2> HIDE DEF hs
  <2> QED BY <1>1, <2>2, <2>3, InvAnswers
<1>2. CASE x.m = "getheaders"
  <2> DEFINE b == Min({top, a[1] + HeaderBatch})
             hs == Heights(a[1] + 1, b)
             y == Msg("headers", hs)
  <2>1. b \in Nat /\ b <= top
    BY <1>0, <1>2, <1>n, LeastOfTwo
  <2> HIDE DEF b
  <2>2. hs \in Seq(Block) /\ \A i \in DOMAIN hs : hs[i] <= top /\ (i > 1 => hs[i] = hs[i - 1] + 1)
    BY <1>2, <1>n, <2>1, HeightsAre
  <2>3. r = <<y>>
    BY <1>2 DEF Reply, a, b
  <2> HIDE DEF hs
  <2>4. y \in AppMsg /\ y.m = "headers" /\ y.a = hs
    BY <2>2, MessageIs
  <2> HIDE DEF y
  <2>5. Formed(y, top) /\ Carried(y, x, looks)
    BY <1>2, <2>2, <2>4 DEF Formed, Carried
  <2> QED BY <1>2, <2>3, <2>4, <2>5, OneAnswers
<1>3. CASE x.m = "getdata"
  <2> DEFINE f == FlattenSeq([i \in DOMAIN a |-> Sends(a[i], looks)])
             l == IF more THEN Inv(<<top>>) ELSE <<>>
  <2>1. r = f \o l
    BY <1>3 DEF Reply, a
  <2>2. Answer(f, x, looks, top)
    BY <1>0, <1>3, BlocksAnswer DEF Asked, a
  <2>3. Answer(l, x, looks, top)
    <3>1. <<top>> \in Seq(Block) /\ \A i \in DOMAIN <<top>> : <<top>>[i] <= top
      BY <1>0
    <3>2. Answer(Inv(<<top>>), x, looks, top)
      BY <3>1, InvAnswers
    <3> QED BY <3>2, NoneAnswers
  <2> HIDE DEF f, l
  <2> QED BY <1>3, <2>1, <2>2, <2>3, AnswersJoin
<1>4. CASE x.m = "gettx"
  <2> DEFINE y == Msg("tx", a)
  <2>1. r = <<y>>
    BY <1>4 DEF Reply, a
  <2>2. Len(a) = 1 /\ a[1] \in Block /\ DOMAIN a = {1} /\ a \in Seq(Block)
    <3>1. Len(a) = 1 /\ a[1] \in Block
      BY <1>4 DEF Asked, a
    <3>2. DOMAIN a = 1 .. Len(a)
      BY <1>0, SeqIs
    <3>3. a \in Seq(Block)
      <4>1. Len(a) \in Nat /\ \A i \in 1 .. Len(a) : a[i] \in Block
        BY <3>1
      <4>2. a = [i \in 1 .. Len(a) |-> a[i]]
        BY <1>0
      <4> QED BY <4>1, <4>2
    <3>4. DOMAIN a = {1}
      BY <3>1, <3>2
    <3> QED BY <3>1, <3>3, <3>4
  <2>3. y \in AppMsg /\ y.m = "tx" /\ y.a = a
    BY <2>2, MessageIs
  <2> HIDE DEF y
  <2>4. Formed(y, top) /\ Carried(y, x, looks)
    BY <1>4, <2>2, <2>3 DEF Formed, Carried, a
  <2>5. Answer(r, x, looks, top)
    BY <1>4, <2>1, <2>3, <2>4, OneAnswers
  <2>6. 1 \in DOMAIN r /\ r[1] = y
    BY <2>1
  <2>7. HasOne(r, "tx", x.a[1])
    BY <2>3, <2>6 DEF HasOne, a
  <2> QED BY <1>4, <2>5, <2>7
<1>5. CASE x.m = "filter"
  <2>1. r = <<>>
    BY <1>5 DEF Reply
  <2> QED BY <1>5, <2>1, NoneAnswers
<1>6. CASE x.m = "ping"
  <2> DEFINE y == Msg("pong", <<>>)
  <2>1. r = <<y>>
    BY <1>6 DEF Reply
  <2>2. y \in AppMsg /\ y.m = "pong" /\ y.a = <<>>
    <3>1. <<>> \in Seq(Block)
      OBVIOUS
    <3> QED BY <3>1, MessageIs
  <2> HIDE DEF y
  <2>3. Formed(y, top)
    <3>1. DOMAIN <<>> = {}
      OBVIOUS
    <3> QED BY <2>2, <3>1 DEF Formed
  <2>c. Carried(y, x, looks)
    BY <2>2 DEF Carried
  <2>4. Answer(r, x, looks, top)
    BY <1>6, <2>1, <2>2, <2>3, <2>c, OneAnswers
  <2> QED BY <1>6, <2>1, <2>2, <2>4
<1> QED BY <1>1, <1>2, <1>3, <1>4, <1>5, <1>6 DEF NodeMsg

\* A pong is sent for a ping, and for nothing else.
LEMMA AnsweringPongs ==
    ASSUME NEW s \in Manager, NEW q \in Seq(AppMsg), Ponged(s, q), s.toNode # <<>>,
           NEW x, x = s.toNode[1], NEW r \in Seq(AppMsg),
           x.m # "ping" => \A i \in DOMAIN r : r[i].m # "pong",
           x.m = "ping" => \E y \in AppMsg : y.m = "pong" /\ r = <<y>>,
           NEW z, z = [s EXCEPT !.toNode = Tail(s.toNode)]
    PROVE  Ponged(z, q \o r)
<1> DEFINE v == s.toNode
           y == Tail(s.toNode)
           w == q \o r
<1>0. v \in Seq(NodeMsg) /\ y \in Seq(NodeMsg)
  BY ManagerIs, TailIs
<1>1. z.toNode = y /\ z.pongs = s.pongs /\ z.updating = s.updating
  BY DEF Manager
<1>2. /\ v[1].m = "ping" => Count(v, "ping") = Count(y, "ping") + 1
      /\ v[1].m # "ping" => Count(v, "ping") = Count(y, "ping")
  BY <1>0, CountTail
<1>3. /\ x.m = "ping" => Count(w, "pong") = Count(q, "pong") + 1
      /\ x.m # "ping" => Count(w, "pong") = Count(q, "pong")
  <2>1. ASSUME x.m = "ping" PROVE Count(w, "pong") = Count(q, "pong") + 1
    <3>1. PICK p \in AppMsg : p.m = "pong" /\ r = <<p>>
      BY <2>1
    <3>2. w = Append(q, p)
      BY <3>1
    <3> HIDE DEF w
    <3> QED BY <3>1, <3>2, CountAppend
  <2>2. ASSUME x.m # "ping" PROVE Count(w, "pong") = Count(q, "pong")
    BY <2>2, CountConcat
  <2> QED BY <2>1, <2>2
<1>4. Count(v, "ping") \in Nat /\ Count(y, "ping") \in Nat /\ Count(q, "pong") \in Nat
  BY <1>0, CountIs
<1> HIDE DEF w, y
<1>5. Count(w, "pong") + Count(y, "ping") = Count(q, "pong") + Count(v, "ping")
  <2>1. CASE x.m = "ping"
    BY <1>2, <1>3, <1>4, <2>1
  <2>2. CASE x.m # "ping"
    BY <1>2, <1>3, <1>4, <2>2
  <2> QED BY <2>1, <2>2
<1>6. (Waits(z, "update") <=> Waits(s, "update")) /\ (Waits(z, "load") <=> Waits(s, "load"))
  BY <1>1 DEF Waits
<1>7. Count(w, "pong") + Count(z.toNode, "ping") = Len(z.pongs)
  BY <1>1, <1>5 DEF Ponged, v
<1>8. Ponged(z, w)
  BY <1>1, <1>6, <1>7 DEF Ponged
<1> QED BY <1>8 DEF w

-----------------------------------------------------------------------------
(* The steps                                                                *)

Everything == Sound(app, toApp, looks, knownTx, current, on, top) /\ current <= top
IndInv == TypeOK /\ Everything

\* More blocks may be mined.
LEMMA GrowingKeeps ==
    ASSUME NEW s, NEW q, NEW lk, NEW kt, NEW cur, NEW up, NEW t \in Block, Sound(s, q, lk, kt, cur, up, t),
           NEW u \in Block, t <= u
    PROVE  Sound(s, q, lk, kt, cur, up, u)
<1>1. Mined(s, q, t) /\ t \in Nat /\ u \in Nat
  BY BoundTypes DEF Sound
<1>m. s \in Manager
  BY <1>1 DEF Mined
<1>2. s.last \in {0} \cup Block /\ s.orphans \in SUBSET Block /\ s.known \in Seq(Block)
  BY <1>m, ManagerIs
<1>l. s.last \in Nat
  <2>1. \A h \in Block : h \in Nat
    BY BoundTypes
  <2> QED BY <1>2, <2>1
<1>3. s.last <= u /\ s.orphans \subseteq 1 .. u
  BY <1>1, <1>l DEF Mined
<1>4. \A i \in DOMAIN s.known : s.known[i] <= u
  <2>1. \A i \in DOMAIN s.known : s.known[i] \in Nat
    <3>1. \A i \in DOMAIN s.known : s.known[i] \in Block
      BY <1>2, SeqIs
    <3> QED BY <3>1, BoundTypes
  <2> QED BY <1>1, <2>1 DEF Mined
<1>5. ASSUME NEW i \in DOMAIN q PROVE Formed(q[i], u)
  <2>1. Formed(q[i], t) /\ q[i] \in AppMsg
    BY <1>1, SeqIs DEF Mined
  <2>2. q[i].a \in Seq(Block)
    BY <2>1 DEF AppMsg
  <2>3. \A j \in DOMAIN q[i].a : q[i].a[j] \in Nat
    BY <2>2, SeqIs, BoundTypes
  <2> QED BY <1>1, <2>1, <2>3 DEF Formed
<1>6. ASSUME NEW i \in DOMAIN s.toNode PROVE Asked(s.toNode[i], u)
  <2>1. Asked(s.toNode[i], t)
    BY <1>1 DEF Mined
  <2> QED BY <1>1, <2>1 DEF Asked
<1>7. Mined(s, q, u)
  BY <1>1, <1>3, <1>4, <1>5, <1>6 DEF Mined
<1> QED BY <1>7 DEF Sound

\* The node may announce a block, and the payment of one that is not mined.
LEMMA AnnouncingKeeps ==
    ASSUME NEW s, NEW q, NEW lk, NEW kt, NEW cur, NEW up, NEW t, Sound(s, q, lk, kt, cur, up, t),
           up = TRUE, t \in Nat, NEW y \in AppMsg, Formed(y, t), y.m \in {"inv", "invtx"},
           y.m = "invtx" => y.a[1] \in Nat /\ y.a[1] > t
    PROVE  Sound(s, Append(q, y), lk, kt, cur, up, t)
<1> DEFINE w == Append(q, y)
           n == Len(q)
<1>0. q \in Seq(AppMsg) /\ s \in Manager /\ Mined(s, q, t)
  BY DEF Sound, Mined
<1>1. /\ w \in Seq(AppMsg) /\ n \in Nat /\ DOMAIN q = 1 .. n
      /\ \A i \in DOMAIN q : i \in DOMAIN w /\ w[i] = q[i]
      /\ n + 1 \in DOMAIN w /\ w[n + 1] = y
      /\ \A i \in DOMAIN w : i \in DOMAIN q \/ i = n + 1
  BY <1>0, AppendIs
<1>c. Count(w, "pong") = Count(q, "pong")
  <2>1. y.m # "pong"
    OBVIOUS
  <2> QED BY <1>0, <2>1, CountAppend
<1> HIDE DEF w, n
<1>m. \A i \in DOMAIN w : w[i].m \notin {"inv", "invtx"} => i \in DOMAIN q /\ w[i] = q[i]
  BY <1>1
<1>2. Mined(s, w, t)
  <2>1. \A i \in DOMAIN w : Formed(w[i], t)
    BY <1>0, <1>1 DEF Mined
  <2> QED BY <1>0, <1>1, <2>1 DEF Mined
<1>3. Ponged(s, w)
  BY <1>c DEF Sound, Ponged
<1>4. Flushed(s, w)
  <2>1. Flushed(s, q)
    BY DEF Sound
  <2>2. ASSUME Waits(s, "update"), NEW i \in DOMAIN w, w[i].m = "merkleblock", ~ Has(s.toNode, "ping")
        PROVE  \E j \in DOMAIN w : j > i /\ w[j].m = "pong"
    <3>1. i \in DOMAIN q /\ w[i] = q[i]
      BY <1>m, <2>2
    <3>2. \E j \in DOMAIN q : j > i /\ q[j].m = "pong"
      BY <2>1, <2>2, <3>1 DEF Flushed
    <3> QED BY <1>1, <3>2
  <2>3. Waits(s, "load") => ~ Has(w, "merkleblock")
    BY <1>m, <2>1 DEF Flushed, Has
  <2> QED BY <2>1, <2>2, <2>3 DEF Flushed
<1>5. Matched(s, w, lk, up)
  <2>1. Matched(s, q, lk, up)
    BY DEF Sound
  <2>2. \A i \in DOMAIN w : w[i].m = "merkleblock" => i \in DOMAIN q /\ w[i] = q[i]
    BY <1>m
  <2> QED BY <2>1, <2>2 DEF Matched
<1>6. Paired(w, cur)
  <2>1. Paired(q, cur)
    BY DEF Sound
  <2>2. ASSUME NEW i \in DOMAIN w, w[i].m = "merkleblock", Len(w[i].a) = 2
        PROVE  i + 1 \in DOMAIN w /\ w[i + 1].m = "tx" /\ w[i + 1].a[1] = w[i].a[1]
    <3>1. i \in DOMAIN q /\ w[i] = q[i]
      BY <1>m, <2>2
    <3>2. i + 1 \in DOMAIN q /\ q[i + 1].m = "tx" /\ q[i + 1].a[1] = q[i].a[1]
      BY <2>1, <2>2, <3>1 DEF Paired
    <3> QED BY <1>1, <3>1, <3>2
  <2>3. ASSUME cur # None PROVE w # <<>> /\ w[1].m = "tx" /\ w[1].a[1] = cur
    <3>1. q # <<>> /\ q[1].m = "tx" /\ q[1].a[1] = cur
      BY <2>1, <2>3 DEF Paired
    <3>2. 1 \in DOMAIN q
      BY <1>0, <3>1, TailIs
    <3>3. 1 \in DOMAIN w /\ w[1] = q[1]
      BY <1>1, <3>2
    <3>4. w # <<>>
      BY <3>3
    <3> QED BY <3>1, <3>3, <3>4
  <2> QED BY <2>2, <2>3 DEF Paired
<1>7. TxFirst(s, w, kt)
  <2>0. TxFirst(s, q, kt)
    BY DEF Sound
  <2>q. \A h : HasOne(q, "tx", h) => HasOne(w, "tx", h)
    BY <1>1 DEF HasOne
  <2>1. ASSUME NEW h \in kt \ s.wallet, NEW i \in DOMAIN w, w[i].m = "merkleblock", w[i].a[1] = h
        PROVE  \E j \in DOMAIN w : j < i /\ w[j].m = "tx" /\ w[j].a[1] = h
    <3>1. i \in DOMAIN q /\ w[i] = q[i]
      BY <1>m, <2>1
    <3>2. \E j \in DOMAIN q : j < i /\ q[j].m = "tx" /\ q[j].a[1] = h
      BY <2>0, <2>1, <3>1 DEF TxFirst
    <3> QED BY <1>1, <3>2
  <2>2. ASSUME NEW k \in DOMAIN w, w[k].m = "invtx", w[k].a[1] \notin kt
        PROVE  /\ \A i \in DOMAIN s.known : s.known[i] # w[k].a[1]
               /\ \A i \in DOMAIN s.toNode : s.toNode[i].m = "getdata" => ~ Names(s.toNode[i], w[k].a[1])
               /\ \A i \in DOMAIN w : w[i].m = "merkleblock" => w[i].a[1] # w[k].a[1]
               /\ \A i \in DOMAIN w : w[i].m = "inv" /\ Names(w[i], w[k].a[1]) => i > k
    <3>1. CASE k \in DOMAIN q
      <4>1. /\ \A i \in DOMAIN s.known : s.known[i] # w[k].a[1]
            /\ \A i \in DOMAIN s.toNode : s.toNode[i].m = "getdata" => ~ Names(s.toNode[i], w[k].a[1])
            /\ \A i \in DOMAIN q : q[i].m = "merkleblock" => q[i].a[1] # w[k].a[1]
            /\ \A i \in DOMAIN q : q[i].m = "inv" /\ Names(q[i], w[k].a[1]) => i > k
        BY <1>1, <2>0, <2>2, <3>1 DEF TxFirst
      <4>2. \A i \in DOMAIN w : w[i].m = "merkleblock" => w[i].a[1] # w[k].a[1]
        BY <1>m, <4>1
      <4>3. \A i \in DOMAIN w : w[i].m = "inv" /\ Names(w[i], w[k].a[1]) => i > k
        BY <1>1, <3>1, <4>1
      <4> QED BY <4>1, <4>2, <4>3
    <3>2. CASE k = n + 1
      <4> DEFINE h == w[k].a[1]
      <4>1. h \in Nat /\ h > t
        BY <1>1, <2>2, <3>2
      <4>2. \A i \in DOMAIN s.known : s.known[i] # h
        BY <1>0, <4>1 DEF Mined
      <4>3. \A i \in DOMAIN s.toNode : s.toNode[i].m = "getdata" => ~ Names(s.toNode[i], h)
        <5>1. \A i \in DOMAIN s.toNode : s.toNode[i].m = "getdata" =>
                \A j \in DOMAIN s.toNode[i].a : s.toNode[i].a[j] \in 1 .. t
          BY <1>0 DEF Mined, Asked
        <5> QED BY <4>1, <5>1 DEF Names
      <4>4. \A i \in DOMAIN q : q[i].m \in {"merkleblock", "inv"} => ~ Names(q[i], h)
        <5>1. \A i \in DOMAIN q : q[i].m \in {"merkleblock", "inv"} =>
                \A j \in DOMAIN q[i].a : q[i].a[j] <= t
          BY <1>0 DEF Mined, Formed
        <5> QED BY <4>1, <5>1 DEF Names
      <4>5. \A i \in DOMAIN w : w[i].m = "merkleblock" => w[i].a[1] # h
        <5> SUFFICES ASSUME NEW i \in DOMAIN w, w[i].m = "merkleblock" PROVE w[i].a[1] # h
          OBVIOUS
        <5>1. i \in DOMAIN q /\ w[i] = q[i] /\ q[i] \in AppMsg /\ Formed(q[i], t)
          <6>1. i \in DOMAIN q /\ w[i] = q[i]
            BY <1>m
          <6> QED BY <1>0, <6>1, SeqIs DEF Mined
        <5>2. 1 \in DOMAIN q[i].a
          <6>1. Len(q[i].a) \in {1, 2} /\ q[i].a \in Seq(Block)
            BY <5>1 DEF Formed, AppMsg
          <6> QED BY <6>1, SeqIs
        <5> HIDE DEF h
        <5> QED BY <4>4, <5>1, <5>2 DEF Names
      <4>6. \A i \in DOMAIN w : w[i].m = "inv" /\ Names(w[i], h) => i > k
        <5> SUFFICES ASSUME NEW i \in DOMAIN w, w[i].m = "inv", Names(w[i], h) PROVE FALSE
          OBVIOUS
        <5>1. CASE i \in DOMAIN q
          BY <1>1, <4>4, <5>1
        <5>2. CASE i = n + 1
          BY <2>2, <3>2, <5>2
        <5> QED BY <1>1, <5>1, <5>2
      <4> QED BY <4>2, <4>3, <4>5, <4>6
    <3> QED BY <1>1, <3>1, <3>2
  <2>3. \A h \in kt \ s.wallet : HasOne(s.toNode, "gettx", h) \/ HasOne(w, "tx", h)
    BY <2>0, <2>q DEF TxFirst
  <2>4. \A h \in kt \ s.wallet : \A i \in DOMAIN s.toNode :
          s.toNode[i].m = "getdata" /\ Names(s.toNode[i], h) =>
             \/ HasOne(w, "tx", h)
             \/ \E j \in DOMAIN s.toNode : j < i /\ s.toNode[j].m = "gettx" /\ s.toNode[j].a[1] = h
    BY <2>0, <2>q DEF TxFirst
  <2> QED BY <2>1, <2>2, <2>3, <2>4 DEF TxFirst
<1>8. NoneMissed(s)
  BY DEF Sound
<1>9. Sound(s, w, lk, kt, cur, up, t)
  BY <1>2, <1>3, <1>4, <1>5, <1>6, <1>7, <1>8 DEF Sound
<1> QED BY <1>9 DEF w

\* What a connection leaves.
LEMMA ClosingKeeps ==
    ASSUME NEW s, NEW q, NEW lk, NEW kt, NEW cur, NEW up, NEW t, Sound(s, q, lk, kt, cur, up, t),
           NEW z, z = [s EXCEPT !.updating = FALSE, !.known = <<>>, !.pongs = <<>>, !.toNode = <<>>]
    PROVE  Sound(z, <<>>, None, {}, None, FALSE, t)
<1> DEFINE e == <<>>
<1>0. s \in Manager /\ Mined(s, q, t)
  BY DEF Sound, Mined
<1>1. /\ z \in Manager /\ z.toNode = e /\ z.pongs = e /\ z.known = e /\ z.updating = FALSE
      /\ z.last = s.last /\ z.orphans = s.orphans /\ z.filter = s.filter
      /\ z.wallet = s.wallet /\ z.confirmed = s.confirmed
  <2>1. e \in Seq(Block) /\ e \in Seq({"update", "load", "rerequest"}) /\ e \in Seq(NodeMsg)
    OBVIOUS
  <2>2. z = [s EXCEPT !.updating = FALSE, !.known = e, !.pongs = e, !.toNode = e]
    OBVIOUS
  <2> HIDE DEF e
  <2> QED BY <1>0, <2>1, <2>2 DEF Manager, NodeMsg
<1>2. /\ e \in Seq(AppMsg) /\ e \in Seq(NodeMsg) /\ DOMAIN e = {} /\ Len(e) = 0
  OBVIOUS
<1>3. Count(e, "pong") = 0 /\ Count(e, "ping") = 0
  BY <1>2, CountIs
<1>e. e = <<>>
  OBVIOUS
<1> HIDE DEF e
<1>4. ~ Waits(z, "update") /\ ~ Waits(z, "load")
  BY <1>1, <1>e DEF Waits
<1>5. Mined(z, e, t)
  BY <1>0, <1>1, <1>2 DEF Mined
<1>6. Ponged(z, e) /\ Flushed(z, e)
  BY <1>1, <1>2, <1>3, <1>4 DEF Ponged, Flushed
<1>7. Matched(z, e, None, FALSE)
  <2>1. Matched(s, q, lk, up)
    BY DEF Sound
  <2>2. \A h : Matches(s, h) => Matches(z, h)
    BY <1>1 DEF Matches
  <2> QED BY <1>1, <1>2, <2>1, <2>2 DEF Matched
<1>8. Paired(e, None) /\ TxFirst(z, e, {}) /\ NoneMissed(z)
  BY <1>1, <1>2 DEF Sound, Paired, TxFirst, NoneMissed
<1>9. Apart(z, e, None, {})
  BY <1>1, <1>e DEF Apart
<1>10. Sound(z, e, None, {}, None, FALSE, t)
  BY <1>5, <1>6, <1>7, <1>8, <1>9 DEF Sound
<1> QED BY <1>10 DEF e

\* What a new connection begins with: a filter.
LEMMA ConnectingKeeps ==
    ASSUME NEW s, NEW q, NEW lk, NEW kt, NEW cur, NEW t \in Block, Sound(s, q, lk, kt, cur, FALSE, t),
           NEW z, z = [s EXCEPT !.estimated = t]
    PROVE  Sound(LoadBloomFilter(z), q, lk, kt, cur, TRUE, t) /\ LoadBloomFilter(z).last = s.last
<1> DEFINE e == <<>>
           r == LoadBloomFilter(z)
           v == r.toNode
<1>0. s \in Manager /\ Mined(s, q, t) /\ Apart(s, q, cur, kt)
  BY DEF Sound, Mined
<1>1. /\ z \in Manager /\ z.toNode = s.toNode /\ z.pongs = s.pongs /\ z.known = s.known
      /\ z.updating = s.updating /\ z.last = s.last
      /\ z.wallet = s.wallet /\ z.confirmed = s.confirmed
  BY <1>0 DEF Manager
<1>2. /\ r \in Manager /\ r.toNode = Append(z.toNode, Msg("filter", <<r.filter>>))
      /\ r.filter = Paid(z.wallet) + Gap + Spare /\ r.orphans = {}
      /\ r.last = z.last /\ r.known = z.known /\ r.wallet = z.wallet /\ r.confirmed = z.confirmed
      /\ r.pongs = z.pongs /\ r.updating = z.updating
  BY <1>1, LoadIs
<1>3. r.filter \in Nat /\ Paid(r.wallet) + Gap <= r.filter
  <2>1. z.wallet \in SUBSET Block
    BY <1>1, ManagerIs
  <2> DEFINE p == Paid(z.wallet)
  <2>2. p \in Nat
    BY <2>1, PaidIs
  <2>3. r.filter = p + Gap + Spare /\ Paid(r.wallet) = p
    BY <1>2
  <2> HIDE DEF p, r
  <2>4. Gap \in Nat /\ Spare \in Nat
    BY BoundTypes
  <2> QED BY <2>2, <2>3, <2>4
<1> HIDE DEF r
<1>4. v \in Seq(NodeMsg) /\ DOMAIN v = {1} /\ v[1].m = "filter" /\ v[1].a[1] = r.filter /\ Len(v[1].a) = 1
  <2> DEFINE a == <<r.filter>>
             y == Msg("filter", a)
  <2>1. v = Append(<<>>, y)
    BY <1>0, <1>1, <1>2 DEF Apart
  <2>2. a[1] = r.filter /\ Len(a) = 1
    OBVIOUS
  <2> HIDE DEF a
  <2>3. y.m = "filter" /\ y.a = a
    BY DEF Msg
  <2> HIDE DEF y
  <2>4. DOMAIN v = {1} /\ v[1] = y
    BY <2>1
  <2>5. v \in Seq(NodeMsg)
    BY <1>2, ManagerIs
  <2> QED BY <2>2, <2>3, <2>4, <2>5
<1>5. /\ e \in Seq(AppMsg) /\ DOMAIN e = {} /\ Len(e) = 0 /\ Count(e, "pong") = 0
      /\ q = e /\ r.pongs = e /\ r.known = e /\ cur = None /\ kt = {}
  <2>1. e \in Seq(AppMsg) /\ DOMAIN e = {} /\ Len(e) = 0
    OBVIOUS
  <2>2. Count(e, "pong") = 0
    BY <2>1, CountIs
  <2> QED BY <1>0, <1>1, <1>2, <2>1, <2>2 DEF Apart
<1>6. Count(v, "ping") = 0
  BY <1>4, CountIs
<1> HIDE DEF v
<1>v. r.toNode = v
  BY DEF v
<1>7. ~ Waits(r, "update") /\ ~ Waits(r, "load")
  BY <1>5 DEF Waits
<1> HIDE DEF e
<1>8. Mined(r, q, t)
  <2>1. \A i \in DOMAIN v : Asked(v[i], t)
    BY <1>4 DEF Asked
  <2>2. r.last <= t /\ r.orphans \subseteq 1 .. t
    BY <1>0, <1>1, <1>2 DEF Mined
  <2> QED BY <1>2, <1>5, <1>v, <2>1, <2>2 DEF Mined
<1>9. Ponged(r, q) /\ Flushed(r, q)
  <2>1. r.updating = FALSE
    <3>1. s.updating \in BOOLEAN /\ ~ (Waits(s, "update") \/ Waits(s, "load"))
      BY <1>0, ManagerIs DEF Apart, Waits
    <3> QED BY <1>1, <1>2, <3>1 DEF Sound, Ponged
  <2>2. Count(q, "pong") + Count(r.toNode, "ping") = Len(r.pongs) /\ Len(r.pongs) = 0
    BY <1>5, <1>6, <1>v
  <2> QED BY <1>7, <2>1, <2>2 DEF Ponged, Flushed
<1>10. Matched(r, q, lk, TRUE)
  <2>1. Has(r.toNode, "filter")
    BY <1>4, <1>v DEF Has
  <2>2. \A i \in DOMAIN v : i = 1
    BY <1>4
  <2>3. \A i \in DOMAIN r.toNode : r.toNode[i].m = "filter" =>
           /\ r.toNode[i].a[1] = r.filter
           /\ \A j \in DOMAIN r.toNode : r.toNode[j].m = "getdata" => j > i
    BY <1>4, <1>v, <2>2
  <2> QED BY <1>2, <1>3, <1>5, <2>1, <2>3 DEF Matched
<1>11. Paired(q, cur) /\ TxFirst(r, q, kt)
  BY <1>5 DEF Paired, TxFirst
<1>12. NoneMissed(r)
  BY <1>1, <1>2 DEF Sound, NoneMissed
<1> QED BY <1>1, <1>2, <1>8, <1>9, <1>10, <1>11, <1>12 DEF Sound, r

LEMMA InitGood ==
    ASSUME Init
    PROVE  IndInv
<1> DEFINE e == <<>>
<1>t. top \in Block /\ 0 \in Nat /\ MaxLosses \in Nat /\ MaxUpdates \in Nat
  BY BoundAssumption DEF Init
<1>1. /\ app \in Manager /\ app.toNode = e /\ app.pongs = e /\ app.known = e /\ app.updating = FALSE
      /\ app.last = 0 /\ app.orphans = {} /\ app.filter = None
      /\ app.wallet = {} /\ app.confirmed = {}
  BY DEF Init, Manager, None
<1>2. /\ e \in Seq(AppMsg) /\ e \in Seq(NodeMsg) /\ DOMAIN e = {} /\ Len(e) = 0
  OBVIOUS
<1>3. Count(e, "pong") = 0 /\ Count(e, "ping") = 0
  BY <1>2, CountIs
<1>e. e = <<>> /\ toApp = e
  BY DEF Init
<1> HIDE DEF e
<1>4. ~ Waits(app, "update") /\ ~ Waits(app, "load")
  BY <1>1, <1>e DEF Waits
<1>5. Mined(app, e, top)
  BY <1>1, <1>2, <1>t, BoundTypes DEF Mined
<1>6. Ponged(app, e) /\ Flushed(app, e)
  BY <1>1, <1>2, <1>3, <1>4 DEF Ponged, Flushed
<1>7. Matched(app, e, None, FALSE)
  BY <1>1 DEF Matched
<1>8. Paired(e, None) /\ TxFirst(app, e, {}) /\ NoneMissed(app)
  BY <1>1, <1>2 DEF Paired, TxFirst, NoneMissed
<1>9. Apart(app, e, None, {})
  BY <1>1, <1>e DEF Apart
<1>10. Sound(app, e, None, {}, None, FALSE, top)
  BY <1>5, <1>6, <1>7, <1>8, <1>9 DEF Sound
<1>11. /\ looks = None /\ continue = None /\ on = FALSE /\ announced = 0 /\ knownTx = {} /\ single = None
       /\ current = None /\ losses = 0 /\ updates = 0
  BY DEF Init
<1>12. Everything
  <2>1. Sound(app, toApp, looks, knownTx, current, on, top)
    BY <1>e, <1>10, <1>11
  <2>2. current <= top
    BY <1>t, <1>11, BoundTypes DEF None
  <2> QED BY <2>1, <2>2 DEF Everything
<1>13. TypeOK
  <2>1. {looks, continue, announced, single, current} \subseteq Nat
    BY <1>11 DEF None
  <2>2. losses \in 0 .. MaxLosses /\ updates \in 0 .. MaxUpdates
    BY <1>11, <1>t
  <2>3. on \in BOOLEAN /\ knownTx \subseteq Block
    BY <1>11
  <2> QED BY <1>1, <1>t, <2>1, <2>2, <2>3 DEF TypeOK
<1> QED BY <1>12, <1>13 DEF IndInv

\* A connection that ends.
LEMMA CloseGood ==
    ASSUME IndInv, Close, losses' \in 0 .. MaxLosses
    PROVE  IndInv'
<1>1. Sound(app', toApp', looks', knownTx', current', on', top')
  <2>1. Sound(app', <<>>, None, {}, None, FALSE, top)
    BY ClosingKeeps DEF IndInv, Everything, Close
  <2> QED BY <2>1 DEF Close
<1>2. app' \in Manager
  BY <1>1 DEF Sound, Mined
<1>3. /\ looks' = None /\ continue' = None /\ on' = FALSE /\ announced' = announced /\ knownTx' = {}
      /\ single' = None /\ current' = None /\ updates' = updates /\ top' = top
  BY DEF Close
<1>4. TypeOK'
  <2>1. {looks', continue', announced', single', current'} \subseteq Nat
    BY <1>3 DEF IndInv, TypeOK, None
  <2>2. updates' \in 0 .. MaxUpdates /\ on' \in BOOLEAN /\ knownTx' \subseteq Block /\ top' \in Block
    BY <1>3 DEF IndInv, TypeOK
  <2> QED BY <1>2, <2>1, <2>2 DEF TypeOK
<1>5. Everything'
  BY <1>1, <1>3, BoundTypes DEF IndInv, TypeOK, Everything, None
<1> QED BY <1>4, <1>5 DEF IndInv

LEMMA ConnectGood ==
    ASSUME IndInv, Connect
    PROVE  IndInv'
<1> DEFINE z == [app EXCEPT !.estimated = top]
           s == LoadBloomFilter(z)
           ask == IF app.last >= Key THEN "getblocks" ELSE "getheaders"
           a == <<app.last>>
<1>t. top \in Block /\ app \in Manager /\ app.last \in Nat
  <2>1. top \in Block /\ app \in Manager
    BY DEF IndInv, TypeOK
  <2> QED BY <2>1, ManagerIs, BoundTypes
<1>1. Sound(s, toApp, looks, knownTx, current, TRUE, top) /\ s.last = app.last
  <2>1. on = FALSE
    BY DEF Connect, IndInv, TypeOK
  <2>2. Sound(app, toApp, looks, knownTx, current, FALSE, top)
    BY <2>1 DEF IndInv, Everything
  <2> QED BY <1>t, <2>2, ConnectingKeeps
<1>2. Sound(Send(s, ask, a), toApp, looks, knownTx, current, TRUE, top)
  <2>1. ask \in {"getblocks", "getheaders", "getdata", "gettx"} /\ ask # "getdata"
    OBVIOUS
  <2>2. a \in Seq(Nat) /\ Len(a) = 1
    BY <1>t
  <2>3. Asked(Msg(ask, a), top)
    <3>1. Msg(ask, a).m = ask /\ Msg(ask, a).a = a
      BY DEF Msg
    <3>2. ask \in {"getblocks", "getheaders"}
      OBVIOUS
    <3> HIDE DEF ask, a
    <3> QED BY <2>2, <3>1, <3>2 DEF Asked
  <2> HIDE DEF s, ask, a
  <2> QED BY <1>1, <2>1, <2>2, <2>3, SendingKeeps
<1>3. app' = IF app.last < top THEN Send(s, ask, a) ELSE s
  BY DEF Connect
<1> HIDE DEF s, ask, a
<1>4. Sound(app', toApp, looks, knownTx, current, TRUE, top)
  BY <1>1, <1>2, <1>3
<1>5. /\ on' = TRUE /\ announced' = top
      /\ UNCHANGED <<top, looks, continue, toApp, knownTx, single, current, losses, updates>>
  BY DEF Connect, node, counts
<1>6. app' \in Manager
  BY <1>4 DEF Sound, Mined
<1>7. TypeOK'
  BY <1>5, <1>6, <1>t, BoundTypes DEF IndInv, TypeOK
<1>8. Everything'
  BY <1>4, <1>5 DEF IndInv, Everything
<1> QED BY <1>7, <1>8 DEF IndInv

\* What the invariant says of a state, and what a step must keep.
LEMMA GoodIs ==
    ASSUME IndInv
    PROVE  /\ Sound(app, toApp, looks, knownTx, current, on, top) /\ current <= top
           /\ app \in Manager /\ toApp \in Seq(AppMsg) /\ app.toNode \in Seq(NodeMsg)
           /\ top \in Block /\ top \in Nat /\ knownTx \subseteq Block /\ on \in BOOLEAN
           /\ looks \in Nat /\ continue \in Nat /\ announced \in Nat /\ single \in Nat /\ current \in Nat
           /\ losses \in 0 .. MaxLosses /\ updates \in 0 .. MaxUpdates
           /\ (toApp # <<>> \/ app.toNode # <<>>) => on = TRUE
<1>1. Sound(app, toApp, looks, knownTx, current, on, top) /\ current <= top
  BY DEF IndInv, Everything
<1>2. app \in Manager /\ toApp \in Seq(AppMsg)
  BY <1>1 DEF Sound, Mined
<1>3. app.toNode \in Seq(NodeMsg)
  BY <1>2, ManagerIs
<1>4. top \in Block /\ top \in Nat
  BY BoundTypes DEF IndInv, TypeOK
<1>5. (toApp # <<>> \/ app.toNode # <<>>) => on = TRUE
  BY <1>1 DEF Sound, Apart, IndInv, TypeOK
<1> QED BY <1>1, <1>2, <1>3, <1>4, <1>5 DEF IndInv, TypeOK

LEMMA NodeAnswersGood ==
    ASSUME IndInv, NodeAnswers
    PROVE  IndInv'
<1> DEFINE x == Head(app.toNode)
           m == x.m
           a == x.a
           full == m = "getblocks" /\ top - a[1] >= Batch
           more == m = "getdata" /\ continue \in ToSet(a)
           r == Reply(m, a, more)
           z == [app EXCEPT !.toNode = Tail(app.toNode)]
<1>0. /\ app.toNode # <<>> /\ app' = z /\ toApp' = toApp \o r
      /\ looks' = (IF m = "filter" THEN a[1] ELSE looks)
      /\ continue' = (IF full THEN a[1] + Batch ELSE IF more THEN None ELSE continue)
      /\ UNCHANGED <<top, on, announced, knownTx, single, current, losses, updates>>
  BY DEF NodeAnswers, peer, counts
<1>g. /\ Sound(app, toApp, looks, knownTx, current, on, top) /\ current <= top
      /\ app \in Manager /\ toApp \in Seq(AppMsg) /\ app.toNode \in Seq(NodeMsg)
      /\ top \in Block /\ top \in Nat /\ looks \in Nat /\ continue \in Nat
  BY GoodIs
<1>1. x = app.toNode[1] /\ x \in NodeMsg /\ Asked(x, top)
  <2>1. x = app.toNode[1] /\ 1 \in DOMAIN app.toNode /\ x \in NodeMsg
    BY <1>0, <1>g, TailIs
  <2> QED BY <1>g, <2>1 DEF Sound, Mined
<1>b. more \in BOOLEAN
  OBVIOUS
<1> HIDE DEF more, r
<1>2. /\ Answer(r, x, looks, top)
      /\ x.m = "gettx" => HasOne(r, "tx", x.a[1])
      /\ x.m = "ping" => \E y \in AppMsg : y.m = "pong" /\ r = <<y>>
  <2>1. r = Reply(x.m, x.a, more)
    BY DEF r
  <2> HIDE DEF x
  <2> QED BY <1>1, <1>b, <1>g, <2>1, ReplyAnswers
<1>3. x.m = "ping" => Has(r, "pong")
  <2> SUFFICES ASSUME x.m = "ping" PROVE Has(r, "pong")
    OBVIOUS
  <2>1. PICK y \in AppMsg : y.m = "pong" /\ r = <<y>>
    BY <1>2
  <2>2. 1 \in DOMAIN r /\ r[1] = y
    BY <2>1
  <2> QED BY <2>1, <2>2 DEF Has
<1>4. r \in Seq(AppMsg) /\ (x.m # "ping" => \A i \in DOMAIN r : r[i].m # "pong")
  BY <1>2 DEF Answer
<1>z. z = [app EXCEPT !.toNode = Tail(app.toNode)]
  OBVIOUS
<1> HIDE DEF x, z
<1>5. Ponged(z, toApp \o r)
  <2>1. Ponged(app, toApp)
    BY <1>g DEF Sound
  <2> QED BY <1>0, <1>1, <1>2, <1>4, <1>g, <1>z, <2>1, AnsweringPongs
<1>6. (x.m = "filter" => looks' = x.a[1]) /\ (x.m # "filter" => looks' = looks)
  BY <1>0
<1>7. Sound(z, toApp \o r, looks', knownTx, current, on, top)
  BY <1>0, <1>1, <1>2, <1>3, <1>5, <1>6, <1>g, <1>z, AnsweringKeeps
<1>8. Sound(app', toApp', looks', knownTx', current', on', top')
  BY <1>0, <1>7
<1>9. app' \in Manager
  BY <1>8 DEF Sound, Mined
<1>10. x.m \in {"getblocks", "filter"} => a[1] \in Nat
  <2> SUFFICES ASSUME x.m \in {"getblocks", "filter"} PROVE a[1] \in Nat
    OBVIOUS
  <2>1. a \in Seq(Nat) /\ Len(a) = 1
    BY <1>1 DEF NodeMsg, Asked
  <2>2. 1 \in DOMAIN a
    BY <2>1, SeqIs
  <2> QED BY <2>1, <2>2, SeqIs
<1>11. looks' \in Nat /\ continue' \in Nat
  <2>1. looks' \in Nat
    BY <1>0, <1>10, <1>g
  <2>2. full => a[1] + Batch \in Nat
    BY <1>10, BoundTypes
  <2>3. continue' \in Nat
    <3>1. continue' = (IF full THEN a[1] + Batch ELSE IF more THEN None ELSE continue)
      BY <1>0
    <3>2. None \in Nat /\ continue \in Nat
      BY <1>g DEF None
    <3> HIDE DEF full, a
    <3> QED BY <2>2, <3>1, <3>2
  <2> QED BY <2>1, <2>3
<1>12. TypeOK'
  BY <1>0, <1>9, <1>11 DEF IndInv, TypeOK
<1>13. Everything'
  BY <1>0, <1>8, <1>g DEF Everything
<1> QED BY <1>12, <1>13 DEF IndInv

LEMMA MineGood ==
    ASSUME IndInv, Mine
    PROVE  IndInv'
<1> DEFINE u == top + 1
           a == <<u>>
           y == Msg("inv", a)
<1>0. /\ top < MaxTop /\ top' = u /\ toApp' = (IF on THEN Append(toApp, y) ELSE toApp)
      /\ UNCHANGED <<looks, continue, app, on, announced, knownTx, single, current, losses, updates>>
  BY DEF Mine, peer, counts
<1>g. /\ Sound(app, toApp, looks, knownTx, current, on, top) /\ current <= top /\ current \in Nat
      /\ top \in Block /\ top \in Nat /\ on \in BOOLEAN
  BY GoodIs
<1>1. u \in Block /\ u \in Nat /\ top <= u
  BY <1>0, <1>g, BoundTypes DEF Block
<1>2. Sound(app, toApp, looks, knownTx, current, on, u)
  <2> HIDE DEF u
  <2> QED BY <1>1, <1>g, GrowingKeeps
<1>3. y \in AppMsg /\ y.m = "inv" /\ Formed(y, u)
  <2>1. a \in Seq(Block) /\ \A i \in DOMAIN a : a[i] <= u
    BY <1>1
  <2> HIDE DEF a
  <2>2. y \in AppMsg /\ y.m = "inv" /\ y.a = a
    BY <2>1, MessageIs
  <2> HIDE DEF y
  <2> QED BY <2>1, <2>2 DEF Formed
<1> HIDE DEF u, y
<1>4. on = TRUE => Sound(app, Append(toApp, y), looks, knownTx, current, on, u)
  BY <1>1, <1>2, <1>3, AnnouncingKeeps
<1>5. Sound(app', toApp', looks', knownTx', current', on', top')
  BY <1>0, <1>2, <1>4, <1>g
<1>6. TypeOK'
  BY <1>0, <1>1 DEF IndInv, TypeOK
<1>7. Everything'
  BY <1>0, <1>1, <1>5, <1>g DEF Everything
<1> QED BY <1>6, <1>7 DEF IndInv

LEMMA AnnounceTxGood ==
    ASSUME IndInv, AnnounceTx
    PROVE  IndInv'
<1> DEFINE u == top + 1
           a == <<u>>
           y == Msg("invtx", a)
<1>0. /\ on /\ top < MaxTop /\ toApp' = Append(toApp, y)
      /\ UNCHANGED <<top, looks, continue, app, on, announced, knownTx, single, current, losses, updates>>
  BY DEF AnnounceTx, node, peer, counts
<1>g. /\ Sound(app, toApp, looks, knownTx, current, on, top) /\ current <= top /\ current \in Nat
      /\ top \in Block /\ top \in Nat /\ on \in BOOLEAN
  BY GoodIs
<1>1. u \in Block /\ u \in Nat /\ top < u
  BY <1>0, <1>g, BoundTypes DEF Block
<1>3. y \in AppMsg /\ y.m = "invtx" /\ y.a[1] = u /\ Formed(y, top)
  <2>1. a \in Seq(Block) /\ Len(a) = 1 /\ a[1] = u
    BY <1>1
  <2> HIDE DEF a
  <2>2. y \in AppMsg /\ y.m = "invtx" /\ y.a = a
    BY <2>1, MessageIs
  <2> HIDE DEF y
  <2> QED BY <2>1, <2>2 DEF Formed
<1> HIDE DEF u, y
<1>4. Sound(app, Append(toApp, y), looks, knownTx, current, on, top)
  <2>1. on = TRUE
    BY <1>0, <1>g
  <2> QED BY <1>1, <1>3, <1>g, <2>1, AnnouncingKeeps
<1>5. Sound(app', toApp', looks', knownTx', current', on', top')
  BY <1>0, <1>4
<1>6. TypeOK'
  BY <1>0 DEF IndInv, TypeOK
<1>7. Everything'
  BY <1>0, <1>5, <1>g DEF Everything
<1> QED BY <1>6, <1>7 DEF IndInv

\* The message that arrives.
LEMMA ArrivingIs ==
    ASSUME IndInv, toApp # <<>>, ~ Incomplete
    PROVE  /\ Head(toApp) = toApp[1] /\ toApp[1] \in AppMsg /\ Arg = toApp[1].a /\ Arg \in Seq(Block)
           /\ Formed(toApp[1], top) /\ on = TRUE /\ 1 \in DOMAIN toApp
           /\ toApp[1].m # "tx" => current = None
<1>1. Head(toApp) = toApp[1] /\ toApp[1] \in AppMsg /\ 1 \in DOMAIN toApp
  BY GoodIs, TailIs
<1>2. Formed(toApp[1], top)
  BY <1>1, GoodIs DEF Sound, Mined
<1>3. toApp[1].m # "tx" => current = None
  BY <1>1 DEF Incomplete, Gets
<1> QED BY <1>1, <1>2, <1>3, GoodIs DEF Arg, AppMsg

LEMMA TakenGood ==
    ASSUME IndInv, Taken, Sound(app', Tail(toApp), looks, knownTx', current', on, top),
           current' \in Nat, current' <= top, single' \in Nat, knownTx' \subseteq Block,
           updates' \in 0 .. MaxUpdates
    PROVE  IndInv'
<1>1. /\ toApp' = Tail(toApp)
      /\ UNCHANGED <<top, looks, continue, on, announced, losses>>
  BY DEF Taken, node
<1>2. app' \in Manager
  BY DEF Sound, Mined
<1>3. TypeOK'
  BY <1>1, <1>2 DEF IndInv, TypeOK
<1>4. Everything'
  BY <1>1 DEF Everything
<1> QED BY <1>3, <1>4 DEF IndInv

LEMMA MisbehavesGood ==
    ASSUME IndInv, Misbehaves
    PROVE  IndInv'
BY GoodIs, CloseGood DEF Misbehaves

LEMMA AcceptInvGood ==
    ASSUME IndInv, ~ Incomplete, AcceptInv
    PROVE  IndInv'
<1>1. CASE TooFew(Arg)
  BY <1>1, MisbehavesGood DEF AcceptInv
<1>2. CASE ~ TooFew(Arg)
  <2> DEFINE hs == toApp[1].a
             s == [app EXCEPT !.known = app.known \o hs]
             asked == Send(s, "getdata", hs)
  <2>0. toApp # <<>> /\ Head(toApp).m = "inv"
    BY DEF AcceptInv, Gets
  <2>1. /\ Head(toApp) = toApp[1] /\ toApp[1] \in AppMsg /\ Arg = hs /\ hs \in Seq(Block)
        /\ Formed(toApp[1], top) /\ on = TRUE /\ toApp[1].m = "inv" /\ current = None /\ 1 \in DOMAIN toApp
    BY <2>0, ArrivingIs
  <2>2. /\ Taken
        /\ app' = IF hs = <<single>> THEN app ELSE IF app.updating THEN s ELSE RequestBlocks(s, hs)
        /\ single' = (IF Len(hs) = 1 THEN hs[1] ELSE single)
        /\ UNCHANGED <<knownTx, current, updates>>
    BY <1>2, <2>1 DEF AcceptInv
  <2>g. /\ Sound(app, toApp, looks, knownTx, current, on, top) /\ app \in Manager
        /\ toApp \in Seq(AppMsg) /\ top \in Nat
    BY GoodIs
  <2>3. Sound(s, toApp, looks, knownTx, current, on, top)
    BY <2>0, <2>1, <2>g, LearningKeeps
  <2>h. /\ hs \in Seq(Nat) /\ \A i \in DOMAIN hs : hs[i] \in 1 .. top
    <3>1. \A i \in DOMAIN hs : hs[i] \in Nat /\ hs[i] > 0
      BY <2>1, SeqIs, BoundTypes
    <3>2. \A i \in DOMAIN hs : hs[i] <= top
      BY <2>1 DEF Formed
    <3>3. hs \in Seq(Nat)
      <4>1. Block \subseteq Nat
        BY BoundTypes
      <4>2. Len(hs) \in Nat /\ DOMAIN hs = 1 .. Len(hs) /\ \A i \in 1 .. Len(hs) : hs[i] \in Nat
        BY <2>1, <3>1, SeqIs
      <4>3. hs = [i \in 1 .. Len(hs) |-> hs[i]]
        BY <2>1
      <4> QED BY <4>2, <4>3
    <3> QED BY <2>g, <3>1, <3>2, <3>3
  <2>u. s.updating = app.updating /\ s.pongs = app.pongs
    BY <2>g DEF Manager
  <2> HIDE DEF hs, s
  <2>4. ASSUME ~ app.updating PROVE Sound(asked, toApp, looks, knownTx, current, on, top)
    <3> DEFINE m == "getdata"
    <3>m. m = "getdata" /\ m \in {"getblocks", "getheaders", "getdata", "gettx"}
      OBVIOUS
    <3>1. Msg(m, hs).m = m /\ Msg(m, hs).a = hs
      BY DEF Msg
    <3>2. Asked(Msg(m, hs), top)
      BY <2>h, <3>1 DEF Asked
    <3>3. ~ Waits(s, "update") /\ ~ Waits(s, "load")
      BY <2>3, <2>4, <2>u DEF Sound, Ponged
    <3>4. \A k \in DOMAIN toApp : toApp[k].m = "invtx" /\ toApp[k].a[1] \notin knownTx =>
             ~ Names(Msg(m, hs), toApp[k].a[1])
      <4> SUFFICES ASSUME NEW k \in DOMAIN toApp, toApp[k].m = "invtx", toApp[k].a[1] \notin knownTx,
                          Names(Msg(m, hs), toApp[k].a[1])
                   PROVE  FALSE
        OBVIOUS
      <4>1. Names(toApp[1], toApp[k].a[1])
        BY <3>1 DEF Names, hs
      <4>2. 1 > k
        BY <2>1, <2>3, <4>1 DEF Sound, TxFirst
      <4> QED BY <2>g, <4>2, SeqIs
    <3> HIDE DEF m
    <3>5. Sound(Send(s, m, hs), toApp, looks, knownTx, current, on, top)
      BY <2>1, <2>3, <2>h, <3>m, <3>2, <3>3, <3>4, SendingKeeps
    <3> QED BY <3>5 DEF m
  <2> HIDE DEF asked
  <2>5. ASSUME ~ app.updating, Len(hs) >= Batch
        PROVE  Sound(Send(asked, "getblocks", <<Last(hs)>>), toApp, looks, knownTx, current, on, top)
    <3> DEFINE m == "getblocks"
               a == <<Last(hs)>>
    <3>m. m = "getblocks" /\ m \in {"getblocks", "getheaders", "getdata", "gettx"} /\ m # "getdata"
      OBVIOUS
    <3>1. Last(hs) \in Nat
      <4>1. Len(hs) \in DOMAIN hs
        BY <2>5, <2>h, SeqIs, BoundTypes
      <4>2. hs[Len(hs)] \in Nat
        BY <2>h, <4>1
      <4> QED BY <4>2 DEF Last
    <3>2. a \in Seq(Nat) /\ Len(a) = 1
      BY <3>1
    <3>3. Msg(m, a).m = m /\ Msg(m, a).a = a
      BY DEF Msg
    <3> HIDE DEF a
    <3>4. Asked(Msg(m, a), top)
      BY <3>2, <3>3 DEF Asked
    <3> HIDE DEF m
    <3>5. Sound(Send(asked, m, a), toApp, looks, knownTx, current, on, top)
      BY <2>1, <2>4, <2>5, <3>2, <3>4, <3>m, SendingKeeps
    <3> QED BY <3>5 DEF m, a
  <2>6. ~ app.updating => Sound(RequestBlocks(s, hs), toApp, looks, knownTx, current, on, top)
    BY <2>4, <2>5 DEF RequestBlocks, asked
  <2>7. Sound(app', toApp, looks, knownTx, current, on, top)
    BY <2>2, <2>3, <2>6, <2>g
  <2>8. Sound(app', Tail(toApp), looks, knownTx, None, on, top)
    BY <2>0, <2>1, <2>7, ReadingKeeps
  <2>9. single' \in Nat
    <3>1. Len(hs) = 1 => hs[1] \in Nat
      <4>1. Len(hs) = 1 => 1 \in DOMAIN hs
        BY <2>h, SeqIs
      <4> QED BY <2>h, <4>1
    <3> QED BY <2>2, <3>1, GoodIs
  <2>10. Sound(app', Tail(toApp), looks, knownTx', current', on, top)
    BY <2>1, <2>2, <2>8
  <2> QED BY <2>2, <2>9, <2>10, GoodIs, TakenGood
<1> QED BY <1>1, <1>2

LEMMA AcceptInvTxGood ==
    ASSUME IndInv, ~ Incomplete, AcceptInvTx
    PROVE  IndInv'
<1> DEFINE a == toApp[1].a
           h == a[1]
           s == IF h \in knownTx THEN app ELSE Send(app, "gettx", a)
<1>0. toApp # <<>> /\ Head(toApp).m = "invtx"
  BY DEF AcceptInvTx, Gets
<1>1. /\ Head(toApp) = toApp[1] /\ toApp[1] \in AppMsg /\ Arg = a /\ a \in Seq(Block)
      /\ Formed(toApp[1], top) /\ on = TRUE /\ toApp[1].m = "invtx" /\ current = None
  BY <1>0, ArrivingIs
<1>2. Taken /\ app' = s /\ knownTx' = knownTx \cup {h} /\ UNCHANGED <<single, current, updates>>
  BY <1>1 DEF AcceptInvTx
<1>g. /\ Sound(app, toApp, looks, knownTx, current, on, top) /\ app \in Manager
      /\ toApp \in Seq(AppMsg) /\ top \in Nat
  BY GoodIs
<1>3. Len(a) = 1 /\ h \in Block /\ h \in Nat /\ a \in Seq(Nat)
  <2>1. Len(a) = 1
    BY <1>1 DEF Formed
  <2>2. 1 \in DOMAIN a /\ DOMAIN a = {1}
    BY <1>1, <2>1, SeqIs
  <2>3. h \in Block /\ h \in Nat
    BY <1>1, <2>2, SeqIs, BoundTypes
  <2>4. a = <<h>>
    <3> HIDE DEF a
    <3> QED BY <1>1, <2>1 DEF h
  <2>5. <<h>> \in Seq(Nat)
    BY <2>3
  <2> QED BY <2>1, <2>3, <2>4, <2>5
<1> HIDE DEF a
<1>4. Sound(s, toApp, looks, knownTx, current, on, top) /\ (h \in knownTx \/ HasOne(s.toNode, "gettx", h))
  <2>1. CASE h \in knownTx
    BY <1>g, <2>1
  <2>2. CASE h \notin knownTx
    <3> DEFINE m == "gettx"
               y == Msg(m, a)
    <3>m. m = "gettx" /\ m \in {"getblocks", "getheaders", "getdata", "gettx"} /\ m # "getdata"
      OBVIOUS
    <3>1. y.m = m /\ y.a = a /\ y \in NodeMsg
      BY <1>3 DEF Msg, NodeMsg
    <3>2. Asked(y, top)
      <4> HIDE DEF y
      <4> QED BY <1>3, <3>1 DEF Asked
    <3>3. s = Send(app, m, a)
      BY <2>2
    <3> HIDE DEF s, m
    <3>4. Sound(s, toApp, looks, knownTx, current, on, top)
      BY <1>1, <1>3, <1>g, <3>2, <3>3, <3>m, SendingKeeps
    <3>5. s.toNode = Append(app.toNode, y)
      BY <1>g, <3>1, <3>3, SendIs
    <3> HIDE DEF y
    <3>6. \E i \in DOMAIN s.toNode : s.toNode[i] = y
      <4>1. app.toNode \in Seq(NodeMsg)
        BY GoodIs
      <4> QED BY <3>1, <3>5, <4>1, AppendIs
    <3>7. HasOne(s.toNode, "gettx", h)
      BY <3>1, <3>6, <3>m DEF HasOne
    <3> QED BY <3>4, <3>7
  <2> QED BY <2>1, <2>2
<1> HIDE DEF s, h
<1>5. Sound(s, toApp, looks, knownTx \cup {h}, current, on, top)
  BY <1>0, <1>1, <1>4, NotingKeeps DEF h, a
<1>6. Sound(s, Tail(toApp), looks, knownTx \cup {h}, None, on, top)
  BY <1>0, <1>1, <1>5, ReadingKeeps
<1>7. Sound(app', Tail(toApp), looks, knownTx', current', on, top)
  BY <1>1, <1>2, <1>6
<1> QED BY <1>2, <1>3, <1>7, GoodIs, TakenGood

LEMMA AcceptHeadersGood ==
    ASSUME IndInv, ~ Incomplete, AcceptHeaders
    PROVE  IndInv'
<1>1. CASE ~ HeadersExpected
  BY <1>1, MisbehavesGood DEF AcceptHeaders
<1>2. CASE HeadersExpected
  <2> DEFINE hs == toApp[1].a
             s == IF Last(hs) >= Switch THEN Send(app, "getblocks", <<SwitchAt(hs)>>)
                  ELSE Send(app, "getheaders", <<Last(hs)>>)
  <2>0. toApp # <<>> /\ Head(toApp).m = "headers"
    BY DEF AcceptHeaders, Gets
  <2>1. /\ Head(toApp) = toApp[1] /\ toApp[1] \in AppMsg /\ Arg = hs /\ hs \in Seq(Block)
        /\ Formed(toApp[1], top) /\ on = TRUE /\ toApp[1].m = "headers" /\ current = None
    BY <2>0, ArrivingIs
  <2>2. Taken /\ app' = RelayedHeaders(s, hs) /\ hs # <<>> /\ UNCHANGED <<knownTx, single, current, updates>>
    BY <1>2, <2>1 DEF AcceptHeaders, HeadersExpected
  <2>g. /\ Sound(app, toApp, looks, knownTx, current, on, top) /\ app \in Manager
        /\ toApp \in Seq(AppMsg) /\ top \in Nat /\ top \in Block
    BY GoodIs
  <2>h. \A i \in DOMAIN hs : hs[i] <= top
    BY <2>1 DEF Formed
  <2>l. /\ Len(hs) \in Nat /\ Len(hs) > 0 /\ DOMAIN hs = 1 .. Len(hs)
        /\ \A i \in DOMAIN hs : hs[i] \in Nat
    <3>1. Len(hs) \in Nat /\ Len(hs) > 0 /\ DOMAIN hs = 1 .. Len(hs)
      BY <2>1, <2>2, TailIs
    <3>2. \A i \in DOMAIN hs : hs[i] \in Nat
      BY <2>1, SeqIs, BoundTypes
    <3> QED BY <3>1, <3>2
  <2> HIDE DEF hs
  <2>3. Last(hs) \in Nat
    BY <2>l DEF Last
  <2>4. SwitchAt(hs) \in Nat
    <3> DEFINE S == {i \in 1 .. Len(hs) : i = Len(hs) \/ hs[i + 1] >= Switch}
    <3>1. S \in SUBSET Nat /\ S # {} /\ S \subseteq DOMAIN hs
      <4>1. Len(hs) \in S
        BY <2>l
      <4> QED BY <2>l, <4>1
    <3>2. SwitchAt(hs) = hs[Min(S)]
      BY DEF SwitchAt
    <3> HIDE DEF S
    <3>3. Min(S) \in S
      BY <3>1, LeastOf
    <3> QED BY <2>l, <3>1, <3>2, <3>3
  <2>5. ASSUME NEW m, m \in {"getblocks", "getheaders"}, NEW b \in Nat
        PROVE  Sound(Send(app, m, <<b>>), toApp, looks, knownTx, current, on, top)
    <3> DEFINE a == <<b>>
    <3>1. a \in Seq(Nat) /\ Len(a) = 1
      OBVIOUS
    <3>2. Msg(m, a).m = m /\ Msg(m, a).a = a
      BY DEF Msg
    <3>3. m \in {"getblocks", "getheaders", "getdata", "gettx"} /\ m # "getdata"
      BY <2>5
    <3> HIDE DEF a
    <3>4. Asked(Msg(m, a), top)
      BY <2>5, <3>1, <3>2 DEF Asked
    <3>5. Sound(Send(app, m, a), toApp, looks, knownTx, current, on, top)
      BY <2>1, <2>g, <3>1, <3>3, <3>4, SendingKeeps
    <3> QED BY <3>5 DEF a
  <2>6. Sound(s, toApp, looks, knownTx, current, on, top)
    <3>1. CASE Last(hs) >= Switch
      <4> DEFINE m == "getblocks"
      <4>1. m \in {"getblocks", "getheaders"} /\ s = Send(app, m, <<SwitchAt(hs)>>)
        BY <3>1
      <4> HIDE DEF m, s
      <4> QED BY <2>4, <2>5, <4>1
    <3>2. CASE ~ (Last(hs) >= Switch)
      <4> DEFINE m == "getheaders"
      <4>1. m \in {"getblocks", "getheaders"} /\ s = Send(app, m, <<Last(hs)>>)
        BY <3>2
      <4> HIDE DEF m, s
      <4> QED BY <2>3, <2>5, <4>1
    <3> QED BY <3>1, <3>2
  <2> HIDE DEF s
  <2>7. Sound(app', toApp, looks, knownTx, current, on, top)
    BY <2>1, <2>2, <2>6, <2>g, <2>h, RelayedHeadersKeep
  <2>8. Sound(app', Tail(toApp), looks, knownTx, None, on, top)
    BY <2>0, <2>1, <2>7, ReadingKeeps
  <2>9. Sound(app', Tail(toApp), looks, knownTx', current', on, top)
    BY <2>1, <2>2, <2>8
  <2> QED BY <2>2, <2>9, GoodIs, TakenGood
<1> QED BY <1>1, <1>2

\* A block that is relayed leaves what the wallet knows alone.
LEMMA RelayedWallet ==
    ASSUME NEW s \in Manager, NEW h \in Block
    PROVE  RelayedBlock(s, h).wallet = s.wallet
<1>1. Orphan(s, h).wallet = s.wallet
  BY DEF Orphan, Send, Manager
<1>2. Extend(s, h).wallet = s.wallet
  BY DEF Extend, Manager
<1>3. [s EXCEPT !.confirmed = @ \cup ({h} \cap s.wallet)].wallet = s.wallet
  BY DEF Manager
<1>4. RelayedBlock(s, h) \in
         {s, Orphan(s, h), Extend(s, h), [s EXCEPT !.confirmed = @ \cup ({h} \cap s.wallet)]}
  BY DEF RelayedBlock
<1> HIDE DEF RelayedBlock
<1> QED BY <1>1, <1>2, <1>3, <1>4

\* A block that is relayed, whose payment is known when the filter does not hold it.
LEMMA RelayGood ==
    ASSUME NEW s, NEW h \in Block, h <= top, IndInv, on = TRUE,
           Sound(s, toApp, looks, knownTx, current, on, top), s.filter # None => Matches(s, h), Relay(s, h)
    PROVE  /\ Sound(app', toApp, looks, knownTx, current, on, top) /\ app'.wallet = s.wallet
           /\ updates' \in 0 .. MaxUpdates
<1>g. top \in Block /\ updates \in 0 .. MaxUpdates /\ s \in Manager /\ MaxUpdates \in Nat
  BY GoodIs, BoundAssumption DEF Sound, Mined
<1>1. /\ Sound(RelayedBlock(s, h), toApp, looks, knownTx, current, on, top)
      /\ Sound(RelayedBlock(UpdateFilter(s), h), toApp, looks, knownTx, current, on, top)
  BY <1>g, RelayKeeps
<1>2. UpdateFilter(s) \in Manager /\ UpdateFilter(s).wallet = s.wallet
  BY UpdateFilterKeeps DEF Sound, Mined, Alike
<1>3. /\ RelayedBlock(s, h).wallet = s.wallet
      /\ RelayedBlock(UpdateFilter(s), h).wallet = s.wallet
  BY <1>g, <1>2, RelayedWallet
<1>4. CASE app' = RelayedBlock(s, h) /\ UNCHANGED updates
  BY <1>1, <1>3, <1>4, <1>g
<1>5. CASE updates < MaxUpdates /\ app' = RelayedBlock(UpdateFilter(s), h) /\ updates' = updates + 1
  <2>1. updates' \in 0 .. MaxUpdates
    BY <1>5, <1>g
  <2> DEFINE r == RelayedBlock(UpdateFilter(s), h)
  <2>2. app' = r /\ r.wallet = s.wallet /\ Sound(r, toApp, looks, knownTx, current, on, top)
    BY <1>1, <1>3, <1>5
  <2> HIDE DEF r
  <2> QED BY <2>1, <2>2
<1> QED BY <1>4, <1>5 DEF Relay

LEMMA AcceptMerkleblockGood ==
    ASSUME IndInv, ~ Incomplete, AcceptMerkleblock
    PROVE  IndInv'
<1> DEFINE a == toApp[1].a
           h == a[1]
<1>0. toApp # <<>> /\ Head(toApp).m = "merkleblock"
  BY DEF AcceptMerkleblock, Gets
<1>1. /\ Head(toApp) = toApp[1] /\ toApp[1] \in AppMsg /\ Arg = a /\ a \in Seq(Block) /\ 1 \in DOMAIN toApp
      /\ Formed(toApp[1], top) /\ on = TRUE /\ toApp[1].m = "merkleblock" /\ current = None
  BY <1>0, ArrivingIs
<1>2. /\ Taken /\ UNCHANGED <<knownTx, single>>
      /\ IF Len(a) = 2 /\ h \notin knownTx THEN current' = h /\ UNCHANGED <<app, updates>>
         ELSE Relay(app, h) /\ UNCHANGED current
  BY <1>1 DEF AcceptMerkleblock
<1>g. /\ Sound(app, toApp, looks, knownTx, current, on, top) /\ app \in Manager /\ updates \in 0 .. MaxUpdates
      /\ toApp \in Seq(AppMsg) /\ top \in Nat /\ top \in Block /\ single \in Nat /\ knownTx \subseteq Block
  BY GoodIs
<1>3. Len(a) \in {1, 2} /\ h \in Block /\ h \in Nat /\ h <= top
  <2>1. Len(a) \in {1, 2}
    BY <1>1 DEF Formed
  <2>2. 1 \in DOMAIN a
    BY <1>1, <2>1, SeqIs
  <2>3. h <= top
    BY <1>1, <2>2 DEF Formed
  <2> QED BY <1>1, <2>1, <2>2, <2>3, SeqIs, BoundTypes
<1> HIDE DEF h, a
<1>4. CASE Len(a) = 2 /\ h \notin knownTx
  <2>1. Sound(app, Tail(toApp), looks, knownTx, h, on, top)
    BY <1>0, <1>1, <1>4, <1>g, ReadingKeeps DEF h, a
  <2>2. Sound(app', Tail(toApp), looks, knownTx', current', on, top)
    BY <1>2, <1>4, <2>1
  <2>3. current' = h /\ single' = single /\ knownTx' = knownTx /\ updates' = updates
    BY <1>2, <1>4
  <2> QED BY <1>2, <1>3, <1>g, <2>2, <2>3, TakenGood
<1>5. CASE ~ (Len(a) = 2 /\ h \notin knownTx)
  <2>1. app.filter # None => Matches(app, h)
    <3>1. CASE Len(a) = 1
      BY <1>1, <1>g, <3>1 DEF Sound, Matched, a, h
    <3>2. CASE h \in knownTx
      <4>1. h \in app.wallet
        <5>1. SUFFICES ASSUME h \notin app.wallet PROVE FALSE
          OBVIOUS
        <5>2. PICK j \in DOMAIN toApp : j < 1
          BY <1>1, <1>g, <3>2, <5>1 DEF Sound, TxFirst, a, h
        <5> QED BY <1>g, <5>2, SeqIs
      <4> QED BY <4>1 DEF Matches
    <3> QED BY <1>3, <1>5, <3>1, <3>2
  <2>2. Relay(app, h) /\ current' = current /\ single' = single /\ knownTx' = knownTx
    BY <1>2, <1>5
  <2>3. Sound(app', toApp, looks, knownTx, current, on, top) /\ updates' \in 0 .. MaxUpdates
    BY <1>1, <1>3, <1>g, <2>1, <2>2, RelayGood
  <2>4. Sound(app', Tail(toApp), looks, knownTx, None, on, top)
    BY <1>0, <1>1, <2>3, ReadingKeeps
  <2>5. Sound(app', Tail(toApp), looks, knownTx', current', on, top)
    BY <1>1, <2>2, <2>4
  <2> QED BY <1>2, <1>g, <2>2, <2>3, <2>5, GoodIs, TakenGood
<1> QED BY <1>4, <1>5

LEMMA AcceptTxGood ==
    ASSUME IndInv, AcceptTx
    PROVE  IndInv'
<1> DEFINE a == toApp[1].a
           h == a[1]
           s == RelayedTx(app, h)
<1>0. toApp # <<>> /\ Head(toApp).m = "tx" /\ ~ Incomplete
  BY DEF AcceptTx, Gets, Incomplete
<1>1. /\ Head(toApp) = toApp[1] /\ toApp[1] \in AppMsg /\ Arg = a /\ a \in Seq(Block)
      /\ Formed(toApp[1], top) /\ on = TRUE /\ toApp[1].m = "tx"
  BY <1>0, ArrivingIs
<1>2. /\ Taken /\ UNCHANGED <<knownTx, single>>
      /\ IF current = h THEN Relay(s, current) /\ current' = None
         ELSE app' = s /\ UNCHANGED <<current, updates>>
  BY <1>1 DEF AcceptTx
<1>g. /\ Sound(app, toApp, looks, knownTx, current, on, top) /\ app \in Manager /\ updates \in 0 .. MaxUpdates
      /\ toApp \in Seq(AppMsg) /\ top \in Nat /\ top \in Block /\ single \in Nat /\ knownTx \subseteq Block
      /\ current <= top
  BY GoodIs
<1>3. h \in Block /\ h \in Nat /\ h > 0
  <2>1. Len(a) = 1
    BY <1>1 DEF Formed
  <2>2. 1 \in DOMAIN a
    BY <1>1, <2>1, SeqIs
  <2> QED BY <1>1, <2>2, SeqIs, BoundTypes
<1>c. current # None => current = h
  BY <1>g DEF Sound, Paired
<1>h. toApp[1].a[1] = h
  OBVIOUS
<1> HIDE DEF h, a
<1>4. Sound(s, toApp, looks, knownTx, current, on, top) /\ h \in s.wallet
  BY <1>1, <1>3, <1>g, RelayedTxKeeps
<1> HIDE DEF s
<1>5. CASE current = h
  <2>1. Matches(s, h)
    BY <1>4 DEF Matches
  <2>2. Relay(s, h) /\ current' = None /\ single' = single /\ knownTx' = knownTx
    BY <1>2, <1>5
  <2>3. /\ Sound(app', toApp, looks, knownTx, current, on, top) /\ updates' \in 0 .. MaxUpdates
        /\ app'.wallet = s.wallet
    BY <1>1, <1>3, <1>4, <1>5, <1>g, <2>1, <2>2, RelayGood
  <2>4. Sound(app', Tail(toApp), looks, knownTx, None, on, top)
    BY <1>0, <1>1, <1>4, <1>h, <2>3, ReadingKeeps
  <2>5. Sound(app', Tail(toApp), looks, knownTx', current', on, top)
    BY <2>2, <2>4
  <2>6. current' \in Nat /\ current' <= top
    BY <1>g, <2>2 DEF None
  <2> QED BY <1>2, <1>g, <2>2, <2>3, <2>5, <2>6, TakenGood
<1>6. CASE current # h
  <2>1. current = None
    BY <1>6, <1>c
  <2>2. app' = s /\ UNCHANGED <<current, updates, knownTx, single>>
    BY <1>2, <1>6
  <2>3. Sound(s, Tail(toApp), looks, knownTx, None, on, top)
    BY <1>0, <1>1, <1>4, <1>h, ReadingKeeps
  <2>4. Sound(app', Tail(toApp), looks, knownTx', current', on, top)
    BY <2>1, <2>2, <2>3
  <2> QED BY <1>2, <1>g, <2>2, <2>4, GoodIs, TakenGood
<1> QED BY <1>5, <1>6

LEMMA AcceptPongGood ==
    ASSUME IndInv, ~ Incomplete, AcceptPong
    PROVE  IndInv'
<1> DEFINE s == [app EXCEPT !.pongs = Tail(app.pongs)]
<1>0. toApp # <<>> /\ Head(toApp).m = "pong"
  BY DEF AcceptPong, Gets
<1>1. /\ Head(toApp) = toApp[1] /\ on = TRUE /\ toApp[1].m = "pong" /\ current = None
  BY <1>0, ArrivingIs
<1>g. Sound(app, toApp, looks, knownTx, current, on, top)
  BY GoodIs
<1>2. /\ Taken /\ UNCHANGED <<knownTx, single, current, updates>>
      /\ app' = CASE Head(app.pongs) = "update" -> UpdateFilterPingDone(s)
                  [] Head(app.pongs) = "load" -> UpdateFilterLoadDone(s)
                  [] Head(app.pongs) = "rerequest" -> UpdateFilterRerequestDone(s)
  BY DEF AcceptPong
<1>3. Head(app.pongs) \in {"update", "load", "rerequest"}
  BY <1>0, <1>1, <1>g, PongIs
<1>4. Sound(app', Tail(toApp), looks, knownTx, None, on, top)
  <2>1. CASE Head(app.pongs) = "update"
    <3>1. app' = UpdateFilterPingDone(s)
      BY <1>2, <2>1
    <3>2. Sound(UpdateFilterPingDone(s), Tail(toApp), looks, knownTx, None, on, top)
      BY <1>0, <1>1, <1>g, <2>1, UpdatePingDoneKeeps
    <3> QED BY <3>1, <3>2
  <2>2. CASE Head(app.pongs) = "load"
    <3>1. app' = UpdateFilterLoadDone(s)
      BY <1>2, <2>2
    <3>2. Sound(UpdateFilterLoadDone(s), Tail(toApp), looks, knownTx, None, on, top)
      BY <1>0, <1>1, <1>g, <2>2, UpdateLoadDoneKeeps
    <3> QED BY <3>1, <3>2
  <2>3. CASE Head(app.pongs) = "rerequest"
    <3>1. app' = UpdateFilterRerequestDone(s)
      BY <1>2, <2>3
    <3>2. Sound(UpdateFilterRerequestDone(s), Tail(toApp), looks, knownTx, None, on, top)
      BY <1>0, <1>1, <1>g, <2>3, UpdateRerequestDoneKeeps
    <3> QED BY <3>1, <3>2
  <2> QED BY <1>3, <2>1, <2>2, <2>3
<1>5. Sound(app', Tail(toApp), looks, knownTx', current', on, top)
  BY <1>1, <1>2, <1>4
<1> QED BY <1>2, <1>5, GoodIs, TakenGood

LEMMA NextGood ==
    ASSUME IndInv, [Next]_vars
    PROVE  IndInv'
<1>1. CASE Connect
  BY <1>1, ConnectGood
<1>2. CASE Lose
  <2>1. losses' \in 0 .. MaxLosses
    <3>1. losses' = losses + 1 /\ losses < MaxLosses
      BY <1>2 DEF Lose
    <3>2. losses \in 0 .. MaxLosses /\ MaxLosses \in Nat
      BY GoodIs, BoundAssumption
    <3> QED BY <3>1, <3>2
  <2> QED BY <1>2, <2>1, CloseGood DEF Lose
<1>3. CASE TimeOut
  BY <1>3, GoodIs, CloseGood DEF TimeOut
<1>4. CASE Accept
  <2>1. CASE Incomplete
    BY <1>4, <2>1, MisbehavesGood DEF Accept
  <2>2. CASE ~ Incomplete
    BY <1>4, <2>2, AcceptInvGood, AcceptInvTxGood, AcceptHeadersGood, AcceptMerkleblockGood,
       AcceptTxGood, AcceptPongGood DEF Accept
  <2> QED BY <2>1, <2>2
<1>5. CASE NodeAnswers
  BY <1>5, NodeAnswersGood
<1>6. CASE Mine
  BY <1>6, MineGood
<1>7. CASE AnnounceTx
  BY <1>7, AnnounceTxGood
<1>8. CASE UNCHANGED vars
  BY <1>8 DEF IndInv, TypeOK, Everything, vars, node, peer, counts
<1> QED BY <1>1, <1>2, <1>3, <1>4, <1>5, <1>6, <1>7, <1>8 DEF Next

\* The inductive invariant: Sound says of the manager, of what it has asked for and of
\* what is on its way to it what NothingMissed needs (BR_PeerManager.c:406-507,
\* 1017-1059, 1252-1352).
THEOREM Invariance == Spec => []IndInv
BY InitGood, NextGood, PTL DEF Spec

\* The app's state, the node's and what is on its way always have their shape, for
\* every choice of the constants.
THEOREM Typed == Spec => []TypeOK
<1>1. IndInv => TypeOK
  BY DEF IndInv
<1> QED BY <1>1, Invariance, PTL

\* The wallet knows and has confirmed each payment of the blocks the app has, in
\* whatever order blocks, announcements, filters and pongs come, connections are
\* lost and filters run out of addresses or degrade: no block that was matched with
\* an older filter becomes part of the chain without its payment
\* (BR_PeerManager.c:1270, 406-490).
THEOREM NoPaymentMissed == Spec => []NothingMissed
<1>1. IndInv => NothingMissed
  BY DEF IndInv, Everything, Sound, NoneMissed, NothingMissed
<1> QED BY <1>1, Invariance, PTL

-----------------------------------------------------------------------------
(* A filter comes, as long as none has degraded                             *)

\* How far the wallet's payments may reach: to what the filter holds or, without one,
\* to the address that is paid to last and what the wallet looks ahead of it.
Reach(s) == IF s.filter = None THEN Paid(s.wallet) + Gap - 1 ELSE s.filter

\* The message x names no address above n.
Below(x, n) ==
    /\ x.m \in {"invtx", "tx", "gettx"} => Pays[x.a[1]] \in 0 .. n
    /\ x.m = "filter" => x.a[1] \in 0 .. n

\* Neither what the node looks for nor what is on its way reaches further.
Within(s, q, lk) ==
    /\ lk \in 0 .. Reach(s)
    /\ \A i \in DOMAIN q : Below(q[i], Reach(s))
    /\ \A i \in DOMAIN s.toNode : Below(s.toNode[i], Reach(s))

\* A payment after which the filter still looks ahead far enough.
Fits(s, x) == Pays[x.a[1]] + Gap <= s.filter

\* The payments that come before the pong of a loaded filter fit it: they do not make
\* it go while nothing but that pong is waited for.
Before(q, i, m) == \E j \in DOMAIN q : j < i /\ q[j].m = m
Loading(s, q) ==
    Waits(s, "load") =>
        /\ s.filter # None
        /\ \A i \in DOMAIN q : q[i].m = "tx" => Fits(s, q[i]) \/ Before(q, i, "pong")
        /\ \A i \in DOMAIN s.toNode : s.toNode[i].m = "gettx" =>
              Fits(s, s.toNode[i]) \/ Has(q, "pong") \/ Before(s.toNode, i, "ping")

\* An app that is connected and has no filter waits for the pong of an update, which
\* it sends for nothing else.
Comes(s, lk, up) ==
    /\ up /\ s.filter = None => Waits(s, "update")
    /\ Waits(s, "update") => s.filter = None
    /\ up \/ lk = None

Filtered(s, q, lk, up) == Within(s, q, lk) /\ Loading(s, q) /\ Comes(s, lk, up)

LEMMA ReachIs ==
    ASSUME NEW s \in Manager
    PROVE  /\ Paid(s.wallet) \in Nat /\ s.filter \in Nat /\ Reach(s) \in Nat
           /\ \A h \in s.wallet : Pays[h] <= Paid(s.wallet)
           /\ Gap \in Nat /\ Gap > 0 /\ Spare \in Nat
<1>1. s.wallet \in SUBSET Block /\ s.filter \in Nat
  BY ManagerIs
<1> QED BY <1>1, PaidIs, BoundTypes DEF Reach

LEMMA WithinGrows ==
    ASSUME NEW r \in Manager, NEW s \in Manager, NEW q, NEW lk, Within(s, q, lk),
           r.toNode = s.toNode, Reach(s) <= Reach(r)
    PROVE  Within(r, q, lk)
<1> DEFINE m == Reach(s)
           n == Reach(r)
<1>1. m \in Nat /\ n \in Nat /\ m <= n
  BY ReachIs
<1> HIDE DEF m, n
<1>2. 0 .. m \subseteq 0 .. n
  BY <1>1
<1>3. \A x : Below(x, m) => Below(x, n)
  BY <1>2 DEF Below
<1> QED BY <1>2, <1>3 DEF Within, m, n

\* r is s after some messages that name no address were sent, and maybe with other
\* blocks.  Headers are asked for as long as they are older than the wallet only.
Plain(x) == x.m \in {"getblocks", "getdata"} \/ (x.m = "getheaders" /\ x.a[1] < Key)
Adds(r, s) ==
    /\ r.filter = s.filter /\ r.wallet = s.wallet /\ r.pongs = s.pongs
    /\ \A i \in DOMAIN s.toNode : i \in DOMAIN r.toNode /\ r.toNode[i] = s.toNode[i]
    /\ \A i \in DOMAIN r.toNode :
          i \in DOMAIN s.toNode \/ Plain(r.toNode[i])

LEMMA AddsKeeps ==
    ASSUME NEW r, NEW s, NEW q, NEW lk, NEW up, Filtered(s, q, lk, up), Adds(r, s)
    PROVE  Filtered(r, q, lk, up)
<1>1. Reach(r) = Reach(s) /\ \A done : Waits(r, done) <=> Waits(s, done)
  BY DEF Adds, Reach, Waits
<1>f. \A x : Fits(s, x) => Fits(r, x)
  BY DEF Adds, Fits
<1>2. Within(r, q, lk)
  <2>1. ASSUME NEW i \in DOMAIN r.toNode PROVE Below(r.toNode[i], Reach(r))
    <3>1. CASE i \in DOMAIN s.toNode
      BY <1>1, <3>1 DEF Filtered, Within, Adds
    <3>2. CASE Plain(r.toNode[i])
      BY <3>2 DEF Below, Plain
    <3> QED BY <3>1, <3>2 DEF Adds
  <2> QED BY <1>1, <2>1 DEF Filtered, Within
<1>3. Loading(r, q)
  <2>1. SUFFICES ASSUME Waits(r, "load")
                 PROVE  /\ r.filter # None
                        /\ \A i \in DOMAIN q : q[i].m = "tx" => Fits(r, q[i]) \/ Before(q, i, "pong")
                        /\ \A i \in DOMAIN r.toNode : r.toNode[i].m = "gettx" =>
                              Fits(r, r.toNode[i]) \/ Has(q, "pong") \/ Before(r.toNode, i, "ping")
    BY DEF Loading
  <2>2. r.filter # None /\ \A i \in DOMAIN q : q[i].m = "tx" => Fits(r, q[i]) \/ Before(q, i, "pong")
    BY <1>1, <1>f, <2>1 DEF Filtered, Loading, Adds
  <2>3. ASSUME NEW i \in DOMAIN r.toNode, r.toNode[i].m = "gettx"
        PROVE  Fits(r, r.toNode[i]) \/ Has(q, "pong") \/ Before(r.toNode, i, "ping")
    <3>1. i \in DOMAIN s.toNode /\ r.toNode[i] = s.toNode[i]
      BY <2>3 DEF Adds, Plain
    <3>2. Fits(s, s.toNode[i]) \/ Has(q, "pong") \/ Before(s.toNode, i, "ping")
      BY <1>1, <2>1, <2>3, <3>1 DEF Filtered, Loading
    <3>3. Before(s.toNode, i, "ping") => Before(r.toNode, i, "ping")
      BY DEF Before, Adds
    <3> QED BY <1>f, <3>1, <3>2, <3>3
  <2> QED BY <2>2, <2>3
<1>4. Comes(r, lk, up)
  BY <1>1 DEF Filtered, Comes, Adds
<1> QED BY <1>2, <1>3, <1>4 DEF Filtered

LEMMA AddsJoin ==
    ASSUME NEW r, NEW s, NEW u, Adds(r, s), Adds(s, u)
    PROVE  Adds(r, u)
BY DEF Adds

LEMMA SendAdds ==
    ASSUME NEW s \in Manager, NEW m \in {"getblocks", "getheaders", "getdata"}, NEW a \in Seq(Nat),
           m = "getheaders" => a[1] < Key
    PROVE  Send(s, m, a) \in Manager /\ Adds(Send(s, m, a), s) /\ Alike(Send(s, m, a), s)
<1> DEFINE r == Send(s, m, a)
<1>1. PICK x \in NodeMsg : x = Msg(m, a) /\ Plain(x)
  <2>1. Msg(m, a) \in NodeMsg /\ Plain(Msg(m, a))
    BY DEF Msg, NodeMsg, Plain
  <2> QED BY <2>1
<1>2. r \in Manager /\ Alike(r, s) /\ r.pongs = s.pongs /\ r.toNode = Append(s.toNode, x)
  BY <1>1, SendIs
<1> HIDE DEF r
<1>3. /\ \A i \in DOMAIN s.toNode : i \in DOMAIN r.toNode /\ r.toNode[i] = s.toNode[i]
      /\ r.toNode[Len(s.toNode) + 1] = x
      /\ \A i \in DOMAIN r.toNode : i \in DOMAIN s.toNode \/ i = Len(s.toNode) + 1
  <2>1. s.toNode \in Seq(NodeMsg)
    BY ManagerIs
  <2> QED BY <1>1, <1>2, <2>1, AppendIs
<1>4. Adds(r, s)
  BY <1>1, <1>2, <1>3 DEF Adds, Alike
<1> QED BY <1>2, <1>4 DEF r

\* A message that is no awaited pong is read, after what it makes the app do.
LEMMA TailKeeps ==
    ASSUME NEW s, NEW q \in Seq(AppMsg), NEW lk, NEW up, Filtered(s, q, lk, up),
           q # <<>>, q[1].m = "pong" => ~ Waits(s, "load")
    PROVE  Filtered(s, Tail(q), lk, up)
<1> DEFINE w == Tail(q)
<1>1. /\ \A i \in DOMAIN w : i \in Nat /\ i + 1 \in DOMAIN q /\ w[i] = q[i + 1]
      /\ \A i \in DOMAIN q : i \in Nat /\ (i = 1 \/ (i - 1 \in DOMAIN w /\ w[i - 1] = q[i]))
  BY TailIs
<1> HIDE DEF w
<1>2. Within(s, w, lk)
  BY <1>1 DEF Filtered, Within
<1>3. Loading(s, w)
  <2> SUFFICES ASSUME Waits(s, "load") PROVE Loading(s, w)
    BY DEF Loading
  <2>0. q[1].m # "pong"
    OBVIOUS
  <2>1. Has(q, "pong") => Has(w, "pong")
    <3> SUFFICES ASSUME NEW i \in DOMAIN q, q[i].m = "pong" PROVE Has(w, "pong")
      BY DEF Has
    <3>1. i - 1 \in DOMAIN w /\ w[i - 1] = q[i]
      BY <1>1, <2>0
    <3> QED BY <3>1 DEF Has
  <2>2. ASSUME NEW i \in DOMAIN w, w[i].m = "tx" PROVE Fits(s, w[i]) \/ Before(w, i, "pong")
    <3>1. i + 1 \in DOMAIN q /\ w[i] = q[i + 1] /\ i \in Nat
      BY <1>1
    <3>2. Fits(s, q[i + 1]) \/ Before(q, i + 1, "pong")
      BY <2>2, <3>1 DEF Filtered, Loading
    <3>3. ASSUME Before(q, i + 1, "pong") PROVE Before(w, i, "pong")
      <4>1. PICK j \in DOMAIN q : j < i + 1 /\ q[j].m = "pong"
        BY <3>3 DEF Before
      <4>2. j - 1 \in DOMAIN w /\ w[j - 1] = q[j] /\ j \in Nat
        BY <1>1, <2>0, <4>1
      <4>3. j - 1 < i
        BY <3>1, <4>1, <4>2
      <4> QED BY <4>1, <4>2, <4>3 DEF Before
    <3> QED BY <3>1, <3>2, <3>3
  <2> QED BY <2>1, <2>2 DEF Filtered, Loading
<1>4. Comes(s, lk, up)
  BY DEF Filtered
<1>5. Filtered(s, w, lk, up)
  BY <1>2, <1>3, <1>4 DEF Filtered
<1> QED BY <1>5 DEF w

\* An announcement that names no address too high is sent.
LEMMA AppendKeeps ==
    ASSUME NEW s, NEW q \in Seq(AppMsg), NEW lk, NEW up, Filtered(s, q, lk, up),
           NEW y \in AppMsg, y.m # "tx", Below(y, Reach(s))
    PROVE  Filtered(s, Append(q, y), lk, up)
<1> DEFINE w == Append(q, y)
<1>1. /\ \A i \in DOMAIN q : i \in DOMAIN w /\ w[i] = q[i]
      /\ w[Len(q) + 1] = y
      /\ \A i \in DOMAIN w : i \in DOMAIN q \/ i = Len(q) + 1
  BY AppendIs
<1> HIDE DEF w
<1>2. Within(s, w, lk)
  BY <1>1 DEF Filtered, Within
<1>3. Has(q, "pong") => Has(w, "pong")
  BY <1>1 DEF Has
<1>4. \A i : Before(q, i, "pong") => Before(w, i, "pong")
  BY <1>1 DEF Before
<1>5. Loading(s, w)
  <2>1. ASSUME NEW i \in DOMAIN w, w[i].m = "tx" PROVE i \in DOMAIN q /\ w[i] = q[i]
    BY <1>1, <2>1
  <2> QED BY <1>3, <1>4, <2>1 DEF Filtered, Loading
<1>6. Filtered(s, w, lk, up)
  BY <1>2, <1>5 DEF Filtered
<1> QED BY <1>6 DEF w

\* Blocks and headers that are stored, or asked for, change no filter.
LEMMA OrphanAdds ==
    ASSUME NEW s \in Manager, NEW h \in Block
    PROVE  Adds(Orphan(s, h), s)
<1> DEFINE a == <<s.last>>
           u == Send(s, "getblocks", a)
           Keep(y) == [y EXCEPT !.orphans = y.orphans \cup {h}, !.lastOrphan = h]
<1>1. u \in Manager /\ Adds(u, s)
  <2>1. a \in Seq(Nat)
    <3>1. s.last \in Nat
      BY ManagerIs, BoundTypes
    <3> QED BY <3>1
  <2> HIDE DEF a
  <2> QED BY <2>1, SendAdds
<1> HIDE DEF u
<1>2. ASSUME NEW y \in Manager PROVE Adds(Keep(y), y)
  BY DEF Adds, Manager
<1>3. Adds(s, s)
  BY DEF Adds
<1>4. Adds(Keep(s), s) /\ Adds(Keep(u), s)
  BY <1>1, <1>2, AddsJoin
<1>5. Orphan(s, h) \in {s, Keep(s), Keep(u)}
  BY DEF Orphan, u
<1> HIDE DEF Keep
<1> QED BY <1>3, <1>4, <1>5

LEMMA ExtendAdds ==
    ASSUME NEW s \in Manager, NEW h
    PROVE  Adds(Extend(s, h), s)
<1>1. /\ Extend(s, h).filter = s.filter /\ Extend(s, h).wallet = s.wallet
      /\ Extend(s, h).pongs = s.pongs /\ Extend(s, h).toNode = s.toNode
  BY DEF Extend, Manager
<1> QED BY <1>1 DEF Adds

LEMMA RelayedBlockAdds ==
    ASSUME NEW s \in Manager, NEW h \in Block
    PROVE  Adds(RelayedBlock(s, h), s)
<1> DEFINE r == [s EXCEPT !.confirmed = @ \cup ({h} \cap s.wallet)]
<1>1. Adds(r, s) /\ Adds(s, s)
  BY DEF Adds, Manager
<1>2. RelayedBlock(s, h) \in {s, Orphan(s, h), Extend(s, h), r}
  BY DEF RelayedBlock
<1> HIDE DEF r
<1> QED BY <1>1, <1>2, OrphanAdds, ExtendAdds

LEMMA RelayedHeadersAdd ==
    ASSUME NEW s \in Manager, NEW hs
    PROVE  Adds(RelayedHeaders(s, hs), s)
<1>1. Adds(s, s)
  BY DEF Adds
<1>2. \E h : RelayedHeaders(s, hs) \in {s, Extend(s, h)}
  BY DEF RelayedHeaders
<1> QED BY <1>1, <1>2, ExtendAdds

\* A payment that is announced is asked for.
LEMMA GettxKeeps ==
    ASSUME NEW s \in Manager, NEW q \in Seq(AppMsg), NEW lk, NEW up, Filtered(s, q, lk, up), Ponged(s, q),
           NEW x \in AppMsg, x.m = "invtx", Below(x, Reach(s)), x.a \in Seq(Nat)
    PROVE  Filtered(Send(s, "gettx", x.a), q, lk, up)
<1> DEFINE r == Send(s, "gettx", x.a)
           n == Len(s.toNode)
<1>1. Msg("gettx", x.a) \in NodeMsg /\ Msg("gettx", x.a).m = "gettx" /\ Msg("gettx", x.a).a = x.a
  BY DEF Msg, NodeMsg
<1>2. PICK y \in NodeMsg : y = Msg("gettx", x.a) /\ y.m = "gettx" /\ y.a = x.a
  BY <1>1
<1>3. r \in Manager /\ Alike(r, s) /\ r.pongs = s.pongs /\ r.toNode = Append(s.toNode, y)
  BY <1>2, SendIs
<1> HIDE DEF r
<1>4. /\ n \in Nat /\ DOMAIN s.toNode = 1 .. n
      /\ \A i \in DOMAIN s.toNode : i \in DOMAIN r.toNode /\ r.toNode[i] = s.toNode[i]
      /\ r.toNode[n + 1] = y
      /\ \A i \in DOMAIN r.toNode : i \in DOMAIN s.toNode \/ i = n + 1
      /\ s.toNode \in Seq(NodeMsg)
  <2>1. s.toNode \in Seq(NodeMsg)
    BY ManagerIs
  <2> QED BY <1>2, <1>3, <2>1, AppendIs
<1> HIDE DEF n
<1>5. Reach(r) = Reach(s) /\ (\A done : Waits(r, done) <=> Waits(s, done)) /\ r.filter = s.filter
  BY <1>3 DEF Alike, Reach, Waits
<1>6. Below(y, Reach(s))
  BY <1>2 DEF Below
<1>7. Within(r, q, lk)
  BY <1>4, <1>5, <1>6 DEF Filtered, Within
<1>8. \A i : Before(s.toNode, i, "ping") => Before(r.toNode, i, "ping")
  BY <1>4 DEF Before
<1>9. Waits(s, "load") => Has(q, "pong") \/ Before(r.toNode, n + 1, "ping")
  <2> SUFFICES ASSUME Waits(s, "load"), ~ Has(q, "pong") PROVE Before(r.toNode, n + 1, "ping")
    OBVIOUS
  <2> DEFINE k == Len(s.pongs)
  <2>1. s.pongs # <<>> /\ s.pongs \in Seq({"update", "load", "rerequest"})
    BY ManagerIs DEF Waits
  <2>2. k \in Nat /\ k > 0
    BY <2>1, TailIs
  <2>3. Count(q, "pong") = 0
    BY CountIs DEF Has
  <2>4. Count(s.toNode, "ping") # 0
    <3>1. Count(q, "pong") + Count(s.toNode, "ping") = k
      BY DEF Ponged
    <3>2. Count(s.toNode, "ping") \in Nat
      BY <1>4, CountIs
    <3> HIDE DEF k
    <3> QED BY <2>2, <2>3, <3>1, <3>2
  <2>5. PICK j \in DOMAIN s.toNode : s.toNode[j].m = "ping"
    BY <1>4, <2>4, CountIs
  <2>6. j < n + 1
    BY <1>4
  <2> QED BY <1>4, <2>5, <2>6 DEF Before
<1>10. Loading(r, q)
  <2> SUFFICES ASSUME Waits(r, "load") PROVE Loading(r, q)
    BY DEF Loading
  <2>1. \A z : Fits(s, z) => Fits(r, z)
    BY <1>5 DEF Fits
  <2>2. ASSUME NEW i \in DOMAIN r.toNode, r.toNode[i].m = "gettx"
        PROVE  Fits(r, r.toNode[i]) \/ Has(q, "pong") \/ Before(r.toNode, i, "ping")
    <3>1. CASE i \in DOMAIN s.toNode
      <4>1. r.toNode[i] = s.toNode[i]
        BY <1>4, <3>1
      <4>2. Fits(s, s.toNode[i]) \/ Has(q, "pong") \/ Before(s.toNode, i, "ping")
        BY <1>5, <2>2, <3>1, <4>1 DEF Filtered, Loading
      <4> QED BY <1>8, <2>1, <4>1, <4>2
    <3>2. CASE i = n + 1
      BY <1>5, <1>9, <3>2
    <3> QED BY <1>4, <3>1, <3>2
  <2>3. r.filter # None /\ \A i \in DOMAIN q : q[i].m = "tx" => Fits(r, q[i]) \/ Before(q, i, "pong")
    BY <1>5, <2>1 DEF Filtered, Loading
  <2> QED BY <2>2, <2>3 DEF Loading
<1>11. Comes(r, lk, up)
  BY <1>5 DEF Filtered, Comes
<1>12. Filtered(r, q, lk, up)
  BY <1>7, <1>10, <1>11 DEF Filtered
<1> QED BY <1>12 DEF r

\* A payment that arrives: while a filter is being loaded it fits that, and otherwise,
\* when it takes the filter away, an update begins.
LEMMA RelayedTxComes ==
    ASSUME NEW s \in Manager, NEW q \in Seq(AppMsg), NEW lk, Filtered(s, q, lk, TRUE), Ponged(s, q),
           s.filter # None => Paid(s.wallet) + Gap <= s.filter,
           q # <<>>, q[1].m = "tx", NEW h \in Block, q[1].a[1] = h
    PROVE  Filtered(RelayedTx(s, h), q, lk, TRUE)
<1> DEFINE u == [s EXCEPT !.wallet = s.wallet \cup {h}]
           v == [u EXCEPT !.filter = None]
           z == UpdateFilter(v)
<1>0. /\ s.wallet \in SUBSET Block /\ Gap \in Nat /\ Gap > 0 /\ Pays[h] \in Nat
      /\ DOMAIN q = 1 .. Len(q) /\ Len(q) \in Nat /\ 1 \in DOMAIN q
  BY ManagerIs, BoundTypes, TailIs
<1>1. /\ u \in Manager /\ u.wallet = s.wallet \cup {h} /\ u.filter = s.filter
      /\ u.toNode = s.toNode /\ u.pongs = s.pongs /\ u.updating = s.updating
  BY <1>0 DEF Manager
<1>2. /\ v \in Manager /\ v.wallet = u.wallet /\ v.filter = None
      /\ v.toNode = s.toNode /\ v.pongs = s.pongs /\ v.updating = s.updating
  BY <1>0 DEF Manager, None
<1>3. RelayedTx(s, h) = IF s.filter = None \/ s.filter >= Paid(u.wallet) + Gap THEN u ELSE z
  BY <1>1 DEF RelayedTx
<1> HIDE DEF u, v, z
<1>4. /\ Paid(s.wallet) \in Nat /\ Paid(u.wallet) \in Nat /\ Paid(s.wallet) <= Paid(u.wallet) /\ s.filter \in Nat
      /\ \A n \in Nat : Paid(s.wallet) <= n /\ Pays[h] <= n => Paid(u.wallet) <= n
  <2>1. u.wallet \in SUBSET Block
    BY <1>1, ManagerIs
  <2>2. /\ Paid(s.wallet) \in Nat /\ \A c \in s.wallet : Pays[c] <= Paid(s.wallet) /\ Pays[c] \in Nat
        /\ \A n \in Nat : (\A c \in u.wallet : Pays[c] <= n) => Paid(u.wallet) <= n
        /\ Paid(u.wallet) \in Nat
    BY <1>0, <2>1, PaidIs, BoundTypes
  <2>3. Paid(s.wallet) <= Paid(u.wallet)
    BY <1>0, <1>1, <2>1, PaidGrows
  <2>4. \A n \in Nat : Paid(s.wallet) <= n /\ Pays[h] <= n => \A c \in u.wallet : Pays[c] <= n
    BY <1>1, <2>2
  <2> QED BY <2>2, <2>3, <2>4, ManagerIs
<1>5. Waits(s, "load") => s.filter # None /\ Paid(u.wallet) + Gap <= s.filter
  <2> SUFFICES ASSUME Waits(s, "load") PROVE s.filter # None /\ Paid(u.wallet) + Gap <= s.filter
    OBVIOUS
  <2>1. s.filter # None /\ (Fits(s, q[1]) \/ Before(q, 1, "pong"))
    BY <1>0 DEF Filtered, Loading
  <2>2. ~ Before(q, 1, "pong")
    BY <1>0 DEF Before
  <2>3. Pays[h] + Gap <= s.filter
    BY <2>1, <2>2 DEF Fits
  <2>4. s.filter - Gap \in Nat /\ Paid(s.wallet) <= s.filter - Gap /\ Pays[h] <= s.filter - Gap
    BY <1>0, <1>4, <2>1, <2>3
  <2>5. Paid(u.wallet) <= s.filter - Gap
    BY <1>4, <2>4
  <2> QED BY <1>0, <1>4, <2>1, <2>4, <2>5
<1>6. CASE s.filter = None \/ s.filter >= Paid(u.wallet) + Gap
  <2>1. Within(u, q, lk)
    <3>1. Reach(s) <= Reach(u)
      BY <1>0, <1>1, <1>4 DEF Reach
    <3> QED BY <1>1, <3>1, WithinGrows DEF Filtered
  <2>2. (\A done : Waits(u, done) <=> Waits(s, done)) /\ (\A x : Fits(s, x) => Fits(u, x))
    BY <1>1 DEF Waits, Fits
  <2>3. Loading(u, q) /\ Comes(u, lk, TRUE)
    BY <1>1, <2>2 DEF Filtered, Loading, Comes
  <2> QED BY <1>3, <1>6, <2>1, <2>3 DEF Filtered
<1>7. CASE ~ (s.filter = None \/ s.filter >= Paid(u.wallet) + Gap)
  <2>1. ~ Waits(s, "load") /\ ~ Waits(s, "update")
    BY <1>0, <1>4, <1>5, <1>7 DEF Filtered, Comes
  <2>2. v.updating = FALSE
    BY <1>2, <2>1, ManagerIs DEF Ponged
  <2>3. PICK p \in Manager : p = Ping(v, "update") /\ Alike(p, v) /\ p.pongs = Append(v.pongs, "update")
                             /\ p.toNode = Append(v.toNode, Msg("ping", <<>>))
    BY <1>2, PingIs
  <2>4. z = [p EXCEPT !.updating = TRUE]
    BY <2>2, <2>3 DEF UpdateFilter, z
  <2>5. /\ z \in Manager /\ z.filter = None /\ z.wallet = u.wallet
        /\ z.pongs = Append(s.pongs, "update") /\ z.toNode = Append(s.toNode, Msg("ping", <<>>))
    BY <1>2, <2>3, <2>4 DEF Manager, Alike
  <2>6. Waits(z, "update") /\ ~ Waits(z, "load")
    <3> DEFINE D == {"update", "load", "rerequest"}
               e == s.pongs
               w == z.pongs
    <3>1. e \in Seq(D) /\ "update" \in D /\ w = Append(e, "update")
      BY <2>5, ManagerIs
    <3> HIDE DEF D, e, w
    <3>2. w # <<>> /\ w[Len(w)] = "update"
      BY <3>1, AppendIs
    <3> QED BY <3>2 DEF Waits, w
  <2>7. Reach(s) <= Reach(v) /\ Reach(z) = Reach(v)
    BY <1>0, <1>2, <1>4, <1>7, <2>5 DEF Reach
  <2>8. Within(v, q, lk)
    BY <1>2, <2>7, WithinGrows DEF Filtered
  <2>9. Within(z, q, lk)
    <3>1. Msg("ping", <<>>) \in NodeMsg /\ Msg("ping", <<>>).m = "ping" /\ s.toNode \in Seq(NodeMsg)
      BY <1>2, PingIs, ManagerIs
    <3>2. PICK x \in NodeMsg : x = Msg("ping", <<>>) /\ x.m = "ping"
      BY <3>1
    <3>3. /\ \A i \in DOMAIN s.toNode : z.toNode[i] = s.toNode[i]
          /\ z.toNode[Len(s.toNode) + 1] = x
          /\ \A i \in DOMAIN z.toNode : i \in DOMAIN s.toNode \/ i = Len(s.toNode) + 1
      BY <2>5, <3>1, <3>2, AppendIs
    <3>4. Below(x, Reach(z))
      BY <3>2 DEF Below
    <3> QED BY <1>2, <2>7, <2>8, <3>3, <3>4 DEF Within
  <2>10. Loading(z, q) /\ Comes(z, lk, TRUE)
    BY <2>5, <2>6 DEF Loading, Comes
  <2> QED BY <1>3, <1>7, <2>9, <2>10 DEF Filtered
<1> QED BY <1>6, <1>7

\* What has been asked for and sent without a filter fits the one that is loaded.
LEMMA UpdatePingDoneComes ==
    ASSUME NEW s, NEW q, NEW lk, NEW kt, NEW cur, NEW t, Sound(s, q, lk, kt, cur, TRUE, t),
           Filtered(s, q, lk, TRUE), Gap <= Spare + 1,
           q # <<>>, q[1].m = "pong", Head(s.pongs) = "update"
    PROVE  Filtered(UpdateFilterPingDone([s EXCEPT !.pongs = Tail(s.pongs)]), Tail(q), lk, TRUE)
<1> DEFINE e == Tail(s.pongs)
           v == [s EXCEPT !.pongs = e]
           w == Tail(q)
           r == LoadBloomFilter(v)
           z == Ping(r, "load")
           D == {"update", "load", "rerequest"}
           y == Msg("filter", <<r.filter>>)
           x == Msg("ping", <<>>)
           n == Len(s.toNode)
<1>0. s \in Manager /\ q \in Seq(AppMsg) /\ s.toNode \in Seq(NodeMsg)
  BY ManagerIs DEF Sound, Mined
<1>1. s.pongs \in Seq(D) /\ s.pongs # <<>> /\ s.pongs[1] = "update" /\ Len(s.pongs) = 1 /\ e = <<>>
  BY PongIs
<1>2. s.filter = None
  BY <1>1 DEF Filtered, Comes, Waits
<1>3. e \in Seq(D) /\ Len(e) = 0
  BY <1>1, EmptySeq
<1> HIDE DEF e, D
<1>4. /\ v \in Manager /\ v.wallet = s.wallet /\ v.toNode = s.toNode /\ v.pongs = e
  BY <1>0, <1>3 DEF Manager, D
<1> HIDE DEF v
<1>5. /\ r \in Manager /\ r.toNode = Append(s.toNode, y) /\ r.filter = Paid(s.wallet) + Gap + Spare
      /\ r.wallet = s.wallet /\ r.pongs = e
  BY <1>4, LoadIs
<1> HIDE DEF r
<1>6. /\ z \in Manager /\ Alike(z, r) /\ z.pongs = Append(e, "load") /\ z.toNode = Append(r.toNode, x)
      /\ x \in NodeMsg /\ x.m = "ping"
  BY <1>5, PingIs
<1>7. y \in NodeMsg /\ y.m = "filter" /\ y.a[1] = r.filter
  <2> DEFINE a == <<r.filter>>
  <2>1. a \in Seq(Nat) /\ a[1] = r.filter
    BY <1>5, ManagerIs
  <2> HIDE DEF a
  <2>2. Msg("filter", a) \in NodeMsg /\ Msg("filter", a).m = "filter" /\ Msg("filter", a).a = a
    BY <2>1 DEF Msg, NodeMsg
  <2> QED BY <2>1, <2>2 DEF a
<1> HIDE DEF x, y, z
<1>8. /\ \A i \in DOMAIN s.toNode : i \in DOMAIN r.toNode /\ r.toNode[i] = s.toNode[i]
      /\ r.toNode[n + 1] = y
      /\ \A i \in DOMAIN r.toNode : i \in DOMAIN s.toNode \/ i = n + 1
      /\ r.toNode \in Seq(NodeMsg)
  BY <1>0, <1>5, <1>7, AppendIs
<1>9. /\ \A i \in DOMAIN r.toNode : z.toNode[i] = r.toNode[i]
      /\ z.toNode[Len(r.toNode) + 1] = x
      /\ \A i \in DOMAIN z.toNode : i \in DOMAIN r.toNode \/ i = Len(r.toNode) + 1
  BY <1>6, <1>8, AppendIs
<1> DEFINE f == z.filter
           b == Reach(s)
<1>10. f \in Nat /\ f > 0 /\ b \in Nat /\ b + Gap <= f /\ b <= f /\ Reach(z) = f /\ f = r.filter
  <2>1. f = Paid(s.wallet) + Gap + Spare /\ f = r.filter
    BY <1>5, <1>6 DEF Alike
  <2>2. b = Paid(s.wallet) + Gap - 1 /\ Paid(s.wallet) \in Nat /\ Gap \in Nat /\ Gap > 0 /\ Spare \in Nat
    BY <1>0, <1>2, ReachIs DEF Reach
  <2> HIDE DEF f, b
  <2>3. f \in Nat /\ f > 0 /\ b \in Nat /\ b + Gap <= f /\ b <= f
    BY <2>1, <2>2
  <2>4. Reach(z) = f
    BY <2>3 DEF Reach, f, None
  <2> QED BY <2>1, <2>3, <2>4
<1> HIDE DEF f, b
<1>11. \A m : (Below(m, b) => Below(m, f)) /\ (Below(m, b) /\ m.m \in {"tx", "gettx"} => Fits(z, m))
  <2> TAKE m
  <2>1. \A k \in 0 .. b : k \in 0 .. f /\ k + Gap <= f
    BY <1>10, BoundTypes
  <2> QED BY <2>1 DEF Below, Fits, f
<1>12. \A i \in DOMAIN w : i + 1 \in DOMAIN q /\ w[i] = q[i + 1]
  BY <1>0, TailIs
<1> HIDE DEF w
<1>13. lk \in 0 .. b /\ (\A i \in DOMAIN w : Below(w[i], b)) /\ \A i \in DOMAIN s.toNode : Below(s.toNode[i], b)
  BY <1>12 DEF Filtered, Within, b
<1>14. Within(z, w, lk)
  <2>1. lk \in 0 .. f
    BY <1>10, <1>13
  <2>2. Below(y, f)
    BY <1>7, <1>10 DEF Below
  <2>3. Below(x, f)
    BY <1>6 DEF Below
  <2>4. \A i \in DOMAIN z.toNode : Below(z.toNode[i], f)
    BY <1>8, <1>9, <1>11, <1>13, <2>2, <2>3
  <2> QED BY <1>10, <1>11, <1>13, <2>1, <2>4 DEF Within
<1>15. Loading(z, w)
  <2>1. \A i \in DOMAIN w : w[i].m = "tx" => Fits(z, w[i])
    BY <1>11, <1>13
  <2>2. ASSUME NEW i \in DOMAIN z.toNode, z.toNode[i].m = "gettx" PROVE Fits(z, z.toNode[i])
    <3>1. i \in DOMAIN s.toNode /\ z.toNode[i] = s.toNode[i]
      BY <1>6, <1>7, <1>8, <1>9, <2>2
    <3>2. Below(z.toNode[i], b)
      BY <1>13, <3>1
    <3> QED BY <1>11, <2>2, <3>2
  <2> QED BY <1>10, <2>1, <2>2 DEF Loading, f, None
<1>16. Comes(z, lk, TRUE)
  <2>1. z.pongs # <<>> /\ z.pongs[Len(z.pongs)] = "load"
    BY <1>3, <1>6, AppendIs DEF D
  <2>2. ~ Waits(z, "update") /\ z.filter # None
    BY <1>10, <2>1 DEF Waits, None, f
  <2> QED BY <2>2 DEF Comes
<1>17. Filtered(z, w, lk, TRUE)
  BY <1>14, <1>15, <1>16 DEF Filtered
<1> QED BY <1>17 DEF z, r, v, e, w, UpdateFilterPingDone

\* A filter that was loaded stays.
\* The blocks that are asked for again are named in a message of numbers.
LEMMA RerequestAdds ==
    ASSUME NEW u \in Manager
    PROVE  RerequestBlocks(u) \in Manager /\ Adds(RerequestBlocks(u), u)
<1> DEFINE g == RerequestBlocks(u)
           I == {k \in 1 .. Len(u.known) : u.known[k] = u.last}
           i == IF I # {} THEN Max(I) ELSE 0
           from == SubSeq(u.known, i, Len(u.known))
           c == Send(u, "getdata", from)
<1>1. g = IF i = 0 THEN u ELSE [c EXCEPT !.known = from]
  BY DEF RerequestBlocks, SelectLastInSeq
<1>2. Adds(u, u)
  BY DEF Adds
<1>3. ASSUME i # 0 PROVE g \in Manager /\ Adds(g, u)
  <2>1. u.known \in Seq(Block) /\ Len(u.known) \in Nat
    BY ManagerIs, SeqIs
  <2>2. i \in 1 .. Len(u.known)
    <3>1. I \in SUBSET Nat /\ I # {} /\ (\A k \in I : k <= Len(u.known)) /\ i = Max(I)
      BY <1>3, <2>1
    <3>2. I \subseteq 1 .. Len(u.known)
      OBVIOUS
    <3> HIDE DEF I
    <3>3. Max(I) \in I
      BY <2>1, <3>1, GreatestOf
    <3> QED BY <3>1, <3>2, <3>3
  <2> HIDE DEF i
  <2>3. from \in Seq(Block)
    BY <2>1, <2>2, SubSeqProperties
  <2>4. from \in Seq(Nat)
    <3> HIDE DEF from
    <3>1. Len(from) \in Nat /\ DOMAIN from = 1 .. Len(from) /\ \A k \in 1 .. Len(from) : from[k] \in Nat
      BY <2>3, SeqIs, BoundTypes
    <3>2. from = [k \in 1 .. Len(from) |-> from[k]]
      BY <2>3
    <3> QED BY <3>1, <3>2
  <2> HIDE DEF from
  <2>5. c \in Manager /\ Adds(c, u)
    BY <2>4, SendAdds
  <2> HIDE DEF c
  <2>6. [c EXCEPT !.known = from] \in Manager /\ Adds([c EXCEPT !.known = from], c)
    BY <2>3, <2>5 DEF Manager, Adds
  <2>7. Adds([c EXCEPT !.known = from], u)
    BY <2>5, <2>6, AddsJoin
  <2> QED BY <1>1, <1>3, <2>6, <2>7 DEF i
<1> QED BY <1>1, <1>2, <1>3

LEMMA UpdateLoadDoneComes ==
    ASSUME NEW s, NEW q, NEW lk, NEW kt, NEW cur, NEW t, Sound(s, q, lk, kt, cur, TRUE, t),
           Filtered(s, q, lk, TRUE), q # <<>>, q[1].m = "pong", Head(s.pongs) = "load"
    PROVE  Filtered(UpdateFilterLoadDone([s EXCEPT !.pongs = Tail(s.pongs)]), Tail(q), lk, TRUE)
<1> DEFINE e == Tail(s.pongs)
           v == [s EXCEPT !.pongs = e]
           u == [v EXCEPT !.updating = FALSE]
           w == Tail(q)
           g == RerequestBlocks(u)
           p == Ping(g, "rerequest")
           D == {"update", "load", "rerequest"}
<1>0. s \in Manager /\ q \in Seq(AppMsg) /\ s.toNode \in Seq(NodeMsg)
  BY ManagerIs DEF Sound, Mined
<1>1. s.pongs \in Seq(D) /\ s.pongs # <<>> /\ s.pongs[1] = "load" /\ Len(s.pongs) = 1 /\ e = <<>>
  BY PongIs
<1>2. s.filter # None
  BY <1>1 DEF Filtered, Loading, Waits
<1>3. e \in Seq(D) /\ Len(e) = 0
  BY <1>1, EmptySeq
<1> HIDE DEF e, D
<1>4. /\ u \in Manager /\ u.wallet = s.wallet /\ u.toNode = s.toNode /\ u.pongs = e /\ u.filter = s.filter
  BY <1>0, <1>3 DEF Manager, D
<1>u. UpdateFilterLoadDone(v) \in {p, u}
  BY DEF UpdateFilterLoadDone
<1> HIDE DEF u, v
<1>5. g \in Manager /\ Adds(g, u)
  BY <1>4, RerequestAdds
<1> HIDE DEF g
<1>6. /\ p \in Manager /\ p.filter = g.filter /\ p.wallet = g.wallet /\ p.pongs = Append(e, "rerequest")
      /\ p.toNode = Append(g.toNode, Msg("ping", <<>>))
      /\ Msg("ping", <<>>) \in NodeMsg /\ Msg("ping", <<>>).m = "ping"
  BY <1>4, <1>5, PingIs DEF Adds, Alike
<1> HIDE DEF p
<1>7. \A r \in {u, g, p} : /\ r.filter = s.filter /\ r.wallet = s.wallet
                           /\ ~ Waits(r, "load") /\ ~ Waits(r, "update")
  <2>1. p.pongs # <<>> /\ p.pongs[Len(p.pongs)] = "rerequest"
    BY <1>3, <1>6, AppendIs DEF D
  <2>2. u.pongs = <<>> /\ g.pongs = <<>>
    BY <1>1, <1>4, <1>5 DEF Adds
  <2> QED BY <1>4, <1>5, <1>6, <2>1, <2>2 DEF Adds, Waits
<1>8. \A i \in DOMAIN w : i + 1 \in DOMAIN q /\ w[i] = q[i + 1]
  BY <1>0, TailIs
<1> HIDE DEF w
<1>9. Within(u, w, lk)
  <2>1. Reach(u) = Reach(s)
    BY <1>4 DEF Reach
  <2> QED BY <1>4, <1>8, <2>1 DEF Filtered, Within
<1>10. Filtered(u, w, lk, TRUE)
  BY <1>2, <1>7, <1>9 DEF Filtered, Loading, Comes
<1>11. Filtered(g, w, lk, TRUE)
  BY <1>5, <1>10, AddsKeeps
<1>12. Filtered(p, w, lk, TRUE)
  <2>1. PICK x \in NodeMsg : x = Msg("ping", <<>>) /\ x.m = "ping"
    BY <1>6
  <2>2. /\ \A i \in DOMAIN g.toNode : p.toNode[i] = g.toNode[i]
        /\ p.toNode[Len(g.toNode) + 1] = x
        /\ \A i \in DOMAIN p.toNode : i \in DOMAIN g.toNode \/ i = Len(g.toNode) + 1
    BY <1>5, <1>6, <2>1, ManagerIs, AppendIs
  <2>3. Reach(p) = Reach(g) /\ Below(x, Reach(g))
    BY <1>6, <2>1 DEF Reach, Below
  <2>4. Within(p, w, lk)
    BY <1>11, <2>2, <2>3 DEF Filtered, Within
  <2> QED BY <1>2, <1>7, <1>11, <2>4 DEF Filtered, Loading, Comes
<1>13. Filtered(UpdateFilterLoadDone(v), w, lk, TRUE)
  BY <1>u, <1>10, <1>12
<1> QED BY <1>13 DEF v, e, w

LEMMA UpdateRerequestDoneComes ==
    ASSUME NEW s, NEW q, NEW lk, NEW kt, NEW cur, NEW t, Sound(s, q, lk, kt, cur, TRUE, t),
           Filtered(s, q, lk, TRUE), q # <<>>, q[1].m = "pong", Head(s.pongs) = "rerequest"
    PROVE  Filtered(UpdateFilterRerequestDone([s EXCEPT !.pongs = Tail(s.pongs)]), Tail(q), lk, TRUE)
<1> DEFINE e == Tail(s.pongs)
           v == [s EXCEPT !.pongs = e]
           w == Tail(q)
           a == <<v.last>>
           D == {"update", "load", "rerequest"}
<1>0. s \in Manager /\ q \in Seq(AppMsg)
  BY DEF Sound, Mined
<1>1. /\ s.pongs \in Seq(D) /\ s.pongs # <<>> /\ s.pongs[1] = "rerequest" /\ Len(s.pongs) \in {1, 2}
      /\ Len(s.pongs) = 2 => s.pongs[2] = "update"
      /\ Len(s.pongs) = 1 => e = <<>>
  BY PongIs
<1>2. e \in Seq(D) /\ Len(e) = Len(s.pongs) - 1 /\ (Len(s.pongs) = 2 => e # <<>> /\ e[1] = "update")
  <2>1. /\ e \in Seq(D) /\ Len(e) = Len(s.pongs) - 1 /\ DOMAIN e = 1 .. Len(s.pongs) - 1
        /\ \A i \in DOMAIN e : e[i] = s.pongs[i + 1]
    BY <1>1, TailIs
  <2> HIDE DEF e
  <2>2. Len(s.pongs) = 2 => 1 \in DOMAIN e /\ Len(e) = 1
    BY <2>1
  <2> QED BY <1>1, <2>1, <2>2
<1> HIDE DEF e, D
<1>3. /\ v \in Manager /\ v.wallet = s.wallet /\ v.toNode = s.toNode /\ v.pongs = e /\ v.filter = s.filter
      /\ v.last = s.last
  BY <1>0, <1>2 DEF Manager, D
<1>u. UpdateFilterRerequestDone(v) \in {v, Send(v, "getblocks", a)}
  BY DEF UpdateFilterRerequestDone
<1> HIDE DEF v
<1>4. ~ Waits(v, "load") /\ (Waits(v, "update") <=> Waits(s, "update"))
  <2>1. CASE Len(s.pongs) = 1
    <3>1. v.pongs = <<>> /\ ~ Waits(s, "update")
      BY <1>1, <1>3, <2>1 DEF Waits
    <3> QED BY <3>1 DEF Waits
  <2>2. CASE Len(s.pongs) = 2
    <3>1. v.pongs # <<>> /\ v.pongs[Len(v.pongs)] = "update" /\ Waits(s, "update")
      BY <1>1, <1>2, <1>3, <2>2 DEF Waits
    <3> QED BY <3>1 DEF Waits
  <2> QED BY <1>1, <2>1, <2>2
<1>5. \A i \in DOMAIN w : i + 1 \in DOMAIN q /\ w[i] = q[i + 1]
  BY <1>0, TailIs
<1> HIDE DEF w
<1>6. Within(v, w, lk)
  <2>1. Reach(v) = Reach(s)
    BY <1>3 DEF Reach
  <2> QED BY <1>3, <1>5, <2>1 DEF Filtered, Within
<1>7. Filtered(v, w, lk, TRUE)
  BY <1>3, <1>4, <1>6 DEF Filtered, Loading, Comes
<1>8. a \in Seq(Nat)
  <2>1. v.last \in Nat
    BY <1>3, ManagerIs, BoundTypes
  <2> QED BY <2>1
<1> HIDE DEF a
<1>9. Filtered(Send(v, "getblocks", a), w, lk, TRUE)
  BY <1>3, <1>7, <1>8, SendAdds, AddsKeeps
<1>10. Filtered(UpdateFilterRerequestDone(v), w, lk, TRUE)
  BY <1>u, <1>7, <1>9
<1> QED BY <1>10 DEF v, e, w

\* The node answers the first message x, with r; lm is its filter then.
LEMMA AnsweringComes ==
    ASSUME NEW s, NEW q, NEW lk, NEW kt, NEW cur, NEW t, Sound(s, q, lk, kt, cur, TRUE, t),
           Filtered(s, q, lk, TRUE),
           s.toNode # <<>>, NEW x, x = s.toNode[1], NEW r, Answer(r, x, lk, t),
           x.m = "ping" => Has(r, "pong"),
           NEW lm, x.m = "filter" => lm = x.a[1], x.m # "filter" => lm = lk,
           NEW z, z = [s EXCEPT !.toNode = Tail(s.toNode)]
    PROVE  Filtered(z, q \o r, lm, TRUE)
<1> DEFINE w == q \o r
           v == Tail(s.toNode)
           b == Reach(s)
<1>0. s \in Manager /\ q \in Seq(AppMsg) /\ s.toNode \in Seq(NodeMsg) /\ r \in Seq(AppMsg)
  BY ManagerIs DEF Sound, Mined, Answer
<1>1. /\ v \in Seq(NodeMsg) /\ 1 \in DOMAIN s.toNode
      /\ \A i \in DOMAIN v : i \in Nat /\ i + 1 \in DOMAIN s.toNode /\ v[i] = s.toNode[i + 1]
      /\ \A i \in DOMAIN s.toNode : i \in Nat /\ i > 0 /\ (i = 1 \/ (i - 1 \in DOMAIN v /\ v[i - 1] = s.toNode[i]))
  <2> DEFINE c == s.toNode
  <2>1. c \in Seq(NodeMsg) /\ c # <<>> /\ v = Tail(c)
    BY <1>0
  <2> HIDE DEF c, v
  <2>2. /\ v \in Seq(NodeMsg) /\ 1 \in DOMAIN c /\ Len(c) \in Nat
        /\ DOMAIN c = 1 .. Len(c) /\ DOMAIN v = 1 .. Len(c) - 1
        /\ \A i \in DOMAIN v : i + 1 \in DOMAIN c /\ v[i] = c[i + 1]
        /\ \A i \in DOMAIN c : i = 1 \/ (i - 1 \in DOMAIN v /\ v[i - 1] = c[i])
    BY <2>1, TailIs
  <2>3. (\A i \in DOMAIN v : i \in Nat) /\ \A i \in DOMAIN c : i \in Nat /\ i > 0
    BY <2>2
  <2> QED BY <2>2, <2>3 DEF c
<1>2. z.toNode = v /\ z.pongs = s.pongs /\ z.filter = s.filter /\ z.wallet = s.wallet
  BY <1>0 DEF Manager
<1> HIDE DEF v
<1>3. /\ \A i \in DOMAIN q : i \in DOMAIN w /\ w[i] = q[i] /\ i <= Len(q)
      /\ \A i \in DOMAIN r : Len(q) + i \in DOMAIN w /\ w[Len(q) + i] = r[i]
      /\ \A i \in DOMAIN w : i \in DOMAIN q \/ (i > Len(q) /\ i - Len(q) \in DOMAIN r /\ w[i] = r[i - Len(q)])
      /\ Len(q) \in Nat
  <2>1. /\ \A i \in DOMAIN q : i \in DOMAIN w /\ w[i] = q[i]
        /\ \A i \in DOMAIN r : Len(q) + i \in DOMAIN w /\ w[Len(q) + i] = r[i]
        /\ \A i \in DOMAIN w : i \in DOMAIN q \/ (i > Len(q) /\ i - Len(q) \in DOMAIN r)
        /\ Len(q) \in Nat /\ DOMAIN q = 1 .. Len(q) /\ DOMAIN r = 1 .. Len(r) /\ Len(r) \in Nat
        /\ Len(w) = Len(q) + Len(r) /\ w \in Seq(AppMsg)
    BY <1>0, ConcatIs
  <2>2. DOMAIN w = 1 .. Len(q) + Len(r)
    BY <2>1, SeqIs
  <2> HIDE DEF w
  <2>3. ASSUME NEW i \in DOMAIN w, i > Len(q), i - Len(q) \in DOMAIN r PROVE w[i] = r[i - Len(q)]
    <3>1. Len(q) + (i - Len(q)) = i
      BY <2>1, <2>2
    <3> QED BY <2>1, <2>3, <3>1
  <2> QED BY <2>1, <2>3
<1> HIDE DEF w
<1>4. Reach(z) = b /\ (\A done : Waits(z, done) <=> Waits(s, done)) /\ \A y : Fits(s, y) <=> Fits(z, y)
  BY <1>2 DEF Reach, Waits, Fits
<1> HIDE DEF b
<1>5. /\ lk \in 0 .. b /\ Below(x, b)
      /\ \A i \in DOMAIN q : Below(q[i], b)
      /\ \A i \in DOMAIN s.toNode : Below(s.toNode[i], b)
  BY <1>1 DEF Filtered, Within, b
<1>6. ASSUME NEW i \in DOMAIN r PROVE Below(r[i], b)
  <2>1. Carried(r[i], x, lk) /\ Formed(r[i], t) /\ r[i].m # "invtx" /\ r[i] \in AppMsg
    BY <1>0, SeqIs DEF Answer
  <2>2. r[i].m # "gettx" /\ r[i].m # "filter"
    BY <2>1 DEF AppMsg
  <2>3. ASSUME r[i].m = "tx" PROVE Pays[r[i].a[1]] \in 0 .. b
    <3>1. CASE x.m = "gettx" /\ r[i].a[1] = x.a[1]
      BY <1>5, <3>1 DEF Below
    <3>2. CASE x.m = "getdata" /\ Pays[r[i].a[1]] <= lk
      <4>1. Pays[r[i].a[1]] \in Nat
        <5>1. r[i].a \in Seq(Block) /\ Len(r[i].a) = 1
          BY <2>1, <2>3 DEF AppMsg, Formed
        <5>2. r[i].a[1] \in Block
          BY <5>1
        <5> QED BY <5>2, BoundTypes
      <4>2. b \in Nat /\ lk \in Nat /\ lk <= b
        BY <1>0, <1>5, ReachIs DEF b
      <4> QED BY <3>2, <4>1, <4>2
    <3> QED BY <2>1, <2>3, <3>1, <3>2 DEF Carried
  <2> QED BY <2>1, <2>2, <2>3 DEF Below
<1>7. Within(z, w, lm)
  <2>1. lm \in 0 .. b
    BY <1>5 DEF Below
  <2>2. \A i \in DOMAIN w : Below(w[i], b)
    BY <1>3, <1>5, <1>6
  <2>3. \A i \in DOMAIN v : Below(v[i], b)
    BY <1>1, <1>5
  <2> QED BY <1>2, <1>4, <2>1, <2>2, <2>3 DEF Within
<1>8. Loading(z, w)
  <2> SUFFICES ASSUME Waits(s, "load") PROVE Loading(z, w)
    BY <1>4 DEF Loading
  <2>0. /\ s.filter # None
        /\ \A i \in DOMAIN q : q[i].m = "tx" => Fits(s, q[i]) \/ Before(q, i, "pong")
        /\ \A i \in DOMAIN s.toNode : s.toNode[i].m = "gettx" =>
              Fits(s, s.toNode[i]) \/ Has(q, "pong") \/ Before(s.toNode, i, "ping")
    BY DEF Filtered, Loading
  <2>1. ASSUME NEW i \in DOMAIN w, w[i].m = "tx" PROVE Fits(z, w[i]) \/ Before(w, i, "pong")
    <3>1. CASE i \in DOMAIN q
      <4>1. Before(q, i, "pong") => Before(w, i, "pong")
        BY <1>3 DEF Before
      <4> QED BY <1>3, <1>4, <2>0, <2>1, <3>1, <4>1
    <3>2. CASE i \notin DOMAIN q
      <4>1. i > Len(q) /\ i - Len(q) \in DOMAIN r /\ w[i] = r[i - Len(q)]
        BY <1>3, <3>2
      <4>2. Carried(w[i], x, lk)
        BY <4>1 DEF Answer
      <4>3. x.m # "getdata"
        <5>1. ~ Has(s.toNode, "getdata")
          BY DEF Sound, Flushed
        <5> QED BY <1>1, <5>1 DEF Has
      <4>4. x.m = "gettx" /\ w[i].a[1] = x.a[1]
        BY <2>1, <4>2, <4>3 DEF Carried
      <4>5. ~ Before(s.toNode, 1, "ping")
        BY <1>1 DEF Before
      <4>6. Fits(s, x) \/ Has(q, "pong")
        BY <1>1, <2>0, <4>4, <4>5
      <4>7. Fits(s, x) => Fits(z, w[i])
        BY <1>2, <4>4 DEF Fits
      <4>8. Has(q, "pong") => Before(w, i, "pong")
        <5> SUFFICES ASSUME NEW j \in DOMAIN q, q[j].m = "pong" PROVE Before(w, i, "pong")
          BY DEF Has
        <5>1. j \in DOMAIN w /\ w[j] = q[j] /\ j <= Len(q)
          BY <1>3
        <5>2. j < i
          <6>1. j \in Nat /\ i \in Int
            <7>1. \A k \in DOMAIN q : k \in Nat
              BY <1>0, SeqIs
            <7>2. i - Len(q) \in Nat /\ Len(q) \in Nat /\ i \in Int
              <8>1. DOMAIN w \subseteq Int
                <9>1. w \in Seq(AppMsg)
                  BY <1>0, ConcatProperties DEF w
                <9> QED BY <9>1, SeqIs
              <8> QED BY <1>3, <4>1, <8>1
            <7> QED BY <7>1, <7>2
          <6> QED BY <1>3, <4>1, <5>1, <6>1
        <5> QED BY <5>1, <5>2 DEF Before
      <4> QED BY <4>6, <4>7, <4>8
    <3> QED BY <3>1, <3>2
  <2>2. Has(q, "pong") \/ x.m = "ping" => Has(w, "pong")
    <3>1. Has(q, "pong") => Has(w, "pong")
      BY <1>3 DEF Has
    <3>2. Has(r, "pong") => Has(w, "pong")
      BY <1>3 DEF Has
    <3> QED BY <3>1, <3>2
  <2>3. ASSUME NEW i \in DOMAIN v, v[i].m = "gettx"
        PROVE  Fits(z, v[i]) \/ Has(w, "pong") \/ Before(v, i, "ping")
    <3>1. i + 1 \in DOMAIN s.toNode /\ v[i] = s.toNode[i + 1] /\ i \in Nat
      BY <1>1
    <3>2. Fits(s, s.toNode[i + 1]) \/ Has(q, "pong") \/ Before(s.toNode, i + 1, "ping")
      BY <2>0, <2>3, <3>1
    <3>3. ASSUME Before(s.toNode, i + 1, "ping") PROVE x.m = "ping" \/ Before(v, i, "ping")
      <4>1. PICK j \in DOMAIN s.toNode : j < i + 1 /\ s.toNode[j].m = "ping"
        BY <3>3 DEF Before
      <4>2. j \in Nat /\ (j = 1 \/ (j - 1 \in DOMAIN v /\ v[j - 1] = s.toNode[j]))
        BY <1>1
      <4>3. j - 1 < i
        BY <3>1, <4>1, <4>2
      <4> QED BY <4>1, <4>2, <4>3 DEF Before
    <3> QED BY <1>4, <2>2, <3>1, <3>2, <3>3
  <2> QED BY <1>2, <2>0, <2>1, <2>3 DEF Loading
<1>9. Comes(z, lm, TRUE)
  BY <1>2, <1>4 DEF Filtered, Comes
<1>10. Filtered(z, w, lm, TRUE)
  BY <1>7, <1>8, <1>9 DEF Filtered
<1> QED BY <1>10 DEF w

\* A connection leaves nothing, and begins with a filter.
LEMMA ClosingComes ==
    ASSUME NEW s \in Manager,
           NEW z, z = [s EXCEPT !.updating = FALSE, !.known = <<>>, !.pongs = <<>>, !.toNode = <<>>]
    PROVE  Filtered(z, <<>>, None, FALSE)
<1> DEFINE e == <<>>
<1>1. DOMAIN e = {}
  OBVIOUS
<1>2. z.pongs = e /\ z.toNode = e /\ z.filter = s.filter /\ z.wallet = s.wallet
  BY DEF Manager
<1>3. Reach(z) \in Nat
  <2>1. Reach(z) = Reach(s)
    BY <1>2 DEF Reach
  <2> QED BY <2>1, ReachIs
<1>4. \A done : ~ Waits(z, done)
  BY <1>2 DEF Waits
<1> HIDE DEF e
<1>5. Within(z, e, None)
  BY <1>1, <1>2, <1>3 DEF Within, None
<1>6. Loading(z, e) /\ Comes(z, None, FALSE)
  BY <1>4 DEF Loading, Comes
<1> QED BY <1>5, <1>6 DEF Filtered, e

LEMMA LoadComes ==
    ASSUME NEW s \in Manager, s.toNode = <<>>, s.pongs = <<>>
    PROVE  Filtered(LoadBloomFilter(s), <<>>, None, TRUE)
<1> DEFINE e == <<>>
           r == LoadBloomFilter(s)
           y == Msg("filter", <<r.filter>>)
<1>1. /\ r \in Manager /\ r.toNode = Append(e, y) /\ r.filter = Paid(s.wallet) + Gap + Spare
      /\ r.pongs = e
  BY LoadIs
<1>2. DOMAIN e = {} /\ Len(e) = 0 /\ e \in Seq(NodeMsg) /\ e = <<>>
  OBVIOUS
<1> HIDE DEF r, e
<1>3. y \in NodeMsg /\ y.m = "filter" /\ y.a[1] = r.filter
  <2> DEFINE a == <<r.filter>>
  <2>1. a \in Seq(Nat) /\ a[1] = r.filter
    BY <1>1, ManagerIs
  <2> HIDE DEF a
  <2>2. Msg("filter", a) \in NodeMsg /\ Msg("filter", a).m = "filter" /\ Msg("filter", a).a = a
    BY <2>1 DEF Msg, NodeMsg
  <2> QED BY <2>1, <2>2 DEF a
<1> HIDE DEF y
<1>4. r.filter \in Nat /\ r.filter > 0
  <2> DEFINE p == Paid(s.wallet)
             f == r.filter
  <2>1. f = p + Gap + Spare /\ p \in Nat /\ Gap \in Nat /\ Gap > 0 /\ Spare \in Nat
    BY <1>1, ReachIs
  <2> HIDE DEF p, f
  <2>2. f \in Nat /\ f > 0
    BY <2>1
  <2> QED BY <2>2 DEF f
<1>5. \A i \in DOMAIN r.toNode : r.toNode[i] = y
  BY <1>1, <1>2, <1>3, AppendIs
<1>6. Reach(r) = r.filter
  BY <1>4 DEF Reach, None
<1>7. Within(r, e, None)
  BY <1>2, <1>3, <1>4, <1>5, <1>6 DEF Within, Below, None
<1>8. Loading(r, e) /\ Comes(r, None, TRUE)
  BY <1>1, <1>2, <1>4 DEF Loading, Comes, Waits, None
<1> QED BY <1>2, <1>7, <1>8 DEF Filtered, r

Kept == Filtered(app, toApp, looks, on)

LEMMA CloseComes ==
    ASSUME IndInv, Close
    PROVE  Kept'
<1>1. Filtered(app', <<>>, None, FALSE)
  BY GoodIs, ClosingComes DEF Close
<1>2. toApp' = <<>> /\ looks' = None /\ on' = FALSE
  BY DEF Close
<1> QED BY <1>1, <1>2 DEF Kept

LEMMA ConnectComes ==
    ASSUME IndInv, Kept, Connect
    PROVE  Kept'
<1> DEFINE z == [app EXCEPT !.estimated = top]
           s == LoadBloomFilter(z)
           ask == IF app.last >= Key THEN "getblocks" ELSE "getheaders"
           a == <<app.last>>
<1>1. app \in Manager /\ top \in Block /\ on = FALSE /\ Apart(app, toApp, current, knownTx)
  BY GoodIs DEF Sound, Connect
<1>2. z \in Manager /\ z.toNode = <<>> /\ z.pongs = <<>>
  BY <1>1 DEF Manager, Apart
<1>3. looks = None
  BY <1>1 DEF Kept, Filtered, Comes
<1> HIDE DEF z
<1>4. s \in Manager /\ Filtered(s, <<>>, None, TRUE)
  BY <1>2, LoadIs, LoadComes
<1>5. app' = IF app.last < top THEN Send(s, ask, a) ELSE s
  BY DEF Connect, z
<1>6. a \in Seq(Nat) /\ ask \in {"getblocks", "getheaders", "getdata"} /\ (ask = "getheaders" => a[1] < Key)
  <2>1. app.last \in Nat /\ Key \in Nat
    BY <1>1, ManagerIs, BoundTypes, BoundAssumption
  <2> QED BY <2>1
<1> HIDE DEF s, ask, a
<1>7. Filtered(Send(s, ask, a), <<>>, None, TRUE)
  BY <1>4, <1>6, SendAdds, AddsKeeps
<1>8. Filtered(app', <<>>, None, TRUE)
  BY <1>4, <1>5, <1>7
<1>9. toApp' = <<>> /\ looks' = None /\ on' = TRUE
  BY <1>1, <1>3 DEF Connect, Apart, node
<1> QED BY <1>8, <1>9 DEF Kept

LEMMA NodeAnswersComes ==
    ASSUME IndInv, Kept, NodeAnswers
    PROVE  Kept'
<1> DEFINE x == Head(app.toNode)
           more == x.m = "getdata" /\ continue \in ToSet(x.a)
           r == Reply(x.m, x.a, more)
           z == [app EXCEPT !.toNode = Tail(app.toNode)]
<1>0. /\ app.toNode # <<>> /\ app' = z /\ toApp' = toApp \o r
      /\ looks' = (IF x.m = "filter" THEN x.a[1] ELSE looks)
      /\ on' = on
  BY DEF NodeAnswers, peer
<1>g. /\ Sound(app, toApp, looks, knownTx, current, on, top) /\ app \in Manager
      /\ app.toNode \in Seq(NodeMsg) /\ top \in Block /\ looks \in Nat /\ on = TRUE
  BY <1>0, GoodIs
<1>1. x = app.toNode[1] /\ x \in NodeMsg /\ Asked(x, top)
  <2>1. x = app.toNode[1] /\ 1 \in DOMAIN app.toNode /\ x \in NodeMsg
    BY <1>0, <1>g, TailIs
  <2> QED BY <1>g, <2>1 DEF Sound, Mined
<1>b. more \in BOOLEAN
  OBVIOUS
<1> HIDE DEF more, r
<1>2. Answer(r, x, looks, top) /\ (x.m = "ping" => \E y \in AppMsg : y.m = "pong" /\ r = <<y>>)
  <2>1. r = Reply(x.m, x.a, more)
    BY DEF r
  <2> HIDE DEF x
  <2> QED BY <1>1, <1>b, <1>g, <2>1, ReplyAnswers
<1>3. x.m = "ping" => Has(r, "pong")
  <2> SUFFICES ASSUME x.m = "ping" PROVE Has(r, "pong")
    OBVIOUS
  <2>1. PICK y \in AppMsg : y.m = "pong" /\ r = <<y>>
    BY <1>2
  <2>2. 1 \in DOMAIN r /\ r[1] = y
    BY <2>1
  <2> QED BY <2>1, <2>2 DEF Has
<1>z. z = [app EXCEPT !.toNode = Tail(app.toNode)]
  OBVIOUS
<1>4. (x.m = "filter" => looks' = x.a[1]) /\ (x.m # "filter" => looks' = looks)
  BY <1>0
<1>5. Filtered(app, toApp, looks, TRUE)
  BY <1>g DEF Kept
<1>6. Sound(app, toApp, looks, knownTx, current, TRUE, top)
  BY <1>g
<1> HIDE DEF x, z
<1>7. Filtered(z, toApp \o r, looks', TRUE)
  BY <1>0, <1>1, <1>2, <1>3, <1>4, <1>5, <1>6, <1>z, AnsweringComes
<1> QED BY <1>0, <1>7, <1>g DEF Kept

\* Announcements of a block that is mined, and of a payment that the node looks for.
LEMMA MineComes ==
    ASSUME IndInv, Kept, Mine
    PROVE  Kept'
<1> DEFINE u == top + 1
           a == <<u>>
           y == Msg("inv", a)
<1>0. /\ top < MaxTop /\ toApp' = (IF on THEN Append(toApp, y) ELSE toApp)
      /\ UNCHANGED <<looks, app, on>>
  BY DEF Mine, peer
<1>1. u \in Block /\ toApp \in Seq(AppMsg)
  BY <1>0, GoodIs, BoundTypes DEF Block
<1>2. y \in AppMsg /\ y.m = "inv"
  <2>1. a \in Seq(Block)
    BY <1>1
  <2> HIDE DEF a
  <2> QED BY <2>1, MessageIs
<1> HIDE DEF y
<1>3. Below(y, Reach(app))
  BY <1>2 DEF Below
<1>4. Filtered(app, Append(toApp, y), looks, on)
  BY <1>1, <1>2, <1>3, AppendKeeps DEF Kept
<1> QED BY <1>0, <1>4 DEF Kept

LEMMA AnnounceTxComes ==
    ASSUME IndInv, Kept, AnnounceTx
    PROVE  Kept'
<1> DEFINE u == top + 1
           a == <<u>>
           y == Msg("invtx", a)
<1>0. /\ top < MaxTop /\ toApp' = Append(toApp, y) /\ Pays[u] \in 1 .. looks
      /\ UNCHANGED <<looks, app, on>>
  BY DEF AnnounceTx, peer, node
<1>1. u \in Block /\ toApp \in Seq(AppMsg)
  BY <1>0, GoodIs, BoundTypes DEF Block
<1>2. y \in AppMsg /\ y.m = "invtx" /\ y.a[1] = u
  <2>1. a \in Seq(Block) /\ a[1] = u
    BY <1>1
  <2> HIDE DEF a
  <2> QED BY <2>1, MessageIs
<1> HIDE DEF u, y
<1>3. Below(y, Reach(app))
  <2>1. looks \in 0 .. Reach(app) /\ Reach(app) \in Nat
    BY GoodIs, ReachIs DEF Kept, Filtered, Within
  <2>2. Pays[u] \in 0 .. Reach(app)
    BY <1>0, <2>1
  <2> QED BY <1>2, <2>2 DEF Below
<1>4. Filtered(app, Append(toApp, y), looks, on)
  BY <1>1, <1>2, <1>3, AppendKeeps DEF Kept
<1> QED BY <1>0, <1>4 DEF Kept

\* What arrives, when it is no pong, is read after what it makes the app do.
LEMMA ReadComes ==
    ASSUME IndInv, Taken, toApp # <<>>, toApp[1].m # "pong", Filtered(app', toApp, looks, TRUE)
    PROVE  Kept'
<1>1. toApp' = Tail(toApp) /\ looks' = looks /\ on' = on /\ on = TRUE /\ toApp \in Seq(AppMsg)
  BY GoodIs DEF Taken, node
<1>2. Filtered(app', Tail(toApp), looks, TRUE)
  BY <1>1, TailKeeps
<1> QED BY <1>1, <1>2 DEF Kept

LEMMA AcceptInvAdds ==
    ASSUME IndInv, ~ Incomplete, AcceptInv, ~ TooFew(Arg)
    PROVE  Taken /\ toApp # <<>> /\ toApp[1].m = "inv" /\ on = TRUE /\ Adds(app', app)
<1> DEFINE hs == toApp[1].a
           s == [app EXCEPT !.known = app.known \o hs]
           d == Send(s, "getdata", hs)
           l == <<Last(hs)>>
           b == Send(d, "getblocks", l)
<1>0. toApp # <<>> /\ Head(toApp).m = "inv"
  BY DEF AcceptInv, Gets
<1>1. Arg = hs /\ hs \in Seq(Block) /\ on = TRUE /\ toApp[1].m = "inv"
  BY <1>0, ArrivingIs
<1>2. /\ Taken
      /\ app' = IF hs = <<single>> THEN app ELSE IF app.updating THEN s ELSE RequestBlocks(s, hs)
  BY <1>1 DEF AcceptInv
<1>3. RequestBlocks(s, hs) = IF Len(hs) >= Batch THEN b ELSE d
  BY DEF RequestBlocks
<1>4. app \in Manager /\ app.known \in Seq(Block)
  BY GoodIs, ManagerIs
<1>5. s \in Manager /\ Adds(s, app)
  <2>1. app.known \o hs \in Seq(Block)
    BY <1>1, <1>4, ConcatProperties
  <2> HIDE DEF hs
  <2> QED BY <1>4, <2>1 DEF Manager, Adds
<1>6. hs \in Seq(Nat)
  <2> HIDE DEF hs
  <2>1. Len(hs) \in Nat /\ \A i \in 1 .. Len(hs) : hs[i] \in Nat
    BY <1>1, SeqIs, BoundTypes
  <2>2. hs = [i \in 1 .. Len(hs) |-> hs[i]]
    BY <1>1
  <2> QED BY <2>1, <2>2
<1> HIDE DEF s, hs
<1>7. d \in Manager /\ Adds(d, app)
  BY <1>5, <1>6, SendAdds, AddsJoin
<1>8. ASSUME Len(hs) >= Batch PROVE Adds(b, app)
  <2>1. Len(hs) \in Nat /\ Len(hs) > 0 /\ DOMAIN hs = 1 .. Len(hs) /\ \A i \in DOMAIN hs : hs[i] \in Nat
    BY <1>1, <1>8, SeqIs, BoundTypes
  <2>2. l \in Seq(Nat)
    BY <2>1 DEF Last
  <2> HIDE DEF l, d
  <2> QED BY <1>7, <2>2, SendAdds, AddsJoin
<1>9. Adds(app, app)
  BY DEF Adds
<1> HIDE DEF b, d, l
<1>10. Adds(app', app)
  BY <1>2, <1>3, <1>5, <1>7, <1>8, <1>9
<1> QED BY <1>0, <1>1, <1>2, <1>10

LEMMA AcceptInvComes ==
    ASSUME IndInv, Kept, ~ Incomplete, AcceptInv
    PROVE  Kept'
<1>1. CASE TooFew(Arg)
  BY <1>1, CloseComes DEF AcceptInv, Misbehaves
<1>2. CASE ~ TooFew(Arg)
  <2>1. Taken /\ toApp # <<>> /\ toApp[1].m = "inv" /\ on = TRUE /\ Adds(app', app)
    BY <1>2, AcceptInvAdds
  <2>2. Filtered(app', toApp, looks, TRUE)
    BY <2>1, AddsKeeps DEF Kept
  <2>3. toApp[1].m # "pong"
    BY <2>1
  <2> QED BY <2>1, <2>2, <2>3, ReadComes
<1> QED BY <1>1, <1>2

LEMMA AcceptInvTxComes ==
    ASSUME IndInv, Kept, ~ Incomplete, AcceptInvTx
    PROVE  Kept'
<1> DEFINE x == toApp[1]
<1>0. toApp # <<>> /\ Head(toApp).m = "invtx"
  BY DEF AcceptInvTx, Gets
<1>1. /\ x.m = "invtx" /\ x \in AppMsg /\ Arg = x.a /\ x.a \in Seq(Block) /\ on = TRUE /\ 1 \in DOMAIN toApp
  BY <1>0, ArrivingIs
<1>2. Taken /\ app' \in {app, Send(app, "gettx", x.a)}
  BY <1>1 DEF AcceptInvTx
<1>3. x.a \in Seq(Nat)
  <2> DEFINE a == x.a
  <2>1. a \in Seq(Block)
    BY <1>1
  <2> HIDE DEF a
  <2>2. Len(a) \in Nat /\ \A i \in 1 .. Len(a) : a[i] \in Nat
    BY <2>1, SeqIs, BoundTypes
  <2>3. a = [i \in 1 .. Len(a) |-> a[i]]
    BY <2>1
  <2>4. a \in Seq(Nat)
    BY <2>2, <2>3
  <2> QED BY <2>4 DEF a
<1>4. Below(x, Reach(app)) /\ Filtered(app, toApp, looks, TRUE)
  BY <1>1 DEF Kept, Filtered, Within
<1>5. app \in Manager /\ toApp \in Seq(AppMsg) /\ Ponged(app, toApp)
  BY GoodIs DEF Sound
<1> HIDE DEF x
<1>6. Filtered(Send(app, "gettx", x.a), toApp, looks, TRUE)
  BY <1>1, <1>3, <1>4, <1>5, GettxKeeps
<1>7. Filtered(app', toApp, looks, TRUE)
  BY <1>2, <1>4, <1>6
<1>8. toApp[1].m # "pong"
  BY <1>1 DEF x
<1> QED BY <1>0, <1>2, <1>7, <1>8, ReadComes

LEMMA AcceptHeadersAdds ==
    ASSUME IndInv, ~ Incomplete, AcceptHeaders, HeadersExpected
    PROVE  Taken /\ toApp # <<>> /\ toApp[1].m = "headers" /\ on = TRUE /\ Adds(app', app)
<1> DEFINE hs == toApp[1].a
           g == Send(app, "getblocks", <<SwitchAt(hs)>>)
           h == Send(app, "getheaders", <<Last(hs)>>)
           s == IF Last(hs) >= Switch THEN g ELSE h
<1>0. toApp # <<>> /\ Head(toApp).m = "headers"
  BY DEF AcceptHeaders, Gets
<1>1. Arg = hs /\ hs \in Seq(Block) /\ on = TRUE /\ toApp[1].m = "headers"
  BY <1>0, ArrivingIs
<1>2. Taken /\ app' = RelayedHeaders(s, hs) /\ hs # <<>>
  BY <1>1 DEF AcceptHeaders, HeadersExpected
<1>g. app \in Manager
  BY GoodIs
<1>l. /\ Len(hs) \in Nat /\ Len(hs) > 0 /\ DOMAIN hs = 1 .. Len(hs)
      /\ \A i \in DOMAIN hs : hs[i] \in Nat
  <2>1. Len(hs) \in Nat /\ Len(hs) > 0 /\ DOMAIN hs = 1 .. Len(hs)
    BY <1>1, <1>2, TailIs
  <2>2. \A i \in DOMAIN hs : hs[i] \in Nat
    BY <1>1, SeqIs, BoundTypes
  <2> QED BY <2>1, <2>2
<1> HIDE DEF hs
<1>3. Last(hs) \in Nat
  BY <1>l DEF Last
<1>4. SwitchAt(hs) \in Nat
  <2> DEFINE S == {i \in 1 .. Len(hs) : i = Len(hs) \/ hs[i + 1] >= Switch}
  <2>1. S \in SUBSET Nat /\ S # {} /\ S \subseteq DOMAIN hs
    <3>1. Len(hs) \in S
      BY <1>l
    <3> QED BY <1>l, <3>1
  <2>2. SwitchAt(hs) = hs[Min(S)]
    BY DEF SwitchAt
  <2> HIDE DEF S
  <2>3. Min(S) \in S
    BY <2>1, LeastOf
  <2> QED BY <1>l, <2>1, <2>2, <2>3
<1>5. <<SwitchAt(hs)>> \in Seq(Nat) /\ <<Last(hs)>> \in Seq(Nat)
  BY <1>3, <1>4
<1>6. /\ g \in Manager /\ Adds(g, app)
      /\ ~ (Last(hs) >= Switch) => h \in Manager /\ Adds(h, app)
  <2> DEFINE e == <<Last(hs)>>
  <2>1. ~ (Last(hs) >= Switch) => Last(hs) < Key
    BY <1>3, BoundAssumption, PaysAssumption
  <2>2. e \in Seq(Nat) /\ e[1] = Last(hs)
    BY <1>5
  <2>3. Send(app, "getblocks", <<SwitchAt(hs)>>) \in Manager /\ Adds(Send(app, "getblocks", <<SwitchAt(hs)>>), app)
    BY <1>5, <1>g, SendAdds
  <2>4. ~ (Last(hs) >= Switch) => Send(app, "getheaders", e) \in Manager /\ Adds(Send(app, "getheaders", e), app)
    <3> HIDE DEF e
    <3> QED BY <1>g, <2>1, <2>2, SendAdds
  <2> QED BY <2>3, <2>4
<1> HIDE DEF g, h
<1>7. s \in Manager /\ Adds(s, app)
  BY <1>6
<1> HIDE DEF s
<1>8. Adds(app', app)
  BY <1>2, <1>7, RelayedHeadersAdd, AddsJoin
<1> QED BY <1>0, <1>1, <1>2, <1>8

LEMMA AcceptHeadersComes ==
    ASSUME IndInv, Kept, ~ Incomplete, AcceptHeaders
    PROVE  Kept'
<1>1. CASE ~ HeadersExpected
  BY <1>1, CloseComes DEF AcceptHeaders, Misbehaves
<1>2. CASE HeadersExpected
  <2>1. Taken /\ toApp # <<>> /\ toApp[1].m = "headers" /\ on = TRUE /\ Adds(app', app)
    BY <1>2, AcceptHeadersAdds
  <2>2. Filtered(app', toApp, looks, TRUE)
    BY <2>1, AddsKeeps DEF Kept
  <2>3. toApp[1].m # "pong"
    BY <2>1
  <2> QED BY <2>1, <2>2, <2>3, ReadComes
<1> QED BY <1>1, <1>2

LEMMA AcceptMerkleblockComes ==
    ASSUME IndInv, Kept, ~ Incomplete, AcceptMerkleblock, updates' = updates
    PROVE  Kept'
<1> DEFINE a == toApp[1].a
           h == a[1]
<1>0. toApp # <<>> /\ Head(toApp).m = "merkleblock"
  BY DEF AcceptMerkleblock, Gets
<1>1. /\ toApp[1] \in AppMsg /\ Arg = a /\ a \in Seq(Block)
      /\ Formed(toApp[1], top) /\ on = TRUE /\ toApp[1].m = "merkleblock"
  BY <1>0, ArrivingIs
<1>2. updates \in 0 .. MaxUpdates /\ app \in Manager
  BY GoodIs
<1>3. Taken /\ app' \in {app, RelayedBlock(app, h)}
  <2>1. updates' # updates + 1
    BY <1>2
  <2> QED BY <1>1, <2>1 DEF AcceptMerkleblock, Relay
<1>4. h \in Block
  <2>1. Len(a) \in {1, 2}
    BY <1>1 DEF Formed
  <2>2. 1 \in DOMAIN a
    BY <1>1, <2>1, SeqIs
  <2> QED BY <1>1, <2>2, SeqIs
<1> HIDE DEF h, a
<1>5. Adds(app', app)
  <2>1. Adds(app, app)
    BY DEF Adds
  <2> QED BY <1>2, <1>3, <1>4, <2>1, RelayedBlockAdds
<1>6. Filtered(app', toApp, looks, TRUE)
  BY <1>1, <1>5, AddsKeeps DEF Kept
<1>7. toApp[1].m # "pong"
  BY <1>1
<1> QED BY <1>0, <1>3, <1>6, <1>7, ReadComes

LEMMA AcceptTxComes ==
    ASSUME IndInv, Kept, ~ Incomplete, AcceptTx, updates' = updates
    PROVE  Kept'
<1> DEFINE a == toApp[1].a
           h == a[1]
           s == RelayedTx(app, h)
<1>0. toApp # <<>> /\ Head(toApp).m = "tx"
  BY DEF AcceptTx, Gets
<1>1. /\ toApp[1] \in AppMsg /\ Arg = a /\ a \in Seq(Block)
      /\ Formed(toApp[1], top) /\ on = TRUE /\ toApp[1].m = "tx"
  BY <1>0, ArrivingIs
<1>2. updates \in 0 .. MaxUpdates /\ app \in Manager /\ toApp \in Seq(AppMsg)
      /\ Sound(app, toApp, looks, knownTx, current, on, top)
  BY GoodIs
<1>3. Taken /\ app' \in {s, RelayedBlock(s, h)}
  <2>1. updates' # updates + 1
    BY <1>2
  <2> QED BY <1>1, <2>1 DEF AcceptTx, Relay
<1>4. h \in Block
  <2>1. Len(a) = 1
    BY <1>1 DEF Formed
  <2>2. 1 \in DOMAIN a
    BY <1>1, <2>1, SeqIs
  <2> QED BY <1>1, <2>2, SeqIs
<1>5. toApp[1].a[1] = h
  OBVIOUS
<1> HIDE DEF h, a
<1>6. Filtered(s, toApp, looks, TRUE)
  <2>1. Filtered(app, toApp, looks, TRUE) /\ Ponged(app, toApp)
    BY <1>1, <1>2 DEF Kept, Sound
  <2>2. app.filter # None => Paid(app.wallet) + Gap <= app.filter
    BY <1>2 DEF Sound, Matched
  <2> QED BY <1>0, <1>1, <1>2, <1>4, <1>5, <2>1, <2>2, RelayedTxComes
<1>7. s \in Manager
  <2>1. Sound(s, toApp, looks, knownTx, current, on, top)
    BY <1>1, <1>2, <1>4, RelayedTxKeeps
  <2> QED BY <2>1 DEF Sound, Mined
<1> HIDE DEF s
<1>8. Filtered(app', toApp, looks, TRUE)
  BY <1>3, <1>4, <1>6, <1>7, RelayedBlockAdds, AddsKeeps
<1>9. toApp[1].m # "pong"
  BY <1>1
<1> QED BY <1>0, <1>3, <1>8, <1>9, ReadComes

LEMMA AcceptPongComes ==
    ASSUME Gap <= Spare + 1, IndInv, Kept, ~ Incomplete, AcceptPong
    PROVE  Kept'
<1> DEFINE s == [app EXCEPT !.pongs = Tail(app.pongs)]
<1>0. toApp # <<>> /\ Head(toApp).m = "pong"
  BY DEF AcceptPong, Gets
<1>1. on = TRUE /\ toApp[1].m = "pong"
  BY <1>0, ArrivingIs
<1>g. Sound(app, toApp, looks, knownTx, current, TRUE, top) /\ Filtered(app, toApp, looks, TRUE)
  BY <1>1, GoodIs DEF Kept
<1>2. /\ Taken
      /\ app' = CASE Head(app.pongs) = "update" -> UpdateFilterPingDone(s)
                  [] Head(app.pongs) = "load" -> UpdateFilterLoadDone(s)
                  [] Head(app.pongs) = "rerequest" -> UpdateFilterRerequestDone(s)
  BY DEF AcceptPong
<1>3. Head(app.pongs) \in {"update", "load", "rerequest"}
  BY <1>0, <1>1, <1>g, PongIs
<1>4. Filtered(app', Tail(toApp), looks, TRUE)
  <2>1. CASE Head(app.pongs) = "update"
    <3>1. app' = UpdateFilterPingDone(s)
      BY <1>2, <2>1
    <3>2. Filtered(UpdateFilterPingDone(s), Tail(toApp), looks, TRUE)
      BY <1>0, <1>1, <1>g, <2>1, UpdatePingDoneComes
    <3> QED BY <3>1, <3>2
  <2>2. CASE Head(app.pongs) = "load"
    <3>1. app' = UpdateFilterLoadDone(s)
      BY <1>2, <2>2
    <3>2. Filtered(UpdateFilterLoadDone(s), Tail(toApp), looks, TRUE)
      BY <1>0, <1>1, <1>g, <2>2, UpdateLoadDoneComes
    <3> QED BY <3>1, <3>2
  <2>3. CASE Head(app.pongs) = "rerequest"
    <3>1. app' = UpdateFilterRerequestDone(s)
      BY <1>2, <2>3
    <3>2. Filtered(UpdateFilterRerequestDone(s), Tail(toApp), looks, TRUE)
      BY <1>0, <1>1, <1>g, <2>3, UpdateRerequestDoneComes
    <3> QED BY <3>1, <3>2
  <2> QED BY <1>3, <2>1, <2>2, <2>3
<1>5. toApp' = Tail(toApp) /\ looks' = looks /\ on' = on
  BY <1>2 DEF Taken, node
<1> QED BY <1>1, <1>4, <1>5 DEF Kept

\* No step takes an update of the filter back.
LEMMA UpdatesGrow ==
    ASSUME IndInv, [Next]_vars, updates' = 0
    PROVE  updates = 0
<1>1. updates \in Nat
  BY GoodIs, BoundAssumption
<1>2. updates' \in {updates, updates + 1}
  BY DEF Next, Connect, Lose, TimeOut, Accept, Misbehaves, Close, AcceptInv, AcceptInvTx, AcceptHeaders,
         AcceptMerkleblock, AcceptTx, AcceptPong, Relay, NodeAnswers, Mine, AnnounceTx, vars, counts
<1> QED BY <1>1, <1>2

LEMMA NextComes ==
    ASSUME Gap <= Spare + 1, IndInv, updates = 0 => Kept, [Next]_vars
    PROVE  updates' = 0 => Kept'
<1> SUFFICES ASSUME updates' = 0 PROVE Kept'
  OBVIOUS
<1>0. updates = 0 /\ updates' = updates /\ Kept
  BY UpdatesGrow
<1>1. CASE Connect
  BY <1>0, <1>1, ConnectComes
<1>2. CASE Lose
  BY <1>2, CloseComes DEF Lose
<1>3. CASE TimeOut
  BY <1>3, CloseComes DEF TimeOut
<1>4. CASE Accept
  <2>1. CASE Incomplete
    BY <1>4, <2>1, CloseComes DEF Accept, Misbehaves
  <2>2. CASE ~ Incomplete
    BY <1>0, <1>4, <2>2, AcceptInvComes, AcceptInvTxComes, AcceptHeadersComes, AcceptMerkleblockComes,
       AcceptTxComes, AcceptPongComes DEF Accept
  <2> QED BY <2>1, <2>2
<1>5. CASE NodeAnswers
  BY <1>0, <1>5, NodeAnswersComes
<1>6. CASE Mine
  BY <1>0, <1>6, MineComes
<1>7. CASE AnnounceTx
  BY <1>0, <1>7, AnnounceTxComes
<1>8. CASE UNCHANGED vars
  BY <1>0, <1>8 DEF Kept, vars, node, peer
<1> QED BY <1>1, <1>2, <1>3, <1>4, <1>5, <1>6, <1>7, <1>8 DEF Next

LEMMA InitComes ==
    ASSUME Init
    PROVE  Kept
<1> DEFINE e == <<>>
<1>1. app \in Manager /\ app.toNode = e /\ app.pongs = e /\ toApp = e /\ looks = None /\ on = FALSE
  BY InitGood, GoodIs DEF Init
<1>2. DOMAIN e = {} /\ e = <<>>
  OBVIOUS
<1> HIDE DEF e
<1>3. \A done : ~ Waits(app, done)
  BY <1>1, <1>2 DEF Waits
<1>4. Within(app, e, None)
  BY <1>1, <1>2, ReachIs DEF Within, None
<1>5. Loading(app, e) /\ Comes(app, None, FALSE)
  BY <1>3 DEF Loading, Comes
<1> QED BY <1>1, <1>4, <1>5 DEF Kept, Filtered

\* A connected app without a filter waits for the pong after which it loads one, as
\* long as no filter has degraded and a filter has at least as many spare addresses as
\* the wallet looks ahead, but for one (the code has 100 and 20): no payment that
\* arrives between a filter's loading and its pong can take it away with nothing to
\* bring another (BR_PeerManager.c:1054, 406-490).
THEOREM FilterReturns ==
    ASSUME Gap <= Spare + 1
    PROVE  Spec => [](updates = 0 => FilterOK)
<1>1. Init => IndInv /\ (updates = 0 => Kept)
  BY InitGood, InitComes
<1>2. IndInv /\ (updates = 0 => Kept) /\ [Next]_vars => (IndInv /\ (updates = 0 => Kept))'
  BY NextGood, NextComes
<1>3. IndInv /\ (updates = 0 => Kept) => (updates = 0 => FilterOK)
  <2> SUFFICES ASSUME IndInv, Kept PROVE FilterOK
    OBVIOUS
  <2>1. ASSUME on, app.filter = None PROVE "update" \in ToSet(app.pongs)
    <3> DEFINE D == {"update", "load", "rerequest"}
               p == app.pongs
    <3>1. p # <<>> /\ p[Len(p)] = "update"
      BY <2>1, GoodIs DEF Kept, Filtered, Comes, Waits
    <3>2. p \in Seq(D)
      BY GoodIs, ManagerIs
    <3> HIDE DEF D, p
    <3>3. Len(p) \in DOMAIN p
      BY <3>1, <3>2, TailIs
    <3> QED BY <3>1, <3>3 DEF ToSet, p
  <2> QED BY <2>1 DEF FilterOK, FilterComes, IndInv
<1> QED BY <1>1, <1>2, <1>3, PTL DEF Spec
-----------------------------------------------------------------------------
(* What the app does not refuse                                             *)

\* Headers are asked for after a block that is older than the wallet, and the answer
\* is a full batch or reaches the block from which blocks are downloaded.
Old(x) == x.m = "getheaders" => x.a[1] < Key
Early(s) == \A i \in DOMAIN s.toNode : Old(s.toNode[i])
Reaching(x) == x.m = "headers" => x.a # <<>> /\ (Len(x.a) >= HeaderBatch \/ Last(x.a) >= Switch)
Complete(q) == \A i \in DOMAIN q : Reaching(q[i])
Ahead == Early(app) /\ Complete(toApp) /\ Key + Batch <= top

LEMMA AddsEarly ==
    ASSUME NEW r, NEW s, Early(s), Adds(r, s)
    PROVE  Early(r)
BY DEF Early, Adds, Plain, Old

LEMMA MoreEarly ==
    ASSUME NEW s \in Manager, Early(s), NEW x \in NodeMsg, Old(x), NEW r, r.toNode = Append(s.toNode, x)
    PROVE  Early(r)
<1>1. /\ \A i \in DOMAIN s.toNode : i \in DOMAIN r.toNode /\ r.toNode[i] = s.toNode[i]
      /\ r.toNode[Len(s.toNode) + 1] = x
      /\ \A i \in DOMAIN r.toNode : i \in DOMAIN s.toNode \/ i = Len(s.toNode) + 1
  <2>1. s.toNode \in Seq(NodeMsg)
    BY ManagerIs
  <2> QED BY <2>1, AppendIs
<1> QED BY <1>1 DEF Early

LEMMA PingEarly ==
    ASSUME NEW s \in Manager, Early(s), NEW done \in {"update", "load", "rerequest"}
    PROVE  Ping(s, done) \in Manager /\ Early(Ping(s, done))
<1> DEFINE r == Ping(s, done)
           x == Msg("ping", <<>>)
<1>1. r \in Manager /\ r.toNode = Append(s.toNode, x) /\ x \in NodeMsg /\ x.m = "ping"
  BY PingIs
<1> HIDE DEF r, x
<1>2. Old(x)
  BY <1>1 DEF Old
<1>3. Early(r)
  BY <1>1, <1>2, MoreEarly
<1> QED BY <1>1, <1>3 DEF r

LEMMA UpdateFilterEarly ==
    ASSUME NEW s \in Manager, Early(s)
    PROVE  UpdateFilter(s) \in Manager /\ Early(UpdateFilter(s))
<1> DEFINE p == Ping(s, "update")
           r == [p EXCEPT !.updating = TRUE]
<1>1. p \in Manager /\ Early(p)
  BY PingEarly
<1>2. UpdateFilter(s) \in {s, r}
  BY DEF UpdateFilter
<1> HIDE DEF p
<1>3. r \in Manager /\ Early(r)
  BY <1>1 DEF Early, Manager
<1> QED BY <1>2, <1>3

LEMMA LoadEarly ==
    ASSUME NEW s \in Manager, Early(s)
    PROVE  LoadBloomFilter(s) \in Manager /\ Early(LoadBloomFilter(s))
<1> DEFINE r == LoadBloomFilter(s)
           x == Msg("filter", <<r.filter>>)
<1>1. r \in Manager /\ r.toNode = Append(s.toNode, x)
  BY LoadIs
<1> HIDE DEF r
<1>2. x \in NodeMsg /\ x.m = "filter"
  <2> DEFINE a == <<r.filter>>
  <2>1. a \in Seq(Nat)
    BY <1>1, ManagerIs
  <2> HIDE DEF a
  <2>2. Msg("filter", a) \in NodeMsg /\ Msg("filter", a).m = "filter"
    BY <2>1 DEF Msg, NodeMsg
  <2> QED BY <2>2 DEF a
<1> HIDE DEF x
<1>3. Old(x)
  BY <1>2 DEF Old
<1>4. Early(r)
  BY <1>1, <1>2, <1>3, MoreEarly
<1> QED BY <1>1, <1>4 DEF r

\* A block that arrives, and a payment.
LEMMA RelayEarly ==
    ASSUME NEW s \in Manager, Early(s), NEW h \in Block, Relay(s, h)
    PROVE  Early(app')
<1> DEFINE u == UpdateFilter(s)
<1>1. u \in Manager /\ Early(u)
  BY UpdateFilterEarly
<1>2. app' \in {RelayedBlock(s, h), RelayedBlock(u, h)}
  BY DEF Relay
<1> HIDE DEF u
<1> QED BY <1>1, <1>2, RelayedBlockAdds, AddsEarly

LEMMA RelayedTxEarly ==
    ASSUME NEW s \in Manager, Early(s), NEW h \in Block
    PROVE  RelayedTx(s, h) \in Manager /\ Early(RelayedTx(s, h))
<1> DEFINE u == [s EXCEPT !.wallet = @ \cup {h}]
           v == [u EXCEPT !.filter = None]
<1>1. u \in Manager /\ Early(u)
  BY DEF Manager, Early
<1>2. v \in Manager /\ Early(v)
  <2> HIDE DEF u
  <2> QED BY <1>1 DEF Manager, Early, None
<1>3. RelayedTx(s, h) \in {u, UpdateFilter(v)}
  BY DEF RelayedTx
<1> HIDE DEF u, v
<1> QED BY <1>1, <1>2, <1>3, UpdateFilterEarly

\* The pongs of an update.
LEMMA UpdateDoneEarly ==
    ASSUME NEW s \in Manager, Early(s)
    PROVE  /\ Early(UpdateFilterPingDone(s)) /\ Early(UpdateFilterLoadDone(s))
           /\ Early(UpdateFilterRerequestDone(s))
<1>1. Early(UpdateFilterPingDone(s))
  <2>1. LoadBloomFilter(s) \in Manager /\ Early(LoadBloomFilter(s))
    BY LoadEarly
  <2> QED BY <2>1, PingEarly DEF UpdateFilterPingDone
<1>2. Early(UpdateFilterLoadDone(s))
  <2> DEFINE u == [s EXCEPT !.updating = FALSE]
             g == RerequestBlocks(u)
             p == Ping(g, "rerequest")
  <2>1. u \in Manager /\ Early(u)
    BY DEF Manager, Early
  <2>2. UpdateFilterLoadDone(s) \in {u, p}
    BY DEF UpdateFilterLoadDone
  <2> HIDE DEF u
  <2>3. g \in Manager /\ Early(g)
    BY <2>1, RerequestAdds, AddsEarly
  <2> HIDE DEF g
  <2>4. Early(p)
    BY <2>3, PingEarly
  <2> QED BY <2>1, <2>2, <2>4
<1>3. Early(UpdateFilterRerequestDone(s))
  <2> DEFINE a == <<s.last>>
  <2>1. a \in Seq(Nat)
    <3>1. s.last \in Nat
      BY ManagerIs, BoundTypes
    <3> QED BY <3>1
  <2>2. UpdateFilterRerequestDone(s) \in {s, Send(s, "getblocks", a)}
    BY DEF UpdateFilterRerequestDone
  <2> HIDE DEF a
  <2>3. Early(Send(s, "getblocks", a))
    BY <2>1, SendAdds, AddsEarly
  <2> QED BY <2>2, <2>3
<1> QED BY <1>1, <1>2, <1>3

LEMMA SwitchIs ==
    /\ Switch \in Nat /\ Key \in Nat /\ Switch <= Key /\ \A t \in Tops : Key + Batch <= t
    /\ HeaderBatch \in Nat /\ HeaderBatch > 0 /\ Batch \in Nat /\ Batch > 0
BY BoundAssumption, PaysAssumption, BoundTypes

\* The heights from a on: how many they are, and which is the last.
LEMMA HeightsReach ==
    ASSUME NEW a \in Nat, NEW b \in Nat, a < b
    PROVE  LET hs == Heights(a + 1, b) IN hs # <<>> /\ Len(hs) = b - a /\ Last(hs) = b
<1> DEFINE n == IF a + 1 <= b THEN b - (a + 1) + 1 ELSE 0
           hs == Heights(a + 1, b)
<1>1. n = b - a /\ n \in Nat /\ n > 0
  OBVIOUS
<1>2. hs = [i \in 1 .. n |-> a + 1 + i - 1]
  BY DEF Heights
<1> HIDE DEF n, hs
<1>3. DOMAIN hs = 1 .. n /\ hs[n] = b
  BY <1>1, <1>2
<1>4. Len(hs) = n /\ hs # <<>>
  <2>1. hs \in Seq(Nat)
    <3>1. \A i \in 1 .. n : hs[i] \in Nat
      BY <1>1, <1>2
    <3>2. hs = [i \in 1 .. n |-> hs[i]]
      BY <1>2
    <3> QED BY <1>1, <3>1, <3>2
  <2>2. Len(hs) \in Nat /\ DOMAIN hs = 1 .. Len(hs)
    BY <2>1, SeqIs
  <2>3. Len(hs) = n
    BY <1>1, <1>3, <2>2
  <2> QED BY <1>1, <2>3
<1>5. hs # <<>> /\ Len(hs) = b - a /\ Last(hs) = b
  BY <1>1, <1>3, <1>4 DEF Last
<1> QED BY <1>5 DEF hs

\* What the node answers to a message that is no early one's reaches far enough.
LEMMA ReplyReaches ==
    ASSUME NEW x \in NodeMsg, Asked(x, top), Old(x), top \in Block, looks \in Nat, Key + Batch <= top,
           NEW more \in BOOLEAN, NEW r, r = Reply(x.m, x.a, more)
    PROVE  r \in Seq(AppMsg) /\ Complete(r)
<1>1. Answer(r, x, looks, top)
  BY ReplyAnswers
<1>2. CASE x.m # "getheaders"
  <2>1. \A i \in DOMAIN r : r[i].m # "headers"
    BY <1>1, <1>2 DEF Answer, Carried
  <2> QED BY <1>1, <2>1 DEF Answer, Complete, Reaching
<1>3. CASE x.m = "getheaders"
  <2> DEFINE a == x.a
             n == a[1]
             b == Min({top, n + HeaderBatch})
             hs == Heights(n + 1, b)
             y == Msg("headers", hs)
  <2>1. n \in Nat /\ n < Key
    <3>1. a \in Seq(Nat) /\ Len(a) = 1
      BY <1>3 DEF NodeMsg, Asked
    <3>2. 1 \in DOMAIN a
      BY <3>1, SeqIs
    <3> QED BY <1>3, <3>1, <3>2, SeqIs DEF Old
  <2>2. r = <<y>>
    BY <1>3 DEF Reply
  <2> HIDE DEF a, n
  <2>3. top \in Nat /\ n < top
    BY <2>1, SwitchIs, BoundTypes
  <2>4. b \in {top, n + HeaderBatch} /\ b \in Nat /\ b <= top
    BY <2>1, <2>3, SwitchIs, LeastOfTwo
  <2> HIDE DEF b
  <2>5. n < b
    BY <2>1, <2>3, <2>4, SwitchIs
  <2>6. hs # <<>> /\ Len(hs) = b - n /\ Last(hs) = b
    BY <2>1, <2>4, <2>5, HeightsReach
  <2> HIDE DEF hs
  <2>7. Len(hs) >= HeaderBatch \/ Last(hs) >= Switch
    BY <2>1, <2>3, <2>4, <2>6, SwitchIs
  <2>8. y.m = "headers" /\ y.a = hs
    BY DEF Msg
  <2> HIDE DEF y
  <2>9. Reaching(y)
    BY <2>6, <2>7, <2>8 DEF Reaching
  <2>10. \A i \in DOMAIN r : r[i] = y
    BY <2>2
  <2> QED BY <1>1, <2>9, <2>10 DEF Answer, Complete
<1> QED BY <1>2, <1>3

LEMMA CloseAhead ==
    ASSUME IndInv, Ahead, Close
    PROVE  Ahead'
<1> DEFINE e == <<>>
<1>1. DOMAIN e = {}
  OBVIOUS
<1>2. app'.toNode = e /\ toApp' = e /\ top' = top
  BY GoodIs DEF Close, Manager
<1> HIDE DEF e
<1> QED BY <1>1, <1>2 DEF Ahead, Early, Complete

LEMMA ConnectAhead ==
    ASSUME IndInv, Ahead, Connect
    PROVE  Ahead'
<1> DEFINE z == [app EXCEPT !.estimated = top]
           s == LoadBloomFilter(z)
           ask == IF app.last >= Key THEN "getblocks" ELSE "getheaders"
           a == <<app.last>>
<1>1. app \in Manager /\ top \in Block
  BY GoodIs
<1>2. z \in Manager /\ Early(z)
  BY <1>1 DEF Manager, Ahead, Early
<1>3. app' \in {s, Send(s, ask, a)} /\ toApp' = toApp /\ top' = top
  BY DEF Connect, node
<1> HIDE DEF z
<1>4. s \in Manager /\ Early(s)
  BY <1>2, LoadEarly
<1>5. a \in Seq(Nat) /\ ask \in {"getblocks", "getheaders", "getdata"} /\ (ask = "getheaders" => a[1] < Key)
  <2>1. app.last \in Nat /\ Key \in Nat
    BY <1>1, ManagerIs, BoundTypes, SwitchIs
  <2> QED BY <2>1
<1> HIDE DEF s, ask, a
<1>6. Early(Send(s, ask, a))
  BY <1>4, <1>5, SendAdds, AddsEarly
<1> QED BY <1>3, <1>4, <1>6 DEF Ahead

LEMMA NodeAnswersAhead ==
    ASSUME IndInv, Ahead, NodeAnswers
    PROVE  Ahead'
<1> DEFINE x == Head(app.toNode)
           more == x.m = "getdata" /\ continue \in ToSet(x.a)
           r == Reply(x.m, x.a, more)
           w == Tail(app.toNode)
<1>0. app.toNode # <<>> /\ app' = [app EXCEPT !.toNode = w] /\ toApp' = toApp \o r /\ top' = top
  BY DEF NodeAnswers
<1>g. /\ app \in Manager /\ app.toNode \in Seq(NodeMsg) /\ toApp \in Seq(AppMsg) /\ top \in Block
      /\ looks \in Nat /\ Sound(app, toApp, looks, knownTx, current, on, top)
  BY GoodIs
<1>1. /\ x = app.toNode[1] /\ x \in NodeMsg /\ 1 \in DOMAIN app.toNode
      /\ \A i \in DOMAIN w : i + 1 \in DOMAIN app.toNode /\ w[i] = app.toNode[i + 1]
  BY <1>0, <1>g, TailIs
<1>2. Asked(x, top) /\ Old(x)
  BY <1>1, <1>g DEF Sound, Mined, Ahead, Early
<1>b. more \in BOOLEAN
  OBVIOUS
<1>r. r = Reply(x.m, x.a, more)
  OBVIOUS
<1>w. app'.toNode = w
  BY <1>0, <1>g DEF Manager
<1> HIDE DEF x, more, r, w
<1>3. r \in Seq(AppMsg) /\ Complete(r)
  BY <1>1, <1>2, <1>b, <1>r, <1>g, ReplyReaches DEF Ahead
<1>4. Early(app')
  BY <1>1, <1>w DEF Ahead, Early
<1>5. Complete(toApp')
  <2>1. /\ \A i \in DOMAIN toApp : toApp'[i] = toApp[i]
        /\ \A i \in DOMAIN r : toApp'[Len(toApp) + i] = r[i]
        /\ \A i \in DOMAIN toApp' : i \in DOMAIN toApp \/ (i > Len(toApp) /\ i - Len(toApp) \in DOMAIN r)
        /\ Len(toApp) \in Nat /\ DOMAIN toApp' \subseteq Nat
    <3>1. toApp' \in Seq(AppMsg)
      BY <1>0, <1>3, <1>g, ConcatIs
    <3>2. DOMAIN toApp' \subseteq Nat
      BY <3>1, SeqIs
    <3> QED BY <1>0, <1>3, <1>g, <3>2, ConcatIs
  <2>2. ASSUME NEW i \in DOMAIN toApp' PROVE Reaching(toApp'[i])
    <3>1. CASE i \in DOMAIN toApp
      BY <2>1, <3>1 DEF Ahead, Complete
    <3>2. CASE i - Len(toApp) \in DOMAIN r
      <4>1. Len(toApp) + (i - Len(toApp)) = i
        BY <2>1
      <4>2. toApp'[i] = r[i - Len(toApp)]
        BY <2>1, <3>2, <4>1
      <4> QED BY <1>3, <3>2, <4>2 DEF Complete
    <3> QED BY <2>1, <3>1, <3>2
  <2> QED BY <2>2 DEF Complete
<1> QED BY <1>0, <1>4, <1>5 DEF Ahead

\* Announcements.
LEMMA AnnouncingAhead ==
    ASSUME IndInv, Ahead, NEW y \in AppMsg, y.m # "headers", NEW w, w = Append(toApp, y)
    PROVE  Complete(w)
<1>1. /\ \A i \in DOMAIN toApp : w[i] = toApp[i]
      /\ w[Len(toApp) + 1] = y
      /\ \A i \in DOMAIN w : i \in DOMAIN toApp \/ i = Len(toApp) + 1
  BY GoodIs, AppendIs
<1>2. Reaching(y)
  BY DEF Reaching
<1> QED BY <1>1, <1>2 DEF Ahead, Complete

LEMMA MineAhead ==
    ASSUME IndInv, Ahead, Mine
    PROVE  Ahead'
<1> DEFINE a == <<top + 1>>
           y == Msg("inv", a)
<1>0. top < MaxTop /\ toApp' \in {Append(toApp, y), toApp} /\ app' = app /\ top' = top + 1
  BY DEF Mine
<1>1. a \in Seq(Block)
  <2>1. top + 1 \in Block
    BY <1>0, GoodIs, BoundTypes DEF Block
  <2> QED BY <2>1
<1> HIDE DEF a
<1>2. y \in AppMsg /\ y.m = "inv"
  BY <1>1, MessageIs
<1> HIDE DEF y
<1>3. Complete(Append(toApp, y))
  BY <1>2, AnnouncingAhead
<1>4. Complete(toApp')
  BY <1>0, <1>3 DEF Ahead
<1>5. Key + Batch <= top'
  BY <1>0, GoodIs, SwitchIs DEF Ahead
<1> QED BY <1>0, <1>4, <1>5 DEF Ahead

LEMMA AnnounceTxAhead ==
    ASSUME IndInv, Ahead, AnnounceTx
    PROVE  Ahead'
<1> DEFINE a == <<top + 1>>
           y == Msg("invtx", a)
<1>0. top < MaxTop /\ toApp' = Append(toApp, y) /\ app' = app /\ top' = top
  BY DEF AnnounceTx, node
<1>1. a \in Seq(Block)
  <2>1. top + 1 \in Block
    BY <1>0, GoodIs, BoundTypes DEF Block
  <2> QED BY <2>1
<1> HIDE DEF a
<1>2. y \in AppMsg /\ y.m = "invtx"
  BY <1>1, MessageIs
<1> HIDE DEF y
<1>3. Complete(Append(toApp, y))
  BY <1>2, AnnouncingAhead
<1> QED BY <1>0, <1>3 DEF Ahead

\* What is read is not there any more.
LEMMA ReadAhead ==
    ASSUME IndInv, Ahead, Taken, toApp # <<>>, Early(app')
    PROVE  Ahead'
<1>1. toApp' = Tail(toApp) /\ top' = top
  BY DEF Taken, node
<1>2. \A i \in DOMAIN toApp' : i + 1 \in DOMAIN toApp /\ toApp'[i] = toApp[i + 1]
  BY <1>1, GoodIs, TailIs
<1>3. Complete(toApp')
  BY <1>2 DEF Ahead, Complete
<1> QED BY <1>1, <1>3 DEF Ahead

LEMMA AcceptInvAhead ==
    ASSUME IndInv, Ahead, ~ Incomplete, AcceptInv
    PROVE  Ahead'
<1>1. CASE TooFew(Arg)
  BY <1>1, CloseAhead DEF AcceptInv, Misbehaves
<1>2. CASE ~ TooFew(Arg)
  BY <1>2, AcceptInvAdds, AddsEarly, ReadAhead DEF Ahead
<1> QED BY <1>1, <1>2

LEMMA AcceptHeadersAhead ==
    ASSUME IndInv, Ahead, ~ Incomplete, AcceptHeaders
    PROVE  Ahead'
<1>1. CASE ~ HeadersExpected
  BY <1>1, CloseAhead DEF AcceptHeaders, Misbehaves
<1>2. CASE HeadersExpected
  BY <1>2, AcceptHeadersAdds, AddsEarly, ReadAhead DEF Ahead
<1> QED BY <1>1, <1>2

LEMMA AcceptInvTxAhead ==
    ASSUME IndInv, Ahead, ~ Incomplete, AcceptInvTx
    PROVE  Ahead'
<1> DEFINE a == toApp[1].a
           x == Msg("gettx", a)
           s == Send(app, "gettx", a)
<1>0. toApp # <<>> /\ Head(toApp).m = "invtx"
  BY DEF AcceptInvTx, Gets
<1>1. Arg = a /\ a \in Seq(Block) /\ app \in Manager
  BY <1>0, ArrivingIs, GoodIs
<1>2. Taken /\ app' \in {app, s}
  BY <1>1 DEF AcceptInvTx
<1>3. a \in Seq(Nat)
  <2> HIDE DEF a
  <2>1. Len(a) \in Nat /\ \A i \in 1 .. Len(a) : a[i] \in Nat
    BY <1>1, SeqIs, BoundTypes
  <2>2. a = [i \in 1 .. Len(a) |-> a[i]]
    BY <1>1
  <2> QED BY <2>1, <2>2
<1> HIDE DEF a
<1>4. x \in NodeMsg /\ Old(x)
  BY <1>3 DEF Msg, NodeMsg, Old
<1>x. x = Msg("gettx", a)
  OBVIOUS
<1> HIDE DEF x
<1>5. s.toNode = Append(app.toNode, x)
  BY <1>1, <1>4, <1>x, SendIs
<1> HIDE DEF s
<1>6. Early(s)
  BY <1>1, <1>4, <1>5, MoreEarly DEF Ahead
<1>7. Early(app')
  BY <1>2, <1>6 DEF Ahead
<1> QED BY <1>0, <1>2, <1>7, ReadAhead

LEMMA AcceptMerkleblockAhead ==
    ASSUME IndInv, Ahead, ~ Incomplete, AcceptMerkleblock
    PROVE  Ahead'
<1> DEFINE a == toApp[1].a
           h == a[1]
<1>0. toApp # <<>> /\ Head(toApp).m = "merkleblock"
  BY DEF AcceptMerkleblock, Gets
<1>1. /\ Arg = a /\ a \in Seq(Block) /\ app \in Manager
      /\ Formed(toApp[1], top) /\ toApp[1].m = "merkleblock"
  BY <1>0, ArrivingIs, GoodIs
<1>2. Taken /\ (app' = app \/ Relay(app, h))
  BY <1>1 DEF AcceptMerkleblock
<1>3. h \in Block
  <2>1. Len(a) \in {1, 2}
    BY <1>1 DEF Formed
  <2>2. 1 \in DOMAIN a
    BY <1>1, <2>1, SeqIs
  <2> QED BY <1>1, <2>2, SeqIs
<1> HIDE DEF h, a
<1>4. Early(app')
  BY <1>1, <1>2, <1>3, RelayEarly DEF Ahead
<1> QED BY <1>0, <1>2, <1>4, ReadAhead

LEMMA AcceptTxAhead ==
    ASSUME IndInv, Ahead, ~ Incomplete, AcceptTx
    PROVE  Ahead'
<1> DEFINE a == toApp[1].a
           h == a[1]
           s == RelayedTx(app, h)
<1>0. toApp # <<>> /\ Head(toApp).m = "tx"
  BY DEF AcceptTx, Gets
<1>1. /\ Arg = a /\ a \in Seq(Block) /\ app \in Manager
      /\ Formed(toApp[1], top) /\ toApp[1].m = "tx"
  BY <1>0, ArrivingIs, GoodIs
<1>2. Taken /\ (app' = s \/ Relay(s, h))
  BY <1>1 DEF AcceptTx
<1>3. h \in Block
  <2>1. Len(a) = 1
    BY <1>1 DEF Formed
  <2>2. 1 \in DOMAIN a
    BY <1>1, <2>1, SeqIs
  <2> QED BY <1>1, <2>2, SeqIs
<1> HIDE DEF h, a
<1>4. s \in Manager /\ Early(s)
  BY <1>1, <1>3, RelayedTxEarly DEF Ahead
<1> HIDE DEF s
<1>5. Early(app')
  BY <1>2, <1>3, <1>4, RelayEarly
<1> QED BY <1>0, <1>2, <1>5, ReadAhead

LEMMA AcceptPongAhead ==
    ASSUME IndInv, Ahead, ~ Incomplete, AcceptPong
    PROVE  Ahead'
<1> DEFINE D == {"update", "load", "rerequest"}
           e == Tail(app.pongs)
           s == [app EXCEPT !.pongs = e]
<1>0. toApp # <<>> /\ Head(toApp).m = "pong"
  BY DEF AcceptPong, Gets
<1>1. on = TRUE /\ toApp[1].m = "pong" /\ app \in Manager
  BY <1>0, ArrivingIs, GoodIs
<1>2. Sound(app, toApp, looks, knownTx, current, TRUE, top)
  BY <1>1, GoodIs
<1>3. app.pongs \in Seq(D) /\ app.pongs # <<>> /\ Head(app.pongs) \in D
  BY <1>0, <1>1, <1>2, PongIs, ManagerIs
<1>4. e \in Seq(D)
  <2> HIDE DEF D
  <2> QED BY <1>3, TailIs
<1>5. /\ Taken
      /\ app' \in {UpdateFilterPingDone(s), UpdateFilterLoadDone(s), UpdateFilterRerequestDone(s)}
  BY <1>3 DEF AcceptPong
<1> HIDE DEF e
<1>6. s \in Manager /\ Early(s)
  BY <1>1, <1>4 DEF Manager, Ahead, Early
<1> HIDE DEF s
<1>7. Early(app')
  BY <1>5, <1>6, UpdateDoneEarly
<1> QED BY <1>0, <1>5, <1>7, ReadAhead

LEMMA NextAhead ==
    ASSUME IndInv, Ahead, [Next]_vars
    PROVE  Ahead'
<1>1. CASE Connect
  BY <1>1, ConnectAhead
<1>2. CASE Lose
  BY <1>2, CloseAhead DEF Lose
<1>3. CASE TimeOut
  BY <1>3, CloseAhead DEF TimeOut
<1>4. CASE Accept
  <2>1. CASE Incomplete
    BY <1>4, <2>1, CloseAhead DEF Accept, Misbehaves
  <2>2. CASE ~ Incomplete
    BY <1>4, <2>2, AcceptInvAhead, AcceptInvTxAhead, AcceptHeadersAhead, AcceptMerkleblockAhead,
       AcceptTxAhead, AcceptPongAhead DEF Accept
  <2> QED BY <2>1, <2>2
<1>5. CASE NodeAnswers
  BY <1>5, NodeAnswersAhead
<1>6. CASE Mine
  BY <1>6, MineAhead
<1>7. CASE AnnounceTx
  BY <1>7, AnnounceTxAhead
<1>8. CASE UNCHANGED vars
  BY <1>8 DEF Ahead, vars, node
<1> QED BY <1>1, <1>2, <1>3, <1>4, <1>5, <1>6, <1>7, <1>8 DEF Next

LEMMA InitAhead ==
    ASSUME Init
    PROVE  Ahead
<1> DEFINE e == <<>>
<1>1. app.toNode = e /\ toApp = e /\ Key + Batch <= top
  BY SwitchIs DEF Init
<1>2. DOMAIN e = {}
  OBVIOUS
<1> HIDE DEF e
<1> QED BY <1>1, <1>2 DEF Ahead, Early, Complete

\* The headers that the app asks for come in full batches or reach the block from which
\* blocks are downloaded, as no header after the wallet's key time is ever asked for,
\* and a block's transaction comes next: nothing of it is taken for a breach of the
\* protocol, whichever connections are lost and filters updated (BR_Peer.c:461, 813).
THEOREM AnswersTaken == Spec => []AnswersAccepted
<1>1. Init => IndInv /\ Ahead
  BY InitGood, InitAhead
<1>2. IndInv /\ Ahead /\ [Next]_vars => (IndInv /\ Ahead)'
  BY NextGood, NextAhead
<1>3. IndInv /\ Ahead => AnswersAccepted
  <2> SUFFICES ASSUME IndInv, Ahead PROVE AnswersAccepted
    OBVIOUS
  <2>1. ASSUME toApp # <<>> PROVE ~ Incomplete
    <3>1. Head(toApp) = toApp[1]
      BY <2>1, GoodIs, TailIs
    <3>2. current # None => toApp[1].m = "tx"
      BY GoodIs DEF Sound, Paired
    <3> QED BY <2>1, <3>1, <3>2 DEF Incomplete, Gets
  <2>2. ASSUME Gets("headers") PROVE HeadersExpected
    <3>1. toApp # <<>> /\ Head(toApp) = toApp[1] /\ 1 \in DOMAIN toApp /\ toApp[1].m = "headers"
      BY <2>2, GoodIs, TailIs DEF Gets
    <3>2. Arg = toApp[1].a
      BY <3>1 DEF Arg
    <3> QED BY <3>1, <3>2 DEF Ahead, Complete, Reaching, HeadersExpected
  <2> QED BY <2>1, <2>2 DEF AnswersAccepted
<1> QED BY <1>1, <1>2, <1>3, PTL DEF Spec

=============================================================================
