--------------------------- MODULE SendQueueProofs ---------------------------
(***************************************************************************)
(* For any number of packets and lost connections, and however the three    *)
(* queues interleave: first writes are in order, nothing is forgotten, and  *)
(* a sender that waits for the queues to rest has everything written once.  *)
(***************************************************************************)
EXTENDS SendQueue, TLAPS, SequenceTheorems, FiniteSetTheorems, WellFoundedInduction

-----------------------------------------------------------------------------
(* Induction, on sets of numbers                                            *)

\* Finite sets are well ordered by inclusion, so the intervals 0 .. n are.
LEMMA LeastNumber ==
    ASSUME NEW T, T \subseteq Nat, T # {}
    PROVE  \E x \in T : \A y \in T : x <= y
<1> DEFINE F == {0 .. n : n \in T}
<1>1. F \subseteq FiniteSubsetsOf(Nat) /\ F # {}
  <2>1. ASSUME NEW n \in T PROVE 0 .. n \in FiniteSubsetsOf(Nat)
    <3>1. n \in Nat /\ IsFiniteSet(0 .. n) /\ 0 .. n \in SUBSET Nat
      BY FS_Interval
    <3> QED BY <3>1 DEF FiniteSubsetsOf
  <2> QED BY <2>1
<1>2. IsWellFoundedOn(StrictSubsetOrdering(Nat), FiniteSubsetsOf(Nat))
  BY FS_StrictSubsetOrderingWellFounded
<1> HIDE DEF F
<1>3. PICK X \in F : \A Y \in F : ~ (<<Y, X>> \in StrictSubsetOrdering(Nat))
  BY <1>1, <1>2, WFMin
<1>4. PICK x \in T : X = 0 .. x
  BY DEF F
<1>5. ASSUME NEW y \in T, y < x PROVE FALSE
  <2>1. /\ 0 .. y \in F /\ 0 .. y \in SUBSET Nat /\ 0 .. x \in SUBSET Nat
        /\ 0 .. y \subseteq 0 .. x /\ 0 .. y # 0 .. x
    BY <1>5 DEF F
  <2>2. <<0 .. y, X>> \in StrictSubsetOrdering(Nat)
    BY <2>1, <1>4 DEF StrictSubsetOrdering
  <2> QED BY <2>1, <2>2, <1>3
<1> QED BY <1>5

LEMMA SetInduction ==
    ASSUME NEW S, 0 \in S, \A n \in Nat : n \in S => n + 1 \in S
    PROVE  Nat \subseteq S
<1>1. SUFFICES ASSUME Nat \ S # {} PROVE FALSE
  OBVIOUS
<1>2. PICK n \in Nat \ S : \A y \in Nat \ S : n <= y
  BY <1>1, LeastNumber
<1>3. n - 1 \in Nat /\ n - 1 \in S /\ n - 1 + 1 = n
  BY <1>2
<1> QED BY <1>2, <1>3

-----------------------------------------------------------------------------
(* The loop of writeBytes                                                   *)

\* The recursive definition of Without has a solution.
LEMMA WithoutIs ==
    ASSUME NEW s, NEW D, Len(s) \in Nat
    PROVE  \E K : /\ K = [i \in 0 .. Len(s) |->
                            IF i = 0 THEN <<>>
                            ELSE IF s[i] \in D THEN K[i - 1] ELSE Append(K[i - 1], s[i])]
                  /\ Without(s, D) = K[Len(s)]
<1> DEFINE E(g, i) == IF i = 0 THEN <<>>
                      ELSE IF s[i] \in D THEN g[i - 1] ELSE Append(g[i - 1], s[i])
           Upto == {n \in Nat : \E g : g = [i \in 0 .. n |-> E(g, i)]}
<1>1. 0 \in Upto
  <2>1. [i \in 0 .. 0 |-> <<>>] = [i \in 0 .. 0 |-> E([j \in 0 .. 0 |-> <<>>], i)]
    OBVIOUS
  <2> QED BY <2>1
<1>2. ASSUME NEW n \in Nat, n \in Upto PROVE n + 1 \in Upto
  <2>1. PICK g : g = [i \in 0 .. n |-> E(g, i)]
    BY <1>2
  <2> DEFINE h == [i \in 0 .. n + 1 |-> IF i = n + 1 THEN E(g, n + 1) ELSE g[i]]
  <2>2. ASSUME NEW i \in 0 .. n + 1 PROVE h[i] = E(h, i)
    <3>1. CASE i = n + 1
      BY <3>1
    <3>2. CASE i \in 0 .. n
      <4>1. h[i] = g[i] /\ g[i] = E(g, i)
        BY <2>1, <3>2
      <4>2. i # 0 => h[i - 1] = g[i - 1]
        BY <3>2
      <4> QED BY <4>1, <4>2
    <3> QED BY <3>1, <3>2
  <2>3. h = [i \in 0 .. n + 1 |-> E(h, i)]
    <3> HIDE DEF E
    <3>1. h = [i \in 0 .. n + 1 |-> h[i]]
      OBVIOUS
    <3> HIDE DEF h
    <3> QED BY <2>2, <3>1
  <2> HIDE DEF h, E
  <2> QED BY <2>3
<1>3. Len(s) \in Upto
  <2> HIDE DEF Upto
  <2> QED BY <1>1, <1>2, SetInduction
<1>4. PICK g : g = [i \in 0 .. Len(s) |-> E(g, i)]
  BY <1>3
<1> DEFINE K == CHOOSE k : k = [i \in 0 .. Len(s) |-> E(k, i)]
<1>5. K = [i \in 0 .. Len(s) |-> E(K, i)]
  BY <1>4
<1>6. Without(s, D) = K[Len(s)]
  BY Zenon DEF Without
<1> HIDE DEF K
<1> QED BY <1>5, <1>6
\* What it leaves: the elements not to be removed, in their order.
Increasing(s) == \A i, j \in DOMAIN s : i < j => s[i] < s[j]
LEMMA WithoutLeaves ==
    ASSUME NEW s \in Seq(Nat), Increasing(s), NEW D
    PROVE  /\ Without(s, D) \in Seq(Nat) /\ Increasing(Without(s, D))
           /\ \A k \in DOMAIN Without(s, D) :
                 \E i \in DOMAIN s : s[i] = Without(s, D)[k] /\ s[i] \notin D
           /\ \A i \in DOMAIN s : s[i] \notin D => \E k \in DOMAIN Without(s, D) : Without(s, D)[k] = s[i]
<1>s. Len(s) \in Nat /\ DOMAIN s = 1 .. Len(s) /\ \A i \in 1 .. Len(s) : s[i] \in Nat
  BY LenProperties, ElementOfSeq
<1>1. PICK K : /\ K = [i \in 0 .. Len(s) |->
                         IF i = 0 THEN <<>>
                         ELSE IF s[i] \in D THEN K[i - 1] ELSE Append(K[i - 1], s[i])]
               /\ Without(s, D) = K[Len(s)]
  BY <1>s, WithoutIs
<1> DEFINE Leaves(u, n) ==
             /\ u \in Seq(Nat) /\ Increasing(u)
             /\ \A k \in DOMAIN u : \E i \in 1 .. n : s[i] = u[k] /\ s[i] \notin D
             /\ \A i \in 1 .. n : s[i] \notin D => \E k \in DOMAIN u : u[k] = s[i]
           Upto == {n \in Nat : n <= Len(s) => Leaves(K[n], n)}
<1>2. 0 \in Upto
  <2>1. K[0] = <<>>
    BY <1>1, <1>s
  <2>2. <<>> \in Seq(Nat) /\ DOMAIN <<>> = {}
    BY EmptySeq
  <2> DEFINE u == K[0]
  <2>3. u \in Seq(Nat) /\ DOMAIN u = {}
    BY <2>1, <2>2
  <2> HIDE DEF u
  <2>4. Leaves(u, 0)
    BY <2>3 DEF Increasing
  <2> QED BY <2>4 DEF u
<1>3. ASSUME NEW n \in Nat, n \in Upto PROVE n + 1 \in Upto
  <2> SUFFICES ASSUME n + 1 <= Len(s) PROVE Leaves(K[n + 1], n + 1)
    OBVIOUS
  <2>1. Leaves(K[n], n) /\ n + 1 \in 1 .. Len(s) /\ n + 1 \in 0 .. Len(s) /\ n + 1 - 1 = n
    BY <1>3, <1>s
  <2>2. K[n + 1] = IF s[n + 1] \in D THEN K[n] ELSE Append(K[n], s[n + 1])
    <3>1. \A i \in 0 .. Len(s) :
             K[i] = IF i = 0 THEN <<>>
                    ELSE IF s[i] \in D THEN K[i - 1] ELSE Append(K[i - 1], s[i])
      BY <1>1, Zenon
    <3> DEFINE m == n + 1
    <3>2. m \in 0 .. Len(s) /\ m # 0 /\ m - 1 = n
      BY <2>1
    <3> HIDE DEF m, Leaves, Upto
    <3>3. K[m] = IF s[m] \in D THEN K[m - 1] ELSE Append(K[m - 1], s[m])
      BY <3>1, <3>2
    <3> QED BY <3>2, <3>3 DEF m
  <2>3. \A i \in 1 .. n + 1 : i \in 1 .. n \/ i = n + 1
    OBVIOUS
  <2>4. CASE s[n + 1] \in D
    <3>1. K[n + 1] = K[n]
      BY <2>2, <2>4
    <3>2. \A i \in 1 .. n : i \in 1 .. n + 1
      OBVIOUS
    <3> QED BY <2>1, <2>3, <2>4, <3>1, <3>2
  <2>5. CASE s[n + 1] \notin D
    <3> DEFINE u == K[n]
               w == Append(u, s[n + 1])
    <3>1. K[n + 1] = w
      BY <2>2, <2>5
    <3>2. /\ u \in Seq(Nat) /\ Increasing(u) /\ Len(u) \in Nat /\ DOMAIN u = 1 .. Len(u)
          /\ \A k \in DOMAIN u : \E i \in 1 .. n : s[i] = u[k] /\ s[i] \notin D
          /\ \A i \in 1 .. n : s[i] \notin D => \E k \in DOMAIN u : u[k] = s[i]
      BY <2>1, LenProperties
    <3>3. s[n + 1] \in Nat
      BY <1>s, <2>1
    <3> HIDE DEF u
    <3>4. /\ w \in Seq(Nat) /\ DOMAIN w = 1 .. Len(u) + 1 /\ w[Len(u) + 1] = s[n + 1]
          /\ \A k \in 1 .. Len(u) : w[k] = u[k]
      BY <3>2, <3>3, AppendProperties, LenProperties
    <3> HIDE DEF w
    <3>5. \A k \in DOMAIN u : u[k] < s[n + 1]
      <4> TAKE k \in DOMAIN u
      <4>1. PICK i \in 1 .. n : s[i] = u[k]
        BY <3>2
      <4>2. i \in DOMAIN s /\ n + 1 \in DOMAIN s /\ i < n + 1
        BY <1>s, <2>1
      <4>3. s[i] < s[n + 1]
        BY <4>2 DEF Increasing
      <4> QED BY <4>1, <4>3
    <3>6. Increasing(w)
      <4> SUFFICES ASSUME NEW i \in DOMAIN w, NEW j \in DOMAIN w, i < j PROVE w[i] < w[j]
        BY DEF Increasing
      <4>i. i \in 1 .. Len(u)
        BY <3>2, <3>4
      <4>1. i \in DOMAIN u /\ w[i] = u[i]
        BY <4>i, <3>2, <3>4
      <4>2. CASE j = Len(u) + 1
        BY <4>1, <4>2, <3>4, <3>5
      <4>3. CASE j \in DOMAIN u
        BY <4>1, <4>3, <3>2, <3>4 DEF Increasing
      <4> QED BY <4>2, <4>3, <3>2, <3>4
    <3>7. ASSUME NEW k \in DOMAIN w PROVE \E i \in 1 .. n + 1 : s[i] = w[k] /\ s[i] \notin D
      <4>1. CASE k = Len(u) + 1
        BY <4>1, <2>5, <3>4
      <4>2. CASE k \in 1 .. Len(u)
        <5>1. PICK i \in 1 .. n : s[i] = u[k] /\ s[i] \notin D
          BY <4>2, <3>2
        <5> QED BY <4>2, <5>1, <3>4
      <4> QED BY <4>1, <4>2, <3>2, <3>4
    <3>8. ASSUME NEW i \in 1 .. n + 1, s[i] \notin D PROVE \E k \in DOMAIN w : w[k] = s[i]
      <4>1. CASE i = n + 1
        <5>1. Len(u) + 1 \in DOMAIN w
          BY <3>2, <3>4
        <5> QED BY <4>1, <5>1, <3>4
      <4>2. CASE i \in 1 .. n
        <5>1. PICK k \in DOMAIN u : u[k] = s[i]
          BY <4>2, <3>2, <3>8, Zenon
        <5>2. k \in 1 .. Len(u)
          BY <3>2
        <5>3. k \in DOMAIN w /\ w[k] = u[k]
          BY <3>2, <3>4, <5>2
        <5> QED BY <5>1, <5>3
      <4> QED BY <4>1, <4>2, <2>3
    <3> QED BY <3>1, <3>4, <3>6, <3>7, <3>8
  <2> QED BY <2>4, <2>5
<1>4. Len(s) \in Upto
  <2> HIDE DEF Upto
  <2> QED BY <1>2, <1>3, <1>s, SetInduction
<1>5. Leaves(Without(s, D), Len(s))
  <2> HIDE DEF Leaves
  <2>1. Leaves(K[Len(s)], Len(s))
    BY <1>4, <1>s
  <2> QED BY <1>1, <2>1
<1> QED BY <1>5, <1>s

LEMMA WithoutKeeps ==
    ASSUME NEW s \in Seq(Nat), Increasing(s), NEW D, NEW u, u = Without(s, D)
    PROVE  \A i \in DOMAIN s : s[i] \notin D => \E k \in DOMAIN u : u[k] = s[i]
<1>1. \A i \in DOMAIN s : s[i] \notin D => \E k \in DOMAIN Without(s, D) : Without(s, D)[k] = s[i]
  BY WithoutLeaves
<1> QED BY <1>1

-----------------------------------------------------------------------------
(* Queues of blocks                                                         *)

In(b, q) == \E i \in DOMAIN q : q[i] = b
Once(b, q) == \A i, j \in DOMAIN q : q[i] = b /\ q[j] = b => i = j
Before(b, c, q) == \A i, j \in DOMAIN q : q[i] = b /\ q[j] = c => i < j

LEMMA AppendBlock ==
    ASSUME NEW S, NEW q \in Seq(S), NEW b \in S
    PROVE  /\ Append(q, b) \in Seq(S)
           /\ \A x : In(x, Append(q, b)) <=> In(x, q) \/ x = b
           /\ \A x : Once(x, q) /\ (x = b => ~ In(x, q)) => Once(x, Append(q, b))
           /\ \A x, y : Before(x, y, q) /\ (x = b => ~ In(y, q) /\ x # y) => Before(x, y, Append(q, b))
<1> DEFINE w == Append(q, b)
<1>1. /\ w \in Seq(S) /\ Len(q) \in Nat /\ DOMAIN q = 1 .. Len(q) /\ DOMAIN w = 1 .. Len(q) + 1
      /\ w[Len(q) + 1] = b /\ \A i \in 1 .. Len(q) : w[i] = q[i]
  BY AppendProperties, LenProperties
<1> HIDE DEF w
<1>2. \A i \in DOMAIN w : (i = Len(q) + 1 /\ w[i] = b) \/ (i \in DOMAIN q /\ w[i] = q[i])
  BY <1>1
<1>3. ASSUME NEW x PROVE In(x, w) <=> In(x, q) \/ x = b
  BY <1>1, <1>2 DEF In
<1>4. ASSUME NEW x, Once(x, q), x = b => ~ In(x, q) PROVE Once(x, w)
  BY <1>2, <1>4 DEF Once, In
<1>5. ASSUME NEW x, NEW y, Before(x, y, q), x = b => ~ In(y, q) /\ x # y PROVE Before(x, y, w)
  BY <1>1, <1>2, <1>5 DEF Before, In
<1> QED BY <1>1, <1>3, <1>4, <1>5 DEF w

LEMMA TailBlock ==
    ASSUME NEW S, NEW q \in Seq(S), q # <<>>
    PROVE  /\ Tail(q) \in Seq(S)
           /\ \A x : In(x, q) <=> In(x, Tail(q)) \/ x = Head(q)
           /\ \A x : Once(x, q) => Once(x, Tail(q)) /\ (x = Head(q) => ~ In(x, Tail(q)))
           /\ \A x, y : Before(x, y, q) => Before(x, y, Tail(q)) /\ (y = Head(q) => ~ In(x, Tail(q)))
<1> DEFINE w == Tail(q)
<1>1. /\ w \in Seq(S) /\ Len(q) \in Nat /\ Len(q) > 0 /\ DOMAIN q = 1 .. Len(q)
      /\ DOMAIN w = 1 .. Len(q) - 1
      /\ Head(q) = q[1] /\ \A i \in 1 .. Len(q) - 1 : w[i] = q[i + 1]
  BY HeadTailProperties, LenProperties, EmptySeq
<1> HIDE DEF w
<1>2. \A i \in DOMAIN w : i + 1 \in DOMAIN q /\ w[i] = q[i + 1]
  BY <1>1
<1>3. \A j \in DOMAIN q : j = 1 \/ (j - 1 \in DOMAIN w /\ w[j - 1] = q[j])
  BY <1>1
<1>4. ASSUME NEW x PROVE In(x, q) <=> In(x, w) \/ x = Head(q)
  <2>1. 1 \in DOMAIN q
    BY <1>1
  <2>2. ASSUME NEW j \in DOMAIN q, q[j] = x PROVE In(x, w) \/ x = Head(q)
    BY <1>1, <1>3, <2>2 DEF In
  <2>3. In(x, w) => In(x, q)
    BY <1>2 DEF In
  <2> QED BY <1>1, <2>1, <2>2, <2>3 DEF In
<1>5. ASSUME NEW x, Once(x, q) PROVE Once(x, w) /\ (x = Head(q) => ~ In(x, w))
  BY <1>1, <1>2, <1>5 DEF Once, In
<1>6. ASSUME NEW x, NEW y, Before(x, y, q)
      PROVE  Before(x, y, w) /\ (y = Head(q) => ~ In(x, w))
  BY <1>1, <1>2, <1>6 DEF Before, In
<1> QED BY <1>1, <1>4, <1>5, <1>6 DEF w
LEMMA ConcatBlocks ==
    ASSUME NEW S, NEW q \in Seq(S), NEW w \in Seq(S)
    PROVE  /\ q \o w \in Seq(S) /\ Len(q \o w) = Len(q) + Len(w)
           /\ \A x : In(x, q \o w) <=> In(x, q) \/ In(x, w)
           /\ \A x : Once(x, q) /\ Once(x, w) /\ ~ (In(x, q) /\ In(x, w)) => Once(x, q \o w)
           /\ \A x, y : Before(x, y, q) /\ Before(x, y, w) /\ ~ (In(y, q) /\ In(x, w))
                            => Before(x, y, q \o w)
<1> DEFINE c == q \o w
<1>1. /\ c \in Seq(S) /\ Len(q) \in Nat /\ Len(w) \in Nat /\ Len(c) = Len(q) + Len(w)
      /\ DOMAIN q = 1 .. Len(q) /\ DOMAIN w = 1 .. Len(w) /\ DOMAIN c = 1 .. Len(c)
      /\ \A i \in 1 .. Len(c) : c[i] = IF i <= Len(q) THEN q[i] ELSE w[i - Len(q)]
  BY ConcatProperties, LenProperties
<1> HIDE DEF c
<1>2. \A i \in DOMAIN q : i \in DOMAIN c /\ c[i] = q[i]
  BY <1>1
<1>3. \A i \in DOMAIN w : i + Len(q) \in DOMAIN c /\ c[i + Len(q)] = w[i]
  BY <1>1
<1>4. \A i \in DOMAIN c : \/ i \in DOMAIN q /\ c[i] = q[i]
                          \/ i > Len(q) /\ i - Len(q) \in DOMAIN w /\ c[i] = w[i - Len(q)]
  BY <1>1
<1>5. ASSUME NEW x PROVE In(x, c) <=> In(x, q) \/ In(x, w)
  BY <1>2, <1>3, <1>4 DEF In
<1>6. ASSUME NEW x, Once(x, q), Once(x, w), ~ (In(x, q) /\ In(x, w)) PROVE Once(x, c)
  <2> SUFFICES ASSUME NEW i \in DOMAIN c, NEW j \in DOMAIN c, c[i] = x, c[j] = x PROVE i = j
    BY DEF Once
  <2>1. CASE i \in DOMAIN q /\ j \in DOMAIN q
    BY <2>1, <1>2, <1>6 DEF Once
  <2>2. CASE i \notin DOMAIN q /\ j \notin DOMAIN q
    <3>1. i - Len(q) = j - Len(q)
      BY <2>2, <1>4, <1>6 DEF Once
    <3> QED BY <3>1, <1>1
  <2>3. CASE (i \in DOMAIN q) # (j \in DOMAIN q)
    BY <2>3, <1>2, <1>4, <1>6 DEF In
  <2> QED BY <2>1, <2>2, <2>3
<1>7. ASSUME NEW x, NEW y, Before(x, y, q), Before(x, y, w), ~ (In(y, q) /\ In(x, w))
      PROVE  Before(x, y, c)
  <2> SUFFICES ASSUME NEW i \in DOMAIN c, NEW j \in DOMAIN c, c[i] = x, c[j] = y PROVE i < j
    BY DEF Before
  <2>1. CASE i \in DOMAIN q /\ j \in DOMAIN q
    BY <2>1, <1>2, <1>7 DEF Before
  <2>2. CASE i \notin DOMAIN q /\ j \notin DOMAIN q
    <3>1. i - Len(q) < j - Len(q)
      BY <2>2, <1>4, <1>7 DEF Before
    <3> QED BY <3>1, <1>1
  <2>3. CASE i \in DOMAIN q /\ j \notin DOMAIN q
    BY <2>3, <1>1, <1>4
  <2>4. CASE i \notin DOMAIN q /\ j \in DOMAIN q
    BY <2>4, <1>2, <1>4, <1>7 DEF In
  <2> QED BY <2>1, <2>2, <2>3, <2>4
<1> QED BY <1>1, <1>5, <1>6, <1>7 DEF c

-----------------------------------------------------------------------------
(* The state                                                                *)

Blocks == {"ready", "flush", "closed", "connected"}
AnyStep == [step : {"purge", "clear", "append", "ready", "reset"}, request : Nat]

Shape ==
    /\ spaced \in BOOLEAN
    /\ trans \in Seq(Nat) /\ toDelete \subseteq Nat
    /\ flag \in BOOLEAN /\ link \in Links /\ connected \in BOOLEAN
    /\ net \in Seq(AnyStep) /\ nm \in Seq(Blocks)
    /\ conn \in Nat /\ index \in Nat /\ mutated \in BOOLEAN /\ crashed \in BOOLEAN
    /\ wire \in Seq(Nat) /\ since \in Nat /\ made \in Nat
    /\ sends \in 0 .. MaxSends /\ downs \in 0 .. DownsBound

\* What the manager's queue still has to do tells where the connection is, and
\* the flag what of it is a flush.
Life ==
    /\ link = "closed" <=> In("closed", nm)
    /\ Once("closed", nm) /\ Once("connected", nm) /\ Once("flush", nm)
    /\ Before("connected", "closed", nm)
    /\ In("connected", nm) => link \in {"open", "closed"} /\ ~ connected
    /\ connected => link \in {"open", "closed"}
    /\ link = "connecting" \/ In("connected", nm) => conn = 0 /\ index = 0 /\ wire = <<>>
    /\ flag <=> In("flush", nm)

\* Each packet makes two requests, and so does each connection that comes up,
\* which is one per connection lost.
Counted ==
    made <= 2 * (sends + downs - (IF In("connected", nm) THEN 1 ELSE 0)
                               - (IF link = "open" THEN 0 ELSE 1))

\* Requests are numbered as they are made; transArray has them in that order,
\* before those netQueue has still to add, and a reset drops only older ones.
InOrder(q) ==
    /\ \A i \in DOMAIN q : q[i].request <= made
    /\ \A r \in Nat : In(Step("append", r), q) =>
          r > 0 /\ Once(Step("append", r), q) /\ \A i \in DOMAIN trans : trans[i] < r
    /\ \A r \in Nat : In(Step("reset", r), q) =>
          since <= r /\ \A i \in DOMAIN trans : trans[i] <= r
    /\ \A r, s \in Nat : s < r =>
          /\ Before(Step("append", s), Step("append", r), q)
          /\ Before(Step("reset", s), Step("append", r), q)
          /\ Before(Step("reset", s), Step("reset", r), q)
Requested ==
    /\ Increasing(trans) /\ since <= made /\ toDelete \subseteq 1 .. made
    /\ (\A i \in DOMAIN trans : trans[i] \in 1 .. made) /\ \A i \in DOMAIN wire : wire[i] \in 1 .. made
    /\ InOrder(net) /\ (net # <<>> => net[Len(net)].step = "ready")

\* A request made since the last reset, done or to come.
Recent(r) == r > since /\ \A b \in Nat : In(Step("reset", b), net) => r > b

\* The connection has come up, and what has been made since is in transArray,
\* or on its way there, until it is on the wire.
Up == link \in {"open", "closed"} /\ ~ In("connected", nm)
Ordered ==
    \A k \in DOMAIN wire : Recent(wire[k] - 1) => \E j \in 1 .. k - 1 : wire[j] = wire[k] - 1
Remembered ==
    /\ \A r \in 1 .. made : Recent(r) => In(Step("append", r), net) \/ In(r, trans) \/ In(r, wire)
    /\ \A r \in toDelete : Recent(r) => In(r, wire)
    /\ index # 0 /\ ~ mutated =>
         \A i \in DOMAIN trans : i < index /\ Recent(trans[i]) => In(trans[i], wire)

\* A walk over transArray is to come, or the one that runs has not passed the
\* request, unless that is written.
Coming == net # <<>> \/ In("ready", nm) \/ In("flush", nm) \/ conn > 0
Served ==
    /\ index # 0 /\ mutated => Coming
    /\ \A i \in DOMAIN trans :
          Recent(trans[i]) => In(trans[i], wire) \/ Coming \/ (index # 0 /\ i >= index)

Session ==
    /\ Up => Ordered
    /\ Up /\ link = "open" => Remembered
    /\ Up /\ link = "open" /\ connected /\ ~ crashed => Served

\* When packets are spaced the queues hold one packet at a time: its steps on
\* netQueue, counted from the last one, then its block on the manager's queue,
\* then on the connection's.
AtRest == net = <<>> /\ ~ In("ready", nm) /\ ~ In("flush", nm) /\ conn = 0 /\ index = 0
Todo(n) ==
    CASE n = 1 -> Step("ready", 0) [] n = 2 -> Step("append", made)
      [] n = 3 -> Step("clear", 0) [] n = 4 -> Step("purge", 0)
      [] n = 5 -> Step("append", made - 1) [] n = 6 -> Step("clear", 0)
      [] n = 7 -> Step("purge", 0) [] n = 8 -> Step("reset", made - 2)
OfPacket == Len(net) <= 8 /\ \A i \in DOMAIN net : net[i] = Todo(Len(net) + 1 - i)
OneAtATime ==
    /\ OfPacket
    /\ net # <<>> => ~ In("ready", nm) /\ ~ In("flush", nm) /\ conn = 0 /\ index = 0
    /\ In("ready", nm) => Once("ready", nm) /\ ~ In("flush", nm) /\ conn = 0 /\ index = 0
    /\ In("flush", nm) => conn = 0 /\ index = 0
    /\ conn <= 1 /\ (conn = 1 => index = 0)
    /\ In("connected", nm) => AtRest

\* How far the packet has come: what is on the wire, and in the two arrays.
Wrote(n) == n >= since /\ Len(wire) = n - since /\ \A k \in 1 .. n - since : wire[k] = since + k
Both == Len(trans) = 2 /\ trans[1] = made - 1 /\ trans[2] = made
Posted == In("ready", nm) \/ In("flush", nm) \/ conn > 0
Progress ==
    /\ AtRest => Wrote(made) /\ \A i \in DOMAIN trans : trans[i] \in toDelete
    /\ Len(net) = 8 => wire = <<>>
    /\ Len(net) \in 1 .. 7 \/ Posted => Wrote(made - 2)
    /\ Len(net) = 7 => \A i \in DOMAIN trans : trans[i] \in toDelete
    /\ Len(net) \in {5, 6} => trans = <<>>
    /\ Len(net) \in 1 .. 5 \/ Posted => toDelete = {}
    /\ Len(net) \in {2, 3, 4} => Len(trans) = 1 /\ trans[1] = made - 1
    /\ Len(net) = 1 \/ Posted \/ index > 0 => Both
    /\ index > 0 => /\ index <= 3 /\ Wrote(made - 3 + index)
                    /\ toDelete = {made - 2 + i : i \in 1 .. index - 1}
InStep == Up /\ link = "open" /\ connected
Spaced == spaced => OneAtATime /\ (InStep => Progress)
-----------------------------------------------------------------------------
(* Each part of the invariant is kept                                       *)

LEMMA NetTail ==
    ASSUME Shape, NEW s \in {"purge", "clear", "append", "ready", "reset"}, NetStep(s)
    PROVE  /\ net # <<>> /\ net' = Tail(net) /\ net' \in Seq(AnyStep)
           /\ Len(net') = Len(net) - 1 /\ Len(net) \in Nat \ {0}
           /\ \A i \in 1 .. Len(net) - 1 : net'[i] = net[i + 1]
           /\ Head(net) = net[1] /\ Head(net).request \in Nat
           /\ Head(net) = Step(s, Head(net).request)
<1>1. /\ net \in Seq(AnyStep) /\ net # <<>> /\ net' = Tail(net) /\ Head(net).step = s
  BY DEF Shape, NetStep
<1>2. /\ Tail(net) \in Seq(AnyStep) /\ Len(Tail(net)) = Len(net) - 1 /\ Len(net) \in Nat \ {0}
      /\ \A i \in 1 .. Len(net) - 1 : Tail(net)[i] = net[i + 1]
      /\ Head(net) = net[1] /\ Head(net) \in AnyStep
  BY <1>1, HeadTailProperties, LenProperties, EmptySeq
<1>3. Head(net).request \in Nat /\ Head(net) = [step |-> s, request |-> Head(net).request]
  BY <1>1, <1>2 DEF AnyStep
<1> QED BY <1>1, <1>2, <1>3 DEF Step

\* The steps of a packet.
LEMMA SevenSteps ==
    ASSUME made \in Nat
    PROVE  /\ SendDataSteps \in Seq(AnyStep) /\ Len(SendDataSteps) = 7
           /\ SendDataSteps[1] = Step("purge", 0) /\ SendDataSteps[2] = Step("clear", 0)
           /\ SendDataSteps[3] = Step("append", made + 1)
           /\ SendDataSteps[4] = Step("purge", 0) /\ SendDataSteps[5] = Step("clear", 0)
           /\ SendDataSteps[6] = Step("append", made + 2) /\ SendDataSteps[7] = Step("ready", 0)
<1>1. ASSUME NEW r \in Nat
      PROVE  /\ WriteBytes(r) \in Seq(AnyStep) /\ Len(WriteBytes(r)) = 3
             /\ WriteBytes(r)[1] = Step("purge", 0) /\ WriteBytes(r)[2] = Step("clear", 0)
             /\ WriteBytes(r)[3] = Step("append", r)
  BY DEF WriteBytes, Step, AnyStep
<1>2. /\ <<Step("ready", 0)>> \in Seq(AnyStep) /\ Len(<<Step("ready", 0)>>) = 1
      /\ <<Step("ready", 0)>>[1] = Step("ready", 0)
  BY DEF Step, AnyStep
<1>3. PICK a \in Seq(AnyStep) : a = WriteBytes(made + 1)
  BY <1>1
<1>4. PICK b \in Seq(AnyStep) : b = WriteBytes(made + 2)
  BY <1>1
<1>5. PICK c \in Seq(AnyStep) : c = <<Step("ready", 0)>>
  BY <1>2
<1>6. PICK d \in Seq(AnyStep) : d = a \o b
  BY ConcatProperties
<1>7. /\ Len(d) = 6
      /\ d[1] = a[1] /\ d[2] = a[2] /\ d[3] = a[3] /\ d[4] = b[1] /\ d[5] = b[2] /\ d[6] = b[3]
  <2>1. Len(a) = 3 /\ Len(b) = 3
    BY <1>1, <1>3, <1>4
  <2>2. /\ Len(d) = Len(a) + Len(b)
        /\ \A i \in 1 .. Len(a) + Len(b) : d[i] = IF i <= Len(a) THEN a[i] ELSE b[i - Len(a)]
    BY <1>6, ConcatProperties
  <2> QED BY <2>1, <2>2
<1>8. /\ SendDataSteps = d \o c /\ SendDataSteps \in Seq(AnyStep) /\ Len(SendDataSteps) = 7
      /\ \A i \in 1 .. 7 : SendDataSteps[i] = IF i <= 6 THEN d[i] ELSE c[i - 6]
  <2>1. SendDataSteps = d \o c
    BY <1>3, <1>4, <1>5, <1>6 DEF SendDataSteps
  <2>2. Len(c) = 1 /\ Len(d) = 6
    BY <1>2, <1>5, <1>7
  <2>3. /\ d \o c \in Seq(AnyStep) /\ Len(d \o c) = Len(d) + Len(c)
        /\ \A i \in 1 .. Len(d) + Len(c) : (d \o c)[i] = IF i <= Len(d) THEN d[i] ELSE c[i - Len(d)]
    BY ConcatProperties
  <2> HIDE DEF SendDataSteps
  <2> QED BY <2>1, <2>2, <2>3
<1>9. /\ a[1] = Step("purge", 0) /\ a[2] = Step("clear", 0) /\ a[3] = Step("append", made + 1)
      /\ b[1] = Step("purge", 0) /\ b[2] = Step("clear", 0) /\ b[3] = Step("append", made + 2)
      /\ c[1] = Step("ready", 0)
  BY <1>1, <1>2, <1>3, <1>4, <1>5
<1>10. /\ SendDataSteps[1] = d[1] /\ SendDataSteps[2] = d[2] /\ SendDataSteps[3] = d[3]
       /\ SendDataSteps[4] = d[4] /\ SendDataSteps[5] = d[5] /\ SendDataSteps[6] = d[6]
       /\ SendDataSteps[7] = c[1]
  BY <1>8
<1> QED BY <1>7, <1>8, <1>9, <1>10

\* Types.
LEMMA ShapeKept ==
    ASSUME Shape, Requested, Next
    PROVE  Shape'
<1>a. ASSUME NEW b \in Blocks PROVE Append(nm, b) \in Seq(Blocks)
  BY AppendBlock DEF Shape
<1>t. nm # <<>> => Tail(nm) \in Seq(Blocks)
  BY TailBlock DEF Shape
<1>s. net \o SendDataSteps \in Seq(AnyStep)
  BY SevenSteps, ConcatProperties DEF Shape
<1>w. /\ trans \in Seq(Nat) /\ wire \in Seq(Nat) /\ DOMAIN trans = 1 .. Len(trans)
      /\ DownsBound' = DownsBound /\ DownsBound \in Nat
  <2>1. DownsBound' = DownsBound
    BY DEF Next, SendData, ConnectionStopping, ConnectionCloses, ConnectionForgotten,
       ConnectionCreated, ConnectionOpening, DidConnect, ConnectionUp, PurgeWritten, ClearWritten,
       AddRequest, SetReadyForRequest, Reset, Ready, Flush, BeginWriting, WriteRequest, EndWriting,
       RaiseMutation, NetStep, Untouched, DownsBound
  <2> QED BY <2>1, LenProperties, SendBounds DEF Shape, DownsBound
<1>1. CASE SendData
  BY <1>1, <1>s, <1>w, SendBounds DEF Shape, SendData, arrays, writer
<1>2. CASE ConnectionStopping \/ ConnectionForgotten \/ ConnectionCreated \/ ConnectionOpening
  BY <1>2, <1>t, <1>w, EmptySeq DEF Shape, ConnectionStopping, ConnectionForgotten,
     ConnectionCreated, ConnectionOpening, ManagerBlock, Untouched, arrays, Links
<1>3. CASE ConnectionCloses \/ DidConnect
  <2>1. nm' \in Seq(Blocks) /\ link' \in Links
    BY <1>3, <1>a DEF ConnectionCloses, DidConnect, Links, Blocks
  <2>2. downs' \in 0 .. DownsBound
    <3>1. /\ downs' = downs \/ (downs' = downs + 1 /\ downs < DownsBound)
          /\ downs \in 0 .. DownsBound
      BY <1>3 DEF ConnectionCloses, DidConnect, Shape
    <3> QED BY <1>w, <3>1
  <2>3. UNCHANGED <<spaced, arrays, flag, conn, index, mutated, crashed, since, sends, connected, net, wire, made>>
    BY <1>3 DEF ConnectionCloses, DidConnect, Untouched
  <2> QED BY <1>w, <2>1, <2>2, <2>3, Zenon DEF Shape, arrays
<1>4. CASE ConnectionUp
  <2>1. (net \o <<Step("reset", made)>>) \o SendDataSteps \in Seq(AnyStep)
    <3>1. <<Step("reset", made)>> \in Seq(AnyStep)
      BY DEF Step, AnyStep, Shape
    <3> QED BY <3>1, SevenSteps, ConcatProperties DEF Shape
  <2>2. net' \in Seq(AnyStep) /\ nm' \in Seq(Blocks) /\ made' \in Nat /\ connected' \in BOOLEAN
    BY <1>4, <1>t, <2>1 DEF Shape, ConnectionUp, ManagerBlock
  <2>3. UNCHANGED <<spaced, arrays, flag, conn, index, mutated, crashed, since, sends, link, wire, downs>>
    BY <1>4 DEF ConnectionUp, Untouched
  <2> QED BY <1>w, <2>2, <2>3, Zenon DEF Shape, arrays
<1>5. CASE PurgeWritten \/ ClearWritten \/ AddRequest \/ SetReadyForRequest \/ Reset
  <2>1. net' \in Seq(AnyStep) /\ Head(net).request \in Nat
    BY <1>5, NetTail DEF PurgeWritten, ClearWritten, AddRequest, SetReadyForRequest, Reset
  <2>2. trans' \in Seq(Nat)
    <3>1. Unwritten \in Seq(Nat)
      BY <1>w, WithoutLeaves DEF Unwritten, Requested
    <3>2. Append(trans, Head(net).request) \in Seq(Nat)
      BY <1>w, <2>1, AppendProperties
    <3>3. <<>> \in Seq(Nat)
      BY EmptySeq
    <3>4. trans' \in {Unwritten, trans, Append(trans, Head(net).request), <<>>}
      BY <1>5 DEF PurgeWritten, ClearWritten, AddRequest, SetReadyForRequest, Reset, arrays
    <3> QED BY <1>w, <3>1, <3>2, <3>3, <3>4
  <2>3. mutated' \in BOOLEAN
    BY <1>5 DEF PurgeWritten, ClearWritten, AddRequest, SetReadyForRequest, Reset, Disturb, Shape
  <2>4. nm' \in Seq(Blocks)
    BY <1>5, <1>a DEF PurgeWritten, ClearWritten, AddRequest, SetReadyForRequest, Reset, Shape, Blocks
  <2>5. toDelete' \subseteq Nat /\ since' \in Nat
    BY <1>5, <2>1 DEF PurgeWritten, ClearWritten, AddRequest, SetReadyForRequest, Reset, Shape, arrays
  <2>6. UNCHANGED <<spaced, flag, link, connected, conn, index, crashed, wire, counters>>
    BY <1>5 DEF PurgeWritten, ClearWritten, AddRequest, SetReadyForRequest, Reset, NetStep
  <2> QED BY <1>w, <2>1, <2>2, <2>3, <2>4, <2>5, <2>6 DEF Shape, counters
<1>6. CASE Ready \/ Flush
  <2>1. nm' \in Seq(Blocks)
    <3>1. nm # <<>> => Append(Tail(nm), "flush") \in Seq(Blocks)
      BY <1>t, AppendBlock DEF Blocks
    <3> QED BY <1>6, <1>t, <3>1 DEF Ready, Flush
  <2>f. flag' \in BOOLEAN
    BY <1>6, Zenon DEF Ready, Flush, Shape
  <2>2. conn' \in Nat
    <3>1. conn' \in {conn, conn + 1}
      BY <1>6, Zenon DEF Ready, Flush, writer
    <3> QED BY <3>1 DEF Shape
  <2>3. UNCHANGED <<spaced, arrays, link, connected, net, index, mutated, crashed, wire, since, counters>>
    BY <1>6 DEF Ready, Flush, writer
  <2> QED BY <1>w, <2>1, <2>f, <2>2, <2>3 DEF Shape, arrays, counters
<1>7. CASE BeginWriting \/ EndWriting \/ RaiseMutation
  <2>b. mutated' \in BOOLEAN /\ crashed' \in BOOLEAN
    BY <1>7, Zenon DEF BeginWriting, EndWriting, RaiseMutation, Shape
  <2>1. conn' \in Nat /\ index' \in Nat
    BY <1>7 DEF BeginWriting, EndWriting, RaiseMutation, Shape
  <2>2. UNCHANGED <<spaced, arrays, flag, link, connected, net, nm, wire, since, counters>>
    BY <1>7 DEF BeginWriting, EndWriting, RaiseMutation
  <2> QED BY <1>w, <2>1, <2>b, <2>2 DEF Shape, arrays, counters
<1>8. CASE WriteRequest
  <2>1. trans[index] \in Nat
    BY <1>8, <1>w, ElementOfSeq DEF WriteRequest
  <2>2. Append(wire, trans[index]) \in Seq(Nat)
    BY <1>w, <2>1, AppendProperties
  <2>3. wire' = wire \/ wire' = Append(wire, trans[index])
    BY <1>8 DEF WriteRequest
  <2>4. toDelete' = toDelete \/ toDelete' = toDelete \cup {trans[index]}
    BY <1>8 DEF WriteRequest
  <2>5. wire' \in Seq(Nat) /\ toDelete' \subseteq Nat /\ index' \in Nat
    <3>1. index + 1 \in Nat /\ index' = index + 1 /\ toDelete \subseteq Nat
      BY <1>8 DEF WriteRequest, Shape
    <3> QED BY <1>w, <2>1, <2>2, <2>3, <2>4, <3>1
  <2> QED BY <1>8, <1>w, <2>5 DEF Shape, WriteRequest, counters
<1> QED BY <1>1, <1>2, <1>3, <1>4, <1>5, <1>6, <1>7, <1>8 DEF Next
\* A block that arrives on the manager's queue, or is taken from it.
LEMMA BlockArrives ==
    ASSUME Shape, NEW b \in Blocks, nm' = Append(nm, b)
    PROVE  /\ In("closed", nm') <=> In("closed", nm) \/ b = "closed"
           /\ In("connected", nm') <=> In("connected", nm) \/ b = "connected"
           /\ In("flush", nm') <=> In("flush", nm) \/ b = "flush"
           /\ In("ready", nm') <=> In("ready", nm) \/ b = "ready"
           /\ Once("closed", nm) /\ (b = "closed" => ~ In("closed", nm)) => Once("closed", nm')
           /\ Once("connected", nm) /\ (b = "connected" => ~ In("connected", nm)) => Once("connected", nm')
           /\ Once("flush", nm) /\ (b = "flush" => ~ In("flush", nm)) => Once("flush", nm')
           /\ Once("ready", nm) /\ (b = "ready" => ~ In("ready", nm)) => Once("ready", nm')
           /\ Before("connected", "closed", nm) /\ (b = "connected" => ~ In("closed", nm))
                  => Before("connected", "closed", nm')
<1>1. nm \in Seq(Blocks)
  BY DEF Shape
<1>2. /\ \A x : In(x, nm') <=> In(x, nm) \/ x = b
      /\ \A x : Once(x, nm) /\ (x = b => ~ In(x, nm)) => Once(x, nm')
      /\ \A x, y : Before(x, y, nm) /\ (x = b => ~ In(y, nm) /\ x # y) => Before(x, y, nm')
  BY <1>1, AppendBlock
<1> QED BY <1>2

LEMMA BlockLeaves ==
    ASSUME Shape, nm # <<>>, nm' = Tail(nm)
    PROVE  /\ nm' \in Seq(Blocks)
           /\ In("closed", nm) <=> In("closed", nm') \/ Head(nm) = "closed"
           /\ In("connected", nm) <=> In("connected", nm') \/ Head(nm) = "connected"
           /\ In("flush", nm) <=> In("flush", nm') \/ Head(nm) = "flush"
           /\ In("ready", nm) <=> In("ready", nm') \/ Head(nm) = "ready"
           /\ Once("closed", nm) => Once("closed", nm') /\ (Head(nm) = "closed" => ~ In("closed", nm'))
           /\ Once("connected", nm) =>
                  Once("connected", nm') /\ (Head(nm) = "connected" => ~ In("connected", nm'))
           /\ Once("flush", nm) => Once("flush", nm') /\ (Head(nm) = "flush" => ~ In("flush", nm'))
           /\ Once("ready", nm) => Once("ready", nm') /\ (Head(nm) = "ready" => ~ In("ready", nm'))
           /\ Before("connected", "closed", nm) =>
                  Before("connected", "closed", nm') /\ (Head(nm) = "closed" => ~ In("connected", nm'))
<1>1. nm \in Seq(Blocks)
  BY DEF Shape
<1>2. /\ nm' \in Seq(Blocks)
      /\ \A x : In(x, nm) <=> In(x, nm') \/ x = Head(nm)
      /\ \A x : Once(x, nm) => Once(x, nm') /\ (x = Head(nm) => ~ In(x, nm'))
      /\ \A x, y : Before(x, y, nm) => Before(x, y, nm') /\ (y = Head(nm) => ~ In(x, nm'))
  BY <1>1, TailBlock
<1> QED BY <1>2

\* The outer block of setReadyForRequest becomes the inner one, if none waits.
LEMMA ReadyBlock ==
    ASSUME Shape, Life, Ready
    PROVE  /\ In("closed", nm') <=> In("closed", nm)
           /\ In("connected", nm') <=> In("connected", nm)
           /\ In("flush", nm')
           /\ In("ready", nm') => In("ready", nm)
           /\ Once("ready", nm) => ~ In("ready", nm')
           /\ Once("ready", nm') \/ ~ Once("ready", nm)
           /\ Once("closed", nm') /\ Once("connected", nm') /\ Once("flush", nm')
           /\ Before("connected", "closed", nm')
<1>1. /\ nm # <<>> /\ Head(nm) = "ready" /\ nm \in Seq(Blocks)
      /\ \/ nm' = Tail(nm) /\ In("flush", nm)
         \/ nm' = Append(Tail(nm), "flush") /\ ~ In("flush", nm)
  BY DEF Ready, Shape, Life
<1>2. PICK q \in Seq(Blocks) : q = Tail(nm)
  BY <1>1, TailBlock
<1>3. /\ \A x : In(x, nm) <=> In(x, q) \/ x = "ready"
      /\ \A x : Once(x, nm) => Once(x, q) /\ (x = "ready" => ~ In(x, q))
      /\ \A x, y : Before(x, y, nm) => Before(x, y, q)
  BY <1>1, <1>2, TailBlock
<1>4. /\ \A x : In(x, Append(q, "flush")) <=> In(x, q) \/ x = "flush"
      /\ \A x : Once(x, q) /\ (x = "flush" => ~ In(x, q)) => Once(x, Append(q, "flush"))
      /\ \A x, y : Before(x, y, q) /\ (x = "flush" => ~ In(y, q) /\ x # y)
                       => Before(x, y, Append(q, "flush"))
  BY AppendBlock DEF Blocks
<1>5. /\ Once("closed", nm) /\ Once("connected", nm) /\ Once("flush", nm)
      /\ Before("connected", "closed", nm)
  BY DEF Life
<1>6. CASE nm' = q /\ In("flush", nm)
  BY <1>3, <1>5, <1>6
<1>7. CASE nm' = Append(q, "flush") /\ ~ In("flush", nm)
  BY <1>3, <1>4, <1>5, <1>7
<1> QED BY <1>1, <1>2, <1>6, <1>7

\* Where the connection is in its life.
LEMMA LifeKept ==
    ASSUME Shape, Life, Next
    PROVE  Life'
<1>1. CASE SendData \/ ConnectionStopping \/ ConnectionCreated \/ EndWriting \/ RaiseMutation
  BY <1>1 DEF Life, SendData, ConnectionStopping, ConnectionCreated, EndWriting, RaiseMutation,
     Untouched, writer
<1>2. CASE ConnectionOpening
  BY <1>2 DEF Life, ConnectionOpening, Untouched
<1>3. CASE ConnectionCloses
  <2>1. nm' = Append(nm, "closed") /\ "closed" \in Blocks
    BY <1>3 DEF ConnectionCloses, Blocks
  <2> QED BY <1>3, <2>1, BlockArrives DEF Life, ConnectionCloses, Untouched
<1>4. CASE DidConnect
  <2>1. nm' = Append(nm, "connected") /\ "connected" \in Blocks
    BY <1>4 DEF DidConnect, Blocks
  <2> QED BY <1>4, <2>1, BlockArrives DEF Life, DidConnect, Untouched
<1>5. CASE ConnectionForgotten
  BY <1>5, BlockLeaves DEF Life, ConnectionForgotten, ManagerBlock, Untouched
<1>6. CASE ConnectionUp
  BY <1>6, BlockLeaves DEF Life, ConnectionUp, ManagerBlock, Untouched
<1>7. CASE PurgeWritten \/ ClearWritten \/ AddRequest \/ Reset
  BY <1>7 DEF Life, PurgeWritten, ClearWritten, AddRequest, Reset, NetStep
<1>8. CASE SetReadyForRequest
  <2>1. nm' = Append(nm, "ready") /\ "ready" \in Blocks
    BY <1>8 DEF SetReadyForRequest, Blocks
  <2> QED BY <1>8, <2>1, BlockArrives DEF Life, SetReadyForRequest, NetStep
<1>9. CASE Ready
  <2>1. flag' /\ UNCHANGED <<link, connected, conn, index, wire>>
    BY <1>9 DEF Ready, writer
  <2> QED BY <1>9, <2>1, ReadyBlock DEF Life
<1>10. CASE Flush
  <2>1. ~ flag' /\ UNCHANGED <<link, connected, index, wire>>
    BY <1>10 DEF Flush
  <2>2. link = "connecting" \/ In("connected", nm) => conn' = conn
    BY <1>10 DEF Flush, Life
  <2> QED BY <1>10, <2>1, <2>2, BlockLeaves DEF Life, Flush
<1>11. CASE BeginWriting
  BY <1>11 DEF Life, BeginWriting, Shape
<1>12. CASE WriteRequest
  BY <1>12 DEF Life, WriteRequest, Shape
<1> QED BY <1>1, <1>2, <1>3, <1>4, <1>5, <1>6, <1>7, <1>8, <1>9, <1>10, <1>11, <1>12 DEF Next

\* Requests are made for packets, and for connections that were lost before.
LEMMA CountedKept ==
    ASSUME Shape, Life, Counted, Next
    PROVE  Counted'
<1>s. made \in Nat /\ sends \in Nat /\ downs \in Nat
  BY SendBounds DEF Shape, DownsBound
<1> DEFINE Coming1 == IF In("connected", nm) THEN 1 ELSE 0
           Gone1 == IF link = "open" THEN 0 ELSE 1
<1>a. ASSUME NEW b \in Blocks PROVE \A x : In(x, Append(nm, b)) <=> In(x, nm) \/ x = b
  BY AppendBlock DEF Shape
<1>t. ASSUME nm # <<>>
      PROVE  /\ Tail(nm) \in Seq(Blocks) /\ \A x : In(x, nm) <=> In(x, Tail(nm)) \/ x = Head(nm)
             /\ \A x : Once(x, nm) => (x = Head(nm) => ~ In(x, Tail(nm)))
  BY <1>t, TailBlock DEF Shape
<1>1. CASE SendData
  BY <1>1, <1>s DEF Counted, SendData
<1>2. CASE ConnectionCloses
  BY <1>2, <1>s, <1>a DEF Counted, ConnectionCloses, Untouched, Blocks
<1>3. CASE DidConnect
  BY <1>3, <1>s, <1>a DEF Counted, DidConnect, Untouched, Blocks, Life
<1>4. CASE ConnectionUp
  BY <1>4, <1>s, <1>t DEF Counted, ConnectionUp, ManagerBlock, Untouched, Life
<1>5. CASE ConnectionForgotten
  BY <1>5, <1>s, <1>t DEF Counted, ConnectionForgotten, ManagerBlock, Untouched, Life
<1>6. CASE ConnectionStopping \/ ConnectionCreated \/ ConnectionOpening
  BY <1>6, <1>s DEF Counted, ConnectionStopping, ConnectionCreated, ConnectionOpening, Untouched
<1>7. CASE PurgeWritten \/ ClearWritten \/ AddRequest \/ Reset \/ SetReadyForRequest
  BY <1>7, <1>a DEF Counted, PurgeWritten, ClearWritten, AddRequest, Reset, SetReadyForRequest,
     NetStep, counters, Blocks
<1>8. CASE Ready \/ Flush
  <2>1. In("connected", nm') <=> In("connected", nm)
    <3>1. /\ nm # <<>> /\ Head(nm) # "connected"
          /\ nm' = Tail(nm) \/ nm' = Append(Tail(nm), "flush")
      BY <1>8 DEF Ready, Flush
    <3>2. PICK q \in Seq(Blocks) : q = Tail(nm)
      BY <3>1, <1>t
    <3>3. \A x : In(x, Append(q, "flush")) <=> In(x, q) \/ x = "flush"
      BY AppendBlock DEF Blocks
    <3> QED BY <3>1, <3>2, <3>3, <1>t
  <2> QED BY <1>8, <2>1 DEF Counted, Ready, Flush, counters
<1>9. CASE BeginWriting \/ WriteRequest \/ EndWriting \/ RaiseMutation
  BY <1>9 DEF Counted, BeginWriting, WriteRequest, EndWriting, RaiseMutation, counters
<1> QED BY <1>1, <1>2, <1>3, <1>4, <1>5, <1>6, <1>7, <1>8, <1>9 DEF Next
\* What netQueue has to do, less what it does now.
LEMMA StepLeaves ==
    ASSUME Shape, NEW s \in {"purge", "clear", "append", "ready", "reset"}, NetStep(s)
    PROVE  /\ net # <<>> /\ Head(net).request \in Nat
           /\ \A x : In(x, net) <=> In(x, net') \/ x = Step(s, Head(net).request)
           /\ \A x : Once(x, net) =>
                 Once(x, net') /\ (x = Step(s, Head(net).request) => ~ In(x, net'))
           /\ \A x, y : Before(x, y, net) =>
                 Before(x, y, net') /\ (y = Step(s, Head(net).request) => ~ In(x, net'))
           /\ \A i \in DOMAIN net' : i + 1 \in DOMAIN net /\ net'[i] = net[i + 1]
           /\ net' # <<>> => net'[Len(net')] = net[Len(net)]
<1>1. /\ net \in Seq(AnyStep) /\ net # <<>> /\ net' = Tail(net) /\ net' \in Seq(AnyStep)
      /\ Len(net') = Len(net) - 1 /\ Len(net) \in Nat \ {0}
      /\ \A i \in 1 .. Len(net) - 1 : net'[i] = net[i + 1]
      /\ Head(net) = Step(s, Head(net).request) /\ Head(net).request \in Nat
  BY NetTail DEF Shape
<1>2. /\ \A x : In(x, net) <=> In(x, net') \/ x = Head(net)
      /\ \A x : Once(x, net) => Once(x, net') /\ (x = Head(net) => ~ In(x, net'))
      /\ \A x, y : Before(x, y, net) => Before(x, y, net') /\ (y = Head(net) => ~ In(x, net'))
  BY <1>1, TailBlock
<1>3. DOMAIN net = 1 .. Len(net) /\ DOMAIN net' = 1 .. Len(net) - 1
  BY <1>1, LenProperties
<1>4. net' # <<>> => Len(net') # 0
  BY <1>1, EmptySeq
<1>5. ASSUME net' # <<>> PROVE net'[Len(net')] = net[Len(net)]
  <2>1. Len(net') \in 1 .. Len(net) - 1 /\ Len(net') + 1 = Len(net)
    BY <1>1, <1>4, <1>5
  <2> QED BY <1>1, <2>1
<1>6. \A i \in DOMAIN net' : i + 1 \in DOMAIN net /\ net'[i] = net[i + 1]
  BY <1>1, <1>3
<1> QED BY <1>1, <1>2, <1>5, <1>6, Zenon

LEMMA TailRequested ==
    ASSUME Shape, Requested, NEW s \in {"purge", "clear", "append", "ready", "reset"}, NetStep(s)
    PROVE  /\ made' = made /\ Head(net).request \in Nat /\ Head(net).request <= made
           /\ \A i \in DOMAIN net' : net'[i].request <= made
           /\ net' # <<>> => net'[Len(net')].step = "ready"
           /\ \A r \in Nat : In(Step("append", r), net') =>
                 /\ In(Step("append", r), net) /\ Once(Step("append", r), net')
                 /\ s = "append" => Head(net).request < r
           /\ \A r \in Nat : In(Step("reset", r), net') =>
                 /\ In(Step("reset", r), net)
                 /\ s \in {"append", "reset"} => Head(net).request <= r
           /\ \A r, q \in Nat : q < r =>
                 /\ Before(Step("append", q), Step("append", r), net')
                 /\ Before(Step("reset", q), Step("append", r), net')
                 /\ Before(Step("reset", q), Step("reset", r), net')
           /\ s \in {"append", "reset"} => In(Step(s, Head(net).request), net)
<1> DEFINE h == Head(net).request
<1>1. /\ net # <<>> /\ h \in Nat
      /\ \A x : In(x, net) <=> In(x, net') \/ x = Step(s, h)
      /\ \A x : Once(x, net) => Once(x, net') /\ (x = Step(s, h) => ~ In(x, net'))
      /\ \A x, y : Before(x, y, net) => Before(x, y, net') /\ (y = Step(s, h) => ~ In(x, net'))
      /\ \A i \in DOMAIN net' : i + 1 \in DOMAIN net /\ net'[i] = net[i + 1]
      /\ net' # <<>> => net'[Len(net')] = net[Len(net)]
  BY StepLeaves
<1>2. made' = made /\ h <= made
  <2>1. 1 \in DOMAIN net /\ Head(net) = net[1]
    BY NetTail, LenProperties DEF Shape
  <2> QED BY <2>1 DEF Requested, InOrder, NetStep, counters
<1>3. (\A i \in DOMAIN net' : net'[i].request <= made) /\ (net' # <<>> => net'[Len(net')].step = "ready")
  BY <1>1 DEF Requested, InOrder
<1> HIDE DEF h
<1>4. ASSUME NEW r \in Nat, In(Step("append", r), net')
      PROVE  /\ In(Step("append", r), net) /\ Once(Step("append", r), net')
             /\ s = "append" => h < r
  <2>1. In(Step("append", r), net) /\ Once(Step("append", r), net)
    BY <1>1, <1>4 DEF Requested, InOrder
  <2>2. s = "append" => h # r
    BY <1>1, <1>4, <2>1
  <2>3. s = "append" => ~ (r < h)
    BY <1>1, <1>4 DEF Requested, InOrder
  <2> QED BY <1>1, <2>1, <2>2, <2>3
<1>5. ASSUME NEW r \in Nat, In(Step("reset", r), net')
      PROVE  /\ In(Step("reset", r), net)
             /\ s \in {"append", "reset"} => h <= r
  <2>1. s \in {"append", "reset"} => ~ (r < h)
    BY <1>1, <1>5 DEF Requested, InOrder
  <2> QED BY <1>1, <1>5, <2>1
<1>6. ASSUME NEW r \in Nat, NEW q \in Nat, q < r
      PROVE  /\ Before(Step("append", q), Step("append", r), net')
             /\ Before(Step("reset", q), Step("append", r), net')
             /\ Before(Step("reset", q), Step("reset", r), net')
  BY <1>1, <1>6 DEF Requested, InOrder
<1>7. s \in {"append", "reset"} => In(Step(s, h), net)
  BY <1>1
<1> QED BY <1>1, <1>2, <1>3, <1>4, <1>5, <1>6, <1>7 DEF h

\* A packet more for netQueue, with the numbers that come next; before it, when
\* the connection has come up, the reset.
LEMMA PacketSteps ==
    ASSUME Shape
    PROVE  /\ SendDataSteps \in Seq(AnyStep) /\ Len(SendDataSteps) = 7
           /\ SendDataSteps[7] = Step("ready", 0)
           /\ \A i \in DOMAIN SendDataSteps : SendDataSteps[i].request <= made + 2
           /\ \A r \in Nat : /\ In(Step("append", r), SendDataSteps) <=> r \in {made + 1, made + 2}
                             /\ ~ In(Step("reset", r), SendDataSteps)
                             /\ Once(Step("append", r), SendDataSteps)
           /\ \A r, q \in Nat : q < r =>
                 /\ Before(Step("append", q), Step("append", r), SendDataSteps)
                 /\ Before(Step("reset", q), Step("append", r), SendDataSteps)
                 /\ Before(Step("reset", q), Step("reset", r), SendDataSteps)
<1>m. made \in Nat
  BY DEF Shape
<1> DEFINE w == SendDataSteps
<1>1. /\ w \in Seq(AnyStep) /\ Len(w) = 7
      /\ w[1] = Step("purge", 0) /\ w[2] = Step("clear", 0) /\ w[3] = Step("append", made + 1)
      /\ w[4] = Step("purge", 0) /\ w[5] = Step("clear", 0) /\ w[6] = Step("append", made + 2)
      /\ w[7] = Step("ready", 0)
  BY <1>m, SevenSteps
<1> HIDE DEF w
<1>2. DOMAIN w = 1 .. 7
  BY <1>1, LenProperties
<1>3. \A i \in 1 .. 7 : i \in {1, 2, 3, 4, 5, 6, 7}
  OBVIOUS
<1>4. \A i \in DOMAIN w : w[i].request <= made + 2
  BY <1>m, <1>1, <1>2, <1>3 DEF Step
<1>5. \A r \in Nat : /\ \A i \in DOMAIN w : w[i] = Step("append", r) <=>
                              (i = 3 /\ r = made + 1) \/ (i = 6 /\ r = made + 2)
                     /\ \A i \in DOMAIN w : w[i] # Step("reset", r)
  BY <1>m, <1>1, <1>2, <1>3 DEF Step
<1>6. ASSUME NEW r \in Nat
      PROVE  /\ In(Step("append", r), w) <=> r \in {made + 1, made + 2}
             /\ ~ In(Step("reset", r), w) /\ Once(Step("append", r), w)
  BY <1>m, <1>2, <1>5 DEF In, Once
<1>7. ASSUME NEW r \in Nat, NEW q \in Nat, q < r
      PROVE  /\ Before(Step("append", q), Step("append", r), w)
             /\ Before(Step("reset", q), Step("append", r), w)
             /\ Before(Step("reset", q), Step("reset", r), w)
  BY <1>m, <1>2, <1>5, <1>7 DEF Before
<1> QED BY <1>1, <1>4, <1>6, <1>7 DEF w
LEMMA PacketInOrder ==
    ASSUME Shape, Requested, NEW q \in Seq(AnyStep), InOrder(q),
           made' = made + 2, UNCHANGED <<trans, since>>, NEW c, c = q \o SendDataSteps
    PROVE  /\ InOrder(c)' /\ c[Len(c)].step = "ready" /\ c \in Seq(AnyStep) /\ Len(c) = Len(q) + 7
           /\ \A r \in Nat : /\ In(Step("append", r), c)
                                  <=> In(Step("append", r), q) \/ r \in {made + 1, made + 2}
                             /\ In(Step("reset", r), c) <=> In(Step("reset", r), q)
<1>m. made \in Nat /\ \A i \in DOMAIN trans : trans[i] \in 1 .. made
  BY DEF Shape, Requested
<1>1. PICK w \in Seq(AnyStep) : w = SendDataSteps
  BY PacketSteps
<1>2. /\ Len(w) = 7 /\ w[7] = Step("ready", 0) /\ \A i \in DOMAIN w : w[i].request <= made + 2
      /\ \A r \in Nat : /\ In(Step("append", r), w) <=> r \in {made + 1, made + 2}
                        /\ ~ In(Step("reset", r), w) /\ Once(Step("append", r), w)
      /\ \A r, s \in Nat : s < r =>
            /\ Before(Step("append", s), Step("append", r), w)
            /\ Before(Step("reset", s), Step("append", r), w)
            /\ Before(Step("reset", s), Step("reset", r), w)
  BY <1>1, PacketSteps
<1>3. c = q \o w /\ c \in Seq(AnyStep)
  BY <1>1, ConcatProperties
<1>4. /\ Len(c) = Len(q) + 7
      /\ \A x : In(x, c) <=> In(x, q) \/ In(x, w)
      /\ \A x : Once(x, q) /\ Once(x, w) /\ ~ (In(x, q) /\ In(x, w)) => Once(x, c)
      /\ \A x, y : Before(x, y, q) /\ Before(x, y, w) /\ ~ (In(y, q) /\ In(x, w)) => Before(x, y, c)
  <2> DEFINE d == q \o w
  <2>1. /\ Len(d) = Len(q) + Len(w)
        /\ \A x : In(x, d) <=> In(x, q) \/ In(x, w)
        /\ \A x : Once(x, q) /\ Once(x, w) /\ ~ (In(x, q) /\ In(x, w)) => Once(x, d)
        /\ \A x, y : Before(x, y, q) /\ Before(x, y, w) /\ ~ (In(y, q) /\ In(x, w)) => Before(x, y, d)
    BY ConcatBlocks
  <2>2. c = d
    BY <1>3
  <2> HIDE DEF d
  <2> QED BY <1>2, <2>1, <2>2
<1>5. /\ Len(q) \in Nat /\ DOMAIN c = 1 .. Len(q) + 7 /\ DOMAIN q = 1 .. Len(q) /\ DOMAIN w = 1 .. 7
      /\ \A i \in 1 .. Len(q) + 7 : c[i] = IF i <= Len(q) THEN q[i] ELSE w[i - Len(q)]
  <2>1. \A i \in 1 .. Len(q) + Len(w) : c[i] = IF i <= Len(q) THEN q[i] ELSE w[i - Len(q)]
    BY <1>3, ConcatProperties
  <2> QED BY <2>1, <1>2, <1>4, LenProperties
<1>6. ASSUME NEW i \in DOMAIN c PROVE c[i].request <= made + 2
  <2>1. \A j \in DOMAIN q : q[j].request <= made /\ q[j].request \in Nat
    <3>1. \A j \in DOMAIN q : q[j] \in AnyStep
      BY ElementOfSeq, <1>5
    <3> QED BY <3>1 DEF InOrder, AnyStep
  <2>2. CASE i <= Len(q)
    <3>1. i \in DOMAIN q /\ c[i] = q[i]
      BY <1>5, <2>2
    <3>2. q[i].request <= made /\ q[i].request \in Nat /\ c[i].request = q[i].request
      BY <2>1, <3>1
    <3> QED BY <1>m, <3>2
  <2>3. CASE i > Len(q)
    <3>i. i \in 1 .. Len(q) + 7 /\ ~ (i <= Len(q)) /\ i - Len(q) \in 1 .. 7
      BY <1>5, <2>3
    <3>1. i - Len(q) \in DOMAIN w /\ c[i] = w[i - Len(q)]
      BY <1>5, <3>i
    <3> QED BY <1>2, <3>1
  <2> QED BY <2>2, <2>3, <1>5
<1>7. /\ \A r \in Nat : In(Step("append", r), q) => r <= made
      /\ \A r \in Nat : In(Step("reset", r), q) => r <= made
  BY DEF In, InOrder, Step
<1>8. ASSUME NEW r \in Nat, In(Step("append", r), c)
      PROVE  r > 0 /\ Once(Step("append", r), c) /\ \A i \in DOMAIN trans : trans[i] < r
  <2>1. CASE In(Step("append", r), q)
    <3>1. r > 0 /\ Once(Step("append", r), q) /\ \A i \in DOMAIN trans : trans[i] < r
      BY <2>1 DEF InOrder
    <3>2. ~ In(Step("append", r), w)
      BY <1>2, <1>7, <1>m, <2>1
    <3> QED BY <1>2, <1>4, <3>1, <3>2
  <2>2. CASE ~ In(Step("append", r), q) /\ r \in {made + 1, made + 2}
    <3>1. Once(Step("append", r), q)
      BY <2>2 DEF Once, In
    <3>2. r > 0 /\ \A i \in DOMAIN trans : trans[i] < r
      BY <1>m, <2>2
    <3> QED BY <1>2, <1>4, <2>2, <3>1, <3>2
  <2> QED BY <1>2, <1>4, <1>8, <2>1, <2>2
<1>9. ASSUME NEW r \in Nat, In(Step("reset", r), c)
      PROVE  since <= r /\ \A i \in DOMAIN trans : trans[i] <= r
  BY <1>2, <1>4, <1>9 DEF InOrder
<1>10. ASSUME NEW r \in Nat, NEW s \in Nat, s < r
       PROVE  /\ Before(Step("append", s), Step("append", r), c)
              /\ Before(Step("reset", s), Step("append", r), c)
              /\ Before(Step("reset", s), Step("reset", r), c)
  <2>1. ~ (In(Step("append", r), q) /\ In(Step("append", s), w))
    BY <1>2, <1>7, <1>10, <1>m
  <2>2. /\ Before(Step("append", s), Step("append", r), q)
        /\ Before(Step("reset", s), Step("append", r), q)
        /\ Before(Step("reset", s), Step("reset", r), q)
    BY <1>10 DEF InOrder
  <2> QED BY <1>2, <1>4, <1>10, <2>1, <2>2
<1>11. InOrder(c)'
  BY <1>6, <1>8, <1>9, <1>10 DEF InOrder
<1>12. c[Len(c)].step = "ready"
  <2>1. Len(c) \in 1 .. Len(q) + 7 /\ Len(c) > Len(q) /\ Len(c) - Len(q) = 7
    BY <1>4, <1>5
  <2>2. c[Len(c)] = w[7]
    BY <1>5, <2>1
  <2> QED BY <1>2, <2>2 DEF Step
<1> QED BY <1>2, <1>3, <1>4, <1>11, <1>12

\* A reset goes behind everything that has been requested so far.
LEMMA ResetInOrder ==
    ASSUME Shape, Requested
    PROVE  /\ net \o <<Step("reset", made)>> \in Seq(AnyStep)
           /\ InOrder(net \o <<Step("reset", made)>>)
           /\ \A r \in Nat : /\ In(Step("append", r), net \o <<Step("reset", made)>>)
                                  <=> In(Step("append", r), net)
                             /\ In(Step("reset", r), net \o <<Step("reset", made)>>)
                                  <=> In(Step("reset", r), net) \/ r = made
<1>m. /\ made \in Nat /\ net \in Seq(AnyStep) /\ since <= made /\ InOrder(net)
      /\ \A i \in DOMAIN trans : trans[i] \in 1 .. made
  BY DEF Shape, Requested
<1>1. PICK x \in AnyStep : x = Step("reset", made)
  BY <1>m DEF Step, AnyStep
<1>2. PICK c \in Seq(AnyStep) : c = Append(net, x)
  BY <1>m, AppendProperties
<1>3. c = net \o <<Step("reset", made)>>
  BY <1>m, <1>1, <1>2, AppendIsConcat
<1>4. /\ \A y : In(y, c) <=> In(y, net) \/ y = x
      /\ \A y : Once(y, net) /\ (y = x => ~ In(y, net)) => Once(y, c)
      /\ \A y, z : Before(y, z, net) /\ (y = x => ~ In(z, net) /\ y # z) => Before(y, z, c)
  BY <1>m, <1>2, AppendBlock
<1>5. \A i \in DOMAIN c : c[i].request <= made
  <2>1. /\ DOMAIN c = 1 .. Len(net) + 1 /\ DOMAIN net = 1 .. Len(net) /\ Len(net) \in Nat
        /\ c[Len(net) + 1] = x /\ \A i \in 1 .. Len(net) : c[i] = net[i]
    BY <1>m, <1>2, AppendProperties, LenProperties
  <2>2. \A i \in 1 .. Len(net) : net[i].request <= made
    BY <1>m, <2>1 DEF InOrder
  <2>3. x.request <= made
    BY <1>m, <1>1 DEF Step
  <2> QED BY <2>1, <2>2, <2>3
<1>6. \A r \in Nat : /\ Step("append", r) # x
                     /\ Step("reset", r) = x => r = made
  BY <1>1 DEF Step
<1>7. \A r \in Nat : In(Step("append", r), net) \/ In(Step("reset", r), net) => r <= made
  BY <1>m DEF In, InOrder, Step
<1>8. ASSUME NEW r \in Nat, In(Step("append", r), c)
      PROVE  r > 0 /\ Once(Step("append", r), c) /\ \A i \in DOMAIN trans : trans[i] < r
  BY <1>4, <1>6, <1>8, <1>m DEF InOrder
<1>9. ASSUME NEW r \in Nat, In(Step("reset", r), c)
      PROVE  since <= r /\ \A i \in DOMAIN trans : trans[i] <= r
  BY <1>4, <1>6, <1>9, <1>m DEF InOrder
<1>10. ASSUME NEW r \in Nat, NEW s \in Nat, s < r
       PROVE  /\ Before(Step("append", s), Step("append", r), c)
              /\ Before(Step("reset", s), Step("append", r), c)
              /\ Before(Step("reset", s), Step("reset", r), c)
  <2>1. /\ Before(Step("append", s), Step("append", r), net)
        /\ Before(Step("reset", s), Step("append", r), net)
        /\ Before(Step("reset", s), Step("reset", r), net)
    BY <1>m, <1>10 DEF InOrder
  <2>2. Step("reset", s) = x => ~ In(Step("append", r), net) /\ ~ In(Step("reset", r), net)
    BY <1>6, <1>7, <1>10, <1>m
  <2>3. Step("reset", s) # Step("append", r) /\ Step("reset", s) # Step("reset", r)
    BY <1>10 DEF Step
  <2> QED BY <1>4, <1>6, <2>1, <2>2, <2>3
<1>11. InOrder(c)
  BY <1>5, <1>8, <1>9, <1>10 DEF InOrder
<1> QED BY <1>1, <1>3, <1>4, <1>6, <1>11
LEMMA RequestedKept ==
    ASSUME Shape, Shape', Life, Requested, Next
    PROVE  Requested'
<1>s. /\ trans \in Seq(Nat) /\ wire \in Seq(Nat) /\ made \in Nat /\ since \in Nat /\ net \in Seq(AnyStep)
      /\ DOMAIN trans = 1 .. Len(trans) /\ DOMAIN wire = 1 .. Len(wire)
  BY LenProperties DEF Shape
<1>r. /\ Increasing(trans) /\ since <= made /\ toDelete \subseteq 1 .. made
      /\ \A i \in DOMAIN trans : trans[i] \in 1 .. made
      /\ \A i \in DOMAIN wire : wire[i] \in 1 .. made
      /\ InOrder(net) /\ (net # <<>> => net[Len(net)].step = "ready")
  BY DEF Requested
<1>1. CASE SendData
  <2>1. PICK c : c = net \o SendDataSteps
    OBVIOUS
  <2>2. net' = c /\ made' = made + 2 /\ UNCHANGED <<trans, toDelete, wire, since>>
    BY <1>1, <2>1 DEF SendData, arrays, writer
  <2>3. InOrder(c)' /\ c[Len(c)].step = "ready"
    BY <1>s, <1>r, <2>1, <2>2, PacketInOrder
  <2>4. InOrder(net)'
    BY <2>2, <2>3 DEF InOrder
  <2> QED BY <1>s, <1>r, <2>2, <2>3, <2>4 DEF Requested, Increasing
<1>2. CASE ConnectionUp
  <2>1. PICK q \in Seq(AnyStep) : q = net \o <<Step("reset", made)>> /\ InOrder(q)
    BY ResetInOrder
  <2>2. PICK c : c = q \o SendDataSteps
    OBVIOUS
  <2>3. net' = c /\ made' = made + 2 /\ UNCHANGED <<trans, toDelete, wire, since>>
    BY <1>2, <2>1, <2>2 DEF ConnectionUp, Untouched, arrays
  <2>4. InOrder(c)' /\ c[Len(c)].step = "ready"
    BY <2>1, <2>2, <2>3, PacketInOrder
  <2>5. InOrder(net)'
    BY <2>3, <2>4 DEF InOrder
  <2> QED BY <1>s, <1>r, <2>3, <2>4, <2>5 DEF Requested, Increasing
<1>3. CASE \/ ConnectionStopping \/ ConnectionCloses \/ ConnectionForgotten \/ ConnectionCreated
           \/ ConnectionOpening \/ DidConnect \/ Ready \/ Flush \/ BeginWriting \/ EndWriting
           \/ RaiseMutation
  <2>1. UNCHANGED <<trans, toDelete, net, since, made>> /\ (wire' = wire \/ wire' = <<>>)
    BY <1>3 DEF ConnectionStopping, ConnectionCloses, ConnectionForgotten, ConnectionCreated,
       ConnectionOpening, DidConnect, Ready, Flush, BeginWriting, EndWriting, RaiseMutation,
       Untouched, arrays, writer, counters
  <2> QED BY <1>r, <2>1, EmptySeq DEF Requested, Increasing, InOrder
<1>4. CASE WriteRequest
  <2>1. trans[index] \in 1 .. made /\ trans[index] \in Nat
    BY <1>4, <1>s, <1>r DEF WriteRequest
  <2>2. /\ UNCHANGED <<trans, net, since, made>> /\ toDelete' \subseteq toDelete \cup {trans[index]}
        /\ wire' = wire \/ wire' = Append(wire, trans[index])
    BY <1>4 DEF WriteRequest, counters
  <2>3. \A i \in DOMAIN wire' : wire'[i] \in 1 .. made
    <3>1. /\ Len(wire) \in Nat /\ DOMAIN Append(wire, trans[index]) = 1 .. Len(wire) + 1
          /\ Append(wire, trans[index])[Len(wire) + 1] = trans[index]
          /\ \A i \in 1 .. Len(wire) : Append(wire, trans[index])[i] = wire[i]
      BY <1>s, <2>1, AppendProperties, LenProperties
    <3>2. \A i \in 1 .. Len(wire) + 1 : i \in 1 .. Len(wire) \/ i = Len(wire) + 1
      BY <3>1
    <3> QED BY <1>s, <1>r, <2>1, <2>2, <3>1, <3>2
  <2> QED BY <1>r, <2>1, <2>2, <2>3 DEF Requested, Increasing, InOrder
<1>5. CASE ClearWritten \/ SetReadyForRequest
  <2>1. PICK s \in {"clear", "ready"} : NetStep(s)
    BY <1>5 DEF ClearWritten, SetReadyForRequest
  <2>2. UNCHANGED <<trans, wire, since, made>> /\ toDelete' \subseteq toDelete
    BY <1>5 DEF ClearWritten, SetReadyForRequest, NetStep, arrays, counters
  <2>3. InOrder(net)' /\ (net' # <<>> => net'[Len(net')].step = "ready")
    BY <2>1, <2>2, <1>r, TailRequested DEF InOrder
  <2> QED BY <1>r, <2>2, <2>3 DEF Requested, Increasing
<1>6. CASE PurgeWritten
  <2>1. NetStep("purge") /\ trans' = Without(trans, toDelete)
        /\ UNCHANGED <<wire, since, made, toDelete>>
    BY <1>6 DEF PurgeWritten, NetStep, counters, Unwritten
  <2>2. /\ Increasing(trans')
        /\ \A k \in DOMAIN trans' : \E i \in DOMAIN trans : trans[i] = trans'[k]
    <3> DEFINE u == Without(trans, toDelete)
    <3>1. /\ u \in Seq(Nat) /\ Increasing(u)
          /\ \A k \in DOMAIN u : \E i \in DOMAIN trans : trans[i] = u[k] /\ trans[i] \notin toDelete
      BY <1>s, <1>r, WithoutLeaves
    <3>2. trans' = u
      BY <2>1
    <3> HIDE DEF u
    <3> QED BY <3>1, <3>2
  <2>3. InOrder(net)' /\ (net' # <<>> => net'[Len(net')].step = "ready")
    BY <2>1, <2>2, <1>r, TailRequested DEF InOrder
  <2> QED BY <1>r, <2>1, <2>2, <2>3 DEF Requested, Increasing
<1>7. CASE AddRequest
  <2> DEFINE h == Head(net).request
  <2>1. NetStep("append") /\ trans' = Append(trans, h) /\ UNCHANGED <<wire, since, made, toDelete>>
    BY <1>7 DEF AddRequest, NetStep, counters
  <2>2. /\ h \in Nat /\ h <= made /\ In(Step("append", h), net)
        /\ \A i \in DOMAIN net' : net'[i].request <= made
        /\ net' # <<>> => net'[Len(net')].step = "ready"
        /\ \A r \in Nat : In(Step("append", r), net') =>
              In(Step("append", r), net) /\ Once(Step("append", r), net') /\ h < r
        /\ \A r \in Nat : In(Step("reset", r), net') => In(Step("reset", r), net) /\ h <= r
        /\ \A r, q \in Nat : q < r =>
              /\ Before(Step("append", q), Step("append", r), net')
              /\ Before(Step("reset", q), Step("append", r), net')
              /\ Before(Step("reset", q), Step("reset", r), net')
    BY <2>1, TailRequested
  <2> HIDE DEF h
  <2>3. h > 0 /\ \A i \in DOMAIN trans : trans[i] < h
    BY <2>2, <1>r DEF InOrder
  <2>4. /\ DOMAIN trans' = 1 .. Len(trans) + 1 /\ Len(trans) \in Nat /\ trans'[Len(trans) + 1] = h
        /\ \A i \in 1 .. Len(trans) : trans'[i] = trans[i]
    BY <1>s, <2>1, <2>2, AppendProperties, LenProperties
  <2>5. \A i \in DOMAIN trans' : \/ i \in DOMAIN trans /\ trans'[i] = trans[i]
                                 \/ i = Len(trans) + 1 /\ trans'[i] = h
    BY <1>s, <2>4
  <2>6. Increasing(trans')
    <3> SUFFICES ASSUME NEW i \in DOMAIN trans', NEW j \in DOMAIN trans', i < j
                 PROVE  trans'[i] < trans'[j]
      BY DEF Increasing
    <3>1. i \in DOMAIN trans /\ trans'[i] = trans[i]
      BY <1>s, <2>4, <2>5
    <3> QED BY <3>1, <2>3, <2>5, <1>r DEF Increasing
  <2>7. \A i \in DOMAIN trans' : trans'[i] \in 1 .. made /\ trans'[i] <= h
    <3>1. \A i \in DOMAIN trans : trans[i] \in 1 .. made /\ trans[i] <= h
      BY <1>r, <2>2, <2>3
    <3> QED BY <1>s, <2>2, <2>3, <2>5, <3>1
  <2>8. InOrder(net)'
    <3>1. ASSUME NEW r \in Nat, In(Step("append", r), net')
          PROVE  r > 0 /\ Once(Step("append", r), net') /\ \A i \in DOMAIN trans' : trans'[i] < r
      <4>1. r > 0 /\ h < r
        BY <2>2, <3>1, <1>r DEF InOrder
      <4> QED BY <2>2, <2>7, <3>1, <4>1
    <3>2. ASSUME NEW r \in Nat, In(Step("reset", r), net')
          PROVE  since <= r /\ \A i \in DOMAIN trans' : trans'[i] <= r
      <4>1. since <= r /\ h <= r
        BY <2>2, <3>2, <1>r DEF InOrder
      <4> QED BY <2>2, <2>7, <3>2, <4>1
    <3> QED BY <2>1, <2>2, <3>1, <3>2 DEF InOrder
  <2> QED BY <1>r, <2>1, <2>2, <2>6, <2>7, <2>8 DEF Requested, Increasing
<1>8. CASE Reset
  <2>1. /\ NetStep("reset") /\ trans' = <<>> /\ toDelete' = {} /\ since' = Head(net).request
        /\ UNCHANGED <<wire, made>>
    BY <1>8 DEF Reset, NetStep, counters
  <2>2. DOMAIN trans' = {}
    BY <2>1, EmptySeq
  <2>3. /\ Head(net).request \in Nat /\ since' <= made
        /\ InOrder(net)' /\ (net' # <<>> => net'[Len(net')].step = "ready")
    <3>1. /\ Head(net).request \in Nat /\ Head(net).request <= made
          /\ \A i \in DOMAIN net' : net'[i].request <= made
          /\ net' # <<>> => net'[Len(net')].step = "ready"
          /\ \A r \in Nat : In(Step("append", r), net') =>
                In(Step("append", r), net) /\ Once(Step("append", r), net')
          /\ \A r \in Nat : In(Step("reset", r), net') => Head(net).request <= r
          /\ \A r, q \in Nat : q < r =>
                /\ Before(Step("append", q), Step("append", r), net')
                /\ Before(Step("reset", q), Step("append", r), net')
                /\ Before(Step("reset", q), Step("reset", r), net')
      BY <2>1, TailRequested
    <3> QED BY <2>1, <2>2, <3>1, <1>r DEF InOrder
  <2> QED BY <1>r, <2>1, <2>2, <2>3 DEF Requested, Increasing
<1> QED BY <1>1, <1>2, <1>3, <1>4, <1>5, <1>6, <1>7, <1>8 DEF Next
\* A step of netQueue changes nothing about which requests are recent: a reset
\* only brings forward what it stood for.
LEMMA RecentKept ==
    ASSUME Shape, Requested, NEW s \in {"purge", "clear", "append", "ready", "reset"}, NetStep(s),
           since' = IF s = "reset" THEN Head(net).request ELSE since
    PROVE  \A r \in Nat : Recent(r)' <=> Recent(r)
<1>1. /\ Head(net).request \in Nat
      /\ \A x : In(x, net) <=> In(x, net') \/ x = Step(s, Head(net).request)
  BY StepLeaves
<1>2. CASE s # "reset"
  <2>1. \A b : Step("reset", b) # Step(s, Head(net).request)
    BY <1>2 DEF Step
  <2> QED BY <1>1, <1>2, <2>1 DEF Recent
<1>3. CASE s = "reset"
  <2>1. /\ since' = Head(net).request /\ In(Step("reset", Head(net).request), net)
        /\ since <= Head(net).request
    BY <1>1, <1>3 DEF Requested, InOrder
  <2>2. \A b : Step("reset", b) = Step("reset", Head(net).request) => b = Head(net).request
    BY DEF Step
  <2>3. since \in Nat /\ since' \in Nat
    BY <1>1, <2>1 DEF Shape
  <2>4. ASSUME NEW r \in Nat, Recent(r)' PROVE Recent(r)
    BY <1>1, <1>3, <2>1, <2>2, <2>3, <2>4 DEF Recent
  <2>5. ASSUME NEW r \in Nat, Recent(r) PROVE Recent(r)'
    BY <1>1, <1>3, <2>1, <2>3, <2>5 DEF Recent
  <2> QED BY <2>4, <2>5
<1> QED BY <1>2, <1>3

\* Everything netQueue does is followed by a setReadyForRequest.
LEMMA MoreToCome ==
    ASSUME Shape, Requested, NEW s \in {"purge", "clear", "append", "reset"}, NetStep(s)
    PROVE  net' # <<>>
<1>1. /\ net # <<>> /\ net' = Tail(net) /\ net' \in Seq(AnyStep)
      /\ Len(net') = Len(net) - 1 /\ Len(net) \in Nat \ {0}
      /\ Head(net) = net[1] /\ Head(net) = Step(s, Head(net).request)
  BY NetTail
<1>2. net[Len(net)].step = "ready" /\ net[1].step # "ready"
  BY <1>1 DEF Requested, Step
<1>3. Len(net') # 0
  BY <1>1, <1>2
<1> QED BY <1>1, <1>3, EmptySeq

\* What holds of a session once the connection is up, step by step: netQueue's.
LEMMA SessionNet ==
    ASSUME Shape, Shape', Life, Requested, Requested', Session,
           PurgeWritten \/ ClearWritten \/ AddRequest \/ SetReadyForRequest \/ Reset
    PROVE  Session'
<1>s. /\ trans \in Seq(Nat) /\ wire \in Seq(Nat) /\ made \in Nat /\ index \in Nat
      /\ DOMAIN trans = 1 .. Len(trans) /\ DOMAIN wire = 1 .. Len(wire)
      /\ Increasing(trans) /\ \A i \in DOMAIN trans : trans[i] \in Nat
  BY LenProperties, ElementOfSeq DEF Shape, Requested
<1>1. PICK s \in {"purge", "clear", "append", "ready", "reset"} :
        /\ NetStep(s)
        /\ since' = IF s = "reset" THEN Head(net).request ELSE since
        /\ s = "purge" => PurgeWritten
        /\ s = "clear" => ClearWritten
        /\ s = "append" => AddRequest
        /\ s = "ready" => SetReadyForRequest
        /\ s = "reset" => Reset
  BY DEF PurgeWritten, ClearWritten, AddRequest, SetReadyForRequest, Reset
<1>2. \A r \in Nat : Recent(r)' <=> Recent(r)
  BY <1>1, RecentKept
<1>3. /\ UNCHANGED <<link, connected, conn, index, crashed, wire>> /\ made' = made
      /\ In("connected", nm') <=> In("connected", nm)
      /\ In("ready", nm) => In("ready", nm')
      /\ Up' <=> Up
  <2>1. UNCHANGED <<link, connected, conn, index, crashed, wire>> /\ made' = made
    BY <1>1 DEF NetStep, counters
  <2>2. /\ In("connected", nm') <=> In("connected", nm)
        /\ In("ready", nm) => In("ready", nm')
    <3>1. CASE s = "ready"
      <4>1. nm' = Append(nm, "ready") /\ "ready" \in Blocks
        BY <3>1, <1>1 DEF SetReadyForRequest, Blocks
      <4> QED BY <4>1, BlockArrives
    <3>2. CASE s # "ready"
      <4>1. nm' = nm
        BY <3>2, <1>1 DEF PurgeWritten, ClearWritten, AddRequest, Reset
      <4> QED BY <4>1
    <3> QED BY <3>1, <3>2
  <2> QED BY <2>1, <2>2 DEF Up
<1>4. Coming'
  <2>1. CASE s = "ready"
    <3>1. nm' = Append(nm, "ready") /\ "ready" \in Blocks
      BY <2>1, <1>1 DEF SetReadyForRequest, Blocks
    <3> QED BY <3>1, BlockArrives DEF Coming
  <2>2. CASE s # "ready"
    BY <2>2, <1>1, MoreToCome DEF Coming
  <2> QED BY <2>1, <2>2
<1>5. Ordered => Ordered'
  <2>1. \A k \in DOMAIN wire : wire[k] - 1 \in Nat
    BY <1>s DEF Requested
  <2> QED BY <1>2, <1>3, <2>1 DEF Ordered
<1>6. ASSUME Remembered PROVE Remembered'
  <2>n. \A x : In(x, net) <=> In(x, net') \/ x = Step(s, Head(net).request)
    BY <1>1, StepLeaves
  <2>d. /\ \A r \in 1 .. made : Recent(r) => In(Step("append", r), net) \/ In(r, trans) \/ In(r, wire)
        /\ \A r \in toDelete : Recent(r) => In(r, wire)
        /\ index # 0 /\ ~ mutated =>
             \A i \in DOMAIN trans : i < index /\ Recent(trans[i]) => In(trans[i], wire)
    BY <1>6 DEF Remembered
  <2>w. toDelete' \subseteq toDelete
    BY <1>1 DEF PurgeWritten, ClearWritten, AddRequest, SetReadyForRequest, Reset, arrays
  <2>1. ASSUME NEW r \in 1 .. made, Recent(r)
        PROVE  In(Step("append", r), net') \/ In(r, trans') \/ In(r, wire)
    <3>1. CASE s = "purge"
      <4> DEFINE u == Without(trans, toDelete)
      <4>1. \A i \in DOMAIN trans : trans[i] \notin toDelete => \E k \in DOMAIN u : u[k] = trans[i]
        BY <1>s, WithoutKeeps
      <4>2. trans' = u
        BY <3>1, <1>1 DEF PurgeWritten, Unwritten
      <4> HIDE DEF u
      <4>3. In(r, trans) => In(r, trans') \/ r \in toDelete
        BY <4>1, <4>2 DEF In
      <4>4. Step("append", r) # Step("purge", Head(net).request)
        BY DEF Step
      <4> QED BY <2>1, <2>d, <2>n, <3>1, <4>3, <4>4
    <3>2. CASE s \in {"clear", "ready"}
      <4>1. trans' = trans /\ Step("append", r) # Step(s, Head(net).request)
        BY <3>2, <1>1 DEF ClearWritten, SetReadyForRequest, arrays, Step
      <4> QED BY <2>1, <2>d, <2>n, <4>1
    <3>3. CASE s = "append"
      <4>1. trans' = Append(trans, Head(net).request) /\ Head(net).request \in Nat
        BY <3>3, <1>1, NetTail DEF AddRequest
      <4>2. \A x : In(x, trans') <=> In(x, trans) \/ x = Head(net).request
        BY <4>1, <1>s, AppendBlock
      <4>3. Step("append", r) = Step("append", Head(net).request) => r = Head(net).request
        BY DEF Step
      <4> QED BY <2>1, <2>d, <2>n, <3>3, <4>2, <4>3
    <3>4. CASE s = "reset"
      <4>1. ~ In(r, trans)
        <5>1. In(Step("reset", Head(net).request), net) /\ Head(net).request \in Nat
          BY <2>n, <3>4, <1>1, NetTail
        <5>2. \A i \in DOMAIN trans : trans[i] <= Head(net).request
          BY <5>1 DEF Requested, InOrder
        <5>3. r > Head(net).request
          BY <5>1, <2>1 DEF Recent
        <5> QED BY <5>1, <5>2, <5>3, <1>s DEF In
      <4>2. Step("append", r) # Step("reset", Head(net).request)
        BY DEF Step
      <4> QED BY <2>1, <2>d, <2>n, <3>4, <4>1, <4>2
    <3> QED BY <3>1, <3>2, <3>3, <3>4
  <2>2. ASSUME NEW r \in toDelete', Recent(r) PROVE In(r, wire)
    BY <2>2, <2>d, <2>w
  <2>3. ASSUME index # 0, ~ mutated', NEW i \in DOMAIN trans', i < index, Recent(trans'[i])
        PROVE  In(trans'[i], wire)
    <3>1. CASE s \in {"clear", "ready"}
      <4>1. UNCHANGED <<trans, mutated>>
        BY <3>1, <1>1 DEF ClearWritten, SetReadyForRequest, arrays
      <4> QED BY <2>3, <2>d, <4>1
    <3>2. CASE s \notin {"clear", "ready"}
      <4>1. Disturb
        BY <3>2, <1>1 DEF PurgeWritten, AddRequest, Reset
      <4>2. ~ mutated /\ trans' = trans
        BY <2>3, <4>1, Zenon DEF Disturb
      <4> QED BY <2>3, <2>d, <4>2
    <3> QED BY <3>1, <3>2
  <2>4. (\A i \in DOMAIN trans' : trans'[i] \in Nat) /\ toDelete' \subseteq Nat
    BY LenProperties, ElementOfSeq DEF Shape
  <2> QED BY <1>2, <1>3, <2>1, <2>2, <2>3, <2>4 DEF Remembered
<1>7. Served'
  BY <1>4 DEF Served
<1> QED BY <1>3, <1>5, <1>6, <1>7 DEF Session
\* The other queues' steps, and the connection's.
LEMMA SessionKept ==
    ASSUME Shape, Shape', Life, Requested, Requested', Session, Next
    PROVE  Session'
<1>s. /\ trans \in Seq(Nat) /\ wire \in Seq(Nat) /\ made \in Nat /\ index \in Nat /\ conn \in Nat
      /\ since \in Nat /\ net \in Seq(AnyStep) /\ toDelete \subseteq 1 .. made
      /\ Len(trans) \in Nat /\ DOMAIN trans = 1 .. Len(trans) /\ DOMAIN wire = 1 .. Len(wire)
      /\ Increasing(trans) /\ \A i \in DOMAIN trans : trans[i] \in 1 .. made
      /\ \A i \in DOMAIN wire : wire[i] \in 1 .. made
  BY LenProperties DEF Shape, Requested
<1>u. ASSUME UNCHANGED <<trans, toDelete, net, wire, since, made, index, mutated>>
      PROVE  (Ordered' <=> Ordered) /\ (Remembered' <=> Remembered)
  BY <1>u DEF Ordered, Remembered, Recent, In
<1>1. CASE PurgeWritten \/ ClearWritten \/ AddRequest \/ SetReadyForRequest \/ Reset
  BY <1>1, SessionNet
<1>2. CASE ConnectionForgotten \/ ConnectionCreated \/ ConnectionOpening \/ DidConnect
  <2>1. ~ Up'
    <3>1. CASE DidConnect
      <4>1. nm' = Append(nm, "connected") /\ "connected" \in Blocks
        BY <3>1 DEF DidConnect, Blocks
      <4> QED BY <4>1, BlockArrives DEF Up
    <3>2. CASE ConnectionForgotten \/ ConnectionCreated \/ ConnectionOpening
      BY <3>2 DEF ConnectionForgotten, ConnectionCreated, ConnectionOpening, Up
    <3> QED BY <1>2, <3>1, <3>2
  <2> QED BY <2>1 DEF Session
<1>3. CASE ConnectionCloses
  <2>1. /\ nm' = Append(nm, "closed") /\ "closed" \in Blocks /\ link' = "closed"
        /\ link \in {"connecting", "open"}
        /\ UNCHANGED <<trans, toDelete, net, wire, since, made, index, mutated>>
    BY <1>3 DEF ConnectionCloses, Blocks, Untouched, arrays
  <2>2. In("connected", nm') <=> In("connected", nm)
    BY <2>1, BlockArrives
  <2>3. CASE link = "connecting"
    <3>1. DOMAIN wire' = {}
      BY <2>1, <2>3, EmptySeq DEF Life
    <3> QED BY <2>1, <3>1 DEF Session, Ordered
  <2>4. CASE link = "open"
    BY <1>u, <2>1, <2>2, <2>4 DEF Session, Up
  <2> QED BY <2>1, <2>3, <2>4
<1>4. CASE ConnectionStopping \/ RaiseMutation
  <2>1. /\ UNCHANGED <<trans, toDelete, net, wire, since, made, index, mutated, link, nm>>
        /\ ~ connected' \/ crashed'
    BY <1>4 DEF ConnectionStopping, RaiseMutation, Untouched, arrays, counters
  <2>2. Up' <=> Up
    BY <2>1 DEF Up
  <2> QED BY <1>u, <2>1, <2>2 DEF Session
<1>5. CASE Ready \/ Flush
  <2>1. UNCHANGED <<trans, toDelete, net, wire, since, made, index, mutated, link, connected, crashed>>
    BY <1>5 DEF Ready, Flush, arrays, writer, counters
  <2>2. (Up' <=> Up) /\ (Up /\ link = "open" /\ connected => Coming')
    <3>1. CASE Ready
      BY <2>1, <3>1, ReadyBlock DEF Up, Coming
    <3>2. CASE Flush
      <4>1. nm # <<>> /\ Head(nm) = "flush" /\ nm' = Tail(nm)
        BY <3>2 DEF Flush
      <4>2. In("connected", nm') <=> In("connected", nm)
        BY <4>1, BlockLeaves
      <4>3. link = "open" /\ connected => conn' > 0
        BY <1>s, <3>2 DEF Flush
      <4> QED BY <2>1, <4>2, <4>3 DEF Up, Coming
    <3> QED BY <1>5, <3>1, <3>2
  <2>3. Coming' => Served'
    BY DEF Served
  <2> QED BY <1>u, <2>1, <2>2, <2>3 DEF Session
<1>6. CASE SendData
  <2>1. PICK c : c = net \o SendDataSteps
    OBVIOUS
  <2>2. net' = c /\ made' = made + 2 /\ UNCHANGED <<trans, toDelete, wire, since, index, mutated, link, connected, nm, crashed>>
    BY <1>6, <2>1 DEF SendData, arrays, writer
  <2>3. /\ c \in Seq(AnyStep) /\ Len(c) = Len(net) + 7
        /\ \A r \in Nat : /\ In(Step("append", r), c)
                               <=> In(Step("append", r), net) \/ r \in {made + 1, made + 2}
                          /\ In(Step("reset", r), c) <=> In(Step("reset", r), net)
    <3>1. InOrder(net) /\ net \in Seq(AnyStep)
      BY DEF Requested, Shape
    <3> QED BY <2>1, <2>2, <3>1, PacketInOrder
  <2>4. \A r \in Nat : Recent(r)' <=> Recent(r)
    BY <2>2, <2>3 DEF Recent
  <2>5. Up' <=> Up
    BY <2>2 DEF Up
  <2>6. Ordered => Ordered'
    <3>1. \A k \in DOMAIN wire : wire[k] - 1 \in Nat
      BY <1>s
    <3> QED BY <2>2, <2>4, <3>1 DEF Ordered
  <2>7. ASSUME Remembered PROVE Remembered'
    <3>1. ASSUME NEW r \in 1 .. made + 2, Recent(r)
          PROVE  In(Step("append", r), c) \/ In(r, trans) \/ In(r, wire)
      <4>1. CASE r \in 1 .. made
        BY <2>3, <2>7, <3>1, <4>1 DEF Remembered
      <4>2. CASE r \in {made + 1, made + 2}
        BY <2>3, <3>1, <4>2
      <4> QED BY <1>s, <4>1, <4>2
    <3>2. \A r \in 1 .. made + 2 : r \in Nat
      BY <1>s
    <3>3. (\A i \in DOMAIN trans : trans[i] \in Nat) /\ \A r \in toDelete : r \in Nat
      BY <1>s
    <3> QED BY <2>2, <2>4, <2>7, <3>1, <3>2, <3>3 DEF Remembered
  <2>8. Coming'
    <3>1. net' # <<>>
      BY <1>s, <2>2, <2>3, EmptySeq, LenProperties
    <3> QED BY <3>1 DEF Coming
  <2> QED BY <2>2, <2>5, <2>6, <2>7, <2>8 DEF Session, Served
<1>7. CASE ConnectionUp
  <2>1. PICK q \in Seq(AnyStep) :
          /\ q = net \o <<Step("reset", made)>> /\ InOrder(q)
          /\ \A r \in Nat : /\ In(Step("append", r), q) <=> In(Step("append", r), net)
                            /\ In(Step("reset", r), q) <=> In(Step("reset", r), net) \/ r = made
    BY ResetInOrder
  <2>2. PICK c : c = q \o SendDataSteps
    OBVIOUS
  <2>3. net' = c /\ made' = made + 2 /\ UNCHANGED <<trans, toDelete, wire, since, index>>
    BY <1>7, <2>1, <2>2 DEF ConnectionUp, Untouched, arrays
  <2>4. /\ c \in Seq(AnyStep) /\ Len(c) = Len(q) + 7
        /\ \A r \in Nat : /\ In(Step("append", r), c)
                               <=> In(Step("append", r), q) \/ r \in {made + 1, made + 2}
                          /\ In(Step("reset", r), c) <=> In(Step("reset", r), q)
    BY <2>1, <2>2, <2>3, PacketInOrder
  <2>5. wire' = <<>> /\ index' = 0
    <3>1. nm # <<>> /\ Head(nm) = "connected" /\ nm' = Tail(nm)
      BY <1>7 DEF ConnectionUp, ManagerBlock
    <3>2. In("connected", nm)
      BY <3>1, BlockLeaves
    <3> QED BY <2>3, <3>2 DEF Life
  <2>6. ASSUME NEW r \in Nat, Recent(r)' PROVE r > made
    BY <1>s, <2>1, <2>3, <2>4, <2>6 DEF Recent
  <2>7. Ordered'
    BY <2>5, EmptySeq DEF Ordered
  <2>8. Remembered'
    <3>1. ASSUME NEW r \in 1 .. made + 2, Recent(r)' PROVE In(Step("append", r), c)
      <4>1. r \in Nat /\ r > made
        BY <1>s, <2>6, <3>1
      <4> QED BY <1>s, <2>1, <2>4, <4>1
    <3>2. \A r \in toDelete : ~ Recent(r)'
      <4> SUFFICES ASSUME NEW r \in toDelete, Recent(r)' PROVE FALSE
        OBVIOUS
      <4>1. r \in Nat /\ r <= made
        BY <1>s
      <4> QED BY <1>s, <2>6, <4>1
    <3> QED BY <2>3, <2>5, <3>1, <3>2 DEF Remembered
  <2>9. Coming'
    <3>1. net' # <<>>
      BY <2>3, <2>4, EmptySeq, LenProperties
    <3> QED BY <3>1 DEF Coming
  <2> QED BY <2>7, <2>8, <2>9 DEF Session, Served
<1>8. CASE BeginWriting \/ EndWriting
  <2>1. UNCHANGED <<trans, toDelete, net, wire, since, made, link, connected, nm, crashed>>
    BY <1>8 DEF BeginWriting, EndWriting, arrays, counters
  <2>2. Up' <=> Up
    BY <2>1 DEF Up
  <2>3. Ordered => Ordered'
    BY <2>1 DEF Ordered, Recent
  <2>4. index' \in {0, 1}
    BY <1>8 DEF BeginWriting, EndWriting
  <2>5. Remembered => Remembered'
    <3>1. \A r \in Nat : (Recent(r)' <=> Recent(r))
      BY <2>1 DEF Recent
    <3>2. (\A r \in 1 .. made : r \in Nat) /\ (\A r \in toDelete : r \in Nat)
      BY <1>s
    <3>3. \A i \in DOMAIN trans : ~ (i < index')
      BY <1>s, <2>4
    <3> QED BY <2>1, <3>1, <3>2, <3>3 DEF Remembered
  <2>6. Served => Served'
    <3>1. CASE BeginWriting
      <4>1. ~ mutated' /\ index' = 1
        BY <3>1 DEF BeginWriting
      <4>2. \A i \in DOMAIN trans : i >= index'
        BY <1>s, <4>1
      <4> QED BY <2>1, <4>1, <4>2 DEF Served
    <3>2. CASE EndWriting
      <4>1. index' = 0 /\ index # 0 /\ conn' = conn /\ \A i \in DOMAIN trans : ~ (i >= index)
        BY <1>s, <3>2 DEF EndWriting
      <4>2. Coming' <=> Coming
        BY <2>1, <4>1 DEF Coming
      <4>3. \A r : Recent(r)' <=> Recent(r)
        BY <2>1 DEF Recent
      <4> QED BY <2>1, <4>1, <4>2, <4>3 DEF Served
    <3> QED BY <1>8, <3>1, <3>2
  <2> QED BY <2>1, <2>2, <2>3, <2>5, <2>6 DEF Session
<1>9. CASE WriteRequest
  <2> DEFINE e == trans[index]
  <2>1. /\ index \in DOMAIN trans /\ index # 0 /\ ~ mutated /\ index' = index + 1
        /\ UNCHANGED <<trans, net, since, made, nm, conn, mutated, link, connected, crashed>>
        /\ wire' = IF link = "open" THEN Append(wire, e) ELSE wire
        /\ toDelete' \subseteq toDelete \cup {e}
    BY <1>s, <1>9 DEF WriteRequest, counters
  <2>2. e \in 1 .. made /\ e \in Nat
    <3>1. index \in DOMAIN trans /\ \A i \in DOMAIN trans : trans[i] \in 1 .. made
      BY <1>s, <2>1
    <3>2. e \in 1 .. made
      BY <3>1
    <3> QED BY <3>2, <1>s
  <2>3. (Up' <=> Up) /\ \A r : Recent(r)' <=> Recent(r)
    BY <2>1 DEF Up, Recent
  <2>4. CASE link # "open"
    BY <2>1, <2>3, <2>4 DEF Session, Ordered
  <2>5. CASE link = "open"
    <3> HIDE DEF e
    <3>1. Up /\ Ordered /\ Remembered
      <4>1. ~ In("connected", nm)
        BY <2>1 DEF Life
      <4> QED BY <2>5, <4>1 DEF Up, Session
    <3>2. \A r : In(r, wire') <=> In(r, wire) \/ r = e
      BY <1>s, <2>1, <2>2, <2>5, AppendBlock
    <3>3. /\ Len(wire) \in Nat /\ DOMAIN wire' = 1 .. Len(wire) + 1 /\ wire'[Len(wire) + 1] = e
          /\ \A i \in 1 .. Len(wire) : wire'[i] = wire[i]
      BY <1>s, <2>1, <2>2, <2>5, AppendProperties, LenProperties
    <3>4. Recent(e - 1) => In(e - 1, wire)
      <4> SUFFICES ASSUME Recent(e - 1) PROVE In(e - 1, wire)
        OBVIOUS
      <4>1. e - 1 \in 1 .. made
        BY <1>s, <2>2 DEF Recent
      <4>2. ~ In(Step("append", e - 1), net)
        <5>1. In(Step("append", e - 1), net) => e < e - 1
          <6>1. e - 1 \in Nat
            BY <4>1
          <6>2. In(Step("append", e - 1), net) => \A i \in DOMAIN trans : trans[i] < e - 1
            BY <6>1 DEF Requested, InOrder
          <6> QED BY <2>1, <6>2 DEF e
        <5> QED BY <2>2, <5>1
      <4>3. ASSUME In(e - 1, trans) PROVE In(e - 1, wire)
        <5>1. PICK j \in DOMAIN trans : trans[j] = e - 1
          BY <4>3 DEF In
        <5>2. ~ (index < j) /\ index # j
          <6>1. index < j => e < trans[j]
            BY <1>s, <2>1, <5>1 DEF Increasing, e
          <6>2. index = j => e = trans[j]
            BY DEF e
          <6> QED BY <2>2, <5>1, <6>1, <6>2
        <5>3. j < index
          BY <1>s, <2>1, <5>1, <5>2
        <5> QED BY <2>1, <3>1, <5>1, <5>3 DEF Remembered
      <4> QED BY <3>1, <4>1, <4>2, <4>3 DEF Remembered
    <3>5. Ordered'
      <4>1. ASSUME NEW k \in DOMAIN wire', Recent(wire'[k] - 1)
            PROVE  \E j \in 1 .. k - 1 : wire'[j] = wire'[k] - 1
        <5>1. CASE k \in 1 .. Len(wire)
          <6>1. k \in DOMAIN wire /\ wire'[k] = wire[k]
            BY <1>s, <3>3, <5>1
          <6>2. PICK j \in 1 .. k - 1 : wire[j] = wire[k] - 1
            BY <3>1, <4>1, <6>1 DEF Ordered
          <6>3. wire'[j] = wire[j]
            BY <3>3, <5>1, <6>2
          <6> QED BY <6>1, <6>2, <6>3
        <5>2. CASE k = Len(wire) + 1
          <6>1. wire'[k] = e /\ In(e - 1, wire)
            BY <3>3, <3>4, <4>1, <5>2
          <6>2. PICK j \in DOMAIN wire : wire[j] = e - 1
            BY <6>1 DEF In
          <6>3. j \in 1 .. k - 1 /\ wire'[j] = wire[j]
            BY <1>s, <3>3, <5>2, <6>2
          <6> QED BY <6>1, <6>2, <6>3
        <5> QED BY <3>3, <5>1, <5>2
      <4> QED BY <2>3, <4>1 DEF Ordered
    <3>6. Remembered'
      <4>1. ASSUME NEW i \in DOMAIN trans, i < index + 1, Recent(trans[i]) PROVE In(trans[i], wire')
        <5>1. CASE i < index
          BY <2>1, <3>1, <3>2, <4>1, <5>1 DEF Remembered
        <5>2. CASE i = index
          BY <3>2, <5>2 DEF e
        <5> QED BY <1>s, <2>1, <4>1, <5>1, <5>2
      <4>2. \A r \in toDelete' : Recent(r) => In(r, wire')
        BY <2>1, <3>1, <3>2 DEF Remembered
      <4>3. \A r \in 1 .. made : Recent(r) => In(Step("append", r), net) \/ In(r, trans) \/ In(r, wire')
        BY <3>1, <3>2 DEF Remembered
      <4> QED BY <2>1, <2>3, <4>1, <4>2, <4>3 DEF Remembered
    <3>7. Served => Served'
      <4>1. Coming' <=> Coming
        BY <2>1 DEF Coming
      <4>2. ASSUME Served, NEW i \in DOMAIN trans, Recent(trans[i])
            PROVE  In(trans[i], wire') \/ Coming \/ i >= index + 1
        <5>1. In(trans[i], wire) \/ Coming \/ i >= index
          BY <4>2 DEF Served
        <5>2. i = index => In(trans[i], wire')
          BY <3>2 DEF e
        <5> QED BY <1>s, <3>2, <5>1, <5>2
      <4>3. index' # 0
        BY <1>s, <2>1
      <4> QED BY <2>1, <2>3, <4>1, <4>2, <4>3 DEF Served
    <3> QED BY <2>1, <3>1, <3>5, <3>6, <3>7 DEF Session
  <2> QED BY <2>4, <2>5
<1> QED BY <1>1, <1>2, <1>3, <1>4, <1>5, <1>6, <1>7, <1>8, <1>9 DEF Next
-----------------------------------------------------------------------------
(* Packets one at a time                                                    *)

\* The step netQueue takes is the next one of the packet.
LEMMA NextOfPacket ==
    ASSUME Shape, OneAtATime, NEW s \in {"purge", "clear", "append", "ready", "reset"}, NetStep(s)
    PROVE  /\ Len(net) \in 1 .. 8 /\ Len(net') = Len(net) - 1 /\ Head(net) = Todo(Len(net))
           /\ Todo(Len(net)).step = s
           /\ \A i \in DOMAIN net' : net'[i] = Todo(Len(net') + 1 - i)
           /\ Len(net) \in {1, 2, 3, 4, 5, 6, 7, 8}
           /\ ~ In("connected", nm) /\ ~ Posted /\ conn = 0 /\ index = 0
<1>1. /\ net # <<>> /\ net' = Tail(net) /\ net' \in Seq(AnyStep)
      /\ Len(net') = Len(net) - 1 /\ Len(net) \in Nat \ {0}
      /\ \A i \in 1 .. Len(net) - 1 : net'[i] = net[i + 1]
      /\ Head(net) = net[1] /\ Head(net).step = s /\ net \in Seq(AnyStep)
  BY NetTail DEF NetStep, Shape
<1>2. DOMAIN net = 1 .. Len(net) /\ DOMAIN net' = 1 .. Len(net) - 1
  BY <1>1, LenProperties
<1>3. /\ Len(net) <= 8 /\ \A i \in DOMAIN net : net[i] = Todo(Len(net) + 1 - i)
      /\ ~ In("connected", nm) /\ ~ Posted /\ conn = 0 /\ index = 0
  BY <1>1 DEF OneAtATime, OfPacket, AtRest, Posted
<1>4. Len(net) \in 1 .. 8 /\ Len(net) \in {1, 2, 3, 4, 5, 6, 7, 8}
  <2>1. PICK n \in Nat \ {0} : n = Len(net)
    BY <1>1
  <2>2. n <= 8
    BY <1>3, <2>1
  <2>3. n \in {1, 2, 3, 4, 5, 6, 7, 8} /\ n \in 1 .. 8
    BY <2>2
  <2> QED BY <2>1, <2>3, Zenon
<1>5. Head(net) = Todo(Len(net))
  <2>1. 1 \in DOMAIN net /\ Len(net) + 1 - 1 = Len(net)
    BY <1>2, <1>4
  <2> QED BY <1>1, <1>3, <2>1
<1>6. ASSUME NEW i \in DOMAIN net' PROVE net'[i] = Todo(Len(net') + 1 - i)
  <2>1. i + 1 \in DOMAIN net /\ net'[i] = net[i + 1] /\ Len(net) + 1 - (i + 1) = Len(net') + 1 - i
    BY <1>1, <1>2
  <2> QED BY <1>3, <2>1
<1> QED BY <1>1, <1>3, <1>4, <1>5, <1>6
LEMMA PacketTodo ==
    ASSUME Shape, net = <<>>, made' = made + 2,
           \/ net' = net \o SendDataSteps
           \/ net' = (net \o <<Step("reset", made)>>) \o SendDataSteps
    PROVE  /\ OfPacket' /\ net' # <<>>
           /\ Len(net') = IF net' = net \o SendDataSteps THEN 7 ELSE 8
<1>m. made \in Nat
  BY DEF Shape
<1>1. PICK w \in Seq(AnyStep) :
        /\ w = SendDataSteps /\ Len(w) = 7
        /\ w[1] = Step("purge", 0) /\ w[2] = Step("clear", 0) /\ w[3] = Step("append", made + 1)
        /\ w[4] = Step("purge", 0) /\ w[5] = Step("clear", 0) /\ w[6] = Step("append", made + 2)
        /\ w[7] = Step("ready", 0)
  BY <1>m, SevenSteps
<1>2. PICK q \in Seq(AnyStep) : q = <<Step("reset", made)>>
  <2>1. <<Step("reset", made)>> \in Seq(AnyStep)
    BY <1>m DEF Step, AnyStep
  <2> QED BY <2>1
<1>3. Len(q) = 1 /\ q[1] = Step("reset", made)
  BY <1>2
<1>4. net \o w = w /\ net \o q = q
  <2>1. net \in Seq(AnyStep)
    BY DEF Shape
  <2> QED BY <2>1, ConcatEmptySeq
<1>5. CASE net' = w
  <2>1. DOMAIN w = 1 .. 7 /\ \A i \in 1 .. 7 : i \in {1, 2, 3, 4, 5, 6, 7}
    BY <1>1, LenProperties
  <2>2. made' - 1 = made + 1
    BY <1>m
  <2>3. \A i \in DOMAIN net' : net'[i] = Todo(8 - i)'
    BY <1>1, <1>5, <2>1, <2>2 DEF Todo
  <2>4. Len(net') = 7 /\ net' # <<>>
    BY <1>1, <1>5, <2>1, EmptySeq
  <2>5. OfPacket'
    <3>1. \A i \in DOMAIN net' : Len(net') + 1 - i = 8 - i
      BY <1>5, <2>1, <2>4
    <3> QED BY <2>3, <2>4, <3>1 DEF OfPacket
  <2> QED BY <1>1, <1>4, <1>5, <2>4, <2>5
<1>6. CASE net' = q \o w
  <2>1. /\ Len(net') = 8 /\ DOMAIN net' = 1 .. 8
        /\ \A i \in 1 .. 8 : net'[i] = IF i <= 1 THEN q[i] ELSE w[i - 1]
    <3>1. PICK v : v = q \o w
      OBVIOUS
    <3>2. /\ v \in Seq(AnyStep) /\ Len(v) = Len(q) + Len(w)
          /\ \A i \in 1 .. Len(q) + Len(w) : v[i] = IF i <= Len(q) THEN q[i] ELSE w[i - Len(q)]
      BY <3>1, ConcatProperties
    <3>3. Len(v) = 8 /\ DOMAIN v = 1 .. 8
      BY <1>1, <1>3, <3>2, LenProperties
    <3>4. \A i \in 1 .. 8 : v[i] = IF i <= 1 THEN q[i] ELSE w[i - 1]
      BY <1>1, <1>3, <3>2
    <3> QED BY <1>6, <3>1, <3>3, <3>4
  <2>2. made' - 1 = made + 1 /\ made' - 2 = made
    BY <1>m
  <2>3. \A i \in 1 .. 8 : i \in {1, 2, 3, 4, 5, 6, 7, 8}
    OBVIOUS
  <2>4. /\ net'[1] = q[1] /\ net'[2] = w[1] /\ net'[3] = w[2] /\ net'[4] = w[3] /\ net'[5] = w[4]
        /\ net'[6] = w[5] /\ net'[7] = w[6] /\ net'[8] = w[7]
    BY <2>1
  <2>5. \A i \in DOMAIN net' : net'[i] = Todo(9 - i)'
    BY <1>1, <1>3, <2>1, <2>2, <2>3, <2>4 DEF Todo
  <2>6. net' # w /\ net' # <<>>
    <3>1. Len(<<>>) = 0 /\ Len(w) = 7 /\ Len(net') = 8
      BY <1>1, <2>1, EmptySeq
    <3>2. 7 # 8 /\ 0 # 8
      OBVIOUS
    <3> QED BY <3>1, <3>2, Zenon
  <2>7. OfPacket'
    <3>1. \A i \in DOMAIN net' : Len(net') + 1 - i = 9 - i
      BY <2>1
    <3> QED BY <2>1, <2>5, <3>1 DEF OfPacket
  <2> QED BY <1>1, <1>4, <2>1, <2>6, <2>7
<1> QED BY <1>1, <1>2, <1>4, <1>5, <1>6

LEMMA OneAtATimeKept ==
    ASSUME Shape, Life, Life', spaced, OneAtATime, Next
    PROVE  OneAtATime'
<1>b. /\ OfPacket
      /\ net # <<>> => ~ In("ready", nm) /\ ~ In("flush", nm) /\ conn = 0 /\ index = 0
      /\ In("ready", nm) => Once("ready", nm) /\ ~ In("flush", nm) /\ conn = 0 /\ index = 0
      /\ In("flush", nm) => conn = 0 /\ index = 0
      /\ conn <= 1 /\ (conn = 1 => index = 0)
      /\ In("connected", nm) => AtRest
  BY DEF OneAtATime
<1>n. UNCHANGED <<net, made>> => OfPacket'
  BY <1>b DEF OfPacket, Todo
<1>1. CASE SendData
  <2>1. /\ net = <<>> /\ nm = <<>> /\ conn = 0 /\ index = 0
        /\ net' = net \o SendDataSteps /\ made' = made + 2
        /\ UNCHANGED <<nm, conn, index>>
    BY <1>1 DEF SendData, Quiet, writer
  <2>2. \A b : ~ In(b, nm)
    BY <2>1, EmptySeq DEF In
  <2> QED BY <2>1, <2>2, PacketTodo DEF OneAtATime
<1>2. CASE ConnectionStopping \/ ConnectionCreated \/ ConnectionOpening \/ RaiseMutation
  <2>1. UNCHANGED <<net, nm, conn, index, made>>
    BY <1>2 DEF ConnectionStopping, ConnectionCreated, ConnectionOpening, RaiseMutation, Untouched,
       counters
  <2> QED BY <1>b, <1>n, <2>1 DEF OneAtATime, AtRest
<1>3. CASE ConnectionCloses
  <2>1. nm' = Append(nm, "closed") /\ "closed" \in Blocks /\ UNCHANGED <<net, conn, index, made>>
    BY <1>3 DEF ConnectionCloses, Untouched, Blocks
  <2>2. /\ In("connected", nm') <=> In("connected", nm)
        /\ In("flush", nm') <=> In("flush", nm)
        /\ In("ready", nm') <=> In("ready", nm)
        /\ Once("ready", nm) => Once("ready", nm')
    BY <2>1, BlockArrives
  <2> QED BY <1>b, <1>n, <2>1, <2>2 DEF OneAtATime, AtRest
<1>4. CASE DidConnect
  <2>1. /\ nm' = Append(nm, "connected") /\ "connected" \in Blocks
        /\ net = <<>> /\ nm = <<>> /\ conn = 0 /\ index = 0 /\ UNCHANGED <<net, conn, index, made>>
    BY <1>4 DEF DidConnect, Untouched, Blocks, Quiet
  <2>2. ~ In("ready", nm') /\ ~ In("flush", nm')
    <3>1. ~ In("ready", nm) /\ ~ In("flush", nm)
      BY <2>1, EmptySeq DEF In
    <3> QED BY <2>1, <3>1, BlockArrives
  <2> QED BY <1>b, <1>n, <2>1, <2>2 DEF OneAtATime, AtRest
<1>5. CASE ConnectionForgotten
  <2>1. nm # <<>> /\ Head(nm) = "closed" /\ nm' = Tail(nm) /\ UNCHANGED <<net, conn, index, made>>
    BY <1>5 DEF ConnectionForgotten, ManagerBlock, Untouched
  <2>2. /\ In("connected", nm') <=> In("connected", nm)
        /\ In("flush", nm') <=> In("flush", nm)
        /\ In("ready", nm') <=> In("ready", nm)
        /\ Once("ready", nm) => Once("ready", nm')
    BY <2>1, BlockLeaves
  <2> QED BY <1>b, <1>n, <2>1, <2>2 DEF OneAtATime, AtRest
<1>6. CASE ConnectionUp
  <2>1. /\ nm # <<>> /\ Head(nm) = "connected" /\ nm' = Tail(nm) /\ UNCHANGED <<conn, index>>
        /\ made' = made + 2 /\ net' = net \o <<Step("reset", made)>> \o SendDataSteps /\ connected'
    BY <1>6 DEF ConnectionUp, ManagerBlock, Untouched
  <2>2. /\ In("connected", nm)
        /\ In("flush", nm') => In("flush", nm)
        /\ In("ready", nm') => In("ready", nm)
    BY <2>1, BlockLeaves
  <2>3. ~ In("connected", nm') /\ ~ In("flush", nm') /\ ~ In("ready", nm') /\ net = <<>> /\ conn = 0 /\ index = 0
    BY <1>b, <2>1, <2>2 DEF AtRest, Life
  <2>4. OfPacket' /\ net' # <<>>
    BY <2>1, <2>3, PacketTodo
  <2> QED BY <2>1, <2>3, <2>4 DEF OneAtATime
<1>7. CASE PurgeWritten \/ ClearWritten \/ AddRequest \/ SetReadyForRequest \/ Reset
  <2>1. PICK s \in {"purge", "clear", "append", "ready", "reset"} :
          /\ NetStep(s) /\ (s = "ready" => SetReadyForRequest) /\ (s # "ready" => nm' = nm)
    BY <1>7 DEF PurgeWritten, ClearWritten, AddRequest, SetReadyForRequest, Reset
  <2>2. /\ Len(net) \in 1 .. 8 /\ Len(net') = Len(net) - 1
        /\ Todo(Len(net)).step = s
        /\ \A i \in DOMAIN net' : net'[i] = Todo(Len(net') + 1 - i)
        /\ Len(net) \in {1, 2, 3, 4, 5, 6, 7, 8}
        /\ ~ In("connected", nm) /\ ~ Posted /\ conn = 0 /\ index = 0
    BY <2>1, NextOfPacket
  <2>3. UNCHANGED <<made, conn, index>>
    BY <2>1 DEF NetStep, counters
  <2>4. OfPacket'
    <3>1. Len(net') <= 8
      <4>1. PICK n \in 1 .. 8 : n = Len(net)
        BY <2>2
      <4>2. Len(net') = n - 1
        BY <4>1, <2>2, Zenon
      <4>3. n - 1 <= 8
        OBVIOUS
      <4> QED BY <4>2, <4>3, Zenon
    <3> QED BY <3>1, <2>2, <2>3 DEF OfPacket, Todo
  <2>5. CASE s # "ready"
    BY <2>1, <2>2, <2>3, <2>4, <2>5 DEF OneAtATime, Posted
  <2>6. CASE s = "ready"
    <3>1. Len(net) = 1
      BY <2>2, <2>6 DEF Todo, Step
    <3>2. net' = <<>>
      <4>1. net' \in Seq(AnyStep) /\ Len(net') = 0
        BY <2>1, <2>2, <3>1, NetTail
      <4> QED BY <4>1, EmptySeq
    <3>3. nm' = Append(nm, "ready") /\ "ready" \in Blocks
      BY <2>1, <2>6 DEF SetReadyForRequest, Blocks
    <3>4. /\ ~ In("connected", nm') /\ ~ In("flush", nm') /\ Once("ready", nm')
      <4>1. Once("ready", nm)
        BY <2>2 DEF Posted, Once, In
      <4> QED BY <2>2, <3>3, <4>1, BlockArrives DEF Posted
    <3> QED BY <2>2, <2>3, <2>4, <3>2, <3>4 DEF OneAtATime
  <2> QED BY <2>5, <2>6
<1>8. CASE Ready
  <2>1. In("ready", nm) /\ UNCHANGED <<net, made, conn, index>>
    <3>1. nm # <<>> /\ Head(nm) = "ready"
      BY <1>8 DEF Ready
    <3>2. In("ready", nm)
      BY <3>1, TailBlock DEF Shape
    <3> QED BY <1>8, <3>2 DEF Ready, writer, counters
  <2>2. ~ In("ready", nm') /\ (In("connected", nm') <=> In("connected", nm))
    BY <1>8, <1>b, <2>1, ReadyBlock
  <2> QED BY <1>b, <1>n, <2>1, <2>2 DEF OneAtATime, AtRest
<1>9. CASE Flush
  <2>1. /\ nm # <<>> /\ Head(nm) = "flush" /\ nm' = Tail(nm) /\ UNCHANGED <<net, made, index>>
        /\ conn' = conn \/ conn' = conn + 1
    BY <1>9 DEF Flush, counters
  <2>2. /\ In("flush", nm) /\ ~ In("flush", nm') /\ (In("ready", nm') => In("ready", nm))
        /\ (In("connected", nm') => In("connected", nm))
    BY <2>1, BlockLeaves DEF Life
  <2>3. net = <<>> /\ ~ In("ready", nm) /\ ~ In("connected", nm) /\ conn = 0 /\ index = 0
    BY <1>b, <2>2 DEF AtRest
  <2> QED BY <1>b, <1>n, <2>1, <2>2, <2>3 DEF OneAtATime
<1>10. CASE BeginWriting
  <2>1. UNCHANGED <<net, nm, made>> /\ conn > 0 /\ conn' = conn - 1
    BY <1>10 DEF BeginWriting, counters
  <2>2. conn = 1 /\ conn' = 0 /\ net = <<>> /\ ~ Posted' /\ ~ In("connected", nm)
    BY <1>b, <2>1 DEF AtRest, Posted, Shape
  <2> QED BY <1>b, <1>n, <2>1, <2>2 DEF OneAtATime, Posted
<1>11. CASE WriteRequest \/ EndWriting
  <2>1. UNCHANGED <<net, nm, made, conn>> /\ index # 0
    <3>1. UNCHANGED <<net, nm, made, conn>>
      BY <1>11 DEF WriteRequest, EndWriting, counters
    <3>2. Len(trans) \in Nat /\ index \in Nat /\ (index \in 1 .. Len(trans) \/ index > Len(trans))
      BY <1>11, LenProperties DEF WriteRequest, EndWriting, Shape
    <3> QED BY <3>1, <3>2
  <2>2. conn # 1 /\ net = <<>> /\ ~ In("ready", nm) /\ ~ In("flush", nm) /\ ~ In("connected", nm)
    BY <1>b, <2>1 DEF AtRest
  <2> QED BY <1>b, <1>n, <2>1, <2>2 DEF OneAtATime
<1> QED BY <1>1, <1>2, <1>3, <1>4, <1>5, <1>6, <1>7, <1>8, <1>9, <1>10, <1>11 DEF Next
LEMMA ProgressNet ==
    ASSUME Shape, Shape', Requested, OneAtATime, InStep => Progress, InStep',
           PurgeWritten \/ ClearWritten \/ AddRequest \/ SetReadyForRequest \/ Reset
    PROVE  Progress'
<1>s. /\ trans \in Seq(Nat) /\ wire \in Seq(Nat) /\ made \in Nat /\ since \in Nat
      /\ DOMAIN trans = 1 .. Len(trans) /\ Len(trans) \in Nat /\ Increasing(trans)
  BY LenProperties DEF Shape, Requested
<1>1. PICK s \in {"purge", "clear", "append", "ready", "reset"} :
        /\ NetStep(s)
        /\ s = "purge" => PurgeWritten
        /\ s = "clear" => ClearWritten
        /\ s = "append" => AddRequest
        /\ s = "ready" => SetReadyForRequest
        /\ s = "reset" => Reset
  BY DEF PurgeWritten, ClearWritten, AddRequest, SetReadyForRequest, Reset
<1>2. /\ Len(net) \in 1 .. 8 /\ Len(net') = Len(net) - 1 /\ Head(net) = Todo(Len(net))
      /\ Todo(Len(net)).step = s /\ Len(net) \in {1, 2, 3, 4, 5, 6, 7, 8}
      /\ ~ In("connected", nm) /\ ~ Posted /\ conn = 0 /\ index = 0
  BY <1>1, NextOfPacket
<1>3. UNCHANGED <<link, connected, conn, index, wire, made>>
  BY <1>1 DEF NetStep, counters
<1>4. InStep
  BY <1>2, <1>3 DEF InStep, Up
<1>5. s # "reset" => Wrote(made - 2)' = Wrote(made - 2)
  <2>1. s # "reset" => since' = since
    BY <1>1 DEF PurgeWritten, ClearWritten, AddRequest, SetReadyForRequest
  <2> QED BY <1>3, <2>1 DEF Wrote
<1>6. s # "ready" => nm' = nm /\ ~ Posted'
  <2>1. s # "ready" => nm' = nm
    BY <1>1 DEF PurgeWritten, ClearWritten, AddRequest, Reset
  <2> QED BY <1>2, <1>3, <2>1 DEF Posted
<1>7. net' # <<>> <=> Len(net') # 0
  <2>1. net' \in Seq(AnyStep)
    BY DEF Shape
  <2> QED BY <2>1, EmptySeq
<1>8. CASE Len(net) = 8
  <2>1. s = "reset" /\ Head(net).request = made - 2
    BY <1>2, <1>8 DEF Todo, Step
  <2>2. trans' = <<>> /\ since' = made - 2
    BY <1>1, <2>1 DEF Reset
  <2>3. wire = <<>>
    BY <1>4, <1>8 DEF Progress
  <2>4. Wrote(made - 2)'
    <3>1. Len(wire') = 0 /\ made' - 2 = since' /\ since' \in Nat
      BY <1>3, <2>2, <2>3, EmptySeq DEF Shape
    <3> QED BY <3>1 DEF Wrote
  <2>5. DOMAIN trans' = {}
    BY <2>2, EmptySeq
  <2>6. Len(net') = 7 /\ ~ AtRest' /\ ~ Posted' /\ index' = 0
    BY <1>2, <1>3, <1>6, <1>7, <1>8, <2>1 DEF AtRest
  <2> QED BY <2>4, <2>5, <2>6 DEF Progress
<1>9. CASE Len(net) = 7
  <2>1. s = "purge" /\ Wrote(made - 2) /\ \A i \in DOMAIN trans : trans[i] \in toDelete
    BY <1>2, <1>4, <1>9 DEF Todo, Step, Progress
  <2>2. trans' = <<>>
    <3> DEFINE u == Without(trans, toDelete)
    <3>1. /\ u \in Seq(Nat) /\ Increasing(u)
          /\ \A k \in DOMAIN u : \E i \in DOMAIN trans : trans[i] = u[k] /\ trans[i] \notin toDelete
      BY <1>s, WithoutLeaves
    <3>2. trans' = u
      BY <1>1, <2>1 DEF PurgeWritten, Unwritten
    <3> HIDE DEF u
    <3>3. DOMAIN u = {} /\ DOMAIN u = 1 .. Len(u) /\ Len(u) \in Nat
      BY <2>1, <3>1, LenProperties
    <3>4. Len(u) = 0
      BY <3>3
    <3> QED BY <3>1, <3>2, <3>4, EmptySeq
  <2>3. Len(net') = 6 /\ ~ AtRest' /\ ~ Posted' /\ index' = 0
    BY <1>2, <1>3, <1>6, <1>7, <1>9, <2>1 DEF AtRest
  <2> QED BY <1>5, <2>1, <2>2, <2>3 DEF Progress
<1>10. CASE Len(net) = 6
  <2>1. s = "clear" /\ Wrote(made - 2) /\ trans = <<>>
    BY <1>2, <1>4, <1>10 DEF Todo, Step, Progress
  <2>2. trans' = <<>> /\ toDelete' = {}
    BY <1>1, <2>1 DEF ClearWritten
  <2>3. Len(net') = 5 /\ ~ AtRest' /\ ~ Posted' /\ index' = 0
    BY <1>2, <1>3, <1>6, <1>7, <1>10, <2>1 DEF AtRest
  <2> QED BY <1>5, <2>1, <2>2, <2>3 DEF Progress
<1>11. CASE Len(net) = 5
  <2>1. s = "append" /\ Wrote(made - 2) /\ trans = <<>> /\ toDelete = {} /\ Head(net).request = made - 1
    BY <1>2, <1>4, <1>11 DEF Todo, Step, Progress
  <2>2. toDelete' = {} /\ Len(trans') = 1 /\ trans'[1] = made - 1
    <3>1. trans' = Append(<<>>, made - 1) /\ toDelete' = {}
      BY <1>1, <2>1 DEF AddRequest
    <3> QED BY <3>1
  <2>3. Len(net') = 4 /\ ~ AtRest' /\ ~ Posted' /\ index' = 0
    BY <1>2, <1>3, <1>6, <1>7, <1>11, <2>1 DEF AtRest
  <2> QED BY <1>3, <1>5, <2>1, <2>2, <2>3 DEF Progress
<1>12. CASE Len(net) = 4
  <2>1. s = "purge" /\ Wrote(made - 2) /\ toDelete = {} /\ Len(trans) = 1 /\ trans[1] = made - 1
    BY <1>2, <1>4, <1>12 DEF Todo, Step, Progress
  <2>2. Len(trans') = 1 /\ trans'[1] = made - 1
    <3>1. PICK u : u = Without(trans, toDelete)
      OBVIOUS
    <3>2. /\ u \in Seq(Nat) /\ Increasing(u)
          /\ \A k \in DOMAIN u : \E i \in DOMAIN trans : trans[i] = u[k]
      <4>1. /\ Without(trans, toDelete) \in Seq(Nat) /\ Increasing(Without(trans, toDelete))
            /\ \A k \in DOMAIN Without(trans, toDelete) :
                  \E i \in DOMAIN trans : trans[i] = Without(trans, toDelete)[k] /\ trans[i] \notin toDelete
        BY <1>s, WithoutLeaves
      <4> QED BY <3>1, <4>1
    <3>3. \A i \in DOMAIN trans : trans[i] \notin toDelete => \E k \in DOMAIN u : u[k] = trans[i]
      BY <1>s, <3>1, WithoutKeeps
    <3>4. /\ DOMAIN trans = {1} /\ DOMAIN u = 1 .. Len(u) /\ Len(u) \in Nat
      BY <1>s, <2>1, <3>2, LenProperties
    <3>5. \A k \in DOMAIN u : u[k] = made - 1
      BY <2>1, <3>2, <3>4
    <3>6. Len(u) # 0
      BY <2>1, <3>3, <3>4
    <3>7. ~ (Len(u) >= 2)
      <4> SUFFICES ASSUME Len(u) >= 2 PROVE FALSE
        OBVIOUS
      <4>1. 1 \in DOMAIN u /\ 2 \in DOMAIN u
        BY <3>4
      <4>2. u[1] < u[2] /\ u[1] = made - 1 /\ u[2] = made - 1
        BY <3>2, <3>5, <4>1 DEF Increasing
      <4> QED BY <1>s, <4>2
    <3>8. Len(u) = 1 /\ u[1] = made - 1
      BY <3>4, <3>5, <3>6, <3>7
    <3>9. trans' = u
      BY <1>1, <2>1, <3>1 DEF PurgeWritten, Unwritten
    <3> QED BY <3>8, <3>9
  <2>3. Len(net') = 3 /\ ~ AtRest' /\ ~ Posted' /\ index' = 0 /\ toDelete' = toDelete
    BY <1>1, <1>2, <1>3, <1>6, <1>7, <1>12, <2>1 DEF AtRest, PurgeWritten
  <2> QED BY <1>3, <1>5, <2>1, <2>2, <2>3 DEF Progress
<1>13. CASE Len(net) = 3
  <2>1. s = "clear" /\ Wrote(made - 2) /\ toDelete = {} /\ Len(trans) = 1 /\ trans[1] = made - 1
    BY <1>2, <1>4, <1>13 DEF Todo, Step, Progress
  <2>2. trans' = trans /\ toDelete' = {}
    BY <1>1, <2>1 DEF ClearWritten
  <2>3. Len(net') = 2 /\ ~ AtRest' /\ ~ Posted' /\ index' = 0
    BY <1>2, <1>3, <1>6, <1>7, <1>13, <2>1 DEF AtRest
  <2> QED BY <1>3, <1>5, <2>1, <2>2, <2>3 DEF Progress
<1>14. CASE Len(net) = 2
  <2>1. /\ s = "append" /\ Wrote(made - 2) /\ toDelete = {} /\ Len(trans) = 1 /\ trans[1] = made - 1
        /\ Head(net).request = made
    BY <1>2, <1>4, <1>14 DEF Todo, Step, Progress
  <2>2. toDelete' = {} /\ Both'
    <3>1. trans' = Append(trans, made) /\ toDelete' = {}
      BY <1>1, <2>1 DEF AddRequest
    <3>2. Len(trans') = 2 /\ trans'[1] = trans[1] /\ trans'[2] = made
      <4>1. PICK v : v = Append(trans, made)
        OBVIOUS
      <4>2. /\ Len(v) = Len(trans) + 1 /\ \A i \in 1 .. Len(trans) : v[i] = trans[i]
            /\ v[Len(trans) + 1] = made
        BY <1>s, <4>1, AppendProperties
      <4>3. Len(v) = 2 /\ v[1] = trans[1] /\ v[2] = made
        BY <2>1, <4>2
      <4> QED BY <3>1, <4>1, <4>3, Zenon
    <3> QED BY <1>3, <2>1, <3>1, <3>2 DEF Both
  <2>3. Len(net') = 1 /\ ~ AtRest' /\ ~ Posted' /\ index' = 0
    BY <1>2, <1>3, <1>6, <1>7, <1>14, <2>1 DEF AtRest
  <2> QED BY <1>5, <2>1, <2>2, <2>3 DEF Progress
<1>15. CASE Len(net) = 1
  <2>1. s = "ready" /\ Wrote(made - 2) /\ toDelete = {} /\ Both
    BY <1>2, <1>4, <1>15 DEF Todo, Step, Progress
  <2>2. nm' = Append(nm, "ready") /\ UNCHANGED <<trans, toDelete>> /\ "ready" \in Blocks
    BY <1>1, <2>1 DEF SetReadyForRequest, arrays, Blocks
  <2>3. In("ready", nm')
    BY <2>2, BlockArrives
  <2>4. Len(net') = 0 /\ ~ AtRest' /\ index' = 0 /\ Both' /\ toDelete' = {}
    BY <1>2, <1>3, <1>15, <2>1, <2>2, <2>3 DEF AtRest, Both
  <2> QED BY <1>5, <2>1, <2>4 DEF Progress
<1> QED BY <1>2, <1>8, <1>9, <1>10, <1>11, <1>12, <1>13, <1>14, <1>15
LEMMA ProgressKept ==
    ASSUME Shape, Shape', Life, Requested, spaced, OneAtATime, InStep => Progress, Next, InStep'
    PROVE  Progress'
<1>s. /\ trans \in Seq(Nat) /\ wire \in Seq(Nat) /\ made \in Nat /\ since \in Nat /\ since <= made
      /\ DOMAIN trans = 1 .. Len(trans) /\ Len(trans) \in Nat /\ index \in Nat /\ conn \in Nat
  BY LenProperties DEF Shape, Requested
<1>e. Len(<<>>) = 0
  BY EmptySeq
<1>1. CASE PurgeWritten \/ ClearWritten \/ AddRequest \/ SetReadyForRequest \/ Reset
  BY <1>1, ProgressNet
<1>2. CASE \/ ConnectionStopping \/ ConnectionCloses \/ ConnectionForgotten \/ ConnectionCreated
           \/ ConnectionOpening \/ DidConnect
  <2>1. CASE DidConnect
    <3>1. nm' = Append(nm, "connected") /\ "connected" \in Blocks
      BY <2>1 DEF DidConnect, Blocks
    <3> QED BY <3>1, BlockArrives DEF Up, InStep
  <2>2. CASE ConnectionStopping \/ ConnectionCloses \/ ConnectionForgotten \/ ConnectionCreated \/ ConnectionOpening
    BY <2>2 DEF ConnectionStopping, ConnectionCloses, ConnectionForgotten, ConnectionCreated,
       ConnectionOpening, InStep
  <2> QED BY <1>2, <2>1, <2>2
<1>3. CASE SendData
  <2>1. /\ net = <<>> /\ nm = <<>> /\ conn = 0 /\ index = 0
        /\ net' = net \o SendDataSteps /\ made' = made + 2
        /\ UNCHANGED <<nm, conn, index, trans, toDelete, wire, since, link, connected>>
    BY <1>3 DEF SendData, Quiet, writer, arrays
  <2>2. \A b : ~ In(b, nm)
    BY <2>1, EmptySeq DEF In
  <2>3. AtRest /\ InStep
    BY <2>1, <2>2 DEF AtRest, InStep, Up
  <2>4. Len(net') = 7 /\ net' # <<>>
    BY <2>1, PacketTodo
  <2>5. Wrote(made - 2)'
    <3>1. Wrote(made) /\ made' - 2 = made
      BY <1>s, <2>1, <2>3 DEF Progress
    <3> QED BY <2>1, <3>1 DEF Wrote
  <2>6. ~ AtRest' /\ ~ Posted' /\ index' = 0 /\ \A i \in DOMAIN trans' : trans'[i] \in toDelete'
    BY <2>1, <2>2, <2>3, <2>4 DEF AtRest, Posted, Progress
  <2> QED BY <2>4, <2>5, <2>6 DEF Progress
<1>4. CASE ConnectionUp
  <2>1. /\ nm # <<>> /\ Head(nm) = "connected" /\ nm' = Tail(nm) /\ UNCHANGED <<conn, index, wire>>
        /\ made' = made + 2 /\ net' = net \o <<Step("reset", made)>> \o SendDataSteps
    BY <1>4 DEF ConnectionUp, ManagerBlock, Untouched
  <2>2. /\ In("connected", nm)
        /\ In("flush", nm') => In("flush", nm)
        /\ In("ready", nm') => In("ready", nm)
    BY <2>1, BlockLeaves
  <2>3. AtRest /\ wire' = <<>>
    BY <2>1, <2>2 DEF OneAtATime, Life
  <2>4. OfPacket' /\ net' # <<>> /\ Len(net') \in {7, 8}
    BY <2>1, <2>3, PacketTodo DEF AtRest
  <2>5. Len(net') = 8
    <3>1. PICK w \in Seq(AnyStep) : w = SendDataSteps /\ Len(w) = 7
      BY PacketSteps
    <3>2. PICK q \in Seq(AnyStep) : q = net \o <<Step("reset", made)>>
      BY ResetInOrder
    <3>3. PICK x \in AnyStep : x = Step("reset", made)
      BY <1>s DEF Step, AnyStep
    <3>4. Len(q) = 1
      <4>1. net \in Seq(AnyStep) /\ Len(net) = 0 /\ q = Append(net, x)
        BY <1>e, <2>3, <3>2, <3>3, AppendIsConcat DEF AtRest, Shape
      <4>2. Len(Append(net, x)) = Len(net) + 1
        BY <4>1, AppendProperties
      <4> QED BY <4>1, <4>2
    <3>5. Len(q \o w) = Len(q) + Len(w)
      BY ConcatProperties
    <3>6. net' = q \o w
      BY <2>1, <3>1, <3>2
    <3> QED BY <3>1, <3>4, <3>5, <3>6
  <2>6. ~ AtRest' /\ ~ Posted' /\ index' = 0
    BY <1>s, <2>1, <2>2, <2>3, <2>4 DEF AtRest, Posted
  <2> QED BY <2>3, <2>5, <2>6 DEF Progress
<1>5. CASE Ready \/ Flush
  <2>1. /\ UNCHANGED <<trans, toDelete, net, wire, since, made, index, link, connected>>
        /\ nm # <<>> /\ Head(nm) \in {"ready", "flush"}
    BY <1>5 DEF Ready, Flush, arrays, writer, counters
  <2>2. (In("ready", nm) \/ In("flush", nm)) /\ (In("connected", nm) => In("connected", nm'))
    <3>1. In(Head(nm), nm)
      BY <2>1, TailBlock DEF Shape
    <3>2. CASE Ready
      BY <2>1, <3>1, <3>2, ReadyBlock
    <3>3. CASE Flush
      <4>1. nm' = Tail(nm) /\ Head(nm) = "flush"
        BY <3>3 DEF Flush
      <4> QED BY <2>1, <3>1, <4>1, BlockLeaves
    <3> QED BY <1>5, <3>2, <3>3
  <2>3. Posted /\ InStep /\ net = <<>> /\ index = 0
    BY <2>1, <2>2 DEF Posted, InStep, Up, OneAtATime
  <2>4. Posted'
    <3>1. CASE Ready
      BY <3>1, ReadyBlock DEF Posted
    <3>2. CASE Flush
      <4>1. conn' = conn + 1
        BY <2>3, <3>2 DEF Flush, InStep
      <4> QED BY <1>s, <4>1 DEF Posted
    <3> QED BY <1>5, <3>1, <3>2
  <2>5. Wrote(made - 2) /\ toDelete = {} /\ Both
    BY <2>3 DEF Progress
  <2>6. Wrote(made - 2)' /\ Both' /\ toDelete' = {}
    BY <2>1, <2>5 DEF Wrote, Both
  <2>7. ~ AtRest' /\ Len(net') = 0 /\ index' = 0
    BY <1>e, <2>1, <2>3, <2>4 DEF AtRest, Posted
  <2> QED BY <2>6, <2>7 DEF Progress
<1>6. CASE BeginWriting
  <2>1. /\ conn > 0 /\ index' = 1 /\ conn' = conn - 1
        /\ UNCHANGED <<trans, toDelete, net, nm, wire, since, made, link, connected>>
    BY <1>6 DEF BeginWriting, arrays, counters
  <2>2. InStep /\ Posted /\ net = <<>> /\ conn' = 0 /\ ~ In("ready", nm) /\ ~ In("flush", nm)
    BY <1>s, <2>1 DEF InStep, Up, Posted, OneAtATime
  <2>3. Wrote(made - 2) /\ toDelete = {} /\ Both
    BY <2>2 DEF Progress
  <2>4. Wrote(made - 3 + index)'
    <3>1. made' - 3 + index' = made - 2
      BY <1>s, <2>1
    <3> QED BY <2>1, <2>3, <3>1 DEF Wrote
  <2>5. toDelete' = {made' - 2 + i : i \in 1 .. index' - 1}
    <3>1. 1 .. index' - 1 = {}
      BY <2>1
    <3> QED BY <2>1, <2>3, <3>1
  <2>6. ~ AtRest' /\ ~ Posted' /\ Len(net') = 0 /\ Both'
    BY <1>e, <2>1, <2>2, <2>3 DEF AtRest, Posted, Both
  <2> QED BY <2>1, <2>4, <2>5, <2>6 DEF Progress
<1>7. CASE WriteRequest \/ EndWriting
  <2>1. /\ index > 0 /\ UNCHANGED <<trans, net, nm, conn, since, made, link, connected>>
    <3>1. UNCHANGED <<trans, net, nm, conn, since, made, link, connected>>
      BY <1>7 DEF WriteRequest, EndWriting, arrays, counters
    <3>2. index \in 1 .. Len(trans) \/ index > Len(trans)
      BY <1>7 DEF WriteRequest, EndWriting
    <3> QED BY <1>s, <3>1, <3>2
  <2>2. InStep /\ net = <<>> /\ ~ In("ready", nm) /\ ~ In("flush", nm) /\ conn = 0
    BY <1>s, <2>1 DEF InStep, Up, OneAtATime
  <2>3. /\ Both /\ index <= 3 /\ Wrote(made - 3 + index)
        /\ toDelete = {made - 2 + i : i \in 1 .. index - 1}
    BY <2>1, <2>2 DEF Progress
  <2>4. Len(net') = 0 /\ ~ Posted' /\ Both'
    BY <1>e, <2>1, <2>2, <2>3 DEF Posted, Both
  <2>5. CASE EndWriting
    <3>1. index = 3 /\ index' = 0 /\ UNCHANGED <<toDelete, wire>>
      BY <1>s, <2>3, <2>5 DEF EndWriting, arrays, Both
    <3>2. Wrote(made)'
      <4>1. made - 3 + index = made
        BY <1>s, <3>1
      <4> QED BY <2>1, <2>3, <3>1, <4>1 DEF Wrote
    <3>3. \A i \in DOMAIN trans' : trans'[i] \in toDelete'
      <4>1. DOMAIN trans = 1 .. 2 /\ trans[1] = made - 1 /\ trans[2] = made
        BY <1>s, <2>3 DEF Both
      <4>2. 1 \in 1 .. index - 1 /\ 2 \in 1 .. index - 1 /\ made - 2 + 1 = made - 1 /\ made - 2 + 2 = made
        BY <1>s, <3>1
      <4>3. made - 1 \in toDelete /\ made \in toDelete
        BY <2>3, <4>2
      <4> QED BY <2>1, <3>1, <4>1, <4>3
    <3> QED BY <2>4, <3>1, <3>2, <3>3 DEF Progress
  <2>6. CASE WriteRequest
    <3>1. /\ index \in 1 .. 2 /\ index' = index + 1
          /\ toDelete' = toDelete \cup {trans[index]} /\ wire' = Append(wire, trans[index])
      BY <2>2, <2>3, <2>6 DEF WriteRequest, Both, InStep
    <3>2. PICK e \in Nat : e = trans[index] /\ e = made - 2 + index
      <4>1. trans[index] \in Nat /\ trans[index] = made - 2 + index
        <5>b. DOMAIN trans = 1 .. 2 /\ trans[1] = made - 1 /\ trans[2] = made
          BY <1>s, <2>3 DEF Both
        <5>n. trans[index] \in Nat
          BY <1>s, <3>1, <5>b, ElementOfSeq
        <5>1. CASE index = 1
          BY <1>s, <5>b, <5>1, <5>n
        <5>2. CASE index = 2
          BY <1>s, <5>b, <5>2, <5>n
        <5> QED BY <3>1, <5>1, <5>2
      <4> QED BY <4>1
    <3>3. Wrote(made - 3 + index)'
      <4>1. PICK m \in Int : m = made - 3 + index
        BY <1>s
      <4>2. m >= since /\ Len(wire) = m - since /\ \A k \in 1 .. m - since : wire[k] = since + k
        BY <2>3, <4>1 DEF Wrote
      <4>3. made' - 3 + index' = m + 1 /\ since' = since /\ e = m + 1
        BY <1>s, <2>1, <3>1, <3>2, <4>1
      <4>4. PICK v : v = wire'
        OBVIOUS
      <4>5. /\ Len(v) = Len(wire) + 1 /\ v[Len(wire) + 1] = e
            /\ \A i \in 1 .. Len(wire) : v[i] = wire[i]
        <5>1. v = Append(wire, e)
          BY <3>1, <3>2, <4>4
        <5> QED BY <1>s, <5>1, AppendProperties
      <4>6. PICK n \in Int : n = m + 1
        OBVIOUS
      <4>7. n >= since /\ Len(v) = n - since
        BY <1>s, <4>2, <4>5, <4>6
      <4>8. ASSUME NEW k \in 1 .. n - since PROVE v[k] = since + k
        <5>1. CASE k \in 1 .. m - since
          BY <4>2, <4>5, <5>1
        <5>2. CASE k = m + 1 - since
          <6>1. v[k] = e /\ since + k = m + 1
            BY <1>s, <4>2, <4>5, <5>2
          <6> QED BY <4>3, <6>1
        <5> QED BY <1>s, <4>2, <4>6, <5>1, <5>2
      <4>9. v = wire' /\ since' = since
        BY <4>3, <4>4
      <4>10. Wrote(n)'
        <5>1. n >= since' /\ Len(wire') = n - since'
          BY <4>7, <4>9, Zenon
        <5>2. \A k \in 1 .. n - since' : wire'[k] = since' + k
          BY <4>8, <4>9, Zenon
        <5> QED BY <5>1, <5>2 DEF Wrote
      <4>11. made' - 3 + index' = n
        BY <4>3, <4>6
      <4> QED BY <4>10, <4>11 DEF Wrote
    <3>4. toDelete' = {made' - 2 + i : i \in 1 .. index' - 1}
      <4>1. 1 .. index' - 1 = (1 .. index - 1) \cup {index}
        BY <3>1
      <4> QED BY <2>1, <2>3, <3>1, <3>2, <4>1
    <3>5. ~ AtRest' /\ index' <= 3 /\ index' > 0
      BY <3>1 DEF AtRest
    <3> QED BY <2>4, <3>3, <3>4, <3>5 DEF Progress
  <2> QED BY <1>7, <2>5, <2>6
<1>8. CASE RaiseMutation
  <2>1. UNCHANGED <<trans, toDelete, net, nm, wire, since, made, link, connected, conn, index>>
    BY <1>8 DEF RaiseMutation, arrays, counters
  <2> QED BY <2>1 DEF Progress, InStep, Up, Wrote, Both, Posted, AtRest
<1> QED BY <1>1, <1>2, <1>3, <1>4, <1>5, <1>6, <1>7, <1>8 DEF Next
-----------------------------------------------------------------------------
(* The inductive invariant                                                  *)

IndInv == Shape /\ Life /\ Counted /\ Requested /\ Session /\ Spaced

LEMMA SpacedKept ==
    ASSUME Shape, Shape', Life, Life', Requested, Spaced, Next
    PROVE  Spaced'
<1>1. spaced' = spaced
  BY DEF Next, SendData, ConnectionStopping, ConnectionCloses, ConnectionForgotten,
     ConnectionCreated, ConnectionOpening, DidConnect, ConnectionUp, PurgeWritten, ClearWritten,
     AddRequest, SetReadyForRequest, Reset, Ready, Flush, BeginWriting, WriteRequest, EndWriting,
     RaiseMutation, NetStep, Untouched
<1>2. ASSUME spaced PROVE OneAtATime' /\ (InStep' => Progress')
  <2>1. OneAtATime /\ (InStep => Progress)
    BY <1>2 DEF Spaced
  <2>2. OneAtATime'
    BY <1>2, <2>1, OneAtATimeKept
  <2>3. InStep' => Progress'
    BY <1>2, <2>1, ProgressKept
  <2> QED BY <2>2, <2>3
<1> QED BY <1>1, <1>2 DEF Spaced

LEMMA InitInv == Init => IndInv
<1> SUFFICES ASSUME Init PROVE IndInv
  OBVIOUS
<1>1. /\ spaced \in BOOLEAN /\ trans = <<>> /\ toDelete = {} /\ ~ flag /\ link = "open" /\ connected
      /\ net = <<>> /\ nm = <<>> /\ conn = 0 /\ index = 0 /\ mutated = FALSE /\ crashed = FALSE
      /\ wire = <<>> /\ since = 0 /\ made = 0 /\ sends = 0 /\ downs = 0
  BY DEF Init
<1>2. /\ DOMAIN <<>> = {} /\ Len(<<>>) = 0 /\ <<>> \in Seq(Nat) /\ <<>> \in Seq(AnyStep) /\ <<>> \in Seq(Blocks)
  BY EmptySeq
<1>3. \A b : ~ In(b, nm) /\ ~ In(b, net) /\ Once(b, nm) /\ Once(b, net)
  BY <1>1, <1>2 DEF In, Once
<1>4. Shape
  <2>1. 0 \in 0 .. MaxSends /\ 0 \in 0 .. DownsBound
    BY SendBounds DEF DownsBound
  <2>2. flag \in BOOLEAN /\ connected \in BOOLEAN
    BY DEF Init
  <2> QED BY <1>1, <1>2, <2>1, <2>2 DEF Shape, Links
<1>5. Life
  BY <1>1, <1>2, <1>3 DEF Life, Before
<1>6. Counted
  BY <1>1, <1>3 DEF Counted
<1>7. Requested
  BY <1>1, <1>2, <1>3 DEF Requested, InOrder, Before, Increasing
<1>8. Session
  <2>1. Ordered /\ Remembered /\ Served
    BY <1>1, <1>2 DEF Ordered, Remembered, Served
  <2> QED BY <2>1 DEF Session
<1>9. OneAtATime /\ Progress
  <2>1. AtRest /\ ~ Posted
    BY <1>1, <1>3 DEF AtRest, Posted
  <2>2. OneAtATime
    BY <1>1, <1>2, <1>3, <2>1 DEF OneAtATime, OfPacket
  <2>3. Wrote(made)
    BY <1>1, <1>2 DEF Wrote
  <2> QED BY <1>1, <1>2, <2>1, <2>2, <2>3 DEF Progress
<1> QED BY <1>4, <1>5, <1>6, <1>7, <1>8, <1>9 DEF IndInv, Spaced

LEMMA StepInv == IndInv /\ [Next]_vars => IndInv'
<1>1. ASSUME IndInv, Next PROVE IndInv'
  <2>1. Shape /\ Life /\ Counted /\ Requested /\ Session /\ Spaced
    BY <1>1 DEF IndInv
  <2>2. Shape'
    BY <1>1, <2>1, ShapeKept
  <2>3. Life'
    BY <1>1, <2>1, LifeKept
  <2>4. Counted'
    BY <1>1, <2>1, CountedKept
  <2>5. Requested'
    BY <1>1, <2>1, <2>2, RequestedKept
  <2>6. Session'
    BY <1>1, <2>1, <2>2, <2>5, SessionKept
  <2>7. Spaced'
    BY <1>1, <2>1, <2>2, <2>3, SpacedKept
  <2> QED BY <2>2, <2>3, <2>4, <2>5, <2>6, <2>7 DEF IndInv
<1>2. ASSUME IndInv, UNCHANGED vars PROVE IndInv'
  <2>1. UNCHANGED <<spaced, trans, toDelete, flag, link, connected, net, nm, conn, index, mutated,
                    crashed, wire, since, made, sends, downs>>
    BY <1>2 DEF vars, arrays, writer, counters
  <2>2. Shape' /\ Life' /\ Counted'
    BY <1>2, <2>1 DEF IndInv, Shape, Life, Counted, DownsBound
  <2>3. Requested'
    BY <1>2, <2>1 DEF IndInv, Requested, InOrder
  <2>4. Session'
    BY <1>2, <2>1 DEF IndInv, Session, Up, Ordered, Remembered, Served, Coming, Recent
  <2>5. Spaced'
    BY <1>2, <2>1 DEF IndInv, Spaced, InStep, Up, OneAtATime, OfPacket, Todo, AtRest, Progress, Posted, Both, Wrote
  <2> QED BY <2>2, <2>3, <2>4, <2>5 DEF IndInv
<1> QED BY <1>1, <1>2

\* At any time the state has the shape, the history and the order that the
\* three queues leave it in (NetworkManager_Wrapper).
THEOREM Invariance == Spec => []IndInv
<1> QED BY InitInv, StepInv, PTL DEF Spec

-----------------------------------------------------------------------------
(* What follows from it                                                     *)

LEMMA SeqOf ==
    ASSUME NEW S, NEW T, NEW q \in Seq(S), \A i \in DOMAIN q : q[i] \in T
    PROVE  q \in Seq(T)
<1>1. PICK n \in Nat : q \in [1 .. n -> S]
  BY SeqDef
<1>2. q \in [1 .. n -> T]
  BY <1>1
<1> QED BY <1>2, SeqDef

LEMMA OnlyUp ==
    ASSUME Life, connected
    PROVE  Up
BY DEF Life, Up

LEMMA TypesHold == ASSUME IndInv PROVE TypeOK
<1>s. Shape /\ Life /\ Counted /\ Requested
  BY DEF IndInv
<1> DEFINE max == 2 * (MaxSends + MaxDowns + MaxSpacedDowns)
<1>1. made <= max /\ made \in Nat /\ max \in Nat
  <2>1. MaxSends \in Nat /\ MaxDowns \in Nat /\ MaxSpacedDowns \in Nat /\ DownsBound \in {MaxDowns, MaxSpacedDowns}
    BY SendBounds DEF DownsBound
  <2>2. made \in Nat /\ sends \in 0 .. MaxSends /\ downs \in 0 .. DownsBound
    BY <1>s DEF Shape
  <2>3. made <= 2 * (sends + downs)
    <3>1. CASE In("connected", nm) /\ link = "open"
      BY <1>s, <2>1, <2>2, <3>1 DEF Counted
    <3>2. CASE In("connected", nm) /\ link # "open"
      BY <1>s, <2>1, <2>2, <3>2 DEF Counted
    <3>3. CASE ~ In("connected", nm) /\ link = "open"
      BY <1>s, <2>1, <2>2, <3>3 DEF Counted
    <3>4. CASE ~ In("connected", nm) /\ link # "open"
      BY <1>s, <2>1, <2>2, <3>4 DEF Counted
    <3> QED BY <3>1, <3>2, <3>3, <3>4
  <2>4. downs <= MaxDowns + MaxSpacedDowns /\ sends <= MaxSends /\ downs \in Nat /\ sends \in Nat
    BY <2>1, <2>2
  <2> QED BY <2>1, <2>2, <2>3, <2>4
<1>2. Requests = 1 .. max
  BY DEF Requests
<1> HIDE DEF max
<1>3. \A r \in Nat : (r <= made => r \in {0} \cup Requests) /\ (r \in 1 .. made => r \in Requests)
  BY <1>1, <1>2
<1>4. trans \in Seq(Requests)
  <2>1. trans \in Seq(Nat) /\ \A i \in DOMAIN trans : trans[i] \in Requests
    <3>1. \A i \in DOMAIN trans : trans[i] \in 1 .. made /\ trans[i] \in Nat
      BY <1>s, <1>1 DEF Requested
    <3> QED BY <1>s, <1>3, <3>1 DEF Shape
  <2> QED BY <2>1, SeqOf
<1>5. wire \in Seq(Requests)
  <2>1. wire \in Seq(Nat) /\ \A i \in DOMAIN wire : wire[i] \in Requests
    <3>1. \A i \in DOMAIN wire : wire[i] \in 1 .. made /\ wire[i] \in Nat
      BY <1>s, <1>1 DEF Requested
    <3> QED BY <1>s, <1>3, <3>1 DEF Shape
  <2> QED BY <2>1, SeqOf
<1>6. net \in Seq(NetSteps)
  <2>1. net \in Seq(AnyStep) /\ \A i \in DOMAIN net : net[i].request <= made
    BY <1>s DEF Shape, Requested, InOrder
  <2>2. ASSUME NEW i \in DOMAIN net PROVE net[i] \in NetSteps
    <3>1. net[i] \in AnyStep
      BY <2>1, ElementOfSeq, LenProperties
    <3>2. net[i].request \in {0} \cup Requests
      BY <1>3, <2>1, <3>1 DEF AnyStep
    <3> QED BY <3>1, <3>2 DEF AnyStep, NetSteps
  <2> QED BY <2>1, <2>2, SeqOf
<1>7. /\ toDelete \subseteq Requests /\ made \in {0} \cup Requests /\ since \in {0} \cup Requests
  <2>1. toDelete \subseteq 1 .. made /\ since <= made /\ since \in Nat
    BY <1>s DEF Shape, Requested
  <2>2. \A r \in toDelete : r \in 1 .. made /\ r \in Nat
    BY <1>1, <2>1
  <2> QED BY <1>1, <1>3, <2>1, <2>2
<1>8. flag = \E i \in DOMAIN nm : nm[i] = "flush"
  <2>1. flag <=> \E i \in DOMAIN nm : nm[i] = "flush"
    BY <1>s DEF Life, In
  <2>2. flag \in BOOLEAN
    BY <1>s DEF Shape
  <2> QED BY <2>1, <2>2, Zenon
<1>9. /\ link \in Links /\ connected \in BOOLEAN
      /\ nm \in Seq({"ready", "flush", "closed", "connected"})
      /\ conn \in Nat /\ index \in Nat /\ mutated \in BOOLEAN /\ crashed \in BOOLEAN
      /\ sends \in 0 .. MaxSends /\ downs \in 0 .. DownsBound
  BY <1>s DEF Shape, Blocks
<1> QED BY <1>4, <1>5, <1>6, <1>7, <1>8, <1>9 DEF TypeOK

\* The flag says whether a flush is to come, and within a session a request is
\* first written after all earlier ones (sendData, setReadyForRequest).
THEOREM HeaderBeforeBody == Spec => []QueueOK
<1>1. ASSUME IndInv PROVE FirstInOrder
  <2> SUFFICES ASSUME connected, \A i \in DOMAIN net : net[i].step # "reset",
                      NEW k \in DOMAIN wire, wire[k] > since + 1
               PROVE  \E j \in 1 .. k - 1 : wire[j] = wire[k] - 1
    BY DEF FirstInOrder
  <2>1. Ordered
    BY <1>1, OnlyUp DEF IndInv, Session
  <2>2. Recent(wire[k] - 1)
    <3>1. wire[k] - 1 > since
      <4>1. wire[k] \in 1 .. made /\ since \in Nat /\ made \in Nat
        BY <1>1 DEF IndInv, Requested, Shape
      <4> QED BY <4>1
    <3>2. \A b : ~ In(Step("reset", b), net)
      BY DEF In, Step
    <3> QED BY <3>1, <3>2 DEF Recent
  <2> QED BY <2>1, <2>2 DEF Ordered
<1>2. IndInv => QueueOK
  BY <1>1, TypesHold DEF QueueOK
<1> QED BY <1>2, Invariance, PTL

\* At rest with the connection up, every request made since its reset has been
\* written (writeBytes, setReadyForRequest).
THEOREM NoneForgotten == Spec => []NothingLost
<1>1. IndInv => NothingLost
  <2> SUFFICES ASSUME IndInv, Quiet, ~ crashed, connected, NEW r \in since + 1 .. made
               PROVE  \E k \in DOMAIN wire : wire[k] = r
    BY DEF NothingLost
  <2>1. net = <<>> /\ nm = <<>> /\ conn = 0 /\ index = 0 /\ \A b : ~ In(b, nm) /\ ~ In(b, net)
    BY EmptySeq DEF Quiet, In
  <2>2. Up /\ link = "open"
    BY <2>1, OnlyUp DEF IndInv, Life
  <2>3. Remembered /\ Served
    BY <2>2 DEF IndInv, Session
  <2>4. r \in 1 .. made /\ Recent(r)
    <3>1. since \in Nat /\ made \in Nat
      BY DEF IndInv, Shape
    <3> QED BY <2>1, <3>1 DEF Recent
  <2>5. In(r, trans) \/ In(r, wire)
    BY <2>1, <2>3, <2>4 DEF Remembered
  <2>6. ~ Coming
    BY <2>1 DEF Coming
  <2>7. In(r, trans) => In(r, wire)
    BY <2>1, <2>3, <2>4, <2>6 DEF Served, In
  <2> QED BY <2>5, <2>7 DEF In
<1> QED BY <1>1, Invariance, PTL

\* Packets sent one at a time are written once and in order, whatever happens
\* to the connection between them.
THEOREM WrittenOnce == Spec => []ExactlyOnce
<1>1. IndInv => ExactlyOnce
  <2> SUFFICES ASSUME IndInv, spaced, Quiet, connected
               PROVE  wire = [k \in 1 .. made - since |-> since + k]
    BY DEF ExactlyOnce
  <2>1. net = <<>> /\ nm = <<>> /\ conn = 0 /\ index = 0 /\ \A b : ~ In(b, nm)
    BY EmptySeq DEF Quiet, In
  <2>2. InStep /\ AtRest
    BY <2>1, OnlyUp DEF IndInv, Life, InStep, AtRest
  <2>3. Wrote(made)
    BY <2>2 DEF IndInv, Spaced, Progress
  <2>4. wire \in Seq(Nat)
    BY DEF IndInv, Shape
  <2>5. wire = [k \in 1 .. Len(wire) |-> wire[k]]
    <3>1. PICK n \in Nat : wire \in [1 .. n -> Nat]
      BY <2>4, SeqDef
    <3>2. DOMAIN wire = 1 .. Len(wire)
      BY <2>4, LenProperties
    <3> QED BY <3>1, <3>2
  <2> QED BY <2>3, <2>5 DEF Wrote
<1> QED BY <1>1, Invariance, PTL

=============================================================================
