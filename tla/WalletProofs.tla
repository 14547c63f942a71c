---------------------------- MODULE WalletProofs ----------------------------
(***************************************************************************)
(* For any transactions, blocks, reorganisations, removals and restarts:    *)
(* what the wallet takes for confirmed is in the chain, what it removes     *)
(* leaves no dependent, its chains of addresses end in a gap, and its       *)
(* balance is what is unspent.                                              *)
(***************************************************************************)
EXTENDS Wallet, TLAPS, SequenceTheorems, FunctionTheorems, FiniteSetTheorems, WellFoundedInduction

-----------------------------------------------------------------------------
(* Numbers                                                                  *)

\* A set of natural numbers that is not empty has a least element, so that there
\* is induction on sets of numbers.
LEMMA LeastNumber ==
    ASSUME NEW S \in SUBSET Nat, S # {}
    PROVE  \E m \in S : \A n \in S : m <= n
<1>1. PICK m \in S : \A n \in S : <<n, m>> \notin OpToRel(<, Nat)
  BY NatLessThanWellFounded, WFMin, Zenon
<1>2. \A n \in S : ~ (n < m)
  BY <1>1, Zenon DEF OpToRel
<1> QED BY <1>2

LEMMA SetInduction ==
    ASSUME NEW S, 0 \in S, \A n \in Nat : n \in S => n + 1 \in S
    PROVE  Nat \subseteq S
<1>1. SUFFICES ASSUME Nat \ S # {} PROVE FALSE
  OBVIOUS
<1>2. PICK n \in Nat \ S : \A y \in Nat \ S : n <= y
  BY <1>1, LeastNumber
<1>3. n - 1 \in Nat /\ n - 1 \in S /\ n - 1 + 1 = n
  BY <1>2
<1> QED BY <1>2, <1>3

\* One that is bounded has a greatest element.
LEMMA GreatestNumber ==
    ASSUME NEW S \in SUBSET Nat, S # {}, NEW b \in Nat, \A x \in S : x <= b
    PROVE  Max(S) \in S /\ \A x \in S : x <= Max(S)
<1> DEFINE T == {n \in Nat : \A y \in S : y <= n}
<1>1. PICK n \in T : \A y \in T : n <= y
  BY LeastNumber
<1>2. n \in S
  <2>1. SUFFICES ASSUME n \notin S PROVE FALSE
    OBVIOUS
  <2>2. PICK y \in S : TRUE
    OBVIOUS
  <2>3. n - 1 \in Nat /\ \A z \in S : z <= n - 1
    BY <2>1, <2>2
  <2>4. n - 1 \in T
    BY <2>3
  <2> QED BY <1>1, <2>4
<1> QED BY <1>2 DEF Max

LEMMA LastIndex ==
    ASSUME NEW m \in Nat, NEW s \in SUBSET (1 .. m + 1), s # {}
    PROVE  /\ Max(s) \in s /\ s \ {Max(s)} \in SUBSET (1 .. m + 1)
           /\ m + 1 \in s => Max(s) = m + 1
<1>1. Max(s) \in s /\ \A x \in s : x <= Max(s)
  <2>1. s \in SUBSET Nat /\ m + 1 \in Nat /\ \A x \in s : x <= m + 1
    OBVIOUS
  <2> QED BY <2>1, GreatestNumber
<1>2. ASSUME m + 1 \in s PROVE Max(s) = m + 1
  <2>1. Max(s) \in 1 .. m + 1 /\ m + 1 <= Max(s)
    BY <1>1, <1>2
  <2> QED BY <2>1
<1> QED BY <1>1, <1>2

LEMMA LastOfInterval ==
    ASSUME NEW n \in Nat, NEW i \in 1 .. n
    PROVE  Max(1 .. i) = i /\ (1 .. i) \ {i} = 1 .. i - 1
<1>1. i \in 1 .. i /\ i \in Nat /\ 1 .. i \in SUBSET Nat /\ \A x \in 1 .. i : x <= i
  OBVIOUS
<1>2. Max(1 .. i) \in 1 .. i /\ \A x \in 1 .. i : x <= Max(1 .. i)
  BY <1>1, GreatestNumber
<1>3. Max(1 .. i) = i
  BY <1>1, <1>2
<1> QED BY <1>3

-----------------------------------------------------------------------------
(* Folds: each is a run of its step over the sequence                       *)

\* The sum of the amounts of outputs.
LEMMA TotalRun ==
    ASSUME NEW os, NEW n \in Nat, DOMAIN os = 1 .. n
    PROVE  \E acc : /\ acc[0] = 0
                    /\ \A i \in 1 .. n : acc[i] = acc[i - 1] + AmountAt(os[i])
                    /\ acc[n] = Total(os)
<1> DEFINE E(f, s) == IF s = {} THEN 0 ELSE f[s \ {Max(s)}] + AmountAt(os[Max(s)])
           Upto == {m \in Nat : \E f : f = [s \in SUBSET (1 .. m) |-> E(f, s)]}
<1>1. 0 \in Upto
  <2> DEFINE g == [s \in SUBSET (1 .. 0) |-> 0]
  <2>1. g = [s \in SUBSET (1 .. 0) |-> E(g, s)]
    OBVIOUS
  <2> QED BY <2>1
<1>2. ASSUME NEW m \in Nat, m \in Upto PROVE m + 1 \in Upto
  <2>1. PICK g : g = [s \in SUBSET (1 .. m) |-> E(g, s)]
    BY <1>2
  <2> DEFINE more == [s \in SUBSET (1 .. m + 1) |->
                      IF m + 1 \in s THEN g[s \ {m + 1}] + AmountAt(os[m + 1]) ELSE g[s]]
  <2>2. ASSUME NEW s \in SUBSET (1 .. m + 1) PROVE more[s] = E(more, s)
    <3>1. s # {} => Max(s) \in s /\ s \ {Max(s)} \in SUBSET (1 .. m + 1) /\ (m + 1 \in s => Max(s) = m + 1)
      BY LastIndex
    <3>2. CASE m + 1 \in s
      <4>1. s \ {m + 1} \in SUBSET (1 .. m + 1) /\ m + 1 \notin s \ {m + 1}
        OBVIOUS
      <4>2. more[s \ {m + 1}] = g[s \ {m + 1}]
        BY <4>1
      <4> QED BY <3>1, <3>2, <4>2
    <3>3. CASE s # {} /\ m + 1 \notin s
      <4>1. s \in SUBSET (1 .. m) /\ m + 1 \notin s \ {Max(s)}
        BY <3>3
      <4>2. g[s] = E(g, s)
        BY <2>1, <4>1
      <4>3. more[s] = g[s] /\ more[s \ {Max(s)}] = g[s \ {Max(s)}]
        BY <3>1, <3>3, <4>1
      <4> QED BY <3>3, <4>2, <4>3
    <3>4. CASE s = {}
      <4>1. s \in SUBSET (1 .. m) /\ m + 1 \notin s
        BY <3>4
      <4>2. g[s] = E(g, s)
        BY <2>1, <4>1
      <4> QED BY <3>4, <4>1, <4>2
    <3> QED BY <3>2, <3>3, <3>4
  <2>3. more = [s \in SUBSET (1 .. m + 1) |-> E(more, s)]
    <3> HIDE DEF E
    <3>1. more = [s \in SUBSET (1 .. m + 1) |-> more[s]]
      OBVIOUS
    <3> HIDE DEF more
    <3> QED BY <2>2, <3>1
  <2> HIDE DEF more, E
  <2> QED BY <2>3
<1>3. n \in Upto
  <2> HIDE DEF Upto
  <2> QED BY <1>1, <1>2, SetInduction
<1>4. PICK g : g = [s \in SUBSET (1 .. n) |-> E(g, s)]
  BY <1>3
<1> DEFINE K == CHOOSE k : k = [s \in SUBSET (1 .. n) |-> E(k, s)]
<1>5. K = [s \in SUBSET (1 .. n) |-> E(K, s)]
  BY <1>4
<1>6. Total(os) = K[1 .. n]
  BY Zenon DEF Total, FoldLeft, MapThenFoldSet
<1> HIDE DEF K
<1> DEFINE acc == [i \in 0 .. n |-> K[1 .. i]]
<1>7. acc[0] = 0
  <2>1. 1 .. 0 = {} /\ {} \in SUBSET (1 .. n) /\ acc[0] = K[1 .. 0]
    OBVIOUS
  <2> QED BY <1>5, <2>1
<1>8. ASSUME NEW i \in 1 .. n PROVE acc[i] = acc[i - 1] + AmountAt(os[i])
  <2>1. 1 .. i \in SUBSET (1 .. n) /\ 1 .. i # {} /\ i \in 0 .. n /\ i - 1 \in 0 .. n
    OBVIOUS
  <2>5. acc[i] = K[1 .. i] /\ acc[i - 1] = K[1 .. i - 1]
    BY <2>1
  <2>2. Max(1 .. i) = i /\ (1 .. i) \ {i} = 1 .. i - 1
    BY LastOfInterval
  <2>3. K[1 .. i] = E(K, 1 .. i)
    BY <1>5, <2>1
  <2> HIDE DEF acc
  <2>4. E(K, 1 .. i) = K[1 .. i - 1] + AmountAt(os[i])
    BY <2>1, <2>2
  <2> QED BY <2>3, <2>4, <2>5
<1>9. acc[n] = Total(os)
  BY <1>6
<1> HIDE DEF acc
<1> QED BY <1>7, <1>8, <1>9

\* _BR_WalletUpdateBalance goes through the transactions one by one.
IsBalanceRun(acc, ts, h, l, top, n) ==
    /\ acc[0] = [Empty EXCEPT !.len = l, !.tip = top]
    /\ \A i \in 1 .. n : acc[i] = Account(acc[i - 1], ts[i], h, l, top)
    /\ acc[n] = UpdateBalance(ts, h, l, top)
LEMMA BalanceRun ==
    ASSUME NEW ts, NEW h, NEW l, NEW top, NEW n \in Nat, DOMAIN ts = 1 .. n
    PROVE  \E acc : IsBalanceRun(acc, ts, h, l, top, n)
<1> DEFINE E(f, s) == IF s = {} THEN [Empty EXCEPT !.len = l, !.tip = top] ELSE Account(f[s \ {Max(s)}], ts[Max(s)], h, l, top)
           Upto == {m \in Nat : \E f : f = [s \in SUBSET (1 .. m) |-> E(f, s)]}
<1>1. 0 \in Upto
  <2> DEFINE g == [s \in SUBSET (1 .. 0) |-> [Empty EXCEPT !.len = l, !.tip = top]]
  <2>1. g = [s \in SUBSET (1 .. 0) |-> E(g, s)]
    OBVIOUS
  <2> QED BY <2>1
<1>2. ASSUME NEW m \in Nat, m \in Upto PROVE m + 1 \in Upto
  <2>1. PICK g : g = [s \in SUBSET (1 .. m) |-> E(g, s)]
    BY <1>2
  <2> DEFINE more == [s \in SUBSET (1 .. m + 1) |->
                      IF m + 1 \in s THEN Account(g[s \ {m + 1}], ts[m + 1], h, l, top) ELSE g[s]]
  <2>2. ASSUME NEW s \in SUBSET (1 .. m + 1) PROVE more[s] = E(more, s)
    <3>1. s # {} => Max(s) \in s /\ s \ {Max(s)} \in SUBSET (1 .. m + 1) /\ (m + 1 \in s => Max(s) = m + 1)
      BY LastIndex
    <3>2. CASE m + 1 \in s
      <4>1. s \ {m + 1} \in SUBSET (1 .. m + 1) /\ m + 1 \notin s \ {m + 1}
        OBVIOUS
      <4>2. more[s \ {m + 1}] = g[s \ {m + 1}]
        BY <4>1
      <4> QED BY <3>1, <3>2, <4>2
    <3>3. CASE s # {} /\ m + 1 \notin s
      <4>1. s \in SUBSET (1 .. m) /\ m + 1 \notin s \ {Max(s)}
        BY <3>3
      <4>2. g[s] = E(g, s)
        BY <2>1, <4>1
      <4>3. more[s] = g[s] /\ more[s \ {Max(s)}] = g[s \ {Max(s)}]
        BY <3>1, <3>3, <4>1
      <4> QED BY <3>3, <4>2, <4>3
    <3>4. CASE s = {}
      <4>1. s \in SUBSET (1 .. m) /\ m + 1 \notin s
        BY <3>4
      <4>2. g[s] = E(g, s)
        BY <2>1, <4>1
      <4> QED BY <3>4, <4>1, <4>2
    <3> QED BY <3>2, <3>3, <3>4
  <2>3. more = [s \in SUBSET (1 .. m + 1) |-> E(more, s)]
    <3> HIDE DEF E
    <3>1. more = [s \in SUBSET (1 .. m + 1) |-> more[s]]
      OBVIOUS
    <3> HIDE DEF more
    <3> QED BY <2>2, <3>1
  <2> HIDE DEF more, E
  <2> QED BY <2>3
<1>3. n \in Upto
  <2> HIDE DEF Upto
  <2> QED BY <1>1, <1>2, SetInduction
<1>4. PICK g : g = [s \in SUBSET (1 .. n) |-> E(g, s)]
  BY <1>3
<1> DEFINE K == CHOOSE k : k = [s \in SUBSET (1 .. n) |-> E(k, s)]
<1>5. K = [s \in SUBSET (1 .. n) |-> E(K, s)]
  BY <1>4
<1>6. UpdateBalance(ts, h, l, top) = K[1 .. n]
  BY Zenon DEF UpdateBalance, FoldLeft, MapThenFoldSet
<1> HIDE DEF K
<1> DEFINE acc == [i \in 0 .. n |-> K[1 .. i]]
<1>7. acc[0] = [Empty EXCEPT !.len = l, !.tip = top]
  <2>1. 1 .. 0 = {} /\ {} \in SUBSET (1 .. n) /\ acc[0] = K[1 .. 0]
    OBVIOUS
  <2> QED BY <1>5, <2>1
<1>8. ASSUME NEW i \in 1 .. n PROVE acc[i] = Account(acc[i - 1], ts[i], h, l, top)
  <2>1. 1 .. i \in SUBSET (1 .. n) /\ 1 .. i # {} /\ i \in 0 .. n /\ i - 1 \in 0 .. n
    OBVIOUS
  <2>5. acc[i] = K[1 .. i] /\ acc[i - 1] = K[1 .. i - 1]
    BY <2>1
  <2>2. Max(1 .. i) = i /\ (1 .. i) \ {i} = 1 .. i - 1
    BY LastOfInterval
  <2>3. K[1 .. i] = E(K, 1 .. i)
    BY <1>5, <2>1
  <2> HIDE DEF acc
  <2>4. E(K, 1 .. i) = Account(K[1 .. i - 1], ts[i], h, l, top)
    BY <2>1, <2>2
  <2> QED BY <2>3, <2>4, <2>5
<1>9. acc[n] = UpdateBalance(ts, h, l, top)
  BY <1>6
<1> HIDE DEF acc
<1> QED BY <1>7, <1>8, <1>9 DEF IsBalanceRun

\* BR_WalletNew inserts what was saved one by one.
LEMMA InsertedRun ==
    ASSUME NEW order, NEW h, NEW n \in Nat, DOMAIN order = 1 .. n
    PROVE  \E acc : /\ acc[0] = <<>>
                    /\ \A i \in 1 .. n : acc[i] = Insert(acc[i - 1], order[i], ToSet(acc[i - 1]) \cup {order[i]}, h, [c \in Chains |-> 0])
                    /\ acc[n] = Inserted(order, h)
<1> DEFINE E(f, s) == IF s = {} THEN <<>> ELSE Insert(f[s \ {Max(s)}], order[Max(s)], ToSet(f[s \ {Max(s)}]) \cup {order[Max(s)]}, h, [c \in Chains |-> 0])
           Upto == {m \in Nat : \E f : f = [s \in SUBSET (1 .. m) |-> E(f, s)]}
<1>1. 0 \in Upto
  <2> DEFINE g == [s \in SUBSET (1 .. 0) |-> <<>>]
  <2>1. g = [s \in SUBSET (1 .. 0) |-> E(g, s)]
    OBVIOUS
  <2> QED BY <2>1
<1>2. ASSUME NEW m \in Nat, m \in Upto PROVE m + 1 \in Upto
  <2>1. PICK g : g = [s \in SUBSET (1 .. m) |-> E(g, s)]
    BY <1>2
  <2> DEFINE more == [s \in SUBSET (1 .. m + 1) |->
                      IF m + 1 \in s THEN Insert(g[s \ {m + 1}], order[m + 1], ToSet(g[s \ {m + 1}]) \cup {order[m + 1]}, h, [c \in Chains |-> 0]) ELSE g[s]]
  <2>2. ASSUME NEW s \in SUBSET (1 .. m + 1) PROVE more[s] = E(more, s)
    <3>1. s # {} => Max(s) \in s /\ s \ {Max(s)} \in SUBSET (1 .. m + 1) /\ (m + 1 \in s => Max(s) = m + 1)
      BY LastIndex
    <3>2. CASE m + 1 \in s
      <4>1. s \ {m + 1} \in SUBSET (1 .. m + 1) /\ m + 1 \notin s \ {m + 1}
        OBVIOUS
      <4>2. more[s \ {m + 1}] = g[s \ {m + 1}]
        BY <4>1
      <4> QED BY <3>1, <3>2, <4>2
    <3>3. CASE s # {} /\ m + 1 \notin s
      <4>1. s \in SUBSET (1 .. m) /\ m + 1 \notin s \ {Max(s)}
        BY <3>3
      <4>2. g[s] = E(g, s)
        BY <2>1, <4>1
      <4>3. more[s] = g[s] /\ more[s \ {Max(s)}] = g[s \ {Max(s)}]
        BY <3>1, <3>3, <4>1
      <4> QED BY <3>3, <4>2, <4>3
    <3>4. CASE s = {}
      <4>1. s \in SUBSET (1 .. m) /\ m + 1 \notin s
        BY <3>4
      <4>2. g[s] = E(g, s)
        BY <2>1, <4>1
      <4> QED BY <3>4, <4>1, <4>2
    <3> QED BY <3>2, <3>3, <3>4
  <2>3. more = [s \in SUBSET (1 .. m + 1) |-> E(more, s)]
    <3> HIDE DEF E
    <3>1. more = [s \in SUBSET (1 .. m + 1) |-> more[s]]
      OBVIOUS
    <3> HIDE DEF more
    <3> QED BY <2>2, <3>1
  <2> HIDE DEF more, E
  <2> QED BY <2>3
<1>3. n \in Upto
  <2> HIDE DEF Upto
  <2> QED BY <1>1, <1>2, SetInduction
<1>4. PICK g : g = [s \in SUBSET (1 .. n) |-> E(g, s)]
  BY <1>3
<1> DEFINE K == CHOOSE k : k = [s \in SUBSET (1 .. n) |-> E(k, s)]
<1>5. K = [s \in SUBSET (1 .. n) |-> E(K, s)]
  BY <1>4
<1>6. Inserted(order, h) = K[1 .. n]
  BY Zenon DEF Inserted, FoldLeft, MapThenFoldSet
<1> HIDE DEF K
<1> DEFINE acc == [i \in 0 .. n |-> K[1 .. i]]
<1>7. acc[0] = <<>>
  <2>1. 1 .. 0 = {} /\ {} \in SUBSET (1 .. n) /\ acc[0] = K[1 .. 0]
    OBVIOUS
  <2> QED BY <1>5, <2>1
<1>8. ASSUME NEW i \in 1 .. n PROVE acc[i] = Insert(acc[i - 1], order[i], ToSet(acc[i - 1]) \cup {order[i]}, h, [c \in Chains |-> 0])
  <2>1. 1 .. i \in SUBSET (1 .. n) /\ 1 .. i # {} /\ i \in 0 .. n /\ i - 1 \in 0 .. n
    OBVIOUS
  <2>5. acc[i] = K[1 .. i] /\ acc[i - 1] = K[1 .. i - 1]
    BY <2>1
  <2>2. Max(1 .. i) = i /\ (1 .. i) \ {i} = 1 .. i - 1
    BY LastOfInterval
  <2>3. K[1 .. i] = E(K, 1 .. i)
    BY <1>5, <2>1
  <2> HIDE DEF acc
  <2>4. E(K, 1 .. i) = Insert(K[1 .. i - 1], order[i], ToSet(K[1 .. i - 1]) \cup {order[i]}, h, [c \in Chains |-> 0])
    BY <2>1, <2>2
  <2> QED BY <2>3, <2>4, <2>5
<1>9. acc[n] = Inserted(order, h)
  BY <1>6
<1> HIDE DEF acc
<1> QED BY <1>7, <1>8, <1>9

-----------------------------------------------------------------------------
(* Sequences                                                                *)

Distinct(s) == \A i, j \in DOMAIN s : i # j => s[i] # s[j]

LEMMA SeqFacts ==
    ASSUME NEW X, NEW s \in Seq(X)
    PROVE  /\ Len(s) \in Nat /\ DOMAIN s = 1 .. Len(s)
           /\ \A i \in 1 .. Len(s) : s[i] \in X
           /\ ToSet(s) = {s[i] : i \in 1 .. Len(s)} /\ ToSet(s) \subseteq X
<1>1. Len(s) \in Nat /\ DOMAIN s = 1 .. Len(s) /\ \A i \in 1 .. Len(s) : s[i] \in X
  BY LenProperties, ElementOfSeq
<1> QED BY <1>1 DEF ToSet

LEMMA EmptyFacts ==
    ASSUME NEW X
    PROVE  /\ <<>> \in Seq(X) /\ Len(<<>>) = 0 /\ DOMAIN <<>> = {} /\ ToSet(<<>>) = {}
           /\ Distinct(<<>>)
<1>1. <<>> \in Seq(X) /\ Len(<<>>) = 0 /\ DOMAIN <<>> = {}
  BY EmptySeq
<1> QED BY <1>1 DEF ToSet, Distinct

LEMMA AppendFacts ==
    ASSUME NEW X, NEW s \in Seq(X), NEW x \in X
    PROVE  /\ Append(s, x) \in Seq(X) /\ Len(Append(s, x)) = Len(s) + 1
           /\ ToSet(Append(s, x)) = ToSet(s) \cup {x}
           /\ Distinct(s) /\ x \notin ToSet(s) => Distinct(Append(s, x))
<1> DEFINE u == Append(s, x)
           n == Len(s)
<1>1. n \in Nat /\ DOMAIN s = 1 .. n /\ ToSet(s) = {s[i] : i \in 1 .. n}
  BY SeqFacts
<1>2. u \in Seq(X) /\ Len(u) = n + 1 /\ DOMAIN u = 1 .. n + 1
      /\ (\A i \in 1 .. n : u[i] = s[i]) /\ u[n + 1] = x
  BY AppendProperties, LenProperties, <1>1
<1>3. ToSet(u) = {u[i] : i \in 1 .. n + 1}
  BY <1>2 DEF ToSet
<1> HIDE DEF u, n
<1>4. ToSet(u) = ToSet(s) \cup {x}
  <2>1. \A i \in 1 .. n + 1 : u[i] \in ToSet(s) \cup {x}
    BY <1>1, <1>2
  <2>2. \A i \in 1 .. n : i \in 1 .. n + 1 /\ u[i] = s[i]
    BY <1>1, <1>2
  <2>3. n + 1 \in 1 .. n + 1
    BY <1>1
  <2> QED BY <1>1, <1>2, <1>3, <2>1, <2>2, <2>3
<1>5. ASSUME Distinct(s), x \notin ToSet(s) PROVE Distinct(u)
  <2> SUFFICES ASSUME NEW i \in 1 .. n + 1, NEW j \in 1 .. n + 1, i # j PROVE u[i] # u[j]
    BY <1>2 DEF Distinct
  <2>1. CASE i \in 1 .. n /\ j \in 1 .. n
    BY <1>1, <1>2, <1>5, <2>1 DEF Distinct
  <2>2. CASE i = n + 1 \/ j = n + 1
    BY <1>1, <1>2, <1>5, <2>2
  <2> QED BY <1>1, <2>1, <2>2
<1> QED BY <1>2, <1>4, <1>5 DEF u, n

LEMMA ConcatFacts ==
    ASSUME NEW X, NEW s \in Seq(X), NEW t \in Seq(X)
    PROVE  /\ s \o t \in Seq(X) /\ Len(s \o t) = Len(s) + Len(t)
           /\ ToSet(s \o t) = ToSet(s) \cup ToSet(t)
           /\ Distinct(s) /\ Distinct(t) /\ ToSet(s) \cap ToSet(t) = {} => Distinct(s \o t)
<1> DEFINE u == s \o t
           m == Len(s)
           n == Len(t)
<1>1. /\ m \in Nat /\ DOMAIN s = 1 .. m /\ ToSet(s) = {s[i] : i \in 1 .. m}
      /\ n \in Nat /\ DOMAIN t = 1 .. n /\ ToSet(t) = {t[i] : i \in 1 .. n}
  BY SeqFacts
<1>2. /\ u \in Seq(X) /\ Len(u) = m + n /\ DOMAIN u = 1 .. m + n
      /\ \A i \in 1 .. m + n : u[i] = IF i <= m THEN s[i] ELSE t[i - m]
  BY ConcatProperties, LenProperties, <1>1
<1>3. ToSet(u) = {u[i] : i \in 1 .. m + n}
  BY <1>2 DEF ToSet
<1> HIDE DEF u, m, n
<1>4. ToSet(u) = ToSet(s) \cup ToSet(t)
  <2>1. \A i \in 1 .. m + n : u[i] \in ToSet(s) \cup ToSet(t)
    BY <1>1, <1>2
  <2>2. \A i \in 1 .. m : i \in 1 .. m + n /\ u[i] = s[i]
    BY <1>1, <1>2
  <2>3. \A i \in 1 .. n : m + i \in 1 .. m + n /\ u[m + i] = t[i]
    BY <1>1, <1>2
  <2> QED BY <1>1, <1>3, <2>1, <2>2, <2>3
<1>5. ASSUME Distinct(s), Distinct(t), ToSet(s) \cap ToSet(t) = {} PROVE Distinct(u)
  <2> SUFFICES ASSUME NEW i \in 1 .. m + n, NEW j \in 1 .. m + n, i < j PROVE u[i] # u[j]
    BY <1>1, <1>2 DEF Distinct
  <2>1. CASE j <= m
    <3>1. i \in 1 .. m /\ j \in 1 .. m /\ i # j /\ i <= m
      BY <1>1, <2>1
    <3>2. u[i] = s[i] /\ u[j] = s[j]
      BY <1>2, <2>1, <3>1
    <3>3. s[i] # s[j]
      BY <1>1, <1>5, <3>1 DEF Distinct
    <3> QED BY <3>2, <3>3
  <2>2. CASE i <= m /\ ~ (j <= m)
    <3>1. u[i] \in ToSet(s) /\ u[j] \in ToSet(t)
      BY <1>1, <1>2, <2>2
    <3> QED BY <1>5, <3>1
  <2>3. CASE ~ (i <= m)
    <3>1. i - m \in 1 .. n /\ j - m \in 1 .. n /\ i - m # j - m /\ ~ (j <= m)
      BY <1>1, <2>3
    <3>2. u[i] = t[i - m] /\ u[j] = t[j - m]
      BY <1>2, <2>3, <3>1
    <3>3. t[i - m] # t[j - m]
      BY <1>1, <1>5, <3>1 DEF Distinct
    <3> QED BY <3>2, <3>3
  <2> QED BY <1>1, <2>1, <2>2, <2>3
<1> QED BY <1>2, <1>4, <1>5 DEF u, m, n

\* A sequence whose elements are distinct has as many of them as it is long.
LEMMA DistinctCount ==
    ASSUME NEW X, NEW s \in Seq(X), Distinct(s)
    PROVE  IsFiniteSet(ToSet(s)) /\ Cardinality(ToSet(s)) = Len(s)
<1>1. Len(s) \in Nat /\ DOMAIN s = 1 .. Len(s) /\ ToSet(s) = {s[i] : i \in 1 .. Len(s)}
  BY SeqFacts
<1>2. s = [i \in 1 .. Len(s) |-> s[i]]
  BY <1>1, SeqDef
<1>3. s \in Bijection(1 .. Len(s), ToSet(s))
  <2>1. s \in [1 .. Len(s) -> ToSet(s)]
    BY <1>1, <1>2
  <2>2. \A i, j \in 1 .. Len(s) : s[i] = s[j] => i = j
    BY <1>1 DEF Distinct
  <2>3. \A x \in ToSet(s) : \E i \in 1 .. Len(s) : s[i] = x
    BY <1>1
  <2> QED BY <2>1, <2>2, <2>3, Fun_IsBij
<1>4. IsFiniteSet(1 .. Len(s)) /\ Cardinality(1 .. Len(s)) = Len(s)
  BY <1>1, FS_Interval
<1>5. ExistsBijection(1 .. Len(s), ToSet(s))
  BY <1>3 DEF ExistsBijection
<1> QED BY <1>4, <1>5, FS_Bijection

\* The recursive definition of Without has a solution.
LEMMA WithoutIs ==
    ASSUME NEW s, NEW D, Len(s) \in Nat
    PROVE  \E K : /\ K = [i \in 0 .. Len(s) |->
                            IF i = 0 THEN <<>>
                            ELSE IF s[i] \in D THEN K[i - 1] ELSE Append(K[i - 1], s[i])]
                  /\ Without(s, D) = K[Len(s)]
<1> DEFINE E(g, i) == IF i = 0 THEN <<>>
                      ELSE IF s[i] \in D THEN g[i - 1] ELSE Append(g[i - 1], s[i])
           Upto == {n \in Nat : \E g : g = [i \in 0 .. n |-> E(g, i)]}
<1>1. 0 \in Upto
  <2>1. [i \in 0 .. 0 |-> <<>>] = [i \in 0 .. 0 |-> E([j \in 0 .. 0 |-> <<>>], i)]
    OBVIOUS
  <2> QED BY <2>1
<1>2. ASSUME NEW n \in Nat, n \in Upto PROVE n + 1 \in Upto
  <2>1. PICK g : g = [i \in 0 .. n |-> E(g, i)]
    BY <1>2
  <2> DEFINE h == [i \in 0 .. n + 1 |-> IF i = n + 1 THEN E(g, n + 1) ELSE g[i]]
  <2>2. ASSUME NEW i \in 0 .. n + 1 PROVE h[i] = E(h, i)
    <3>1. CASE i = n + 1
      BY <3>1
    <3>2. CASE i \in 0 .. n
      <4>1. h[i] = g[i] /\ g[i] = E(g, i)
        BY <2>1, <3>2
      <4>2. i # 0 => h[i - 1] = g[i - 1]
        BY <3>2
      <4> QED BY <4>1, <4>2
    <3> QED BY <3>1, <3>2
  <2>3. h = [i \in 0 .. n + 1 |-> E(h, i)]
    <3> HIDE DEF E
    <3>1. h = [i \in 0 .. n + 1 |-> h[i]]
      OBVIOUS
    <3> HIDE DEF h
    <3> QED BY <2>2, <3>1
  <2> HIDE DEF h, E
  <2> QED BY <2>3
<1>3. Len(s) \in Upto
  <2> HIDE DEF Upto
  <2> QED BY <1>1, <1>2, SetInduction
<1>4. PICK g : g = [i \in 0 .. Len(s) |-> E(g, i)]
  BY <1>3
<1> DEFINE K == CHOOSE k : k = [i \in 0 .. Len(s) |-> E(k, i)]
<1>5. K = [i \in 0 .. Len(s) |-> E(K, i)]
  BY <1>4
<1>6. Without(s, D) = K[Len(s)]
  BY Zenon DEF Without
<1> HIDE DEF K
<1> QED BY <1>5, <1>6

\* It leaves the other elements, none of them twice.
LEMMA WithoutLeaves ==
    ASSUME NEW X, NEW s \in Seq(X), NEW D
    PROVE  /\ Without(s, D) \in Seq(X)
           /\ ToSet(Without(s, D)) = ToSet(s) \ D
           /\ Distinct(s) => Distinct(Without(s, D))
<1>s. Len(s) \in Nat /\ DOMAIN s = 1 .. Len(s) /\ ToSet(s) = {s[i] : i \in 1 .. Len(s)}
      /\ \A i \in 1 .. Len(s) : s[i] \in X
  BY SeqFacts
<1>1. PICK K : /\ K = [i \in 0 .. Len(s) |->
                         IF i = 0 THEN <<>>
                         ELSE IF s[i] \in D THEN K[i - 1] ELSE Append(K[i - 1], s[i])]
               /\ Without(s, D) = K[Len(s)]
  BY <1>s, WithoutIs
<1> DEFINE first(n) == {s[i] : i \in 1 .. n}
           Leaves(n) == /\ K[n] \in Seq(X)
                        /\ ToSet(K[n]) = first(n) \ D
                        /\ Distinct(s) => Distinct(K[n])
           Upto == {n \in Nat : n <= Len(s) => Leaves(n)}
<1>2. 0 \in Upto
  <2>1. K[0] = <<>>
    BY <1>1, <1>s
  <2>2. first(0) = {}
    OBVIOUS
  <2> HIDE DEF first
  <2>3. Leaves(0)
    BY <2>1, <2>2, EmptyFacts
  <2> QED BY <2>3
<1>3. ASSUME NEW n \in Nat, n \in Upto PROVE n + 1 \in Upto
  <2> SUFFICES ASSUME n + 1 <= Len(s) PROVE Leaves(n + 1)
    OBVIOUS
  <2>1. Leaves(n)
    BY <1>3, <1>s
  <2>2. n + 1 \in 1 .. Len(s) /\ s[n + 1] \in X
    BY <1>s
  <2>3. K[n + 1] = IF s[n + 1] \in D THEN K[n] ELSE Append(K[n], s[n + 1])
    <3>1. \A i \in 0 .. Len(s) :
             K[i] = IF i = 0 THEN <<>>
                    ELSE IF s[i] \in D THEN K[i - 1] ELSE Append(K[i - 1], s[i])
      BY <1>1, Zenon
    <3> DEFINE m == n + 1
    <3>2. m \in 0 .. Len(s) /\ m # 0 /\ m - 1 = n
      BY <2>2, <1>s
    <3> HIDE DEF m, Leaves, Upto
    <3>3. K[m] = IF s[m] \in D THEN K[m - 1] ELSE Append(K[m - 1], s[m])
      BY <3>1, <3>2
    <3> QED BY <3>2, <3>3 DEF m
  <2>4. first(n + 1) = first(n) \cup {s[n + 1]}
    <3>1. 1 .. n + 1 = (1 .. n) \cup {n + 1}
      OBVIOUS
    <3> QED BY <3>1
  <2>5. Distinct(s) => s[n + 1] \notin first(n)
    <3>1. \A i \in 1 .. n : i \in 1 .. Len(s) /\ i # n + 1
      BY <1>s
    <3> QED BY <2>2, <3>1, <1>s DEF Distinct
  <2> HIDE DEF first
  <2>6. CASE s[n + 1] \in D
    BY <2>1, <2>3, <2>4, <2>6
  <2>7. CASE s[n + 1] \notin D
    <3>1. K[n + 1] = Append(K[n], s[n + 1])
      BY <2>3, <2>7
    <3>2. /\ Append(K[n], s[n + 1]) \in Seq(X)
          /\ ToSet(Append(K[n], s[n + 1])) = ToSet(K[n]) \cup {s[n + 1]}
          /\ Distinct(K[n]) /\ s[n + 1] \notin ToSet(K[n]) => Distinct(Append(K[n], s[n + 1]))
      BY <2>1, <2>2, AppendFacts
    <3> QED BY <2>1, <2>4, <2>5, <2>7, <3>1, <3>2
  <2> QED BY <2>6, <2>7
<1>4. Len(s) \in Upto
  <2> HIDE DEF Upto
  <2> QED BY <1>2, <1>3, <1>s, SetInduction
<1>5. Leaves(Len(s))
  BY <1>4, <1>s
<1> QED BY <1>1, <1>5, <1>s

-----------------------------------------------------------------------------
(* Outputs and their sums                                                   *)

Outpoint == {o \in [tx : Tx, n : Nat] : o.n \in DOMAIN Out[o.tx]}

LEMMA OutFacts ==
    ASSUME NEW t \in Tx
    PROVE  /\ Len(Out[t]) \in Nat /\ DOMAIN Out[t] = 1 .. Len(Out[t])
           /\ \A n \in DOMAIN Out[t] : /\ Out[t][n].chain \in Chains \cup {Foreign}
                                       /\ Out[t][n].index \in Nat /\ Out[t][n].amount \in Nat
<1> DEFINE Output == [chain : Chains \cup {Foreign}, index : Nat, amount : Nat]
<1>1. Out[t] \in Seq(Output)
  BY TxAssumption
<1>2. Len(Out[t]) \in Nat /\ DOMAIN Out[t] = 1 .. Len(Out[t]) /\ \A n \in 1 .. Len(Out[t]) : Out[t][n] \in Output
  <2> HIDE DEF Output
  <2> QED BY <1>1, SeqFacts
<1> QED BY <1>2

LEMMA AmountIsNat ==
    ASSUME NEW o \in Outpoint
    PROVE  AmountAt(o) \in Nat
BY OutFacts DEF Outpoint, AmountAt

\* The outputs of a transaction, each once.
LEMMA PaidFacts ==
    ASSUME NEW t \in Tx
    PROVE  /\ Paid(t) \in Seq(Outpoint) /\ Distinct(Paid(t))
           /\ \A o \in ToSet(Paid(t)) : o \in Outpoint /\ o.tx = t
           /\ IsFiniteSet(ToSet(Paid(t)))
<1> DEFINE n == Len(Out[t])
<1>1. n \in Nat /\ DOMAIN Out[t] = 1 .. n
  BY OutFacts
<1>2. Paid(t) = [i \in 1 .. n |-> [tx |-> t, n |-> i]]
  BY <1>1 DEF Paid
<1> HIDE DEF n
<1>3. \A i \in 1 .. n : [tx |-> t, n |-> i] \in Outpoint
  BY <1>1 DEF Outpoint
<1>4. Paid(t) \in [1 .. n -> Outpoint]
  BY <1>2, <1>3
<1>5. Paid(t) \in Seq(Outpoint)
  BY <1>1, <1>4, SeqDef
<1>6. DOMAIN Paid(t) = 1 .. n /\ \A i \in 1 .. n : Paid(t)[i] = [tx |-> t, n |-> i]
  BY <1>2
<1>7. Distinct(Paid(t))
  <2>1. \A i \in 1 .. n : Paid(t)[i].n = i
    BY <1>6
  <2> QED BY <1>6, <2>1 DEF Distinct
<1>8. \A o \in ToSet(Paid(t)) : o \in Outpoint /\ o.tx = t
  BY <1>3, <1>6 DEF ToSet
<1>9. IsFiniteSet(ToSet(Paid(t)))
  BY <1>5, <1>7, DistinctCount
<1> QED BY <1>5, <1>7, <1>8, <1>9

LEMMA TotalIsNat ==
    ASSUME NEW os \in Seq(Outpoint)
    PROVE  Total(os) \in Nat
<1>1. Len(os) \in Nat /\ DOMAIN os = 1 .. Len(os) /\ \A i \in 1 .. Len(os) : os[i] \in Outpoint
  BY SeqFacts
<1>2. PICK acc : /\ acc[0] = 0
                 /\ \A i \in 1 .. Len(os) : acc[i] = acc[i - 1] + AmountAt(os[i])
                 /\ acc[Len(os)] = Total(os)
  BY <1>1, TotalRun
<1> DEFINE Upto == {n \in Nat : n <= Len(os) => acc[n] \in Nat}
<1>3. 0 \in Upto
  BY <1>2
<1>4. ASSUME NEW n \in Nat, n \in Upto PROVE n + 1 \in Upto
  <2> SUFFICES ASSUME n + 1 <= Len(os) PROVE acc[n + 1] \in Nat
    OBVIOUS
  <2>1. n + 1 \in 1 .. Len(os) /\ acc[n] \in Nat /\ n + 1 - 1 = n
    BY <1>1, <1>4
  <2>2. AmountAt(os[n + 1]) \in Nat /\ acc[n + 1] = acc[n] + AmountAt(os[n + 1])
    BY <1>1, <1>2, <2>1, AmountIsNat
  <2> QED BY <2>1, <2>2
<1>5. Len(os) \in Upto
  <2> HIDE DEF Upto
  <2> QED BY <1>1, <1>3, <1>4, SetInduction
<1> QED BY <1>1, <1>2, <1>5

LEMMA TotalOfNone == Total(<<>>) = 0
<1>1. <<>> \in Seq(Outpoint) /\ Len(<<>>) = 0
  BY EmptySeq
<1>2. Len(<<>>) \in Nat /\ DOMAIN <<>> = 1 .. Len(<<>>)
  BY <1>1, SeqFacts
<1>3. PICK acc : acc[0] = 0 /\ acc[Len(<<>>)] = Total(<<>>)
  BY <1>2, TotalRun
<1> QED BY <1>1, <1>3

-----------------------------------------------------------------------------
(* What _BR_WalletUpdateBalance works out                                   *)

Address == (Chains \cup {Foreign}) \X Nat

\* The types of what is left after the transactions in P, n with repetitions,
\* with addresses up to l.
Worked(a, P, n, l, top) ==
    /\ a.utxos \in Seq(Outpoint) /\ a.balance = Total(a.utxos)
    /\ a.invalid \subseteq P /\ a.pending \subseteq P
    /\ a.used \subseteq Address /\ IsFiniteSet(a.used)
    /\ a.hist \in Seq(Nat) /\ Len(a.hist) = n
    /\ a.received \in Int /\ a.sent \in Int /\ a.balance = a.received - a.sent
    /\ a.len = l /\ a.tip = top

\* What is spent is what the transactions spend that are not invalid, and the
\* unspent outputs are what those that count paid and none of them spends.
Cleared(a, P, l) ==
    LET counted == P \ (a.invalid \cup a.pending)
    IN  /\ Distinct(a.utxos)
        /\ \A o : o \in a.spent <=> \E s \in P \ a.invalid : o \in In[s]
        /\ \A t \in counted : \A o \in ToSet(Paid(t)) :
              IsDerived(l, Addr(o)) /\ o \notin a.spent => o \in ToSet(a.utxos)
        /\ \A o \in ToSet(a.utxos) : o.tx \in counted /\ \A s \in counted : o \notin In[s]

LEMMA AddrFacts ==
    ASSUME NEW o \in Outpoint
    PROVE  Addr(o) \in Address
BY OutFacts DEF Outpoint, Addr, Address

\* A transaction that is refused or postponed adds only to these sets.
Skipped(a, b) ==
    /\ b.utxos = a.utxos /\ b.used = a.used /\ b.balance = a.balance /\ b.received = a.received
    /\ b.sent = a.sent /\ b.len = a.len /\ b.tip = a.tip /\ b.hist = Append(a.hist, a.balance)

\* The outputs of a transaction that pay the wallet, and the addresses of all.
Mine(t, l) == {o \in ToSet(Paid(t)) : IsDerived(l, Addr(o))}
PaidAddrs(t) == {Addr(o) : o \in ToSet(Paid(t))}

\* The fields of an account, so that EXCEPT changes them.
IsAccount(a) == DOMAIN a = DOMAIN Empty

\* What counting t changes.
Counts(a, b, t, l) ==
    /\ IsAccount(b)
    /\ b.spent = a.spent /\ b.invalid = a.invalid /\ b.pending = a.pending
    /\ b.len = a.len /\ b.tip = a.tip
    /\ b.utxos \in Seq(Outpoint) /\ b.balance = Total(b.utxos) /\ b.balance \in Nat
    /\ ToSet(b.utxos) = (ToSet(a.utxos) \cup Mine(t, l)) \ a.spent
    /\ (Distinct(a.utxos) /\ \A o \in ToSet(a.utxos) : o.tx # t) => Distinct(b.utxos)
    /\ b.used = a.used \cup PaidAddrs(t)
    /\ b.hist = Append(a.hist, b.balance)
    /\ (a.received \in Int /\ a.sent \in Int /\ a.balance = a.received - a.sent)
          => (b.received \in Int /\ b.sent \in Int /\ b.balance = b.received - b.sent)

LEMMA CountFacts ==
    ASSUME NEW a, NEW t \in Tx, NEW l, IsAccount(a),
           a.utxos \in Seq(Outpoint), a.balance = Total(a.utxos)
    PROVE  Counts(a, Count(a, t, l), t, l)
<1> DEFINE b == Count(a, t, l)
           foreign == {o \in ToSet(Paid(t)) : ~ IsDerived(l, Addr(o))}
           mine == Without(Paid(t), foreign)
           joined == a.utxos \o mine
           utxos == Without(joined, a.spent)
           balance == Total(utxos)
           rise == balance - a.balance
<1>1. mine \in Seq(Outpoint) /\ Distinct(mine) /\ ToSet(mine) = ToSet(Paid(t)) \ foreign
  BY PaidFacts, WithoutLeaves
<1>2. ToSet(mine) = Mine(t, l)
  BY <1>1 DEF Mine
<1>3. \A o \in ToSet(mine) : o.tx = t
  BY <1>2, PaidFacts DEF Mine
<1> HIDE DEF foreign, mine
<1>4. /\ joined \in Seq(Outpoint) /\ ToSet(joined) = ToSet(a.utxos) \cup ToSet(mine)
      /\ Distinct(a.utxos) /\ ToSet(a.utxos) \cap ToSet(mine) = {} => Distinct(joined)
  BY <1>1, ConcatFacts
<1> HIDE DEF joined
<1>5. /\ utxos \in Seq(Outpoint) /\ ToSet(utxos) = ToSet(joined) \ a.spent
      /\ Distinct(joined) => Distinct(utxos)
  BY <1>4, WithoutLeaves
<1>6. b = [a EXCEPT !.utxos = utxos, !.used = @ \cup PaidAddrs(t),
                    !.balance = balance, !.hist = Append(@, balance),
                    !.received = IF rise > 0 THEN @ + rise ELSE @,
                    !.sent = IF rise < 0 THEN @ - rise ELSE @]
  BY Zenon DEF PaidAddrs, Count, Unspent, utxos, joined, mine, foreign
<1>7. balance \in Nat /\ a.balance \in Nat
  BY <1>5, TotalIsNat
<1> HIDE DEF utxos, b
<1>8. balance = Total(utxos)
  OBVIOUS
<1>d. {"utxos", "used", "balance", "hist", "received", "sent", "spent", "invalid", "pending", "len", "tip"}
         \subseteq DOMAIN a
  BY DEF IsAccount, Empty
<1> HIDE DEF balance, rise
<1>9. /\ DOMAIN b = DOMAIN a
      /\ b.utxos = utxos /\ b.balance = balance /\ b.hist = Append(a.hist, balance)
      /\ b.used = a.used \cup PaidAddrs(t)
      /\ b.received = (IF rise > 0 THEN a.received + rise ELSE a.received)
      /\ b.sent = (IF rise < 0 THEN a.sent - rise ELSE a.sent)
      /\ b.spent = a.spent /\ b.invalid = a.invalid /\ b.pending = a.pending /\ b.len = a.len /\ b.tip = a.tip
  <2> QED BY <1>6, <1>d
<1>10. Distinct(a.utxos) /\ (\A o \in ToSet(a.utxos) : o.tx # t) => Distinct(b.utxos)
  BY <1>3, <1>4, <1>5, <1>9
<1>11. ASSUME a.received \in Int, a.sent \in Int, a.balance = a.received - a.sent
       PROVE  b.received \in Int /\ b.sent \in Int /\ b.balance = b.received - b.sent
  BY <1>7, <1>9, <1>11 DEF rise
<1>12. ToSet(b.utxos) = (ToSet(a.utxos) \cup Mine(t, l)) \ a.spent
  BY <1>2, <1>4, <1>5, <1>9
<1>13. IsAccount(b)
  BY <1>9 DEF IsAccount
<1>14. Counts(a, b, t, l)
  BY <1>5, <1>7, <1>8, <1>9, <1>10, <1>11, <1>12, <1>13 DEF Counts
<1> QED BY <1>14 DEF b

\* The three ways a transaction is accounted for.
LEMMA AccountCases ==
    ASSUME NEW a, NEW t \in Tx, NEW h, NEW l, NEW top, IsAccount(a),
           NEW b, b = Account(a, t, h, l, top)
    PROVE  \/ /\ Refused(a, t, h)
              /\ IsAccount(b) /\ Skipped(a, b) /\ b.spent = a.spent
              /\ b.invalid = a.invalid \cup {t} /\ b.pending = a.pending
           \/ /\ ~ Refused(a, t, h) /\ Postponed([a EXCEPT !.spent = @ \cup In[t]], t, h, top)
              /\ IsAccount(b) /\ Skipped(a, b) /\ b.spent = a.spent \cup In[t]
              /\ b.invalid = a.invalid /\ b.pending = a.pending \cup {t}
           \/ /\ ~ Refused(a, t, h) /\ ~ Postponed([a EXCEPT !.spent = @ \cup In[t]], t, h, top)
              /\ b = Count([a EXCEPT !.spent = @ \cup In[t]], t, l)
<1>d. /\ DOMAIN a = {"utxos", "used", "balance", "hist", "received", "sent", "spent", "invalid",
                     "pending", "len", "tip"}
      /\ DOMAIN Empty = DOMAIN a
  BY DEF IsAccount, Empty
<1>1. CASE Refused(a, t, h)
  <2>1. b = [a EXCEPT !.invalid = @ \cup {t}, !.hist = Append(@, a.balance)]
    BY <1>1 DEF Account
  <2> QED BY <1>1, <1>d, <2>1 DEF Skipped, IsAccount
<1> DEFINE c == [a EXCEPT !.spent = @ \cup In[t]]
<1>2. CASE ~ Refused(a, t, h) /\ Postponed(c, t, h, top)
  <2>1. b = [c EXCEPT !.pending = @ \cup {t}, !.hist = Append(@, c.balance)]
    BY <1>2 DEF Account
  <2>2. /\ DOMAIN b = DOMAIN a /\ b.spent = a.spent \cup In[t] /\ b.pending = a.pending \cup {t}
        /\ b.invalid = a.invalid
    BY <2>1, <1>d
  <2>3. Skipped(a, b)
    BY <2>1, <1>d DEF Skipped
  <2> QED BY <1>2, <1>d, <2>2, <2>3 DEF IsAccount
<1>3. CASE ~ Refused(a, t, h) /\ ~ Postponed(c, t, h, top)
  BY <1>3 DEF Account
<1> QED BY <1>1, <1>2, <1>3

\* The account before a transaction is counted: what it spends is spent.
LEMMA SpendingFacts ==
    ASSUME NEW a, NEW t, IsAccount(a)
    PROVE  LET c == [a EXCEPT !.spent = @ \cup In[t]]
           IN  /\ IsAccount(c) /\ c.spent = a.spent \cup In[t] /\ c.invalid = a.invalid
               /\ c.pending = a.pending /\ c.utxos = a.utxos /\ c.used = a.used /\ c.hist = a.hist
               /\ c.balance = a.balance /\ c.received = a.received /\ c.sent = a.sent
               /\ c.len = a.len /\ c.tip = a.tip
BY DEF IsAccount, Empty

LEMMA AccountWorks ==
    ASSUME NEW P \in SUBSET Tx, NEW n \in Nat, NEW t \in Tx, NEW h, NEW l, NEW top, NEW a,
           IsAccount(a), Worked(a, P, n, l, top), NEW b, b = Account(a, t, h, l, top)
    PROVE  IsAccount(b) /\ Worked(b, P \cup {t}, n + 1, l, top)
<1> DEFINE c == [a EXCEPT !.spent = @ \cup In[t]]
<1>1. a.balance \in Nat
  BY TotalIsNat DEF Worked
<1>2. CASE IsAccount(b) /\ Skipped(a, b) /\ b.invalid \subseteq a.invalid \cup {t}
           /\ b.pending \subseteq a.pending \cup {t}
  <2>1. b.hist \in Seq(Nat) /\ Len(b.hist) = n + 1
    BY <1>1, <1>2, AppendFacts DEF Skipped, Worked
  <2> QED BY <1>2, <2>1 DEF Skipped, Worked
<1>3. CASE b = Count(c, t, l)
  <2>1. /\ IsAccount(c) /\ c.invalid = a.invalid
        /\ c.pending = a.pending /\ c.utxos = a.utxos /\ c.used = a.used /\ c.hist = a.hist
        /\ c.balance = a.balance /\ c.received = a.received /\ c.sent = a.sent
        /\ c.len = a.len /\ c.tip = a.tip
    BY SpendingFacts
  <2> HIDE DEF c
  <2>2. /\ IsAccount(b) /\ b.invalid = c.invalid /\ b.pending = c.pending /\ b.len = c.len /\ b.tip = c.tip
        /\ b.utxos \in Seq(Outpoint) /\ b.balance = Total(b.utxos) /\ b.balance \in Nat
        /\ b.used = c.used \cup PaidAddrs(t)
        /\ b.hist = Append(c.hist, b.balance)
        /\ c.received \in Int /\ c.sent \in Int /\ c.balance = c.received - c.sent
              => b.received \in Int /\ b.sent \in Int /\ b.balance = b.received - b.sent
    <3>1. c.utxos \in Seq(Outpoint) /\ c.balance = Total(c.utxos)
      BY <2>1 DEF Worked
    <3>2. IsAccount(c) /\ b = Count(c, t, l)
      BY <1>3, <2>1
    <3>3. Counts(c, b, t, l)
      BY <3>1, <3>2, CountFacts
    <3> QED BY <3>3 DEF Counts
  <2>3. b.hist \in Seq(Nat) /\ Len(b.hist) = n + 1
    BY <2>1, <2>2, AppendFacts DEF Worked
  <2> DEFINE new == PaidAddrs(t)
  <2>4. new \subseteq Address /\ IsFiniteSet(new)
    <3>1. new \subseteq Address
      BY PaidFacts, AddrFacts DEF PaidAddrs
    <3>2. IsFiniteSet(ToSet(Paid(t)))
      BY PaidFacts
    <3> DEFINE f == [o \in ToSet(Paid(t)) |-> Addr(o)]
    <3>4. f \in Surjection(ToSet(Paid(t)), new)
      BY Fun_IsSurj DEF PaidAddrs
    <3>3. IsFiniteSet(new)
      BY <3>2, <3>4, FS_Surjection DEF ExistsSurjection
    <3> QED BY <3>1, <3>3
  <2> HIDE DEF new
  <2>5. b.used \subseteq Address /\ IsFiniteSet(b.used)
    <3>1. a.used \subseteq Address /\ IsFiniteSet(a.used) /\ b.used = a.used \cup new
      BY <2>1, <2>2 DEF Worked, new
    <3> QED BY <2>4, <3>1, FS_Union
  <2> QED BY <2>1, <2>2, <2>3, <2>5 DEF Worked
<1>4. \/ IsAccount(b) /\ Skipped(a, b) /\ b.invalid \subseteq a.invalid \cup {t}
         /\ b.pending \subseteq a.pending \cup {t}
      \/ b = Count(c, t, l)
  <2> HIDE DEF c
  <2> QED BY AccountCases DEF c
<1> QED BY <1>2, <1>3, <1>4

LEMMA AccountClears ==
    ASSUME NEW P \in SUBSET Tx, NEW n \in Nat, NEW t \in Tx, t \notin P, NEW h, NEW l, NEW top, NEW a,
           IsAccount(a), Worked(a, P, n, l, top), Cleared(a, P, l), NEW b, b = Account(a, t, h, l, top)
    PROVE  Cleared(b, P \cup {t}, l)
<1> DEFINE c == [a EXCEPT !.spent = @ \cup In[t]]
           Q == P \cup {t}
           counted == P \ (a.invalid \cup a.pending)
<1>w. /\ a.invalid \subseteq P /\ a.pending \subseteq P
      /\ a.utxos \in Seq(Outpoint) /\ a.balance = Total(a.utxos)
  BY DEF Worked
<1>c. /\ Distinct(a.utxos)
      /\ \A o : o \in a.spent <=> \E s \in P \ a.invalid : o \in In[s]
      /\ \A s \in counted : \A o \in ToSet(Paid(s)) :
            IsDerived(l, Addr(o)) /\ o \notin a.spent => o \in ToSet(a.utxos)
      /\ \A o \in ToSet(a.utxos) : o.tx \in counted /\ \A s \in counted : o \notin In[s]
  BY DEF Cleared
<1>1. CASE Skipped(a, b) /\ b.spent = a.spent /\ b.invalid = a.invalid \cup {t} /\ b.pending = a.pending
  <2>1. Q \ b.invalid = P \ a.invalid /\ Q \ (b.invalid \cup b.pending) = counted
        /\ b.utxos = a.utxos /\ b.spent = a.spent
    BY <1>1, <1>w DEF Skipped
  <2> HIDE DEF Q, counted
  <2>2. /\ Distinct(b.utxos)
        /\ \A o : o \in b.spent <=> \E s \in Q \ b.invalid : o \in In[s]
        /\ \A s \in Q \ (b.invalid \cup b.pending) : \A o \in ToSet(Paid(s)) :
              IsDerived(l, Addr(o)) /\ o \notin b.spent => o \in ToSet(b.utxos)
        /\ \A o \in ToSet(b.utxos) : o.tx \in Q \ (b.invalid \cup b.pending)
              /\ \A s \in Q \ (b.invalid \cup b.pending) : o \notin In[s]
    BY <1>c, <2>1
  <2> QED BY <2>2 DEF Cleared, Q
<1>2. CASE Skipped(a, b) /\ b.spent = a.spent \cup In[t] /\ b.invalid = a.invalid
           /\ b.pending = a.pending \cup {t}
  <2>1. Q \ b.invalid = (P \ a.invalid) \cup {t} /\ Q \ (b.invalid \cup b.pending) = counted
        /\ b.utxos = a.utxos /\ b.spent = a.spent \cup In[t]
    BY <1>2, <1>w DEF Skipped
  <2> HIDE DEF Q, counted
  <2>2. /\ Distinct(b.utxos)
        /\ \A o : o \in b.spent <=> \E s \in Q \ b.invalid : o \in In[s]
        /\ \A s \in Q \ (b.invalid \cup b.pending) : \A o \in ToSet(Paid(s)) :
              IsDerived(l, Addr(o)) /\ o \notin b.spent => o \in ToSet(b.utxos)
        /\ \A o \in ToSet(b.utxos) : o.tx \in Q \ (b.invalid \cup b.pending)
              /\ \A s \in Q \ (b.invalid \cup b.pending) : o \notin In[s]
    BY <1>c, <2>1
  <2> QED BY <2>2 DEF Cleared, Q
<1>3. CASE b = Count(c, t, l)
  <2>1. /\ IsAccount(c) /\ c.spent = a.spent \cup In[t] /\ c.invalid = a.invalid
        /\ c.pending = a.pending /\ c.utxos = a.utxos /\ c.balance = a.balance
    BY SpendingFacts
  <2> HIDE DEF c
  <2>2. /\ b.spent = c.spent /\ b.invalid = c.invalid /\ b.pending = c.pending
        /\ ToSet(b.utxos) = (ToSet(c.utxos) \cup Mine(t, l)) \ c.spent
        /\ Distinct(c.utxos) /\ (\A o \in ToSet(c.utxos) : o.tx # t) => Distinct(b.utxos)
    <3>1. c.utxos \in Seq(Outpoint) /\ c.balance = Total(c.utxos)
      BY <1>w, <2>1
    <3>2. IsAccount(c) /\ b = Count(c, t, l)
      BY <1>3, <2>1
    <3>3. Counts(c, b, t, l)
      BY <3>1, <3>2, CountFacts
    <3> QED BY <3>3 DEF Counts
  <2>3. Distinct(b.utxos)
    <3>1. \A o \in ToSet(a.utxos) : o.tx # t
      BY <1>c
    <3> QED BY <1>c, <2>1, <2>2, <3>1
  <2>4. Q \ b.invalid = (P \ a.invalid) \cup {t} /\ Q \ (b.invalid \cup b.pending) = counted \cup {t}
    BY <1>w, <2>1, <2>2
  <2>5. counted \subseteq P \ a.invalid /\ \A o \in Mine(t, l) : o.tx = t /\ o \in ToSet(Paid(t))
    BY PaidFacts DEF Mine
  <2> HIDE DEF Q, counted
  <2>6. \A o : o \in b.spent <=> \E s \in Q \ b.invalid : o \in In[s]
    BY <1>c, <2>1, <2>2, <2>4
  <2>7. \A s \in Q \ (b.invalid \cup b.pending) : \A o \in ToSet(Paid(s)) :
           IsDerived(l, Addr(o)) /\ o \notin b.spent => o \in ToSet(b.utxos)
    BY <1>c, <2>1, <2>2, <2>4 DEF Mine
  <2>8. ASSUME NEW o \in ToSet(b.utxos)
        PROVE  o.tx \in Q \ (b.invalid \cup b.pending)
               /\ \A s \in Q \ (b.invalid \cup b.pending) : o \notin In[s]
    <3>1. o \notin b.spent /\ (o \in ToSet(a.utxos) \/ o \in Mine(t, l))
      BY <2>1, <2>2
    <3>2. o.tx \in counted \cup {t}
      BY <1>c, <2>5, <3>1
    <3>3. \A s \in counted \cup {t} : s \in Q \ b.invalid
      BY <2>4, <2>5
    <3> QED BY <2>4, <2>6, <3>1, <3>2, <3>3
  <2> QED BY <2>3, <2>6, <2>7, <2>8 DEF Cleared, Q
<1>4. \/ Skipped(a, b) /\ b.spent = a.spent /\ b.invalid = a.invalid \cup {t} /\ b.pending = a.pending
      \/ Skipped(a, b) /\ b.spent = a.spent \cup In[t] /\ b.invalid = a.invalid
           /\ b.pending = a.pending \cup {t}
      \/ b = Count(c, t, l)
  <2> HIDE DEF c
  <2> QED BY AccountCases DEF c
<1> QED BY <1>1, <1>2, <1>3, <1>4

\* What is there after the first i of them.
LEMMA UpdateWorks ==
    ASSUME NEW ts \in Seq(Tx), NEW h, NEW l, NEW top
    PROVE  LET u == UpdateBalance(ts, h, l, top)
           IN  Worked(u, ToSet(ts), Len(ts), l, top) /\ (Distinct(ts) => Cleared(u, ToSet(ts), l))
<1>0. /\ Len(ts) \in Nat /\ DOMAIN ts = 1 .. Len(ts) /\ ToSet(ts) = {ts[i] : i \in 1 .. Len(ts)}
      /\ \A i \in 1 .. Len(ts) : ts[i] \in Tx
  BY SeqFacts
<1> DEFINE zero == [Empty EXCEPT !.len = l, !.tip = top]
           first(n) == {ts[j] : j \in 1 .. n}
<1>1. PICK acc : /\ acc[0] = zero
                 /\ \A i \in 1 .. Len(ts) : acc[i] = Account(acc[i - 1], ts[i], h, l, top)
                 /\ acc[Len(ts)] = UpdateBalance(ts, h, l, top)
  <2>1. \E acc : IsBalanceRun(acc, ts, h, l, top, Len(ts))
    BY <1>0, BalanceRun
  <2> QED BY <2>1, Zenon DEF IsBalanceRun
<1> DEFINE Upto == {n \in Nat : n <= Len(ts) =>
                      /\ IsAccount(acc[n]) /\ Worked(acc[n], first(n), n, l, top)
                      /\ Distinct(ts) => Cleared(acc[n], first(n), l)}
<1>2. 0 \in Upto
  <2>1. /\ IsAccount(zero) /\ zero.utxos = <<>> /\ zero.spent = {} /\ zero.invalid = {} /\ zero.pending = {}
        /\ zero.used = {} /\ zero.balance = 0 /\ zero.received = 0 /\ zero.sent = 0 /\ zero.hist = <<>>
        /\ zero.len = l /\ zero.tip = top
    BY DEF IsAccount, Empty
  <2>2. first(0) = {}
    OBVIOUS
  <2> HIDE DEF zero, first
  <2>3. Worked(zero, first(0), 0, l, top)
    BY <2>1, <2>2, EmptyFacts, TotalOfNone, FS_EmptySet DEF Worked
  <2>4. Cleared(zero, first(0), l)
    BY <2>1, <2>2, EmptyFacts DEF Cleared
  <2> QED BY <1>1, <2>1, <2>3, <2>4
<1>3. ASSUME NEW n \in Nat, n \in Upto PROVE n + 1 \in Upto
  <2> SUFFICES ASSUME n + 1 <= Len(ts)
               PROVE  /\ IsAccount(acc[n + 1]) /\ Worked(acc[n + 1], first(n + 1), n + 1, l, top)
                      /\ Distinct(ts) => Cleared(acc[n + 1], first(n + 1), l)
    OBVIOUS
  <2>1. n + 1 \in 1 .. Len(ts) /\ n + 1 - 1 = n /\ n <= Len(ts)
    BY <1>0
  <2>2. acc[n + 1] = Account(acc[n], ts[n + 1], h, l, top) /\ ts[n + 1] \in Tx
    BY <1>0, <1>1, <2>1
  <2>3. /\ IsAccount(acc[n]) /\ Worked(acc[n], first(n), n, l, top)
        /\ Distinct(ts) => Cleared(acc[n], first(n), l)
    BY <1>3, <2>1
  <2>4. first(n) \in SUBSET Tx /\ first(n + 1) = first(n) \cup {ts[n + 1]}
    <3>1. \A j \in 1 .. n : j \in 1 .. Len(ts)
      BY <1>0, <2>1
    <3>2. 1 .. n + 1 = (1 .. n) \cup {n + 1}
      OBVIOUS
    <3> QED BY <1>0, <3>1, <3>2
  <2>5. Distinct(ts) => ts[n + 1] \notin first(n)
    <3>1. \A j \in 1 .. n : j \in DOMAIN ts /\ n + 1 \in DOMAIN ts /\ j # n + 1
      BY <1>0, <2>1
    <3> QED BY <3>1 DEF Distinct
  <2> HIDE DEF first, Upto
  <2>6. IsAccount(acc[n + 1]) /\ Worked(acc[n + 1], first(n + 1), n + 1, l, top)
    BY <2>2, <2>3, <2>4, AccountWorks
  <2>7. ASSUME Distinct(ts) PROVE Cleared(acc[n + 1], first(n + 1), l)
    BY <2>2, <2>3, <2>4, <2>5, <2>7, AccountClears
  <2> QED BY <2>6, <2>7
<1>4. Len(ts) \in Upto
  <2> HIDE DEF Upto
  <2> QED BY <1>0, <1>2, <1>3, SetInduction
<1> QED BY <1>0, <1>1, <1>4
-----------------------------------------------------------------------------
(* The list                                                                 *)

LEMMA PieceFacts ==
    ASSUME NEW X, NEW s \in Seq(X), NEW m \in 1 .. Len(s) + 1, NEW n \in m - 1 .. Len(s)
    PROVE  /\ SubSeq(s, m, n) \in Seq(X) /\ Len(SubSeq(s, m, n)) = n - m + 1
           /\ \A i \in 1 .. n - m + 1 : SubSeq(s, m, n)[i] = s[m + i - 1]
           /\ ToSet(SubSeq(s, m, n)) = {s[i] : i \in m .. n}
           /\ Distinct(s) => Distinct(SubSeq(s, m, n))
<1>0. Len(s) \in Nat /\ DOMAIN s = 1 .. Len(s) /\ n \in Int /\ m \in Int
  BY SeqFacts
<1>1. /\ SubSeq(s, m, n) \in Seq(X) /\ Len(SubSeq(s, m, n)) = n - m + 1
      /\ \A i \in 1 .. n - m + 1 : SubSeq(s, m, n)[i] = s[m + i - 1]
  BY <1>0, SubSeqProperties
<1> DEFINE p == SubSeq(s, m, n)
<1> HIDE DEF p
<1>2. /\ p \in Seq(X) /\ DOMAIN p = 1 .. n - m + 1 /\ ToSet(p) = {p[i] : i \in 1 .. n - m + 1}
      /\ \A i \in 1 .. n - m + 1 : p[i] = s[m + i - 1]
  BY <1>1, SeqFacts DEF p
<1>3. \A i \in 1 .. n - m + 1 : m + i - 1 \in m .. n
  BY <1>0
<1>4. \A i \in m .. n : i - m + 1 \in 1 .. n - m + 1 /\ m + (i - m + 1) - 1 = i
  BY <1>0
<1>5. ToSet(p) = {s[i] : i \in m .. n}
  <2>1. ASSUME NEW i \in 1 .. n - m + 1 PROVE p[i] \in {s[k] : k \in m .. n}
    BY <1>2, <1>3
  <2>2. ASSUME NEW i \in m .. n PROVE s[i] \in ToSet(p)
    <3> DEFINE k == i - m + 1
    <3>1. k \in 1 .. n - m + 1 /\ m + k - 1 = i
      BY <1>4
    <3> HIDE DEF k
    <3>2. p[k] = s[i] /\ p[k] \in ToSet(p)
      BY <1>2, <3>1
    <3> QED BY <3>2
  <2> QED BY <1>2, <2>1, <2>2
<1>6. ASSUME Distinct(s) PROVE Distinct(p)
  <2> SUFFICES ASSUME NEW i \in 1 .. n - m + 1, NEW j \in 1 .. n - m + 1, i # j PROVE p[i] # p[j]
    BY <1>2 DEF Distinct
  <2>1. m + i - 1 \in DOMAIN s /\ m + j - 1 \in DOMAIN s /\ m + i - 1 # m + j - 1
    BY <1>0
  <2> QED BY <1>2, <1>6, <2>1 DEF Distinct
<1> QED BY <1>1, <1>5, <1>6 DEF p

\* _BR_WalletInsertTx adds one element, wherever it belongs.
LEMMA InsertFacts ==
    ASSUME NEW ts \in Seq(Tx), NEW t \in Tx, NEW known, NEW h, NEW l
    PROVE  /\ Insert(ts, t, known, h, l) \in Seq(Tx)
           /\ ToSet(Insert(ts, t, known, h, l)) = ToSet(ts) \cup {t}
           /\ Distinct(ts) /\ t \notin ToSet(ts) => Distinct(Insert(ts, t, known, h, l))
<1>0. /\ Len(ts) \in Nat /\ DOMAIN ts = 1 .. Len(ts) /\ ToSet(ts) = {ts[i] : i \in 1 .. Len(ts)}
  BY SeqFacts
<1> DEFINE B(i) == Behind(ts[i], t, known, h, l)
           P(i) == (\A j \in i + 1 .. Len(ts) : B(j)) /\ (i > 0 => ~ B(i))
           stop == CHOOSE i \in 0 .. Len(ts) : P(i)
<1>1. \E i \in 0 .. Len(ts) : P(i)
  <2> DEFINE S == {i \in 0 .. Len(ts) : i > 0 => ~ B(i)}
  <2>1. S \in SUBSET Nat /\ S # {} /\ \A x \in S : x <= Len(ts)
    BY <1>0
  <2> HIDE DEF B
  <2>2. Max(S) \in S /\ \A x \in S : x <= Max(S)
    <3> HIDE DEF S
    <3> QED BY <1>0, <2>1, GreatestNumber
  <2> DEFINE k == Max(S)
  <2>3. k \in 0 .. Len(ts) /\ (k > 0 => ~ B(k)) /\ \A x \in S : x <= k
    BY <2>2
  <2> HIDE DEF k
  <2>4. ASSUME NEW j \in k + 1 .. Len(ts) PROVE B(j)
    <3>1. j \in 0 .. Len(ts) /\ j > 0 /\ ~ (j <= k)
      BY <1>0, <2>3
    <3> QED BY <2>3, <3>1
  <2> QED BY <2>3, <2>4
<1> HIDE DEF P
<1>2. stop \in 0 .. Len(ts)
  BY <1>1
<1>3. Insert(ts, t, known, h, l) = SubSeq(ts, 1, stop) \o <<t>> \o SubSeq(ts, stop + 1, Len(ts))
  BY DEF Insert, P
<1> HIDE DEF stop
<1> DEFINE one == SubSeq(ts, 1, stop)
           two == SubSeq(ts, stop + 1, Len(ts))
<1>4. /\ one \in Seq(Tx) /\ ToSet(one) = {ts[i] : i \in 1 .. stop} /\ (Distinct(ts) => Distinct(one))
      /\ two \in Seq(Tx) /\ ToSet(two) = {ts[i] : i \in stop + 1 .. Len(ts)} /\ (Distinct(ts) => Distinct(two))
  <2>1. 1 \in 1 .. Len(ts) + 1 /\ stop \in 1 - 1 .. Len(ts)
    BY <1>0, <1>2
  <2>2. stop + 1 \in 1 .. Len(ts) + 1 /\ Len(ts) \in stop + 1 - 1 .. Len(ts)
    BY <1>0, <1>2
  <2> QED BY <2>1, <2>2, PieceFacts
<1> HIDE DEF one, two
<1> DEFINE unit == <<t>>
<1>5. unit \in Seq(Tx) /\ ToSet(unit) = {t} /\ Distinct(unit)
  <2>1. unit \in Seq(Tx) /\ Len(unit) = 1 /\ unit[1] = t
    OBVIOUS
  <2>2. DOMAIN unit = 1 .. 1 /\ ToSet(unit) = {unit[i] : i \in 1 .. 1}
    BY <2>1, SeqFacts
  <2>3. 1 .. 1 = {1}
    OBVIOUS
  <2> QED BY <2>1, <2>2, <2>3 DEF Distinct
<1> HIDE DEF unit
<1> DEFINE head == one \o unit
<1>6. /\ head \in Seq(Tx) /\ ToSet(head) = ToSet(one) \cup {t}
      /\ Distinct(one) /\ t \notin ToSet(one) => Distinct(head)
  BY <1>4, <1>5, ConcatFacts
<1> HIDE DEF head
<1>7. /\ head \o two \in Seq(Tx) /\ ToSet(head \o two) = ToSet(one) \cup {t} \cup ToSet(two)
      /\ (Distinct(head) /\ Distinct(two) /\ (ToSet(one) \cup {t}) \cap ToSet(two) = {})
            => Distinct(head \o two)
  <2>1. /\ head \o two \in Seq(Tx) /\ ToSet(head \o two) = ToSet(head) \cup ToSet(two)
        /\ (Distinct(head) /\ Distinct(two) /\ ToSet(head) \cap ToSet(two) = {}) => Distinct(head \o two)
    <3>1. head \in Seq(Tx) /\ two \in Seq(Tx)
      BY <1>4, <1>6
    <3> QED BY ONLY <3>1, ConcatFacts
  <2> QED BY <1>6, <2>1
<1>8. 1 .. Len(ts) = (1 .. stop) \cup (stop + 1 .. Len(ts))
  BY <1>0, <1>2
<1>9. ToSet(ts) = ToSet(one) \cup ToSet(two)
  BY <1>0, <1>4, <1>8
<1>10. ASSUME Distinct(ts) PROVE ToSet(one) \cap ToSet(two) = {}
  <2>1. \A i \in 1 .. stop : \A j \in stop + 1 .. Len(ts) : i \in DOMAIN ts /\ j \in DOMAIN ts /\ i # j
    BY <1>0, <1>2
  <2> QED BY <1>4, <1>10, <2>1 DEF Distinct
<1>11. Insert(ts, t, known, h, l) = head \o two
  BY <1>3 DEF one, two, unit, head
<1> QED BY <1>4, <1>6, <1>7, <1>9, <1>10, <1>11
LEMMA InsertedFacts ==
    ASSUME NEW order \in Seq(Tx), NEW h
    PROVE  /\ Inserted(order, h) \in Seq(Tx) /\ ToSet(Inserted(order, h)) = ToSet(order)
           /\ Distinct(order) => Distinct(Inserted(order, h))
<1> DEFINE n == Len(order)
           none == [c \in Chains |-> 0]
           first(i) == {order[j] : j \in 1 .. i}
<1>0. /\ n \in Nat /\ DOMAIN order = 1 .. n /\ ToSet(order) = first(n)
      /\ \A i \in 1 .. n : order[i] \in Tx
  BY SeqFacts
<1> HIDE DEF n, none
<1>1. PICK acc : /\ acc[0] = <<>>
                 /\ \A i \in 1 .. n : acc[i] = Insert(acc[i - 1], order[i], ToSet(acc[i - 1]) \cup {order[i]}, h, none)
                 /\ acc[n] = Inserted(order, h)
  BY <1>0, InsertedRun DEF none
<1> DEFINE Upto == {i \in Nat : i <= n =>
                      acc[i] \in Seq(Tx) /\ ToSet(acc[i]) = first(i) /\ (Distinct(order) => Distinct(acc[i]))}
<1>2. 0 \in Upto
  <2>1. first(0) = {}
    OBVIOUS
  <2> QED BY <1>1, <2>1, EmptyFacts
<1>3. ASSUME NEW i \in Nat, i \in Upto PROVE i + 1 \in Upto
  <2> SUFFICES ASSUME i + 1 <= n
               PROVE  /\ acc[i + 1] \in Seq(Tx) /\ ToSet(acc[i + 1]) = first(i + 1)
                      /\ Distinct(order) => Distinct(acc[i + 1])
    OBVIOUS
  <2>1. i + 1 \in 1 .. n /\ i + 1 - 1 = i /\ i <= n
    BY <1>0
  <2> DEFINE known == ToSet(acc[i]) \cup {order[i + 1]}
  <2>2. acc[i + 1] = Insert(acc[i], order[i + 1], known, h, none) /\ order[i + 1] \in Tx
    <3> DEFINE k == i + 1
    <3>1. k \in 1 .. n /\ k - 1 = i
      BY <2>1
    <3> HIDE DEF k
    <3>2. acc[k] = Insert(acc[k - 1], order[k], ToSet(acc[k - 1]) \cup {order[k]}, h, none) /\ order[k] \in Tx
      BY <1>0, <1>1, <3>1
    <3>3. acc[k] = Insert(acc[i], order[k], ToSet(acc[i]) \cup {order[k]}, h, none)
      BY <3>1, <3>2
    <3> QED BY <3>2, <3>3 DEF k
  <2>3. acc[i] \in Seq(Tx) /\ ToSet(acc[i]) = first(i) /\ (Distinct(order) => Distinct(acc[i]))
    BY <1>3, <2>1
  <2> HIDE DEF known
  <2>4. /\ acc[i + 1] \in Seq(Tx) /\ ToSet(acc[i + 1]) = ToSet(acc[i]) \cup {order[i + 1]}
        /\ Distinct(acc[i]) /\ order[i + 1] \notin ToSet(acc[i]) => Distinct(acc[i + 1])
    BY <2>2, <2>3, InsertFacts
  <2>5. first(i + 1) = first(i) \cup {order[i + 1]}
    <3>1. 1 .. i + 1 = (1 .. i) \cup {i + 1}
      OBVIOUS
    <3> QED BY <3>1
  <2>6. Distinct(order) => order[i + 1] \notin first(i)
    <3>1. \A j \in 1 .. i : j \in DOMAIN order /\ i + 1 \in DOMAIN order /\ j # i + 1
      BY <1>0, <2>1
    <3> QED BY <3>1 DEF Distinct
  <2> HIDE DEF first
  <2> QED BY <2>3, <2>4, <2>5, <2>6
<1>4. n \in Upto
  <2> HIDE DEF Upto
  <2> QED BY <1>0, <1>2, <1>3, SetInduction
<1> QED BY <1>0, <1>1, <1>4

\* An order the database gives the transactions in has each of them once.
LEMMA OrderFacts ==
    ASSUME NEW S \in SUBSET Tx, NEW order \in SetToSeqs(S)
    PROVE  order \in Seq(Tx) /\ ToSet(order) = S /\ Distinct(order)
<1> DEFINE n == Cardinality(S)
<1>1. IsFiniteSet(S) /\ n \in Nat
  BY TxAssumption, FS_Subset, FS_CardinalityType
<1>2. order \in [1 .. n -> S] /\ \A i, j \in 1 .. n : i # j => order[i] # order[j]
  BY DEF SetToSeqs
<1> HIDE DEF n
<1>3. order \in Seq(S)
  BY <1>1, <1>2, SeqDef
<1>4. order \in Seq(Tx) /\ DOMAIN order = 1 .. n
  BY <1>2, <1>3
<1>5. ToSet(order) = S
  <2>1. order \in Injection(1 .. n, S)
    BY <1>2, Fun_IsInj
  <2>2. Cardinality(1 .. n) = Cardinality(S)
    BY <1>1, FS_Interval DEF n
  <2>3. order \in Surjection(1 .. n, S)
    BY <1>1, <2>1, <2>2, FS_Injection
  <2>4. \A t \in S : \E i \in 1 .. n : order[i] = t
    BY <2>3 DEF Surjection
  <2> QED BY <1>2, <2>4 DEF ToSet
<1> QED BY <1>2, <1>4, <1>5 DEF Distinct
-----------------------------------------------------------------------------
(* BR_WalletUnusedAddrs                                                     *)

LEMMA FiniteBounded ==
    ASSUME NEW S \in SUBSET Nat, IsFiniteSet(S)
    PROVE  \E b \in Nat : \A x \in S : x < b
<1>1. PICK n \in Nat : ExistsBijection(1 .. n, S)
  BY FS_NatBijection
<1>2. PICK f : f \in [1 .. n -> S] /\ \A x \in S : \E i \in 1 .. n : f[i] = x
  BY <1>1 DEF ExistsBijection, Bijection, Surjection
<1> DEFINE Upto == {k \in Nat : k <= n => \E b \in Nat : \A i \in 1 .. k : f[i] < b}
<1>3. 0 \in Upto
  OBVIOUS
<1>4. ASSUME NEW k \in Nat, k \in Upto PROVE k + 1 \in Upto
  <2> SUFFICES ASSUME k + 1 <= n PROVE \E b \in Nat : \A i \in 1 .. k + 1 : f[i] < b
    OBVIOUS
  <2>1. PICK b \in Nat : \A i \in 1 .. k : f[i] < b
    BY <1>4
  <2>2. \A i \in 1 .. k + 1 : f[i] \in Nat /\ (i \in 1 .. k \/ i = k + 1)
    <3> TAKE i \in 1 .. k + 1
    <3>1. i \in 1 .. n /\ (i \in 1 .. k \/ i = k + 1)
      OBVIOUS
    <3>2. f[i] \in S
      BY <1>2, <3>1
    <3> QED BY <3>1, <3>2
  <2> DEFINE d == IF f[k + 1] < b THEN b ELSE f[k + 1] + 1
  <2>3. f[k + 1] \in Nat
    BY <2>2
  <2>4. d \in Nat /\ b <= d /\ f[k + 1] < d
    BY <2>3
  <2> HIDE DEF d
  <2>5. \A i \in 1 .. k + 1 : f[i] < d
    BY <2>1, <2>2, <2>4
  <2> QED BY <2>4, <2>5
<1>5. n \in Upto
  <2> HIDE DEF Upto
  <2> QED BY <1>3, <1>4, SetInduction
<1>6. PICK b \in Nat : \A i \in 1 .. n : f[i] < b
  BY <1>5
<1>7. ASSUME NEW x \in S PROVE x < b
  BY <1>2, <1>6
<1> QED BY <1>7

\* The addresses it leaves behind the last used one are as many as asked for,
\* also of those it came upon only then.
LEMMA GeneratedFacts ==
    ASSUME NEW l \in Nat, NEW c, NEW gap \in Nat, NEW used \in SUBSET Address, IsFiniteSet(used)
    PROVE  /\ Generated(l, c, gap, used) \in Nat
           /\ l <= Generated(l, c, gap, used) /\ gap <= Generated(l, c, gap, used)
           /\ \A k \in Nat : k < Generated(l, c, gap, used) /\ <<c, k>> \in used
                 => k + gap < Generated(l, c, gap, used)
           /\ gap <= l /\ (\A k \in Nat : k < l /\ <<c, k>> \in used => k + gap < l)
                 => Generated(l, c, gap, used) = l
<1> DEFINE unused(n) == Max({0} \cup {j + 1 : j \in {k \in 0 .. n - 1 : <<c, k>> \in used}})
           G(g) == [n \in Nat |-> IF unused(n) + gap > n THEN g[n + 1] ELSE n]
           grow == CHOOSE g : g = G(g)
<1>1. PICK b \in Nat : \A k \in Nat : <<c, k>> \in used => k < b
  <2> DEFINE ks == {a[2] : a \in used}
  <2>1. ks \in SUBSET Nat
    BY DEF Address
  <2>2. IsFiniteSet(ks)
    <3> DEFINE f == [a \in used |-> a[2]]
    <3>1. f \in Surjection(used, ks)
      BY Fun_IsSurj
    <3> QED BY <3>1, FS_Surjection
  <2>3. PICK b \in Nat : \A x \in ks : x < b
    BY <2>1, <2>2, FiniteBounded
  <2>4. ASSUME NEW k \in Nat, <<c, k>> \in used PROVE k < b
    <3>1. <<c, k>>[2] \in ks
      BY <2>4
    <3> QED BY <2>3, <3>1
  <2> QED BY <2>4
<1>2. ASSUME NEW n \in Nat
      PROVE  /\ unused(n) \in Nat /\ unused(n) <= b
             /\ \A k \in 0 .. n - 1 : <<c, k>> \in used => k + 1 <= unused(n)
             /\ unused(n) = 0 \/ \E k \in 0 .. n - 1 : <<c, k>> \in used /\ unused(n) = k + 1
  <2> DEFINE S == {0} \cup {j + 1 : j \in {k \in 0 .. n - 1 : <<c, k>> \in used}}
  <2> DEFINE K == {k \in 0 .. n - 1 : <<c, k>> \in used}
  <2>0. \A k \in K : k \in Nat /\ k < b /\ <<c, k>> \in used
    BY <1>1
  <2>1. \A x \in S : x \in Nat /\ x <= b
    <3> TAKE x \in S
    <3>1. x = 0 \/ \E j \in K : x = j + 1
      OBVIOUS
    <3> HIDE DEF K, S
    <3>2. CASE x = 0
      BY <3>2
    <3>3. CASE \E j \in K : x = j + 1
      <4>1. PICK j \in K : x = j + 1
        BY <3>3
      <4>2. j \in Nat /\ j < b
        BY <2>0
      <4> QED BY <4>1, <4>2
    <3> QED BY <3>1, <3>2, <3>3
  <2>2. S # {} /\ S \in SUBSET Nat
    <3>1. 0 \in S
      OBVIOUS
    <3> HIDE DEF S
    <3> QED BY <2>1, <3>1
  <2>3. \A k \in 0 .. n - 1 : <<c, k>> \in used => k + 1 \in S
    OBVIOUS
  <2>4. \A x \in S : x = 0 \/ \E k \in 0 .. n - 1 : <<c, k>> \in used /\ x = k + 1
    OBVIOUS
  <2> HIDE DEF S, K
  <2>5. Max(S) \in S /\ \A x \in S : x <= Max(S)
    BY <2>1, <2>2, GreatestNumber
  <2>6. /\ Max(S) \in Nat /\ Max(S) <= b /\ \A k \in 0 .. n - 1 : <<c, k>> \in used => k + 1 <= Max(S)
        /\ Max(S) = 0 \/ \E k \in 0 .. n - 1 : <<c, k>> \in used /\ Max(S) = k + 1
    BY <2>1, <2>2, <2>3, <2>4, <2>5
  <2> QED BY <2>6 DEF S, K
<1> HIDE DEF unused
<1> DEFINE Stops(n) == unused(n) + gap <= n
           Stop(n) == {m \in Nat : n <= m /\ Stops(m)}
           least == [n \in Nat |-> CHOOSE m \in Stop(n) : \A k \in Stop(n) : m <= k]
<1>3. ASSUME NEW n \in Nat
      PROVE  least[n] \in Stop(n) /\ \A k \in Stop(n) : least[n] <= k
  <2> DEFINE m == n + b + gap
  <2>1. m \in Nat
    OBVIOUS
  <2>2. unused(m) \in Nat /\ unused(m) <= b
    BY <1>2, <2>1
  <2>3. m \in Stop(n)
    BY <2>1, <2>2
  <2>4. Stop(n) \in SUBSET Nat /\ Stop(n) # {}
    BY <2>3
  <2> HIDE DEF Stop
  <2>5. \E x \in Stop(n) : \A k \in Stop(n) : x <= k
    BY <2>4, LeastNumber
  <2> QED BY <2>5
<1> HIDE DEF least
<1>4. ASSUME NEW n \in Nat, Stops(n) PROVE least[n] = n
  <2>1. n \in Stop(n)
    BY <1>4
  <2>2. least[n] <= n /\ least[n] \in Nat /\ n <= least[n]
    BY <1>3, <2>1
  <2> QED BY <2>2
<1>5. ASSUME NEW n \in Nat, ~ Stops(n) PROVE least[n] = least[n + 1]
  <2>1. Stop(n) = Stop(n + 1)
    <3>1. \A m \in Nat : n <= m /\ Stops(m) <=> n + 1 <= m /\ Stops(m)
      <4> SUFFICES ASSUME NEW m \in Nat, m = n PROVE ~ Stops(m)
        OBVIOUS
      <4> QED BY <1>5
    <3> QED BY <3>1
  <2>2. least[n] \in Stop(n) /\ least[n + 1] \in Stop(n) /\ least[n] <= least[n + 1] /\ least[n + 1] <= least[n]
    BY <1>3, <2>1
  <2> QED BY <2>2
<1>6. \A n \in Nat : (unused(n) + gap > n) <=> ~ Stops(n)
  BY <1>2
<1> HIDE DEF Stops
<1>7. \E g : g = G(g)
  <2> DEFINE g == [n \in Nat |-> least[n]]
  <2>1. ASSUME NEW n \in Nat PROVE g[n] = IF unused(n) + gap > n THEN g[n + 1] ELSE n
    BY <1>4, <1>5, <1>6
  <2>2. g = G(g)
    <3> HIDE DEF g
    <3> SUFFICES g = [n \in Nat |-> g[n]]
      BY <2>1
    <3> QED BY DEF g
  <2> QED BY <2>2
<1>8. grow = G(grow)
  BY <1>7
<1>9. Generated(l, c, gap, used) = grow[l]
  BY DEF Generated, unused
<1> HIDE DEF grow
<1>10. \A n \in Nat : grow[n] = IF ~ Stops(n) THEN grow[n + 1] ELSE n
  BY <1>6, <1>8
<1> DEFINE Upto == {k \in Nat : \A n \in Nat : least[n] = n + k => grow[n] = least[n]}
<1>11. 0 \in Upto
  <2> SUFFICES ASSUME NEW n \in Nat, least[n] = n PROVE grow[n] = n
    OBVIOUS
  <2>1. Stops(n)
    BY <1>3
  <2> QED BY <1>10, <2>1
<1>12. ASSUME NEW k \in Nat, k \in Upto PROVE k + 1 \in Upto
  <2> SUFFICES ASSUME NEW n \in Nat, least[n] = n + (k + 1) PROVE grow[n] = least[n]
    OBVIOUS
  <2>1. ~ Stops(n)
    BY <1>4
  <2>2. least[n + 1] = least[n] /\ least[n + 1] = n + 1 + k /\ n + 1 \in Nat
    BY <1>5, <2>1
  <2>3. grow[n + 1] = least[n + 1]
    BY <1>12, <2>2
  <2> QED BY <1>10, <2>1, <2>2, <2>3
<1>13. least[l] \in Nat /\ l <= least[l] /\ Stops(least[l])
  BY <1>3
<1>14. grow[l] = least[l]
  <2>1. least[l] - l \in Nat /\ least[l] = l + (least[l] - l)
    BY <1>13
  <2>2. least[l] - l \in Upto
    <3> HIDE DEF Upto
    <3> QED BY <1>11, <1>12, <2>1, SetInduction
  <2> QED BY <2>1, <2>2
<1>15. ASSUME NEW k \in Nat, k < least[l], <<c, k>> \in used PROVE k + gap < least[l]
  <2>1. k \in 0 .. least[l] - 1
    BY <1>13, <1>15
  <2>2. k + 1 <= unused(least[l]) /\ unused(least[l]) \in Nat /\ unused(least[l]) + gap <= least[l]
    BY <1>2, <1>13, <1>15, <2>1 DEF Stops
  <2> QED BY <1>13, <2>2
<1>16. gap <= least[l]
  BY <1>2, <1>13 DEF Stops
<1>17. ASSUME gap <= l, \A k \in Nat : k < l /\ <<c, k>> \in used => k + gap < l PROVE least[l] = l
  <2>1. \A k \in 0 .. l - 1 : k \in Nat /\ k < l
    OBVIOUS
  <2>2. unused(l) = 0 \/ \E k \in 0 .. l - 1 : <<c, k>> \in used /\ unused(l) = k + 1
    BY <1>2
  <2>3. CASE unused(l) = 0
    BY <1>4, <1>17, <2>3 DEF Stops
  <2>4. CASE \E k \in 0 .. l - 1 : <<c, k>> \in used /\ unused(l) = k + 1
    <3>1. PICK k \in 0 .. l - 1 : <<c, k>> \in used /\ unused(l) = k + 1
      BY <2>4
    <3>2. k + gap < l
      BY <1>17, <2>1, <3>1
    <3> QED BY <1>4, <3>1, <3>2 DEF Stops
  <2> QED BY <2>2, <2>3, <2>4
<1> QED BY <1>9, <1>13, <1>14, <1>15, <1>16, <1>17
-----------------------------------------------------------------------------
(* The inductive invariant, for any transactions and restarts               *)

Types ==
    /\ list \in Seq(Tx) /\ all \subseteq Tx
    /\ height \in [Tx -> 1 .. MaxHeight \cup {Unconfirmed}]
    /\ len \in [Chains -> Nat]
    /\ chain \in Seq(SUBSET Tx) /\ Len(chain) <= MaxHeight
    /\ tip \in 0 .. MaxHeight \cup {Unconfirmed}
    /\ filling \subseteq Chains /\ removing \in Seq(Tx) /\ reloads \in 0 .. MaxReloads
    /\ ordered \in BOOLEAN

\* What _BR_WalletUpdateBalance left behind is still about the transactions of
\* the list.
SumOK ==
    /\ Worked(sum, Listed, Len(list), sum.len, sum.tip)
    /\ Distinct(list) => Cleared(sum, Listed, sum.len)

\* The transactions of the first blocks; those of a block have its height, and
\* wherever the chain is cut off they spend only what is in it.
Blocks(k) == UNION {chain[i] : i \in 1 .. k}
ChainOK ==
    /\ \A i \in 1 .. Len(chain) : \A t \in chain[i] : height[t] = i
    /\ \A k \in 0 .. Len(chain) : Consistent(Blocks(k))

\* Only unconfirmed transactions are being removed, and none while addresses
\* are generated.
RemovingOK ==
    /\ \A i \in 1 .. Len(removing) : height[removing[i]] = Unconfirmed
    /\ filling = {} \/ removing = <<>>

\* No address of the last GapLimit ones of chain c has been used.
GapOpen(c) == GapLimit[c] <= len[c] /\ \A k \in Nat : k < len[c] /\ <<c, k>> \in sum.used => k + GapLimit[c] < len[c]

\* The internal chain is filled last, the external one until then stays filled.
FillingOK ==
    /\ filling # {} => "int" \in filling
    /\ filling # {} /\ "ext" \notin filling => GapOpen("ext")

OrderOK == ordered => Sorted(list, height)

Inv == Types /\ SumOK /\ ChainOK /\ RemovingOK /\ FillingOK /\ OrderOK /\ HeightIsMinedInOrder

LEMMA HeightFacts ==
    ASSUME Types
    PROVE  /\ \A t \in Tx : height[t] \in Nat /\ height[t] <= Unconfirmed
           /\ \A t \in Tx : height[t] # Unconfirmed => height[t] <= MaxHeight
           /\ MaxHeight \in Nat /\ Unconfirmed \in Nat /\ MaxHeight < Unconfirmed
BY LimitsAssumption DEF Types

LEMMA ListFacts ==
    ASSUME Types
    PROVE  /\ Len(list) \in Nat /\ DOMAIN list = 1 .. Len(list) /\ Listed = {list[i] : i \in 1 .. Len(list)}
           /\ \A i \in 1 .. Len(list) : list[i] \in Tx /\ list[i] \in Listed
           /\ Listed \subseteq Tx /\ IsFiniteSet(Listed)
<1>1. list \in Seq(Tx)
  BY DEF Types
<1>2. /\ Len(list) \in Nat /\ DOMAIN list = 1 .. Len(list) /\ Listed = {list[i] : i \in 1 .. Len(list)}
      /\ \A i \in 1 .. Len(list) : list[i] \in Tx
  BY <1>1, SeqFacts DEF Listed
<1>3. Listed \subseteq Tx
  BY <1>2
<1>4. IsFiniteSet(Listed)
  BY <1>3, TxAssumption, FS_Subset
<1> QED BY <1>2, <1>3, <1>4

LEMMA MinedFacts ==
    ASSUME Types
    PROVE  /\ Len(chain) \in Nat /\ DOMAIN chain = 1 .. Len(chain)
           /\ \A i \in 1 .. Len(chain) : chain[i] \subseteq Tx
           /\ Mined = Blocks(Len(chain)) /\ Mined \subseteq Tx
           /\ \A t : t \in Mined <=> \E i \in 1 .. Len(chain) : t \in chain[i]
<1>1. chain \in Seq(SUBSET Tx)
  BY DEF Types
<1>2. /\ Len(chain) \in Nat /\ DOMAIN chain = 1 .. Len(chain)
      /\ \A i \in 1 .. Len(chain) : chain[i] \in SUBSET Tx
      /\ ToSet(chain) = {chain[i] : i \in 1 .. Len(chain)}
  BY <1>1, SeqFacts
<1> QED BY <1>2 DEF Mined, Blocks

\* Once the balance has been worked out anew it is about the new list.
LEMMA NewSum ==
    ASSUME list' \in Seq(Tx), NEW h, NEW l, NEW top, sum' = UpdateBalance(list', h, l, top)
    PROVE  SumOK'
<1>1. Worked(sum', ToSet(list'), Len(list'), l, top) /\ (Distinct(list') => Cleared(sum', ToSet(list'), l))
  BY UpdateWorks
<1>2. sum'.len = l /\ sum'.tip = top
  BY <1>1 DEF Worked
<1> QED BY <1>1, <1>2 DEF SumOK, Listed

LEMMA SameSum ==
    ASSUME SumOK, list' = list, sum' = sum
    PROVE  SumOK'
BY DEF SumOK, Listed

LEMMA Start ==
    ASSUME Init
    PROVE  Inv
<1> USE DEF Init
<1>1. Types
  <2>1. GapLimit \in [Chains -> Nat] /\ Unconfirmed \in Nat /\ MaxHeight \in Nat /\ MaxReloads \in Nat
    BY LimitsAssumption
  <2> QED BY <2>1, EmptyFacts DEF Types
<1>2. SumOK
  <2>1. Worked(Empty, {}, 0, Empty.len, Empty.tip) /\ Cleared(Empty, {}, Empty.len)
    BY EmptyFacts, TotalOfNone, FS_EmptySet DEF Worked, Cleared, Empty
  <2>2. Listed = {} /\ Len(list) = 0
    BY EmptyFacts DEF Listed
  <2> QED BY <2>1, <2>2 DEF SumOK
<1>3. ChainOK
  <2>1. Len(chain) = 0 /\ Blocks(0) = {} /\ 0 .. 0 = {0} /\ 1 .. 0 = {}
    BY EmptyFacts DEF Blocks
  <2> QED BY <2>1 DEF ChainOK, Consistent
<1>4. RemovingOK /\ FillingOK
  BY DEF RemovingOK, FillingOK
<1>5. OrderOK /\ HeightIsMinedInOrder
  BY EmptyFacts DEF OrderOK, Sorted, HeightIsMinedInOrder, HeightIsMined, Listed
<1> QED BY <1>1, <1>2, <1>3, <1>4, <1>5 DEF Inv
-----------------------------------------------------------------------------
(* Each action preserves it                                                 *)

LEMMA KeptOrder ==
    ASSUME KeepOrdered
    PROVE  ordered' \in BOOLEAN /\ (ordered' => ordered) /\ OrderOK'
BY DEF KeepOrdered, OrderOK

LEMMA KeptChain ==
    ASSUME ChainOK, height' = height, chain' = chain
    PROVE  ChainOK'
BY DEF ChainOK, Blocks, Consistent

LEMMA KeptHeights ==
    ASSUME HeightIsMinedInOrder, height' = height, chain' = chain,
           ToSet(list') \subseteq Listed, ordered' => ordered
    PROVE  HeightIsMinedInOrder'
<1> SUFFICES ASSUME ordered' PROVE HeightIsMined'
  BY DEF HeightIsMinedInOrder
<1>1. HeightIsMined
  BY DEF HeightIsMinedInOrder
<1>2. Mined' = Mined
  BY DEF Mined
<1> SUFFICES ASSUME NEW t \in ToSet(list')
             PROVE  IF height'[t] = Unconfirmed THEN t \notin Mined'
                    ELSE height'[t] \in DOMAIN chain' /\ t \in chain'[height'[t]]
  BY DEF HeightIsMined, Listed
<1> QED BY <1>1, <1>2 DEF HeightIsMined

\* What goes on while nothing of the list, its heights and the chain changes.
LEMMA KeptLists ==
    ASSUME Inv, UNCHANGED <<txs, chain, tip, sum, reloads>>, Types'
    PROVE  SumOK' /\ ChainOK' /\ OrderOK' /\ HeightIsMinedInOrder'
<1>1. list' = list /\ all' = all /\ height' = height /\ ordered' = ordered /\ chain' = chain /\ sum' = sum
  BY DEF txs
<1>2. ToSet(list') \subseteq Listed
  BY <1>1 DEF Listed
<1> QED BY <1>1, <1>2, SameSum, KeptChain, KeptHeights DEF Inv, OrderOK, Sorted

LEMMA NoneRemoved ==
    ASSUME Inv, Free, removing' = removing
    PROVE  removing' = <<>> /\ RemovingOK'
<1>1. removing' = <<>> /\ Len(removing') = 0
  BY DEF Free
<1> QED BY <1>1 DEF RemovingOK

LEMMA RegisterKeeps ==
    ASSUME Inv, NEW t \in Tx, Register(t)
    PROVE  Inv'
<1>1. /\ Types /\ SumOK /\ ChainOK /\ FillingOK /\ HeightIsMinedInOrder
      /\ Free /\ t \notin Mined /\ filling = {}
      /\ all' = all \cup {t} /\ height' = [height EXCEPT ![t] = Unconfirmed]
      /\ len' = len /\ chain' = chain /\ tip' = tip /\ removing' = removing /\ reloads' = reloads
  BY DEF Inv, Register, Free
<1>2. \/ /\ list' = Insert(list, t, all', height', len)
         /\ sum' = UpdateBalance(list', height', len, tip)
         /\ filling' = Chains
      \/ list' = list /\ sum' = sum /\ filling' = filling
  BY DEF Register
<1>3. ordered' \in BOOLEAN /\ (ordered' => ordered) /\ OrderOK'
  BY KeptOrder DEF Register
<1>4. list' \in Seq(Tx) /\ ToSet(list') \subseteq Listed \cup {t}
  <2>1. list \in Seq(Tx)
    BY <1>1 DEF Types
  <2>2. CASE list' = Insert(list, t, all', height', len)
    <3> DEFINE k == all'
               h == height'
    <3>1. list' = Insert(list, t, k, h, len)
      BY <2>2
    <3> HIDE DEF k, h
    <3> QED BY <2>1, <3>1, InsertFacts DEF Listed
  <2> QED BY <1>2, <2>1, <2>2 DEF Listed
<1>5. Types'
  <2>1. height' \in [Tx -> 1 .. MaxHeight \cup {Unconfirmed}]
    BY <1>1 DEF Types
  <2> QED BY <1>1, <1>2, <1>3, <1>4, <2>1 DEF Types
<1>6. SumOK'
  <2>1. CASE sum' = UpdateBalance(list', height', len, tip)
    BY <1>4, <2>1, NewSum
  <2> QED BY <1>1, <1>2, <2>1, SameSum
<1>7. \A i \in 1 .. Len(chain) : \A s \in chain[i] : s \in Tx /\ s # t
  BY <1>1, MinedFacts
<1>8. ChainOK'
  <2>1. \A i \in 1 .. Len(chain) : \A s \in chain[i] : height'[s] = i
    BY <1>1, <1>7 DEF ChainOK, Types
  <2> QED BY <1>1, <2>1 DEF ChainOK, Blocks, Consistent
<1>9. RemovingOK'
  BY <1>1, NoneRemoved
<1>10. FillingOK'
  BY <1>1, <1>2 DEF FillingOK, Chains
<1>11. HeightIsMinedInOrder'
  <2> SUFFICES ASSUME ordered', NEW s \in ToSet(list')
               PROVE  IF height'[s] = Unconfirmed THEN s \notin Mined'
                      ELSE height'[s] \in DOMAIN chain' /\ s \in chain'[height'[s]]
    BY DEF HeightIsMinedInOrder, HeightIsMined, Listed
  <2>1. HeightIsMined /\ Mined' = Mined
    BY <1>1, <1>3 DEF HeightIsMinedInOrder, Mined
  <2>2. s \in Tx
    BY <1>1, <1>4, ListFacts
  <2>3. CASE s = t
    BY <1>1, <2>1, <2>3 DEF Types
  <2>4. CASE s # t
    BY <1>1, <1>4, <2>1, <2>2, <2>4 DEF Types, HeightIsMined
  <2> QED BY <2>3, <2>4
<1> QED BY <1>3, <1>5, <1>6, <1>8, <1>9, <1>10, <1>11 DEF Inv
\* What BR_WalletUnusedAddrs does to the number of addresses.
LEMMA UnusedFacts ==
    ASSUME Types, SumOK, NEW c \in Chains, NEW gap \in Nat, UnusedAddrs(c, gap)
    PROVE  /\ len' \in [Chains -> Nat] /\ \A d \in Chains : d # c => len'[d] = len[d]
           /\ len[c] <= len'[c] /\ gap <= len'[c]
           /\ \A k \in Nat : k < len'[c] /\ <<c, k>> \in sum.used => k + gap < len'[c]
           /\ gap <= len[c] /\ (\A k \in Nat : k < len[c] /\ <<c, k>> \in sum.used => k + gap < len[c])
                 => len'[c] = len[c]
<1>1. len \in [Chains -> Nat] /\ len' = [len EXCEPT ![c] = Generated(len[c], c, gap, sum.used)]
  BY DEF Types, UnusedAddrs
<1>2. sum.used \in SUBSET Address /\ IsFiniteSet(sum.used) /\ len[c] \in Nat
  BY <1>1 DEF SumOK, Worked
<1> DEFINE m == Generated(len[c], c, gap, sum.used)
           used == sum.used
           l == len[c]
<1>3. /\ m \in Nat /\ l <= m /\ gap <= m
      /\ \A k \in Nat : k < m /\ <<c, k>> \in used => k + gap < m
      /\ gap <= l /\ (\A k \in Nat : k < l /\ <<c, k>> \in used => k + gap < l) => m = l
  <2> HIDE DEF used, l
  <2> QED BY <1>2, GeneratedFacts DEF used, l
<1>4. len'[c] = m /\ \A d \in Chains : d # c => len'[d] = len[d]
  BY <1>1
<1>5. len' \in [Chains -> Nat]
  BY <1>1, <1>3
<1> HIDE DEF m
<1> QED BY <1>3, <1>4, <1>5

\* A gap that is as long as it need be stays so, whatever is asked for.
LEMMA GapStays ==
    ASSUME Types, SumOK, NEW c \in Chains, NEW gap \in Nat, UnusedAddrs(c, gap),
           GapOpen("ext"), gap <= GapLimit[c] \/ GapLimit[c] <= gap, sum' = sum
    PROVE  GapOpen("ext")'
<1>0. "ext" \in Chains /\ GapLimit["ext"] \in Nat /\ len["ext"] \in Nat /\ len' \in [Chains -> Nat]
  BY LimitsAssumption, UnusedFacts DEF Types, Chains
<1>1. CASE c # "ext"
  <2>1. len'["ext"] = len["ext"]
    BY <1>0, <1>1, UnusedFacts
  <2> QED BY <2>1 DEF GapOpen
<1>2. CASE c = "ext" /\ gap <= GapLimit[c]
  <2>1. gap <= len[c] /\ \A k \in Nat : k < len[c] /\ <<c, k>> \in sum.used => k + gap < len[c]
    BY <1>0, <1>2 DEF GapOpen
  <2>2. len'["ext"] = len["ext"]
    BY <1>2, <2>1, UnusedFacts
  <2> QED BY <2>2 DEF GapOpen
<1>3. CASE c = "ext" /\ GapLimit[c] <= gap
  <2>1. /\ gap <= len'["ext"]
        /\ \A k \in Nat : k < len'["ext"] /\ <<"ext", k>> \in sum.used => k + gap < len'["ext"]
    BY <1>3, UnusedFacts
  <2>2. len'["ext"] \in Nat
    BY <1>0
  <2>3. /\ GapLimit["ext"] <= len'["ext"]
        /\ \A k \in Nat : k < len'["ext"] /\ <<"ext", k>> \in sum'.used => k + GapLimit["ext"] < len'["ext"]
    BY <1>0, <1>3, <2>1, <2>2
  <2> QED BY <2>3 DEF GapOpen
<1> QED BY <1>1, <1>2, <1>3

\* Once BR_WalletUnusedAddrs has been called with the limit the gap is open.
LEMMA GapOpens ==
    ASSUME Types, SumOK, NEW c \in Chains, UnusedAddrs(c, GapLimit[c]), sum' = sum
    PROVE  GapOpen(c)'
<1>1. GapLimit[c] \in Nat
  BY LimitsAssumption
<1>2. /\ GapLimit[c] <= len'[c]
      /\ \A k \in Nat : k < len'[c] /\ <<c, k>> \in sum.used => k + GapLimit[c] < len'[c]
  BY <1>1, UnusedFacts
<1> QED BY <1>2 DEF GapOpen

LEMMA FillGapKeeps ==
    ASSUME Inv, NEW c \in Chains, FillGap(c)
    PROVE  Inv'
<1>1. /\ Types /\ SumOK /\ RemovingOK /\ FillingOK
      /\ c \in filling /\ (c = "int" => "ext" \notin filling)
      /\ UnusedAddrs(c, GapLimit[c]) /\ filling' = filling \ {c}
      /\ UNCHANGED <<txs, chain, tip, sum, removing, reloads>>
      /\ list' = list /\ all' = all /\ height' = height /\ ordered' = ordered
  BY DEF Inv, FillGap, txs
<1>2. len' \in [Chains -> Nat]
  BY <1>1, LimitsAssumption, UnusedFacts
<1>3. Types'
  BY <1>1, <1>2 DEF Types
<1>4. SumOK' /\ ChainOK' /\ OrderOK' /\ HeightIsMinedInOrder'
  BY <1>1, <1>3, KeptLists
<1>5. RemovingOK'
  BY <1>1 DEF RemovingOK
<1>6. FillingOK'
  <2>1. CASE c = "int"
    <3>1. filling' = {}
      BY <1>1, <2>1 DEF Types, Chains
    <3> QED BY <3>1 DEF FillingOK
  <2>2. CASE c = "ext"
    <3>1. GapOpen("ext")' /\ "int" \in filling'
      BY <1>1, <2>2, GapOpens DEF FillingOK
    <3> QED BY <3>1 DEF FillingOK
  <2> QED BY <2>1, <2>2 DEF Chains
<1> QED BY <1>3, <1>4, <1>5, <1>6 DEF Inv

LEMMA AskAddressesKeeps ==
    ASSUME Inv, NEW c \in Chains, NEW gap \in {1, GapLimit[c] + ExtraGap}, AskAddresses(c, gap)
    PROVE  Inv'
<1>0. GapLimit[c] \in Nat \ {0} /\ ExtraGap \in Nat
  BY LimitsAssumption
<1>g. gap \in Nat /\ (gap <= GapLimit[c] \/ GapLimit[c] <= gap)
  BY <1>0
<1>1. /\ Types /\ SumOK /\ RemovingOK /\ FillingOK
      /\ UnusedAddrs(c, gap) /\ filling' = filling /\ sum' = sum
      /\ UNCHANGED <<txs, chain, tip, sum, removing, reloads>>
      /\ list' = list /\ all' = all /\ height' = height /\ ordered' = ordered
  BY DEF Inv, AskAddresses, txs
<1>2. len' \in [Chains -> Nat]
  BY <1>1, <1>g, UnusedFacts
<1>3. Types'
  BY <1>1, <1>2 DEF Types
<1>4. SumOK' /\ ChainOK' /\ OrderOK' /\ HeightIsMinedInOrder'
  BY <1>1, <1>3, KeptLists
<1>5. RemovingOK'
  BY <1>1 DEF RemovingOK
<1>6. FillingOK'
  <2>1. GapOpen("ext") => GapOpen("ext")'
    BY <1>1, <1>g, GapStays
  <2> QED BY <1>1, <2>1 DEF FillingOK
<1> QED BY <1>3, <1>4, <1>5, <1>6 DEF Inv
\* BR_WalletUpdateTransactions leaves the list alone.
LEMMA UpdateFacts ==
    ASSUME Types, SumOK, NEW ts \in SUBSET Tx, NEW h \in 1 .. MaxHeight \cup {Unconfirmed},
           UpdateTransactions(ts, h)
    PROVE  /\ list' = list /\ all' \subseteq all /\ len' = len /\ filling' = filling
           /\ removing' = removing /\ reloads' = reloads
           /\ \A t \in Tx : height'[t] = IF t \in ts \cap all THEN h ELSE height[t]
           /\ height' \in [Tx -> 1 .. MaxHeight \cup {Unconfirmed}]
           /\ tip' \in 0 .. MaxHeight \cup {Unconfirmed}
           /\ SumOK' /\ ordered' \in BOOLEAN /\ (ordered' => ordered) /\ OrderOK'
<1> DEFINE changing == ts \cap all
<1>1. /\ tip' = (IF h > tip THEN h ELSE tip)
      /\ height' = [t \in Tx |-> IF t \in changing THEN h ELSE height[t]]
      /\ list' = list /\ KeepOrdered /\ len' = len /\ filling' = filling
      /\ removing' = removing /\ reloads' = reloads
  BY DEF UpdateTransactions
<1>2. all' \subseteq all
  BY DEF UpdateTransactions
<1>3. sum' = sum \/ \E l, top : sum' = UpdateBalance(list, height', l, top)
  BY DEF UpdateTransactions
<1>4. \A t \in Tx : height'[t] = IF t \in ts \cap all THEN h ELSE height[t]
  BY <1>1
<1>5. height' \in [Tx -> 1 .. MaxHeight \cup {Unconfirmed}]
  BY <1>1 DEF Types
<1>6. tip' \in 0 .. MaxHeight \cup {Unconfirmed}
  <2>1. h \in 0 .. MaxHeight \cup {Unconfirmed}
    BY LimitsAssumption
  <2> QED BY <1>1, <2>1 DEF Types
<1>7. SumOK'
  <2>1. CASE sum' = sum
    BY <1>1, <2>1, SameSum
  <2>2. CASE \E l, top : sum' = UpdateBalance(list, height', l, top)
    <3>1. PICK l, top : sum' = UpdateBalance(list, height', l, top)
      BY <2>2
    <3> DEFINE g == height'
    <3>2. sum' = UpdateBalance(list', g, l, top) /\ list' \in Seq(Tx)
      BY <1>1, <3>1 DEF Types
    <3> HIDE DEF g
    <3> QED BY <3>2, NewSum
  <2> QED BY <1>3, <2>1, <2>2
<1>8. ordered' \in BOOLEAN /\ (ordered' => ordered) /\ OrderOK'
  BY <1>1, KeptOrder
<1> QED BY <1>1, <1>2, <1>4, <1>5, <1>6, <1>7, <1>8

LEMMA ConfirmKeeps ==
    ASSUME Inv, Confirm
    PROVE  Inv'
<1>0. Types /\ SumOK /\ ChainOK /\ RemovingOK /\ FillingOK /\ HeightIsMinedInOrder /\ Free
  BY DEF Inv, Confirm
<1>1. PICK ts \in SUBSET (all \ Mined) :
         /\ Consistent(ts \cup Mined)
         /\ chain' = Append(chain, ts)
         /\ UpdateTransactions(ts, Len(chain'))
  BY DEF Confirm
<1> DEFINE n == Len(chain)
           B(k) == UNION {chain[i] : i \in 1 .. k}
           C(k) == UNION {chain'[i] : i \in 1 .. k}
<1>2. /\ n \in Nat /\ DOMAIN chain = 1 .. n /\ chain \in Seq(SUBSET Tx) /\ n < MaxHeight
      /\ Mined = B(n) /\ (\A t : t \in Mined <=> \E i \in 1 .. n : t \in chain[i])
      /\ ts \in SUBSET Tx /\ ts \cap Mined = {} /\ ts \cap all = ts
  BY <1>0, <1>1, MinedFacts DEF Types, Confirm, Blocks
<1>3. chain' \in Seq(SUBSET Tx) /\ Len(chain') = n + 1 /\ DOMAIN chain' = 1 .. n + 1
  <2>1. ts \in SUBSET Tx
    BY <1>2
  <2>2. chain' \in Seq(SUBSET Tx) /\ Len(chain') = n + 1
    BY <1>1, <1>2, <2>1, AppendFacts
  <2> QED BY <2>2, SeqFacts
<1>4. (\A i \in 1 .. n : chain'[i] = chain[i]) /\ chain'[n + 1] = ts
  BY <1>1, <1>2, AppendProperties
<1>5. n + 1 \in 1 .. MaxHeight /\ n + 1 # Unconfirmed
  BY <1>2, LimitsAssumption
<1>6. /\ list' = list /\ all' \subseteq all /\ len' = len /\ filling' = filling
      /\ removing' = removing /\ reloads' = reloads
      /\ \A t \in Tx : height'[t] = IF t \in ts THEN n + 1 ELSE height[t]
      /\ height' \in [Tx -> 1 .. MaxHeight \cup {Unconfirmed}]
      /\ tip' \in 0 .. MaxHeight \cup {Unconfirmed}
      /\ SumOK' /\ ordered' \in BOOLEAN /\ (ordered' => ordered) /\ OrderOK'
  <2>1. UpdateTransactions(ts, n + 1) /\ n + 1 \in 1 .. MaxHeight \cup {Unconfirmed} /\ ts \in SUBSET Tx
    BY <1>1, <1>2, <1>3, <1>5
  <2> DEFINE h == n + 1
  <2> HIDE DEF h, n
  <2> QED BY <1>0, <1>2, <2>1, UpdateFacts
<1> HIDE DEF n
<1>7. Types'
  <2>1. n + 1 <= MaxHeight /\ all' \subseteq Tx
    BY <1>0, <1>5, <1>6 DEF Types
  <2> QED BY <1>0, <1>3, <1>6, <2>1 DEF Types
<1>8. C(n + 1) = Mined \cup ts /\ \A k \in 0 .. n : C(k) = B(k)
  <2>1. 1 .. n + 1 = (1 .. n) \cup {n + 1}
    BY <1>2
  <2>2. \A k \in 0 .. n : \A i \in 1 .. k : i \in 1 .. n
    BY <1>2
  <2>3. \A k \in 0 .. n : C(k) = B(k)
    BY <1>4, <2>2
  <2>4. C(n + 1) = C(n) \cup ts
    BY <1>4, <2>1
  <2>5. C(n) = B(n)
    <3>1. n \in 0 .. n
      BY <1>2
    <3> HIDE DEF B, C
    <3> QED BY <2>3, <3>1
  <2> QED BY <1>2, <2>3, <2>4, <2>5
<1>9. ChainOK'
  <2>1. \A i \in 1 .. n + 1 : \A t \in chain'[i] : height'[t] = i
    <3> SUFFICES ASSUME NEW i \in 1 .. n + 1, NEW t \in chain'[i] PROVE height'[t] = i
      OBVIOUS
    <3>1. CASE i = n + 1
      BY <1>2, <1>4, <1>6, <3>1
    <3>2. CASE i \in 1 .. n
      <4>1. t \in chain[i] /\ t \in Mined /\ t \in Tx
        BY <1>0, <1>2, <1>4, <3>2, MinedFacts
      <4>2. height[t] = i
        BY <1>0, <3>2, <4>1 DEF ChainOK, n
      <4> QED BY <1>2, <1>6, <4>1, <4>2
    <3> QED BY <1>2, <3>1, <3>2
  <2>2. \A k \in 0 .. n + 1 : Consistent(C(k))
    <3> SUFFICES ASSUME NEW k \in 0 .. n + 1 PROVE Consistent(C(k))
      OBVIOUS
    <3> HIDE DEF C
    <3>1. CASE k = n + 1
      <4>1. C(k) = ts \cup Mined
        BY <1>8, <3>1
      <4> QED BY <1>1, <4>1
    <3>2. CASE k \in 0 .. n
      <4>1. Consistent(B(k))
        BY <1>0, <3>2 DEF ChainOK, Blocks, n
      <4>2. C(k) = B(k)
        BY <1>8, <3>2
      <4> QED BY <4>1, <4>2 DEF Consistent
    <3> QED BY <1>2, <3>1, <3>2
  <2> QED BY <1>3, <2>1, <2>2 DEF ChainOK, Blocks, Consistent
<1>10. RemovingOK'
  BY <1>0, <1>6, NoneRemoved
<1>11. FillingOK'
  <2>1. filling' = {}
    BY <1>0, <1>6 DEF Free
  <2> QED BY <2>1 DEF FillingOK
<1>12. HeightIsMinedInOrder'
  <2> SUFFICES ASSUME ordered', NEW t \in ToSet(list')
               PROVE  IF height'[t] = Unconfirmed THEN t \notin Mined'
                      ELSE height'[t] \in DOMAIN chain' /\ t \in chain'[height'[t]]
    BY DEF HeightIsMinedInOrder, HeightIsMined, Listed
  <2>1. HeightIsMined /\ t \in Listed /\ t \in Tx
    BY <1>0, <1>6, ListFacts DEF HeightIsMinedInOrder, Listed
  <2>2. Mined' = Mined \cup ts
    <3>1. ToSet(chain') = {chain'[i] : i \in 1 .. n + 1}
      BY <1>3, SeqFacts
    <3>2. Mined' = C(n + 1)
      BY <3>1 DEF Mined
    <3> QED BY <1>8, <3>2
  <2>3. CASE t \in ts
    BY <1>2, <1>3, <1>4, <1>5, <1>6, <2>1, <2>3
  <2>4. CASE t \notin ts
    <3>1. height'[t] = height[t]
      BY <1>6, <2>1, <2>4
    <3>2. CASE height[t] = Unconfirmed
      BY <2>1, <2>2, <2>4, <3>1, <3>2 DEF HeightIsMined
    <3>3. CASE height[t] # Unconfirmed
      <4>1. height[t] \in 1 .. n /\ t \in chain[height[t]]
        BY <1>2, <2>1, <3>3 DEF HeightIsMined
      <4>2. height[t] \in 1 .. n + 1
        BY <1>2, <4>1
      <4> QED BY <1>3, <1>4, <3>1, <3>3, <4>1, <4>2
    <3> QED BY <3>2, <3>3
  <2> QED BY <2>3, <2>4
<1> QED BY <1>6, <1>7, <1>9, <1>10, <1>11, <1>12 DEF Inv

LEMMA VerifyKeeps ==
    ASSUME Inv, NEW t \in Tx, NEW differs, Verify(t, differs)
    PROVE  Inv'
<1>0. Types /\ SumOK /\ ChainOK /\ RemovingOK /\ FillingOK /\ HeightIsMinedInOrder /\ Free
      /\ height[t] = Unconfirmed /\ chain' = chain
  BY DEF Inv, Verify
<1> DEFINE ts == {s \in {t} : differs}
<1>1. UpdateTransactions(ts, Unconfirmed) /\ ts \in SUBSET Tx /\ \A s \in ts : s = t
  BY DEF Verify
<1> HIDE DEF ts
<1>2. /\ list' = list /\ all' \subseteq all /\ len' = len /\ filling' = filling
      /\ removing' = removing /\ reloads' = reloads
      /\ \A s \in Tx : height'[s] = IF s \in ts \cap all THEN Unconfirmed ELSE height[s]
      /\ height' \in [Tx -> 1 .. MaxHeight \cup {Unconfirmed}]
      /\ tip' \in 0 .. MaxHeight \cup {Unconfirmed}
      /\ SumOK' /\ ordered' \in BOOLEAN /\ (ordered' => ordered) /\ OrderOK'
  BY <1>0, <1>1, UpdateFacts
<1>3. height' = height
  <2>1. \A s \in Tx : height'[s] = height[s]
    BY <1>0, <1>1, <1>2
  <2> QED BY <1>0, <1>2, <2>1 DEF Types
<1>4. Types'
  BY <1>0, <1>2 DEF Types
<1>5. ChainOK'
  BY <1>0, <1>3, KeptChain
<1>6. RemovingOK'
  BY <1>0, <1>2, NoneRemoved
<1>7. FillingOK'
  <2>1. filling' = {}
    BY <1>0, <1>2 DEF Free
  <2> QED BY <2>1 DEF FillingOK
<1>8. HeightIsMinedInOrder'
  BY <1>0, <1>2, <1>3, KeptHeights DEF Listed
<1> QED BY <1>2, <1>4, <1>5, <1>6, <1>7, <1>8 DEF Inv
LEMMA ReorganizeKeeps ==
    ASSUME Inv, NEW join \in 0 .. MaxHeight - 1, Reorganize(join)
    PROVE  Inv'
<1> DEFINE ts == After(list, height, join)
<1>0. /\ Types /\ SumOK /\ ChainOK /\ RemovingOK /\ FillingOK /\ OrderOK /\ HeightIsMinedInOrder
      /\ Free /\ join < Len(chain) /\ chain' = SubSeq(chain, 1, join) /\ tip' = join
      /\ height' = [t \in Tx |-> IF t \in ts THEN Unconfirmed ELSE height[t]]
      /\ sum' = (IF ts = {} THEN sum ELSE UpdateBalance(list, height', len, tip'))
      /\ list' = list /\ KeepOrdered
      /\ all' = all /\ len' = len /\ filling' = filling /\ removing' = removing /\ reloads' = reloads
  BY DEF Inv, Reorganize
<1>a. ts = {list[i] : i \in {j \in 1 .. Len(list) : \A k \in j .. Len(list) : height[list[k]] > join}}
  BY <1>0, ListFacts DEF After
<1>b. \A t \in ts : t \in Tx /\ height[t] > join
  <2> SUFFICES ASSUME NEW i \in 1 .. Len(list), \A k \in i .. Len(list) : height[list[k]] > join
               PROVE  list[i] \in Tx /\ height[list[i]] > join
    BY <1>a
  <2>1. i \in i .. Len(list)
    BY <1>0, ListFacts
  <2> QED BY <1>0, <2>1, ListFacts
<1>c. ASSUME NEW i \in 1 .. Len(list), list[i] \notin ts
      PROVE  \E k \in i .. Len(list) : ~ (height[list[k]] > join)
  BY <1>a, <1>c
<1> HIDE DEF ts
<1>1. join \in Nat /\ join <= MaxHeight
  BY <1>0, LimitsAssumption
<1>2. /\ Len(chain) \in Nat /\ DOMAIN chain = 1 .. Len(chain) /\ chain \in Seq(SUBSET Tx)
      /\ Mined = Blocks(Len(chain)) /\ (\A t : t \in Mined <=> \E i \in 1 .. Len(chain) : t \in chain[i])
      /\ Len(chain) <= MaxHeight
  BY <1>0, MinedFacts DEF Types
<1>3. /\ chain' \in Seq(SUBSET Tx) /\ Len(chain') = join /\ DOMAIN chain' = 1 .. join
      /\ \A i \in 1 .. join : chain'[i] = chain[i]
  <2>1. 1 \in 1 .. Len(chain) + 1 /\ join \in 1 - 1 .. Len(chain)
    BY <1>0, <1>1, <1>2
  <2>2. /\ chain' \in Seq(SUBSET Tx) /\ Len(chain') = join - 1 + 1
        /\ \A i \in 1 .. join - 1 + 1 : chain'[i] = chain[1 + i - 1]
    BY <1>0, <1>2, <2>1, PieceFacts
  <2>3. join - 1 + 1 = join /\ \A i \in 1 .. join : 1 + i - 1 = i
    BY <1>1
  <2>4. Len(chain') = join /\ \A i \in 1 .. join : chain'[i] = chain[i]
    BY <2>2, <2>3
  <2>5. DOMAIN chain' = 1 .. Len(chain')
    BY <2>2, SeqFacts
  <2> QED BY <2>2, <2>4, <2>5
<1>4. \A i \in 1 .. join : i \in 1 .. Len(chain)
  BY <1>0, <1>1, <1>2
<1>5. Mined' = UNION {chain[i] : i \in 1 .. join}
  <2>1. ToSet(chain') = {chain'[i] : i \in 1 .. join}
    BY <1>3, SeqFacts
  <2>2. ToSet(chain') = {chain[i] : i \in 1 .. join}
    BY <1>3, <2>1
  <2> QED BY <2>2 DEF Mined
<1>6. height' \in [Tx -> 1 .. MaxHeight \cup {Unconfirmed}]
  BY <1>0 DEF Types
<1>7. ordered' \in BOOLEAN /\ (ordered' => ordered) /\ OrderOK'
  BY <1>0, KeptOrder
<1>8. Types'
  <2>1. join \in 0 .. MaxHeight \cup {Unconfirmed}
    BY <1>1, LimitsAssumption
  <2> QED BY <1>0, <1>1, <1>3, <1>6, <1>7, <2>1 DEF Types
<1>9. SumOK'
  <2>1. CASE ts = {}
    BY <1>0, <2>1, SameSum
  <2>2. CASE ts # {}
    <3> DEFINE h == height'
               top == tip'
    <3>1. sum' = UpdateBalance(list', h, len, top) /\ list' \in Seq(Tx)
      BY <1>0, <2>2 DEF Types
    <3> HIDE DEF h, top
    <3> QED BY <3>1, NewSum
  <2> QED BY <2>1, <2>2
<1>10. \A i \in 1 .. join : \A t \in chain[i] : t \in Tx /\ height[t] = i /\ height'[t] = i
  <2> SUFFICES ASSUME NEW i \in 1 .. join, NEW t \in chain[i]
               PROVE  t \in Tx /\ height[t] = i /\ height'[t] = i
    OBVIOUS
  <2>1. t \in Tx /\ height[t] = i
    BY <1>0, <1>4, MinedFacts DEF ChainOK
  <2>2. t \notin ts
    BY <1>1, <1>b, <2>1
  <2> QED BY <1>0, <2>1, <2>2
<1>11. ChainOK'
  <2>1. \A i \in 1 .. join : \A t \in chain'[i] : height'[t] = i
    BY <1>3, <1>10
  <2>2. ASSUME NEW k \in 0 .. join
        PROVE  Consistent(UNION {chain'[i] : i \in 1 .. k})
    <3>1. k \in 0 .. Len(chain) /\ \A i \in 1 .. k : i \in 1 .. join
      BY <1>0, <1>1, <1>2
    <3>2. Consistent(Blocks(k))
      BY <1>0, <3>1 DEF ChainOK
    <3>3. UNION {chain'[i] : i \in 1 .. k} = Blocks(k)
      BY <1>3, <3>1 DEF Blocks
    <3> QED BY <3>2, <3>3
  <2> QED BY <1>3, <2>1, <2>2 DEF ChainOK, Blocks, Consistent
<1>12. RemovingOK'
  BY <1>0, NoneRemoved DEF Inv
<1>13. FillingOK'
  <2>1. filling' = {}
    BY <1>0 DEF Free
  <2> QED BY <2>1 DEF FillingOK
<1>14. HeightIsMinedInOrder'
  <2> SUFFICES ASSUME ordered', NEW t \in ToSet(list')
               PROVE  IF height'[t] = Unconfirmed THEN t \notin Mined'
                      ELSE height'[t] \in DOMAIN chain' /\ t \in chain'[height'[t]]
    BY DEF HeightIsMinedInOrder, HeightIsMined, Listed
  <2>1. ordered /\ HeightIsMined /\ Sorted(list, height) /\ t \in Listed /\ t \in Tx
    BY <1>0, <1>7, ListFacts DEF HeightIsMinedInOrder, OrderOK, Listed
  <2>2. CASE t \in ts
    <3>1. height'[t] = Unconfirmed
      BY <1>0, <2>1, <2>2
    <3>2. t \notin Mined'
      <4> SUFFICES ASSUME NEW i \in 1 .. join, t \in chain[i] PROVE FALSE
        BY <1>5
      <4>1. height[t] = i /\ height[t] > join
        BY <1>b, <1>10, <2>2
      <4> QED BY <1>1, <4>1
    <3> QED BY <3>1, <3>2
  <2>3. CASE t \notin ts
    <3>1. PICK i \in 1 .. Len(list) : list[i] = t
      BY <1>0, <2>1, ListFacts
    <3>2. PICK k \in i .. Len(list) : ~ (height[list[k]] > join)
      BY <1>c, <2>3, <3>1
    <3>3. k \in 1 .. Len(list) /\ i <= k /\ list[k] \in Tx /\ Len(list) \in Nat
      BY <1>0, ListFacts
    <3>4. height[t] \in Nat /\ height[list[k]] \in Nat
      BY <1>0, <2>1, <3>3, HeightFacts
    <3>5. height[t] <= height[list[k]]
      <4>1. CASE i = k
        BY <3>1, <3>4, <4>1
      <4>2. CASE i # k
        <5>1. i < k /\ i \in DOMAIN list /\ k \in DOMAIN list
          BY <1>0, <3>3, <4>2, ListFacts
        <5> QED BY <2>1, <3>1, <5>1 DEF Sorted
      <4> QED BY <4>1, <4>2
    <3>6. height[t] <= join
      BY <1>1, <3>2, <3>4, <3>5
    <3>7. height[t] # Unconfirmed
      BY <1>1, <3>6, LimitsAssumption
    <3>8. height[t] \in 1 .. Len(chain) /\ t \in chain[height[t]]
      BY <1>2, <2>1, <3>7 DEF HeightIsMined
    <3>9. height[t] \in 1 .. join /\ height'[t] = height[t]
      BY <1>0, <1>1, <2>1, <2>3, <3>4, <3>6, <3>8
    <3> QED BY <1>3, <3>7, <3>8, <3>9
  <2> QED BY <2>2, <2>3
<1> QED BY <1>7, <1>8, <1>9, <1>11, <1>12, <1>13, <1>14 DEF Inv
\* RemoveTransaction looks at the transactions from some place of the list on:
\* all there are as high as the one it removes, the one before is not.
LEMMA DependentsFacts ==
    ASSUME Types, NEW t \in Tx
    PROVE  \E from \in 1 .. Len(list) + 1 :
              /\ \A j \in from .. Len(list) : height[list[j]] >= height[t]
              /\ from > 1 => height[list[from - 1]] < height[t]
              /\ Dependents(t) \in Seq(Tx)
              /\ ToSet(Dependents(t)) =
                    {list[j] : j \in from .. Len(list)} \ {s \in Listed : s = t \/ ~ Spends(s, t)}
<1>0. /\ list \in Seq(Tx) /\ Len(list) \in Nat
      /\ \A i \in 1 .. Len(list) : list[i] \in Tx /\ height[list[i]] \in Nat
      /\ height[t] \in Nat
  BY ListFacts, HeightFacts DEF Types
<1> DEFINE P(i) == /\ \A j \in i .. Len(list) : height[list[j]] >= height[t]
                   /\ i > 1 => height[list[i - 1]] < height[t]
           from == CHOOSE i \in 1 .. Len(list) + 1 : P(i)
<1>1. \E i \in 1 .. Len(list) + 1 : P(i)
  <2> DEFINE S == {i \in 0 .. Len(list) : i > 0 => height[list[i]] < height[t]}
  <2>1. S \in SUBSET Nat /\ S # {} /\ \A x \in S : x <= Len(list)
    <3>1. 0 \in S
      BY <1>0
    <3> QED BY <1>0, <3>1
  <2>2. Max(S) \in S /\ \A x \in S : x <= Max(S)
    <3> HIDE DEF S
    <3> QED BY <1>0, <2>1, GreatestNumber
  <2> DEFINE k == Max(S)
  <2>3. k \in 0 .. Len(list) /\ (k > 0 => height[list[k]] < height[t]) /\ \A x \in S : x <= k
    BY <2>2
  <2> HIDE DEF k
  <2>4. ASSUME NEW j \in k + 1 .. Len(list) PROVE height[list[j]] >= height[t]
    <3>1. j \in 1 .. Len(list) /\ ~ (j <= k)
      BY <1>0, <2>3
    <3>2. j \notin S
      BY <2>3, <3>1
    <3>3. ~ (height[list[j]] < height[t])
      BY <1>0, <3>1, <3>2
    <3> QED BY <1>0, <3>1, <3>3
  <2> DEFINE f == k + 1
  <2>5. f \in 1 .. Len(list) + 1 /\ (f > 1 => k > 0) /\ f - 1 = k
    BY <1>0, <2>3
  <2>6. P(f)
    <3>1. \A j \in f .. Len(list) : height[list[j]] >= height[t]
      BY <2>4
    <3>2. f > 1 => height[list[f - 1]] < height[t]
      BY <2>3, <2>5
    <3> QED BY <3>1, <3>2
  <2> HIDE DEF f, P
  <2> QED BY <2>5, <2>6
<1>2. from \in 1 .. Len(list) + 1 /\ P(from)
  <2> HIDE DEF P
  <2> QED BY <1>1
<1>3. Dependents(t) = Without(SubSeq(list, from, Len(list)), {s \in Listed : s = t \/ ~ Spends(s, t)})
  BY DEF Dependents
<1> HIDE DEF from
<1> DEFINE p == SubSeq(list, from, Len(list))
           D == {s \in Listed : s = t \/ ~ Spends(s, t)}
<1>4. p \in Seq(Tx) /\ ToSet(p) = {list[j] : j \in from .. Len(list)}
  <2>1. Len(list) \in from - 1 .. Len(list)
    BY <1>0, <1>2
  <2> QED BY <1>0, <1>2, <2>1, PieceFacts
<1> HIDE DEF p, D
<1>5. Without(p, D) \in Seq(Tx) /\ ToSet(Without(p, D)) = ToSet(p) \ D
  BY <1>4, WithoutLeaves
<1>6. Dependents(t) \in Seq(Tx) /\ ToSet(Dependents(t)) = {list[j] : j \in from .. Len(list)} \ D
  BY <1>3, <1>4, <1>5 DEF p, D
<1> QED BY <1>2, <1>6 DEF D

LEMMA RemoveTransactionKeeps ==
    ASSUME Inv, NEW t \in Tx, RemoveTransaction(t)
    PROVE  Inv'
<1>1. /\ Types /\ SumOK /\ RemovingOK /\ FillingOK /\ Free /\ height[t] = Unconfirmed
      /\ removing' = <<t>> /\ UNCHANGED <<txs, len, chain, tip, sum, filling, reloads>>
      /\ list' = list /\ all' = all /\ height' = height /\ ordered' = ordered
  BY DEF Inv, RemoveTransaction, txs
<1>2. removing' \in Seq(Tx) /\ Len(removing') = 1 /\ removing'[1] = t
  BY <1>1
<1>3. Types'
  BY <1>1, <1>2 DEF Types
<1>4. SumOK' /\ ChainOK' /\ OrderOK' /\ HeightIsMinedInOrder'
  BY <1>1, <1>3, KeptLists
<1>5. RemovingOK'
  <2>1. \A i \in 1 .. 1 : i = 1
    OBVIOUS
  <2> QED BY <1>1, <1>2, <2>1 DEF RemovingOK, Free
<1>6. FillingOK'
  BY <1>1 DEF FillingOK, Free
<1> QED BY <1>3, <1>4, <1>5, <1>6 DEF Inv

LEMMA RemoveGoneKeeps ==
    ASSUME Inv, RemoveGone
    PROVE  Inv'
<1>1. /\ Types /\ SumOK /\ RemovingOK /\ FillingOK /\ removing # <<>>
      /\ removing' = Tail(removing) /\ UNCHANGED <<txs, len, chain, tip, sum, filling, reloads>>
      /\ list' = list /\ all' = all /\ height' = height /\ ordered' = ordered
  BY DEF Inv, RemoveGone, txs
<1>2. /\ removing' \in Seq(Tx) /\ Len(removing') = Len(removing) - 1 /\ Len(removing) \in Nat
      /\ \A i \in 1 .. Len(removing') : removing'[i] = removing[i + 1]
  BY <1>1, HeadTailProperties, SeqFacts DEF Types
<1>3. Types'
  BY <1>1, <1>2 DEF Types
<1>4. SumOK' /\ ChainOK' /\ OrderOK' /\ HeightIsMinedInOrder'
  BY <1>1, <1>3, KeptLists
<1>5. filling = {} /\ RemovingOK'
  BY <1>1, <1>2 DEF RemovingOK
<1>6. FillingOK'
  BY <1>1, <1>5 DEF FillingOK
<1> QED BY <1>3, <1>4, <1>5, <1>6 DEF Inv

LEMMA HeadRemoved ==
    ASSUME Types, RemovingOK, removing # <<>>
    PROVE  Head(removing) \in Tx /\ height[Head(removing)] = Unconfirmed /\ filling = {}
<1>1. Len(removing) \in Nat \ {0} /\ Head(removing) = removing[1] /\ Head(removing) \in Tx
  BY EmptySeq, HeadTailProperties, SeqFacts DEF Types
<1>2. 1 \in 1 .. Len(removing)
  BY <1>1
<1> QED BY <1>1, <1>2 DEF RemovingOK

LEMMA RemoveDependentsKeeps ==
    ASSUME Inv, RemoveDependents
    PROVE  Inv'
<1> DEFINE t == Head(removing)
           ds == Dependents(t)
<1>1. /\ Types /\ SumOK /\ RemovingOK /\ FillingOK /\ removing # <<>>
      /\ removing' = ds \o removing /\ UNCHANGED <<txs, len, chain, tip, sum, filling, reloads>>
      /\ list' = list /\ all' = all /\ height' = height /\ ordered' = ordered
  BY DEF Inv, RemoveDependents, txs
<1>2. t \in Tx /\ height[t] = Unconfirmed /\ filling = {}
  BY <1>1, HeadRemoved
<1> HIDE DEF t
<1>3. ds \in Seq(Tx) /\ \A s \in ToSet(ds) : height[s] = Unconfirmed
  <2>1. PICK from \in 1 .. Len(list) + 1 :
              /\ \A j \in from .. Len(list) : height[list[j]] >= height[t]
              /\ Dependents(t) \in Seq(Tx)
              /\ ToSet(Dependents(t)) =
                    {list[j] : j \in from .. Len(list)} \ {s \in Listed : s = t \/ ~ Spends(s, t)}
    BY <1>1, <1>2, DependentsFacts
  <2>2. ASSUME NEW s \in ToSet(ds) PROVE height[s] = Unconfirmed
    <3>1. PICK j \in from .. Len(list) : s = list[j]
      BY <2>1
    <3>2. j \in 1 .. Len(list)
      BY <1>1, ListFacts
    <3>3. list[j] \in Tx /\ height[list[j]] >= Unconfirmed
      BY <1>1, <1>2, <2>1, <3>2, ListFacts
    <3> QED BY <1>1, <3>1, <3>3, HeightFacts
  <2> QED BY <2>1, <2>2
<1> HIDE DEF ds
<1>4. /\ removing' \in Seq(Tx) /\ ToSet(removing') = ToSet(ds) \cup ToSet(removing)
      /\ removing \in Seq(Tx)
  BY <1>1, <1>3, ConcatFacts DEF Types
<1>5. Types'
  BY <1>1, <1>4 DEF Types
<1>6. SumOK' /\ ChainOK' /\ OrderOK' /\ HeightIsMinedInOrder'
  BY <1>1, <1>5, KeptLists
<1>7. RemovingOK'
  <2>1. \A i \in 1 .. Len(removing') : removing'[i] \in ToSet(removing')
    BY <1>4, SeqFacts
  <2>2. \A s \in ToSet(removing) : height[s] = Unconfirmed
    BY <1>1, <1>4, SeqFacts DEF RemovingOK
  <2> QED BY <1>1, <1>2, <1>3, <1>4, <2>1, <2>2 DEF RemovingOK
<1>8. FillingOK'
  BY <1>1, <1>2 DEF FillingOK
<1> QED BY <1>5, <1>6, <1>7, <1>8 DEF Inv

LEMMA RemoveLeafKeeps ==
    ASSUME Inv, RemoveLeaf
    PROVE  Inv'
<1> DEFINE t == Head(removing)
<1>1. /\ Types /\ SumOK /\ ChainOK /\ RemovingOK /\ FillingOK /\ HeightIsMinedInOrder /\ removing # <<>>
      /\ all' = all \ {t} /\ list' = Without(list, {t})
      /\ sum' = UpdateBalance(list', height, len, tip) /\ KeepOrdered
      /\ removing' = Tail(removing) /\ height' = height /\ len' = len /\ chain' = chain /\ tip' = tip
      /\ filling' = filling /\ reloads' = reloads
  BY DEF Inv, RemoveLeaf
<1>2. filling = {}
  BY <1>1, HeadRemoved
<1> HIDE DEF t
<1>3. list' \in Seq(Tx) /\ ToSet(list') = Listed \ {t}
  BY <1>1, WithoutLeaves DEF Types, Listed
<1>4. /\ removing' \in Seq(Tx) /\ Len(removing') = Len(removing) - 1 /\ Len(removing) \in Nat
      /\ \A i \in 1 .. Len(removing') : removing'[i] = removing[i + 1]
  BY <1>1, HeadTailProperties, SeqFacts DEF Types
<1>5. ordered' \in BOOLEAN /\ (ordered' => ordered) /\ OrderOK'
  BY <1>1, KeptOrder
<1>6. Types'
  BY <1>1, <1>3, <1>4, <1>5 DEF Types
<1>7. SumOK'
  BY <1>1, <1>3, NewSum
<1>8. ChainOK'
  BY <1>1, KeptChain
<1>9. RemovingOK'
  BY <1>1, <1>2, <1>4 DEF RemovingOK
<1>10. FillingOK'
  BY <1>1, <1>2 DEF FillingOK
<1>11. HeightIsMinedInOrder'
  BY <1>1, <1>3, <1>5, KeptHeights
<1> QED BY <1>5, <1>6, <1>7, <1>8, <1>9, <1>10, <1>11 DEF Inv
\* The addresses of a transaction, and of some transactions, are finitely many.
LEMMA PaidAddrsFacts ==
    ASSUME NEW t \in Tx
    PROVE  PaidAddrs(t) \subseteq Address /\ IsFiniteSet(PaidAddrs(t))
<1>1. PaidAddrs(t) \subseteq Address
  BY PaidFacts, AddrFacts DEF PaidAddrs
<1> DEFINE f == [o \in ToSet(Paid(t)) |-> Addr(o)]
<1>2. f \in Surjection(ToSet(Paid(t)), PaidAddrs(t))
  BY Fun_IsSurj DEF PaidAddrs
<1>3. IsFiniteSet(PaidAddrs(t))
  BY <1>2, PaidFacts, FS_Surjection
<1> QED BY <1>1, <1>3

LEMMA AllAddrsFacts ==
    ASSUME NEW S \in SUBSET Tx
    PROVE  LET used == UNION {{Addr(o) : o \in ToSet(Paid(t))} : t \in S}
           IN  used \in SUBSET Address /\ IsFiniteSet(used)
<1> DEFINE sets == {PaidAddrs(t) : t \in S}
<1>1. IsFiniteSet(S)
  BY TxAssumption, FS_Subset
<1>2. IsFiniteSet(sets)
  <2> DEFINE f == [t \in S |-> PaidAddrs(t)]
  <2>1. f \in Surjection(S, sets)
    BY Fun_IsSurj
  <2> QED BY <1>1, <2>1, FS_Surjection
<1>3. \A s \in sets : IsFiniteSet(s) /\ s \subseteq Address
  BY PaidAddrsFacts
<1> HIDE DEF sets
<1>4. UNION sets \in SUBSET Address /\ IsFiniteSet(UNION sets)
  BY <1>2, <1>3, FS_UNION
<1> QED BY <1>4 DEF sets, PaidAddrs

LEMMA ReloadKeeps ==
    ASSUME Inv, Reload
    PROVE  Inv'
<1> DEFINE used == UNION {{Addr(o) : o \in ToSet(Paid(t))} : t \in Listed}
<1>1. PICK order \in SetToSeqs(Listed) :
          /\ list' = Inserted(order, height)
          /\ all' = Listed
          /\ len' = [c \in Chains |-> Generated(0, c, GapLimit[c], used)]
          /\ tip' = 0
          /\ sum' = UpdateBalance(list', height', len', 0)
  BY DEF Reload
<1>2. /\ Types /\ ChainOK /\ FillingOK /\ HeightIsMinedInOrder /\ Free
      /\ reloads < MaxReloads /\ reloads' = reloads + 1 /\ height' = height /\ KeepOrdered
      /\ chain' = chain /\ filling' = filling /\ removing' = removing
  BY DEF Inv, Reload
<1>3. Listed \in SUBSET Tx
  BY <1>2, ListFacts
<1>4. list' \in Seq(Tx) /\ ToSet(list') = Listed
  <2>1. order \in Seq(Tx) /\ ToSet(order) = Listed
    BY <1>3, OrderFacts
  <2> QED BY <1>1, <2>1, InsertedFacts
<1>5. len' \in [Chains -> Nat]
  <2>1. used \in SUBSET Address /\ IsFiniteSet(used)
    BY <1>3, AllAddrsFacts
  <2> HIDE DEF used
  <2>2. \A c \in Chains : Generated(0, c, GapLimit[c], used) \in Nat
    BY <2>1, GeneratedFacts, LimitsAssumption
  <2> QED BY <1>1, <2>2
<1> HIDE DEF used
<1>6. ordered' \in BOOLEAN /\ (ordered' => ordered) /\ OrderOK'
  BY <1>2, KeptOrder
<1>7. Types'
  <2>1. reloads' \in 0 .. MaxReloads
    BY <1>2, LimitsAssumption DEF Types
  <2>2. tip' \in 0 .. MaxHeight \cup {Unconfirmed}
    BY <1>1, LimitsAssumption
  <2> QED BY <1>1, <1>2, <1>3, <1>4, <1>5, <1>6, <2>1, <2>2 DEF Types
<1>8. SumOK'
  <2> DEFINE h == height'
             l == len'
  <2>1. sum' = UpdateBalance(list', h, l, 0)
    BY <1>1
  <2> HIDE DEF h, l
  <2> QED BY <1>4, <2>1, NewSum
<1>9. ChainOK'
  BY <1>2, KeptChain
<1>10. RemovingOK'
  BY <1>2, NoneRemoved
<1>11. FillingOK'
  <2>1. filling' = {}
    BY <1>2 DEF Free
  <2> QED BY <2>1 DEF FillingOK
<1>12. HeightIsMinedInOrder'
  BY <1>2, <1>4, <1>6, KeptHeights
<1> QED BY <1>6, <1>7, <1>8, <1>9, <1>10, <1>11, <1>12 DEF Inv

LEMMA StutterKeeps ==
    ASSUME Inv, UNCHANGED vars
    PROVE  Inv'
<1>1. /\ UNCHANGED <<txs, chain, tip, sum, reloads>> /\ list' = list /\ all' = all /\ height' = height
      /\ ordered' = ordered /\ chain' = chain /\ tip' = tip /\ reloads' = reloads
      /\ len' = len /\ filling' = filling /\ removing' = removing /\ sum' = sum
  BY DEF vars, txs
<1>2. Types'
  BY <1>1 DEF Inv, Types
<1>3. SumOK' /\ ChainOK' /\ OrderOK' /\ HeightIsMinedInOrder'
  BY <1>1, <1>2, KeptLists
<1>4. RemovingOK' /\ FillingOK'
  BY <1>1 DEF Inv, RemovingOK, FillingOK, GapOpen
<1> QED BY <1>2, <1>3, <1>4 DEF Inv

LEMMA Keeps ==
    ASSUME Inv, [Next]_vars
    PROVE  Inv'
<1>1. ASSUME NEW t \in Tx, Register(t) \/ RemoveTransaction(t) \/ Verify(t, TRUE) \/ Verify(t, FALSE)
      PROVE  Inv'
  BY <1>1, RegisterKeeps, RemoveTransactionKeeps, VerifyKeeps
<1>2. ASSUME NEW c \in Chains, FillGap(c) \/ AskAddresses(c, 1) \/ AskAddresses(c, GapLimit[c] + ExtraGap)
      PROVE  Inv'
  BY <1>2, FillGapKeeps, AskAddressesKeeps
<1>3. CASE Confirm
  BY <1>3, ConfirmKeeps
<1>4. ASSUME NEW join \in 0 .. MaxHeight - 1, Reorganize(join) PROVE Inv'
  BY <1>4, ReorganizeKeeps
<1>5. CASE RemoveGone \/ RemoveDependents \/ RemoveLeaf
  BY <1>5, RemoveGoneKeeps, RemoveDependentsKeeps, RemoveLeafKeeps
<1>6. CASE Reload
  BY <1>6, ReloadKeeps
<1>7. CASE UNCHANGED vars
  BY <1>7, StutterKeeps
<1> QED BY <1>1, <1>2, <1>3, <1>4, <1>5, <1>6, <1>7 DEF Next

\* What every section under the lock keeps: the types, what the balance was
\* worked out from (_BR_WalletUpdateBalance), that no block spends what a later
\* one pays, the calls of RemoveTransaction under way, the addresses that are
\* still to be generated (RegisterTransaction), and the order of the list.
THEOREM Invariance == Spec => []Inv
<1>1. Init => Inv
  BY Start
<1>2. Inv /\ [Next]_vars => Inv'
  BY Keeps
<1> QED BY <1>1, <1>2, PTL DEF Spec

-----------------------------------------------------------------------------
(* What it is for                                                           *)

\* What the wallet takes for confirmed is in the block of that height, and the
\* rest is not in the chain, also after a reorganisation, for as long as its
\* list is in the order of the heights (SetTxUnconfirmedAfter).
THEOREM HeightsAreMined == Spec => []HeightIsMinedInOrder
<1>1. Inv => HeightIsMinedInOrder
  BY DEF Inv
<1> QED BY <1>1, Invariance, PTL

\* Nothing that is left in the list spends a transaction that has been removed
\* (RemoveTransaction).
LEMMA RemovesLeaf ==
    ASSUME Inv, [Next]_vars, ordered, reloads' = reloads,
           NEW t \in Listed \ ToSet(list'), NEW s \in ToSet(list')
    PROVE  ~ Spends(s, t)
<1>0. /\ Types /\ ChainOK /\ RemovingOK /\ OrderOK /\ HeightIsMined /\ Sorted(list, height)
  BY DEF Inv, OrderOK, HeightIsMinedInOrder
<1>1. CASE RemoveLeaf
  <2>1. /\ list' = Without(list, {Head(removing)}) /\ removing # <<>> /\ Dependents(Head(removing)) = <<>>
    BY <1>1 DEF RemoveLeaf
  <2>2. ToSet(list') = Listed \ {Head(removing)}
    BY <1>0, <2>1, WithoutLeaves DEF Types, Listed
  <2>3. t = Head(removing) /\ t \in Tx /\ height[t] = Unconfirmed /\ s \in Listed /\ s # t /\ s \in Tx
    BY <1>0, <2>1, <2>2, HeadRemoved, ListFacts
  <2>4. PICK from \in 1 .. Len(list) + 1 :
            /\ from > 1 => height[list[from - 1]] < height[t]
            /\ ToSet(Dependents(t)) =
                  {list[j] : j \in from .. Len(list)} \ {r \in Listed : r = t \/ ~ Spends(r, t)}
    BY <1>0, <2>3, DependentsFacts
  <2>5. ToSet(Dependents(t)) = {}
    BY <2>1, <2>3, EmptyFacts
  <2>6. PICK j \in 1 .. Len(list) : list[j] = s
    BY <1>0, <2>3, ListFacts
  <2>7. CASE j \in from .. Len(list)
    BY <2>3, <2>4, <2>5, <2>6, <2>7
  <2>8. CASE j < from
    <3>1. from > 1 /\ from - 1 \in 1 .. Len(list) /\ (j = from - 1 \/ j < from - 1)
      BY <1>0, <2>6, <2>8, ListFacts
    <3>2. list[from - 1] \in Tx /\ height[list[from - 1]] < Unconfirmed
      BY <1>0, <2>3, <2>4, <3>1, ListFacts
    <3>3. height[s] <= height[list[from - 1]]
      <4>1. CASE j < from - 1
        BY <1>0, <2>6, <3>1, <4>1, ListFacts DEF Sorted
      <4>2. CASE j = from - 1
        BY <1>0, <2>3, <2>6, <4>2, HeightFacts
      <4> QED BY <3>1, <4>1, <4>2
    <3>4. height[s] # Unconfirmed
      BY <1>0, <2>3, <3>2, <3>3, HeightFacts
    <3>5. s \in Mined
      BY <1>0, <2>3, <3>4, MinedFacts DEF HeightIsMined
    <3>6. Consistent(Mined)
      <4>1. Len(chain) \in 0 .. Len(chain) /\ Mined = Blocks(Len(chain))
        BY <1>0, MinedFacts
      <4> QED BY <1>0, <4>1 DEF ChainOK
    <3>7. t \notin Mined
      <4> SUFFICES ASSUME NEW i \in 1 .. Len(chain), t \in chain[i] PROVE FALSE
        BY <1>0, MinedFacts
      <4>1. height[t] = i
        BY <1>0 DEF ChainOK
      <4>2. Len(chain) \in Nat /\ Len(chain) <= MaxHeight /\ MaxHeight \in Nat
        BY <1>0, MinedFacts, HeightFacts DEF Types
      <4> QED BY <1>0, <2>3, <4>1, <4>2, HeightFacts
    <3> QED BY <3>5, <3>6, <3>7 DEF Consistent, Spends
  <2> QED BY <2>4, <2>6, <2>7, <2>8
<1>2. CASE ~ RemoveLeaf
  <2>1. Listed \subseteq ToSet(list')
    <3>1. ASSUME NEW u \in Tx, Register(u) PROVE Listed \subseteq ToSet(list')
      <4>1. CASE list' = Insert(list, u, all', height', len)
        <5> DEFINE k == all'
                   h == height'
        <5>1. list' = Insert(list, u, k, h, len) /\ list \in Seq(Tx)
          BY <1>0, <4>1 DEF Types
        <5> HIDE DEF k, h
        <5> QED BY <5>1, InsertFacts DEF Listed
      <4>2. CASE list' = list
        BY <4>2 DEF Listed
      <4> QED BY <3>1, <4>1, <4>2 DEF Register
    <3>2. CASE Reload
      BY <3>2, <1>0 DEF Reload, Types
    <3>3. CASE list' = list
      BY <3>3 DEF Listed
    <3>4. (\E u \in Tx : Register(u)) \/ Reload \/ list' = list
      BY <1>2 DEF Next, vars, txs, RemoveTransaction, Verify, UpdateTransactions, FillGap, AskAddresses,
                  Confirm, Reorganize, RemoveGone, RemoveDependents
    <3> QED BY <3>1, <3>2, <3>3, <3>4
  <2> QED BY <2>1
<1> QED BY <1>1, <1>2

THEOREM RemovalsLeaveNoDependent == Spec => RemovedWithDependents
<1>1. Inv /\ [Next]_vars =>
        [ordered /\ reloads' = reloads =>
            \A t \in Listed \ ToSet(list') : \A s \in ToSet(list') : ~ Spends(s, t)]_vars
  BY RemovesLeaf
<1> QED BY <1>1, Invariance, PTL DEF Spec, RemovedWithDependents

\* Once RegisterTransaction is over no address of the last GapLimit ones of
\* either chain has been used, also while screens and the filter asked for
\* addresses in between (BR_WalletUnusedAddrs).
LEMMA LastGapOpen ==
    ASSUME Inv, [Next]_vars, filling # {}, filling' = {},
           NEW c \in Chains, NEW i \in len'[c] - GapLimit[c] .. len'[c] - 1
    PROVE  <<c, i>> \notin sum.used
<1>0. /\ Types /\ SumOK /\ RemovingOK /\ FillingOK /\ filling \subseteq Chains
  BY DEF Inv, Types
<1>1. FillGap("int") /\ filling = {"int"}
  <2>1. PICK d \in Chains : FillGap(d)
    <3>1. ~ Free
      BY DEF Free
    <3>2. filling' # filling
      OBVIOUS
    <3> QED BY <3>1, <3>2 DEF Next, vars, Register, RemoveTransaction, Verify, UpdateTransactions, AskAddresses,
                  Confirm, Reorganize, RemoveGone, RemoveDependents, RemoveLeaf, Reload
  <2>2. filling = {d} /\ "int" \in filling
    BY <1>0, <2>1 DEF FillGap, FillingOK
  <2> QED BY <2>1, <2>2
<1>2. UnusedAddrs("int", GapLimit["int"]) /\ sum' = sum /\ "int" \in Chains
  BY <1>1 DEF FillGap, Chains
<1>3. len' \in [Chains -> Nat] /\ GapLimit["int"] \in Nat /\ GapLimit[c] \in Nat
  BY <1>0, <1>2, UnusedFacts, LimitsAssumption
<1>4. GapOpen("int")'
  BY <1>0, <1>2, GapOpens
<1>5. GapOpen("ext")'
  <2>1. GapOpen("ext")
    BY <1>0, <1>1 DEF FillingOK
  <2> QED BY <1>0, <1>2, <1>3, <2>1, GapStays
<1>6. GapOpen(c)'
  BY <1>4, <1>5 DEF Chains
<1>7. SUFFICES ASSUME <<c, i>> \in sum.used PROVE FALSE
  OBVIOUS
<1>8. i \in Nat
  <2>1. <<c, i>> \in Address
    BY <1>0, <1>7 DEF SumOK, Worked
  <2> QED BY <2>1 DEF Address
<1>9. len'[c] \in Nat
  BY <1>3
<1>10. i < len'[c]
  BY <1>3, <1>8, <1>9
<1>11. i + GapLimit[c] < len'[c]
  BY <1>2, <1>6, <1>7, <1>8, <1>10 DEF GapOpen
<1> QED BY <1>3, <1>8, <1>9, <1>11

THEOREM GapsAreOpen == Spec => GapIsOpen
<1>1. Inv /\ [Next]_vars =>
        [filling # {} /\ filling' = {} =>
            \A c \in Chains : \A i \in len'[c] - GapLimit[c] .. len'[c] - 1 : <<c, i>> \notin sum.used]_vars
  BY LastGapOpen
<1> QED BY <1>1, Invariance, PTL DEF Spec, GapIsOpen
-----------------------------------------------------------------------------
(* What confirming the transactions that count leaves alone                 *)

\* The account before t is counted.
Spending(a, t) == [a EXCEPT !.spent = @ \cup In[t]]

Grown(a, b, t, l) ==
    /\ a.invalid \subseteq b.invalid /\ a.pending \subseteq b.pending
    /\ t \in b.invalid \/ t \in b.pending \/ b = Count(Spending(a, t), t, l)

\* None is taken off the invalid and the pending ones again, and a transaction
\* that is neither counts.
LEMMA AccountGrows ==
    ASSUME NEW P \in SUBSET Tx, NEW n \in Nat, NEW t \in Tx, NEW h, NEW l, NEW top, NEW a,
           IsAccount(a), Worked(a, P, n, l, top), NEW b, b = Account(a, t, h, l, top)
    PROVE  Grown(a, b, t, l)
<1> DEFINE c == [a EXCEPT !.spent = @ \cup In[t]]
<1>2. /\ IsAccount(c) /\ c.invalid = a.invalid /\ c.pending = a.pending
      /\ c.utxos = a.utxos /\ c.balance = a.balance
  BY SpendingFacts
<1>3. CASE b = Count(c, t, l)
  <2>1. c.utxos \in Seq(Outpoint) /\ c.balance = Total(c.utxos)
    BY <1>2 DEF Worked
  <2> HIDE DEF c
  <2>2. Counts(c, b, t, l)
    BY <1>2, <1>3, <2>1, CountFacts
  <2>3. a.invalid \subseteq b.invalid /\ a.pending \subseteq b.pending
    BY <1>2, <2>2 DEF Counts
  <2> QED BY <1>3, <2>3 DEF c, Spending, Grown
<1>4. CASE \/ b.invalid = a.invalid \cup {t} /\ b.pending = a.pending
           \/ b.invalid = a.invalid /\ b.pending = a.pending \cup {t}
  BY <1>4 DEF Grown
<1>5. \/ b.invalid = a.invalid \cup {t} /\ b.pending = a.pending
      \/ b.invalid = a.invalid /\ b.pending = a.pending \cup {t}
      \/ b = Count(c, t, l)
  <2>1. \/ Skipped(a, b) /\ b.spent = a.spent /\ b.invalid = a.invalid \cup {t} /\ b.pending = a.pending
        \/ Skipped(a, b) /\ b.spent = a.spent \cup In[t] /\ b.invalid = a.invalid
             /\ b.pending = a.pending \cup {t}
        \/ b = Count(c, t, l)
    <3> HIDE DEF c
    <3> QED BY AccountCases DEF c
  <2> QED BY <2>1
<1> QED BY <1>3, <1>4, <1>5

\* As it does when it is confirmed.
LEMMA ConfirmedCounts ==
    ASSUME NEW a, NEW t, NEW g, NEW l, NEW top, g[t] # Unconfirmed
    PROVE  Account(a, t, g, l, top) = Count(Spending(a, t), t, l)
BY DEF Account, Refused, Postponed, Spending

\* So nothing changes when heights change only of transactions that count and
\* are confirmed then.
LEMMA UpdateSame ==
    ASSUME NEW ts \in Seq(Tx), NEW h, NEW g, NEW l, NEW top,
           NEW u, u = UpdateBalance(ts, h, l, top),
           \A t \in ToSet(ts) : g[t] = h[t] \/ (g[t] # Unconfirmed /\ t \notin u.invalid /\ t \notin u.pending)
    PROVE  UpdateBalance(ts, g, l, top) = u
<1>0. /\ Len(ts) \in Nat /\ DOMAIN ts = 1 .. Len(ts) /\ ToSet(ts) = {ts[i] : i \in 1 .. Len(ts)}
      /\ \A i \in 1 .. Len(ts) : ts[i] \in Tx
  BY SeqFacts
<1> DEFINE zero == [Empty EXCEPT !.len = l, !.tip = top]
           n == Len(ts)
           first(i) == {ts[j] : j \in 1 .. i}
<1>1. PICK acc : /\ acc[0] = zero
                 /\ \A i \in 1 .. n : acc[i] = Account(acc[i - 1], ts[i], h, l, top)
                 /\ acc[n] = u
  <2>1. \E acc : IsBalanceRun(acc, ts, h, l, top, n)
    BY <1>0, BalanceRun
  <2> QED BY <2>1, Zenon DEF IsBalanceRun
<1>2. PICK bcc : /\ bcc[0] = zero
                 /\ \A i \in 1 .. n : bcc[i] = Account(bcc[i - 1], ts[i], g, l, top)
                 /\ bcc[n] = UpdateBalance(ts, g, l, top)
  <2>1. \E run : IsBalanceRun(run, ts, g, l, top, n)
    BY <1>0, BalanceRun
  <2> QED BY <2>1, Zenon DEF IsBalanceRun
<1>3. IsAccount(zero) /\ Worked(zero, {}, 0, l, top)
  <2>1. /\ IsAccount(zero) /\ zero.utxos = <<>> /\ zero.invalid = {} /\ zero.pending = {}
        /\ zero.used = {} /\ zero.balance = 0 /\ zero.received = 0 /\ zero.sent = 0 /\ zero.hist = <<>>
        /\ zero.len = l /\ zero.tip = top
    BY DEF IsAccount, Empty
  <2> HIDE DEF zero
  <2> QED BY <2>1, EmptyFacts, TotalOfNone, FS_EmptySet DEF Worked
<1> HIDE DEF zero, n
<1> DEFINE Works == {i \in Nat : i <= n => IsAccount(acc[i]) /\ Worked(acc[i], first(i), i, l, top)}
<1>4. ASSUME NEW i \in Nat, i + 1 <= n
      PROVE  acc[i + 1] = Account(acc[i], ts[i + 1], h, l, top) /\ bcc[i + 1] = Account(bcc[i], ts[i + 1], g, l, top)
             /\ ts[i + 1] \in Tx /\ ts[i + 1] \in ToSet(ts)
  <2> DEFINE k == i + 1
  <2>1. k \in 1 .. n /\ k - 1 = i
    BY <1>0, <1>4
  <2> HIDE DEF k
  <2>2. acc[k] = Account(acc[k - 1], ts[k], h, l, top) /\ bcc[k] = Account(bcc[k - 1], ts[k], g, l, top)
        /\ ts[k] \in Tx /\ ts[k] \in ToSet(ts)
    BY <1>0, <1>1, <1>2, <2>1 DEF n
  <2>3. acc[k] = Account(acc[i], ts[k], h, l, top) /\ bcc[k] = Account(bcc[i], ts[k], g, l, top)
    BY <2>1, <2>2
  <2> QED BY <2>2, <2>3 DEF k
<1>5. \A i \in Nat : i <= n => IsAccount(acc[i]) /\ Worked(acc[i], first(i), i, l, top)
  <2>1. 0 \in Works
    <3>1. first(0) = {}
      OBVIOUS
    <3> QED BY <1>1, <1>3, <3>1
  <2>2. ASSUME NEW i \in Nat, i \in Works PROVE i + 1 \in Works
    <3> SUFFICES ASSUME i + 1 <= n PROVE IsAccount(acc[i + 1]) /\ Worked(acc[i + 1], first(i + 1), i + 1, l, top)
      OBVIOUS
    <3>1. acc[i + 1] = Account(acc[i], ts[i + 1], h, l, top) /\ ts[i + 1] \in Tx
      BY <1>4
    <3>2. i <= n /\ IsAccount(acc[i]) /\ Worked(acc[i], first(i), i, l, top)
      BY <1>0, <2>2 DEF n
    <3>3. first(i) \in SUBSET Tx /\ first(i + 1) = first(i) \cup {ts[i + 1]}
      <4>1. \A j \in 1 .. i : j \in 1 .. n
        BY <1>0, <3>2 DEF n
      <4>2. 1 .. i + 1 = (1 .. i) \cup {i + 1}
        OBVIOUS
      <4> QED BY <1>0, <4>1, <4>2 DEF n
    <3> HIDE DEF first, Works
    <3> DEFINE a == acc[i]
               b == acc[i + 1]
               t == ts[i + 1]
               P == first(i)
    <3>4. /\ IsAccount(a) /\ Worked(a, P, i, l, top) /\ b = Account(a, t, h, l, top) /\ t \in Tx
          /\ P \in SUBSET Tx
      BY <3>1, <3>2, <3>3
    <3> HIDE DEF a, b, t, P
    <3>5. IsAccount(b) /\ Worked(b, P \cup {t}, i + 1, l, top)
      BY <3>4, AccountWorks
    <3> QED BY <3>3, <3>5 DEF a, b, t, P
  <2>3. Nat \subseteq Works
    <3> HIDE DEF Works
    <3> QED BY <2>1, <2>2, SetInduction
  <2> QED BY <2>3
<1>a. ASSUME NEW i \in Nat, i <= n PROVE first(i) \in SUBSET Tx
  <2>1. \A j \in 1 .. i : j \in 1 .. n
    BY <1>0, <1>a DEF n
  <2> QED BY <1>0, <2>1 DEF n
<1>6. ASSUME NEW i \in Nat, i <= n
      PROVE  acc[i].invalid \subseteq u.invalid /\ acc[i].pending \subseteq u.pending
  <2> DEFINE Grows == {d \in Nat : i + d <= n =>
                          acc[i].invalid \subseteq acc[i + d].invalid /\ acc[i].pending \subseteq acc[i + d].pending}
  <2>1. 0 \in Grows
    BY <1>0
  <2>2. ASSUME NEW d \in Nat, d \in Grows PROVE d + 1 \in Grows
    <3> SUFFICES ASSUME i + (d + 1) <= n
                 PROVE  /\ acc[i].invalid \subseteq acc[i + (d + 1)].invalid
                        /\ acc[i].pending \subseteq acc[i + (d + 1)].pending
      OBVIOUS
    <3> DEFINE m == i + d
    <3>1. m \in Nat /\ m + 1 <= n /\ m <= n /\ i + (d + 1) = m + 1
      BY <1>0 DEF n
    <3>2. acc[i].invalid \subseteq acc[m].invalid /\ acc[i].pending \subseteq acc[m].pending
      BY <2>2, <3>1
    <3> HIDE DEF m, Grows, first
    <3>3. acc[m + 1] = Account(acc[m], ts[m + 1], h, l, top) /\ ts[m + 1] \in Tx
      BY <1>4, <3>1
    <3>4. acc[m].invalid \subseteq acc[m + 1].invalid /\ acc[m].pending \subseteq acc[m + 1].pending
      <4> DEFINE a == acc[m]
                 b == acc[m + 1]
                 t == ts[m + 1]
                 P == first(m)
      <4>1. IsAccount(a) /\ Worked(a, P, m, l, top) /\ b = Account(a, t, h, l, top) /\ t \in Tx
            /\ P \in SUBSET Tx
        BY <1>5, <1>a, <3>1, <3>3
      <4> HIDE DEF a, b, t, P
      <4>2. a.invalid \subseteq b.invalid /\ a.pending \subseteq b.pending
        <5>1. Grown(a, b, t, l)
          BY <3>1, <4>1, AccountGrows
        <5> QED BY <5>1 DEF Grown
      <4> QED BY <4>2 DEF a, b
    <3> QED BY <3>1, <3>2, <3>4
  <2>3. n - i \in Nat /\ i + (n - i) = n /\ n <= n
    BY <1>0, <1>6 DEF n
  <2>4. n - i \in Grows
    <3> HIDE DEF Grows
    <3> QED BY <2>1, <2>2, <2>3, SetInduction
  <2> QED BY <1>1, <2>3, <2>4
<1> DEFINE Same == {i \in Nat : i <= n => bcc[i] = acc[i]}
<1>7. 0 \in Same
  BY <1>1, <1>2
<1>8. ASSUME NEW i \in Nat, i \in Same PROVE i + 1 \in Same
  <2> SUFFICES ASSUME i + 1 <= n PROVE bcc[i + 1] = acc[i + 1]
    OBVIOUS
  <2> DEFINE t == ts[i + 1]
             a == acc[i]
             b == acc[i + 1]
             P == first(i)
  <2>1. i <= n /\ i + 1 \in Nat /\ bcc[i] = a
    BY <1>0, <1>8 DEF n
  <2>2. b = Account(a, t, h, l, top) /\ bcc[i + 1] = Account(a, t, g, l, top) /\ t \in Tx /\ t \in ToSet(ts)
    BY <1>4, <2>1
  <2>3. IsAccount(a) /\ Worked(a, P, i, l, top) /\ P \in SUBSET Tx
    BY <1>5, <1>a, <2>1
  <2>4. b.invalid \subseteq u.invalid /\ b.pending \subseteq u.pending
    BY <1>6, <2>1
  <2> HIDE DEF t, a, b, P, first
  <2>5. CASE g[t] = h[t]
    <3>1. Account(a, t, g, l, top) = Account(a, t, h, l, top)
      BY <2>5 DEF Account, Refused, Postponed
    <3> QED BY <2>2, <3>1 DEF b
  <2>6. CASE g[t] # Unconfirmed /\ t \notin u.invalid /\ t \notin u.pending
    <3>1. t \notin b.invalid /\ t \notin b.pending
      BY <2>4, <2>6
    <3>2. b = Count(Spending(a, t), t, l)
      <4>1. Grown(a, b, t, l)
        BY <2>2, <2>3, AccountGrows
      <4> QED BY <3>1, <4>1 DEF Grown
    <3>3. Account(a, t, g, l, top) = Count(Spending(a, t), t, l)
      BY <2>6, ConfirmedCounts
    <3> QED BY <2>2, <3>2, <3>3 DEF b
  <2> QED BY <2>2, <2>5, <2>6
<1>9. n \in Same
  <2>1. n \in Nat
    BY <1>0 DEF n
  <2> HIDE DEF Same
  <2> QED BY <1>7, <1>8, <2>1, SetInduction
<1>10. bcc[n] = acc[n]
  BY <1>0, <1>9 DEF n
<1> QED BY <1>1, <1>2, <1>10
-----------------------------------------------------------------------------
(* The balance: within one run of the app, and over restarts if the         *)
(* transactions pay only to addresses that are derived from the start       *)

\* The wallet has paid to such an address of its own.
OwnPaid(t, l) == \E o \in ToSet(Paid(t)) : IsDerived(l, Addr(o))

\* Each transaction of the wallet pays to an address before the first gap limit,
\* or spends what was paid to one: these addresses are generated at any time.
First(a) == a[1] \in Chains /\ a[2] < GapLimit[a[1]]
PaysFirst(t) == \E o \in ToSet(Paid(t)) : First(Addr(o))
SpendsFirst(t) == \E o \in In[t] : o.n \in DOMAIN Out[o.tx] /\ First(Addr(o))
OfWallet(t) ==
    \/ \E o \in ToSet(Paid(t)) : Addr(o)[1] \in Chains
    \/ \E o \in In[t] : o.n \in DOMAIN Out[o.tx] /\ Addr(o)[1] \in Chains
Near == \A t \in Tx : OfWallet(t) => PaysFirst(t) \/ SpendsFirst(t)

\* s belongs to the wallet: it pays to it, or spends what was paid to it by a
\* transaction that the wallet knows as soon as it is in the chain.
SpendsOwn(s) ==
    \E o \in In[s] : /\ o.n \in DOMAIN Out[o.tx] /\ IsDerived(len, Addr(o))
                     /\ o.tx \in Mined => o.tx \in all

\* What keeps a listed transaction from being freed and the balance fresh.
Kept ==
    /\ Listed \subseteq all /\ Distinct(list)
    /\ \A s \in Listed : OwnPaid(s, len) \/ SpendsOwn(s)
    /\ \A c \in Chains : GapLimit[c] <= len[c]
    /\ \A t \in all \cup Mined : PaysFirst(t) => t \in Listed
    /\ BalanceIsFresh

LEMMA InFacts ==
    ASSUME NEW t \in Tx, NEW o \in In[t]
    PROVE  o.tx \in Tx /\ o = [tx |-> o.tx, n |-> o.n]
BY TxAssumption

\* An output of the wallet's is one the transaction paid.
LEMMA OutputIsPaid ==
    ASSUME NEW t \in Tx, NEW o \in In[t], o.n \in DOMAIN Out[o.tx]
    PROVE  o \in ToSet(Paid(o.tx))
<1>1. o.tx \in Tx /\ o = [tx |-> o.tx, n |-> o.n]
  BY InFacts
<1>2. DOMAIN Paid(o.tx) = DOMAIN Out[o.tx] /\ Paid(o.tx)[o.n] = [tx |-> o.tx, n |-> o.n]
  BY DEF Paid
<1> QED BY <1>1, <1>2 DEF ToSet

\* The more addresses there are the more are derived.
LEMMA DerivedMore ==
    ASSUME NEW l \in [Chains -> Nat], NEW m \in [Chains -> Nat], \A c \in Chains : l[c] <= m[c],
           NEW a \in Address, IsDerived(l, a)
    PROVE  IsDerived(m, a)
BY DEF IsDerived, Address

LEMMA OwnedMore ==
    ASSUME NEW l \in [Chains -> Nat], NEW m \in [Chains -> Nat], \A c \in Chains : l[c] <= m[c],
           NEW t \in Tx, OwnPaid(t, l)
    PROVE  OwnPaid(t, m)
<1>1. PICK o \in ToSet(Paid(t)) : IsDerived(l, Addr(o))
  BY DEF OwnPaid
<1>2. Addr(o) \in Address
  BY PaidFacts, AddrFacts
<1>3. IsDerived(m, Addr(o))
  BY <1>1, <1>2, DerivedMore
<1> QED BY <1>3 DEF OwnPaid

\* ContainsTx asks just that.
LEMMA ContainsFacts ==
    ASSUME NEW t
    PROVE  ContainsTx(t) <=> \/ OwnPaid(t, len)
                             \/ \E o \in In[t] : o.tx \in all /\ o.n \in DOMAIN Out[o.tx] /\ IsDerived(len, Addr(o))
BY DEF ContainsTx, OwnPaid

\* An address before the first gap limit is derived whenever that many are.
LEMMA FirstDerived ==
    ASSUME NEW l \in [Chains -> Nat], \A c \in Chains : GapLimit[c] <= l[c],
           NEW t \in Tx, NEW o \in ToSet(Paid(t)), First(Addr(o))
    PROVE  IsDerived(l, Addr(o))
<1>1. Addr(o) \in Address /\ Addr(o)[1] \in Chains /\ Addr(o)[2] < GapLimit[Addr(o)[1]]
  BY PaidFacts, AddrFacts DEF First
<1> DEFINE c == Addr(o)[1]
<1>2. Addr(o)[2] \in Nat /\ GapLimit[c] \in Nat /\ l[c] \in Nat /\ GapLimit[c] <= l[c]
  BY <1>1, LimitsAssumption DEF Address
<1> QED BY <1>1, <1>2 DEF IsDerived

LEMMA FirstOwned ==
    ASSUME NEW l \in [Chains -> Nat], \A c \in Chains : GapLimit[c] <= l[c],
           NEW t \in Tx, PaysFirst(t)
    PROVE  OwnPaid(t, l)
<1>1. PICK o \in ToSet(Paid(t)) : First(Addr(o))
  BY DEF PaysFirst
<1>2. IsDerived(l, Addr(o))
  BY <1>1, FirstDerived
<1> QED BY <1>2 DEF OwnPaid

LEMMA UpdateNone ==
    ASSUME NEW h
    PROVE  UpdateBalance(<<>>, h, GapLimit, 0) = Empty
<1> DEFINE none == <<>>
<1>1. Len(none) = 0 /\ DOMAIN none = 1 .. 0
  BY EmptyFacts
<1> HIDE DEF none
<1>2. PICK acc : IsBalanceRun(acc, none, h, GapLimit, 0, 0)
  BY <1>1, BalanceRun
<1>3. acc[0] = [Empty EXCEPT !.len = GapLimit, !.tip = 0] /\ acc[0] = UpdateBalance(none, h, GapLimit, 0)
  BY <1>2, Zenon DEF IsBalanceRun
<1>4. [Empty EXCEPT !.len = GapLimit, !.tip = 0] = Empty
  <2> DEFINE e == Empty
             f == [e EXCEPT !["len"] = GapLimit]
             g == [f EXCEPT !["tip"] = 0]
  <2>1. e["len"] = GapLimit /\ e["tip"] = 0 /\ e = [x \in DOMAIN e |-> e[x]]
    BY DEF Empty
  <2> HIDE DEF e
  <2>2. f = [x \in DOMAIN e |-> e[x]]
    BY <2>1
  <2>3. f = e
    BY <2>1, <2>2
  <2>4. [e EXCEPT !["tip"] = 0] = [x \in DOMAIN e |-> e[x]]
    BY <2>1
  <2>5. g = e
    BY <2>1, <2>3, <2>4
  <2> QED BY <2>5 DEF e
<1> QED BY <1>3, <1>4 DEF none

LEMMA KeptStart ==
    ASSUME Init
    PROVE  Kept
<1>1. Listed = {} /\ Distinct(list)
  BY EmptyFacts DEF Init, Listed
<1>2. \A c \in Chains : GapLimit[c] <= len[c]
  BY LimitsAssumption DEF Init
<1>3. BalanceIsFresh
  <2>1. sum = Empty /\ list = <<>> /\ sum.len = GapLimit /\ sum.tip = 0
    BY DEF Init, Empty
  <2> QED BY <2>1, UpdateNone DEF BalanceIsFresh
<1>4. all = {} /\ Mined = {}
  BY EmptyFacts DEF Init, Mined
<1> QED BY <1>1, <1>2, <1>3, <1>4 DEF Kept

\* What has been worked out anew is fresh.
LEMMA NewIsFresh ==
    ASSUME list' \in Seq(Tx), NEW l, NEW top, sum' = UpdateBalance(list', height', l, top)
    PROVE  BalanceIsFresh'
<1> DEFINE h == height'
<1>1. sum' = UpdateBalance(list', h, l, top)
  OBVIOUS
<1> HIDE DEF h
<1>2. Worked(sum', ToSet(list'), Len(list'), l, top)
  BY <1>1, UpdateWorks
<1>3. sum'.len = l /\ sum'.tip = top
  BY <1>2 DEF Worked
<1> QED BY <1>1, <1>3 DEF BalanceIsFresh, h

LEMMA SameIsFresh ==
    ASSUME BalanceIsFresh, list' = list, height' = height, sum' = sum
    PROVE  BalanceIsFresh'
BY DEF BalanceIsFresh

\* While only addresses come in addition nothing else changes.
LEMMA KeptGrows ==
    ASSUME Inv, Kept, list' = list, all' = all, height' = height, chain' = chain, sum' = sum,
           len' \in [Chains -> Nat], \A c \in Chains : len[c] <= len'[c]
    PROVE  Kept'
<1>0. /\ len \in [Chains -> Nat] /\ Listed \subseteq Tx /\ Listed' = Listed /\ Mined' = Mined
      /\ GapLimit \in [Chains -> Nat]
  BY ListFacts, LimitsAssumption DEF Inv, Types, Listed, Mined
<1>1. ASSUME NEW s \in Listed PROVE OwnPaid(s, len') \/ SpendsOwn(s)'
  <2>1. CASE OwnPaid(s, len)
    <3> DEFINE m == len'
    <3>1. m \in [Chains -> Nat] /\ \A c \in Chains : len[c] <= m[c]
      OBVIOUS
    <3> HIDE DEF m
    <3>2. OwnPaid(s, m)
      BY <1>0, <2>1, <3>1, OwnedMore
    <3> QED BY <3>2 DEF m
  <2>2. CASE SpendsOwn(s)
    <3>1. PICK o \in In[s] : /\ o.n \in DOMAIN Out[o.tx] /\ IsDerived(len, Addr(o))
                             /\ o.tx \in Mined => o.tx \in all
      BY <2>2 DEF SpendsOwn
    <3>2. Addr(o) \in Address
      <4>1. o \in ToSet(Paid(o.tx)) /\ o.tx \in Tx
        BY <1>0, <3>1, OutputIsPaid, InFacts
      <4> QED BY <4>1, PaidFacts, AddrFacts
    <3> DEFINE m == len'
    <3>3. m \in [Chains -> Nat] /\ \A c \in Chains : len[c] <= m[c]
      OBVIOUS
    <3> HIDE DEF m
    <3>4. IsDerived(m, Addr(o))
      BY <1>0, <3>1, <3>2, <3>3, DerivedMore
    <3> QED BY <1>0, <3>1, <3>4 DEF SpendsOwn, m
  <2> QED BY <2>1, <2>2 DEF Kept
<1>2. \A c \in Chains : GapLimit[c] <= len'[c]
  <2> SUFFICES ASSUME NEW c \in Chains PROVE GapLimit[c] <= len'[c]
    OBVIOUS
  <2>1. GapLimit[c] <= len[c] /\ len[c] <= len'[c] /\ GapLimit[c] \in Nat /\ len[c] \in Nat /\ len'[c] \in Nat
    BY <1>0 DEF Kept
  <2> QED BY <2>1
<1>3. BalanceIsFresh'
  BY SameIsFresh DEF Kept
<1> QED BY <1>0, <1>1, <1>2, <1>3 DEF Kept
LEMMA KeptAddresses ==
    ASSUME Inv, Kept, NEW c \in Chains, FillGap(c) \/ \E gap \in Nat : AskAddresses(c, gap)
    PROVE  Kept'
<1>1. \E gap \in Nat : UnusedAddrs(c, gap)
  BY LimitsAssumption DEF FillGap, AskAddresses
<1>2. PICK gap \in Nat : UnusedAddrs(c, gap)
  BY <1>1
<1>3. list' = list /\ all' = all /\ height' = height /\ chain' = chain /\ sum' = sum
  BY DEF FillGap, AskAddresses, txs
<1>4. len' \in [Chains -> Nat] /\ len[c] <= len'[c] /\ (\A d \in Chains : d # c => len'[d] = len[d])
      /\ len \in [Chains -> Nat]
  BY <1>2, UnusedFacts DEF Inv, Types
<1>5. \A d \in Chains : len[d] <= len'[d]
  BY <1>4
<1> QED BY <1>3, <1>4, <1>5, KeptGrows

LEMMA KeptIdle ==
    ASSUME Inv, Kept, list' = list, all' = all, height' = height, chain' = chain, sum' = sum, len' = len
    PROVE  Kept'
<1>1. len' \in [Chains -> Nat] /\ len \in [Chains -> Nat]
  BY DEF Inv, Types
<1>2. \A c \in Chains : len[c] <= len'[c]
  BY <1>1
<1> QED BY <1>1, <1>2, KeptGrows

LEMMA KeptRegister ==
    ASSUME Inv, Kept, NEW t \in Tx, Register(t)
    PROVE  Kept'
<1>0. /\ Types /\ Types' /\ Listed \subseteq Tx /\ GapLimit \in [Chains -> Nat]
  BY RegisterKeeps, ListFacts, LimitsAssumption DEF Inv
<1>1. /\ Listed \subseteq all /\ Distinct(list) /\ BalanceIsFresh
      /\ \A s \in Listed : OwnPaid(s, len) \/ SpendsOwn(s)
      /\ \A c \in Chains : GapLimit[c] <= len[c]
      /\ \A s \in all \cup Mined : PaysFirst(s) => s \in Listed
  BY DEF Kept
<1>2. /\ t \notin all /\ t \notin Mined /\ all' = all \cup {t} /\ len' = len /\ chain' = chain
      /\ height' = [height EXCEPT ![t] = Unconfirmed] /\ Mined' = Mined
  BY DEF Register, IsNew, Mined
<1>3. \A s : SpendsOwn(s) => SpendsOwn(s)'
  BY <1>2 DEF SpendsOwn
<1>4. CASE ContainsTx(t)
  <2>1. list' = Insert(list, t, all', height', len) /\ sum' = UpdateBalance(list', height', len, tip)
    BY <1>4 DEF Register
  <2>2. list' \in Seq(Tx) /\ Listed' = Listed \cup {t} /\ Distinct(list')
    <3> DEFINE k == all'
               h == height'
    <3>1. list' = Insert(list, t, k, h, len) /\ list \in Seq(Tx) /\ t \notin ToSet(list)
      BY <1>0, <1>1, <1>2, <2>1 DEF Types, Listed
    <3> HIDE DEF k, h
    <3> QED BY <1>1, <3>1, InsertFacts DEF Listed
  <2>3. BalanceIsFresh'
    <3> DEFINE top == tip
    <3>1. \E l, b : sum' = UpdateBalance(list', height', l, b)
      BY <2>1
    <3> QED BY <2>2, <3>1, NewIsFresh
  <2>4. OwnPaid(t, len) \/ SpendsOwn(t)'
    <3>1. CASE \E o \in In[t] : o.tx \in all /\ o.n \in DOMAIN Out[o.tx] /\ IsDerived(len, Addr(o))
      BY <1>2, <3>1 DEF SpendsOwn
    <3> QED BY <1>4, <3>1, ContainsFacts
  <2>5. \A s \in Listed' : OwnPaid(s, len') \/ SpendsOwn(s)'
    BY <1>1, <1>2, <1>3, <2>2, <2>4
  <2> QED BY <1>1, <1>2, <2>2, <2>3, <2>5 DEF Kept
<1>5. CASE ~ ContainsTx(t)
  <2>1. list' = list /\ sum' = sum /\ Listed' = Listed /\ Distinct(list')
    BY <1>1, <1>5 DEF Register, Listed
  <2>2. \A s \in Listed' : OwnPaid(s, len') \/ SpendsOwn(s)'
    BY <1>1, <1>2, <1>3, <2>1
  <2>3. ~ PaysFirst(t)
    BY <1>0, <1>1, <1>5, FirstOwned, ContainsFacts DEF Types
  <2>4. BalanceIsFresh'
    <3>1. \A s \in ToSet(list) : height'[s] = height[s]
      BY <1>0, <1>1, <1>2 DEF Types, Listed
    <3>2. sum = UpdateBalance(list, height, sum.len, sum.tip) /\ list \in Seq(Tx)
      BY <1>0, <1>1 DEF BalanceIsFresh, Types
    <3> DEFINE h == height'
               l == sum.len
               top == sum.tip
               u == sum
    <3>3. /\ u = UpdateBalance(list, height, l, top)
          /\ \A s \in ToSet(list) : h[s] = height[s] \/ (h[s] # Unconfirmed /\ s \notin u.invalid /\ s \notin u.pending)
      BY <3>1, <3>2
    <3> HIDE DEF h, l, top, u
    <3>4. UpdateBalance(list, h, l, top) = u
      BY <3>2, <3>3, UpdateSame
    <3> QED BY <2>1, <3>4 DEF BalanceIsFresh, h, l, top, u
  <2> QED BY <1>1, <1>2, <2>1, <2>2, <2>3, <2>4 DEF Kept
<1> QED BY <1>4, <1>5

\* A block frees only transactions that neither pay the wallet nor spend what
\* is its own, and confirms listed ones that counted already without another look.
LEMMA KeptConfirm ==
    ASSUME Inv, Kept, Confirm
    PROVE  Kept'
<1>0. /\ Types /\ SumOK /\ Listed \subseteq Tx /\ list \in Seq(Tx)
  BY ListFacts DEF Inv, Types
<1>1. /\ Listed \subseteq all /\ Distinct(list) /\ BalanceIsFresh
      /\ \A s \in Listed : OwnPaid(s, len) \/ SpendsOwn(s)
      /\ \A c \in Chains : GapLimit[c] <= len[c]
      /\ \A s \in all \cup Mined : PaysFirst(s) => s \in Listed
  BY DEF Kept
<1>2. PICK ts \in SUBSET (all \ Mined) :
         /\ Consistent(ts \cup Mined)
         /\ chain' = Append(chain, ts)
         /\ UpdateTransactions(ts, Len(chain'))
  BY DEF Confirm
<1> DEFINE mine == {t \in ts : ContainsTx(t)}
           n == Len(chain')
           changing == ts \cap all
<1>3. /\ list' = list /\ len' = len /\ Listed' = Listed
      /\ height' = [t \in Tx |-> IF t \in ts THEN n ELSE height[t]]
      /\ all' = (IF n = Unconfirmed THEN all ELSE all \ (ts \ mine))
      /\ sum' = (IF NeedsUpdate(mine) THEN UpdateBalance(list, height', len, tip') ELSE sum)
  <2>1. changing = ts
    OBVIOUS
  <2>2. changing = ts /\ {t \in changing : ContainsTx(t)} = mine
    BY <2>1
  <2> QED BY <1>2, <2>1, <2>2 DEF UpdateTransactions, Forgotten, Listed
<1>4. n \in Nat /\ n # Unconfirmed /\ Mined' = Mined \cup ts /\ ts \subseteq Tx
  <2>1. chain \in Seq(SUBSET Tx) /\ ts \in SUBSET Tx /\ Len(chain) \in Nat /\ Len(chain) < MaxHeight
    BY <1>0, MinedFacts DEF Types, Confirm
  <2>2. n = Len(chain) + 1 /\ ToSet(chain') = ToSet(chain) \cup {ts}
    BY <1>2, <2>1, AppendFacts
  <2> QED BY <2>1, <2>2, LimitsAssumption DEF Mined
<1> HIDE DEF mine, n
<1>5. ASSUME NEW t \in ts, OwnPaid(t, len) PROVE t \in mine
  BY <1>5, ContainsFacts DEF mine
<1>6. ASSUME NEW s \in Listed PROVE s \in ts => s \in mine
  <2> SUFFICES ASSUME s \in ts PROVE ContainsTx(s)
    BY DEF mine
  <2>1. CASE OwnPaid(s, len)
    BY <2>1, ContainsFacts
  <2>2. CASE SpendsOwn(s)
    <3>1. PICK o \in In[s] : /\ o.n \in DOMAIN Out[o.tx] /\ IsDerived(len, Addr(o))
                             /\ o.tx \in Mined => o.tx \in all
      BY <2>2 DEF SpendsOwn
    <3>2. o.tx \in ts \cup Mined
      BY <1>2 DEF Consistent
    <3>3. o.tx \in all
      BY <3>1, <3>2
    <3> QED BY <3>1, <3>3, ContainsFacts
  <2> QED BY <1>1, <2>1, <2>2
<1>7. Listed' \subseteq all' /\ Distinct(list')
  BY <1>1, <1>3, <1>6
<1>8. ASSUME NEW s \in Listed' PROVE OwnPaid(s, len') \/ SpendsOwn(s)'
  <2>1. CASE OwnPaid(s, len)
    BY <1>3, <2>1
  <2>2. CASE SpendsOwn(s)
    <3>1. PICK o \in In[s] : /\ o.n \in DOMAIN Out[o.tx] /\ IsDerived(len, Addr(o))
                             /\ o.tx \in Mined => o.tx \in all
      BY <2>2 DEF SpendsOwn
    <3>2. s \in Tx /\ o.tx \in Tx
      BY <1>0, <1>3, InFacts
    <3>3. o.tx \in ts => o.tx \in mine
      <4>1. OwnPaid(o.tx, len)
        BY <3>1, <3>2, OutputIsPaid DEF OwnPaid
      <4> QED BY <1>5, <4>1
    <3>4. o.tx \in Mined' => o.tx \in all'
      BY <1>3, <1>4, <3>1, <3>3
    <3> QED BY <1>3, <3>1, <3>4 DEF SpendsOwn
  <2> QED BY <1>1, <1>3, <2>1, <2>2
<1>9. \A t \in all' \cup Mined' : PaysFirst(t) => t \in Listed'
  <2>1. all' \subseteq all /\ Mined' \subseteq Mined \cup all
    BY <1>3, <1>4
  <2> QED BY <1>1, <1>3, <2>1
<1>10. BalanceIsFresh'
  <2>1. CASE NeedsUpdate(mine)
    <3>1. \E l, b : sum' = UpdateBalance(list', height', l, b)
      BY <1>3, <2>1
    <3> QED BY <1>0, <1>3, <3>1, NewIsFresh
  <2>2. CASE ~ NeedsUpdate(mine)
    <3>1. sum' = sum /\ mine \cap (sum.pending \cup sum.invalid) = {}
      BY <1>3, <2>2 DEF NeedsUpdate
    <3>2. sum = UpdateBalance(list, height, sum.len, sum.tip)
      BY <1>1 DEF BalanceIsFresh
    <3> DEFINE h == height'
               l == sum.len
               top == sum.tip
               u == sum
    <3>3. \A s \in ToSet(list) : h[s] = height[s] \/ (h[s] # Unconfirmed /\ s \notin u.invalid /\ s \notin u.pending)
      <4> SUFFICES ASSUME NEW s \in Listed
                   PROVE  h[s] = height[s] \/ (h[s] # Unconfirmed /\ s \notin u.invalid /\ s \notin u.pending)
        BY DEF Listed
      <4>1. CASE s \in ts
        <5>1. s \in mine /\ h[s] = n
          BY <1>0, <1>3, <1>6, <4>1
        <5> QED BY <1>4, <3>1, <5>1
      <4>2. CASE s \notin ts
        BY <1>0, <1>3, <4>2
      <4> QED BY <4>1, <4>2
    <3>4. u = UpdateBalance(list, height, l, top)
      BY <3>2
    <3> HIDE DEF h, l, top, u
    <3>5. UpdateBalance(list, h, l, top) = u
      BY <1>0, <3>3, <3>4, UpdateSame
    <3> QED BY <1>3, <3>1, <3>5 DEF BalanceIsFresh, h, l, top, u
  <2> QED BY <2>1, <2>2
<1> QED BY <1>1, <1>3, <1>7, <1>8, <1>9, <1>10 DEF Kept
\* Only the balance is worked out anew, or blocks are taken off the chain.
LEMMA KeptBalance ==
    ASSUME Kept, list' = list, all' = all, len' = len, Mined' \subseteq Mined, BalanceIsFresh'
    PROVE  Kept'
<1>1. Listed' = Listed
  BY DEF Listed
<1>2. \A s : SpendsOwn(s) => SpendsOwn(s)'
  BY DEF SpendsOwn
<1> QED BY <1>1, <1>2 DEF Kept

LEMMA KeptVerify ==
    ASSUME Inv, Kept, NEW t \in Tx, NEW differs, Verify(t, differs)
    PROVE  Kept'
<1> DEFINE changing == {s \in {t} : differs} \cap all
<1>0. Types /\ SumOK /\ BalanceIsFresh /\ list \in Seq(Tx)
  BY DEF Inv, Kept, Types
<1>1. /\ height[t] = Unconfirmed /\ chain' = chain /\ list' = list /\ len' = len /\ all' = all
      /\ height' = [s \in Tx |-> IF s \in changing THEN Unconfirmed ELSE height[s]]
  BY DEF Verify, UpdateTransactions
<1>2. sum' = sum \/ \E l, top : sum' = UpdateBalance(list', height', l, top)
  BY <1>1 DEF Verify, UpdateTransactions
<1>3. height' = height
  BY <1>0, <1>1 DEF Types
<1>4. BalanceIsFresh'
  BY <1>0, <1>1, <1>2, <1>3, NewIsFresh, SameIsFresh
<1>5. Mined' \subseteq Mined
  BY <1>1 DEF Mined
<1> QED BY <1>1, <1>4, <1>5, KeptBalance

LEMMA KeptReorganize ==
    ASSUME Inv, Kept, NEW join \in 0 .. MaxHeight - 1, Reorganize(join)
    PROVE  Kept'
<1> DEFINE ts == After(list, height, join)
<1>0. Types /\ SumOK /\ BalanceIsFresh /\ list \in Seq(Tx)
  BY DEF Inv, Kept, Types
<1>1. /\ join < Len(chain) /\ chain' = SubSeq(chain, 1, join)
      /\ list' = list /\ len' = len /\ all' = all
      /\ height' = [t \in Tx |-> IF t \in ts THEN Unconfirmed ELSE height[t]]
      /\ sum' = (IF ts = {} THEN sum ELSE UpdateBalance(list, height', len, tip'))
  BY DEF Reorganize
<1> HIDE DEF ts
<1>2. Mined' \subseteq Mined
  <2>1. /\ chain \in Seq(SUBSET Tx) /\ Len(chain) \in Nat /\ join \in Nat
        /\ ToSet(chain) = {chain[i] : i \in 1 .. Len(chain)}
    BY <1>0, LimitsAssumption, SeqFacts DEF Types
  <2>2. 1 \in 1 .. Len(chain) + 1 /\ join \in 1 - 1 .. Len(chain)
    BY <1>1, <2>1
  <2>3. ToSet(chain') = {chain[i] : i \in 1 .. join}
    BY <1>1, <2>1, <2>2, PieceFacts
  <2>4. \A i \in 1 .. join : i \in 1 .. Len(chain)
    BY <1>1, <2>1
  <2>5. ToSet(chain') \subseteq ToSet(chain)
    BY <2>1, <2>3, <2>4
  <2> QED BY <2>5 DEF Mined
<1>3. BalanceIsFresh'
  <2>1. CASE ts = {}
    <3>1. height' = height /\ sum' = sum
      BY <1>0, <1>1, <2>1 DEF Types
    <3> QED BY <1>0, <1>1, <3>1, SameIsFresh
  <2>2. CASE ts # {}
    <3>1. \E l, top : sum' = UpdateBalance(list', height', l, top)
      BY <1>1, <2>2
    <3> QED BY <1>0, <1>1, <3>1, NewIsFresh
  <2> QED BY <2>1, <2>2
<1> QED BY <1>1, <1>2, <1>3, KeptBalance

LEMMA KeptRemoveLeaf ==
    ASSUME Inv, Kept, RemoveLeaf
    PROVE  Kept'
<1> DEFINE t == Head(removing)
<1>0. Types /\ ChainOK /\ RemovingOK
  BY DEF Inv
<1>1. /\ Listed \subseteq all /\ Distinct(list)
      /\ \A s \in Listed : OwnPaid(s, len) \/ SpendsOwn(s)
      /\ \A c \in Chains : GapLimit[c] <= len[c]
      /\ \A s \in all \cup Mined : PaysFirst(s) => s \in Listed
  BY DEF Kept
<1>2. /\ removing # <<>> /\ all' = all \ {t} /\ list' = Without(list, {t})
      /\ sum' = UpdateBalance(list', height, len, tip) /\ height' = height /\ len' = len /\ chain' = chain
  BY DEF RemoveLeaf
<1>3. t \in Tx /\ height[t] = Unconfirmed
  BY <1>0, <1>2, HeadRemoved
<1> HIDE DEF t
<1>4. list' \in Seq(Tx) /\ Listed' = Listed \ {t} /\ Distinct(list')
  BY <1>0, <1>1, <1>2, WithoutLeaves DEF Types, Listed
<1>5. t \notin Mined
  <2> SUFFICES ASSUME NEW i \in 1 .. Len(chain), t \in chain[i] PROVE FALSE
    BY <1>0, MinedFacts
  <2>1. height[t] = i
    BY <1>0 DEF ChainOK
  <2>2. Len(chain) \in Nat /\ Len(chain) <= MaxHeight /\ MaxHeight \in Nat
    BY <1>0, MinedFacts, HeightFacts DEF Types
  <2> QED BY <1>0, <1>3, <2>1, <2>2, HeightFacts
<1>6. \A s : SpendsOwn(s) => SpendsOwn(s)'
  BY <1>2, <1>5 DEF SpendsOwn, Mined
<1>7. BalanceIsFresh'
  <2>1. \E l, top : sum' = UpdateBalance(list', height', l, top)
    BY <1>2
  <2> QED BY <1>4, <2>1, NewIsFresh
<1>8. \A s \in Listed' : OwnPaid(s, len') \/ SpendsOwn(s)'
  BY <1>1, <1>2, <1>4, <1>6
<1>9. \A s \in all' \cup Mined' : PaysFirst(s) => s \in Listed'
  <2>1. all' = all \ {t} /\ Mined' = Mined
    BY <1>2 DEF Mined
  <2> QED BY <1>1, <1>4, <1>5, <2>1
<1> QED BY <1>1, <1>2, <1>4, <1>7, <1>8, <1>9 DEF Kept

LEMMA KeptReload ==
    ASSUME Inv, Kept, Near, Reload
    PROVE  Kept'
<1> DEFINE used == UNION {{Addr(o) : o \in ToSet(Paid(t))} : t \in Listed}
<1>0. Types /\ Listed \in SUBSET Tx
  BY ListFacts DEF Inv
<1>1. /\ \A s \in Listed : OwnPaid(s, len) \/ SpendsOwn(s)
      /\ \A s \in all \cup Mined : PaysFirst(s) => s \in Listed
  BY DEF Kept
<1>2. PICK order \in SetToSeqs(Listed) :
          /\ list' = Inserted(order, height)
          /\ all' = Listed
          /\ len' = [c \in Chains |-> Generated(0, c, GapLimit[c], used)]
          /\ sum' = UpdateBalance(list', height', len', 0)
  BY DEF Reload
<1>3. chain' = chain
  BY DEF Reload
<1>4. list' \in Seq(Tx) /\ Listed' = Listed /\ Distinct(list')
  <2>1. order \in Seq(Tx) /\ ToSet(order) = Listed /\ Distinct(order)
    BY <1>0, OrderFacts
  <2> QED BY <1>2, <2>1, InsertedFacts DEF Listed
<1>5. len' \in [Chains -> Nat] /\ \A c \in Chains : GapLimit[c] <= len'[c]
  <2>1. used \in SUBSET Address /\ IsFiniteSet(used)
    BY <1>0, AllAddrsFacts
  <2> HIDE DEF used
  <2>2. \A c \in Chains : /\ Generated(0, c, GapLimit[c], used) \in Nat
                          /\ GapLimit[c] <= Generated(0, c, GapLimit[c], used)
    BY <2>1, GeneratedFacts, LimitsAssumption
  <2> QED BY <1>2, <2>2
<1> HIDE DEF used
<1>6. BalanceIsFresh'
  <2>1. \E l, top : sum' = UpdateBalance(list', height', l, top)
    BY <1>2
  <2> QED BY <1>4, <2>1, NewIsFresh
<1>7. ASSUME NEW s \in Tx, NEW o \in ToSet(Paid(s)), First(Addr(o))
      PROVE  IsDerived(len', Addr(o))
  <2> DEFINE m == len'
  <2>1. m \in [Chains -> Nat] /\ \A c \in Chains : GapLimit[c] <= m[c]
    BY <1>5
  <2> HIDE DEF m
  <2>2. IsDerived(m, Addr(o))
    BY <1>7, <2>1, FirstDerived
  <2> QED BY <2>2 DEF m
<1>8. ASSUME NEW s \in Listed PROVE OwnPaid(s, len') \/ SpendsOwn(s)'
  <2>1. OfWallet(s)
    BY <1>1 DEF OfWallet, OwnPaid, SpendsOwn, IsDerived
  <2>2. CASE PaysFirst(s)
    <3>1. PICK o \in ToSet(Paid(s)) : First(Addr(o))
      BY <2>2 DEF PaysFirst
    <3>2. IsDerived(len', Addr(o))
      BY <1>0, <1>7, <3>1
    <3> QED BY <3>2 DEF OwnPaid
  <2>3. CASE SpendsFirst(s)
    <3>1. PICK o \in In[s] : o.n \in DOMAIN Out[o.tx] /\ First(Addr(o))
      BY <2>3 DEF SpendsFirst
    <3>2. o.tx \in Tx /\ o \in ToSet(Paid(o.tx))
      BY <1>0, <3>1, InFacts, OutputIsPaid
    <3>3. IsDerived(len', Addr(o))
      BY <1>7, <3>1, <3>2
    <3>4. PaysFirst(o.tx)
      BY <3>1, <3>2 DEF PaysFirst
    <3>5. o.tx \in Mined => o.tx \in all'
      BY <1>1, <1>2, <3>4
    <3> QED BY <1>3, <3>1, <3>3, <3>5 DEF SpendsOwn, Mined
  <2> QED BY <1>0, <2>1, <2>2, <2>3 DEF Near
<1>9. \A t \in all' \cup Mined' : PaysFirst(t) => t \in Listed'
  BY <1>1, <1>2, <1>3, <1>4 DEF Mined
<1> QED BY <1>2, <1>4, <1>5, <1>6, <1>8, <1>9 DEF Kept

LEMMA KeptStays ==
    ASSUME MaxReloads = 0 \/ Near, Inv, Kept, [Next]_vars
    PROVE  Kept'
<1>1. ASSUME NEW t \in Tx, Register(t) \/ RemoveTransaction(t) \/ Verify(t, TRUE) \/ Verify(t, FALSE)
      PROVE  Kept'
  <2>1. CASE RemoveTransaction(t)
    BY <2>1, KeptIdle DEF RemoveTransaction, txs
  <2> QED BY <1>1, <2>1, KeptRegister, KeptVerify
<1>2. ASSUME NEW c \in Chains, FillGap(c) \/ AskAddresses(c, 1) \/ AskAddresses(c, GapLimit[c] + ExtraGap)
      PROVE  Kept'
  <2>1. 1 \in Nat /\ GapLimit[c] + ExtraGap \in Nat
    BY LimitsAssumption
  <2>2. FillGap(c) \/ \E gap \in Nat : AskAddresses(c, gap)
    BY <1>2, <2>1
  <2> QED BY <2>2, KeptAddresses
<1>3. CASE Confirm
  BY <1>3, KeptConfirm
<1>4. ASSUME NEW join \in 0 .. MaxHeight - 1, Reorganize(join) PROVE Kept'
  BY <1>4, KeptReorganize
<1>5. CASE RemoveGone \/ RemoveDependents
  BY <1>5, KeptIdle DEF RemoveGone, RemoveDependents, txs
<1>6. CASE RemoveLeaf
  BY <1>6, KeptRemoveLeaf
<1>7. CASE Reload
  <2>1. MaxReloads # 0
    BY <1>7, LimitsAssumption DEF Reload, Inv, Types
  <2> QED BY <1>7, <2>1, KeptReload
<1>8. CASE UNCHANGED vars
  BY <1>8, KeptIdle DEF vars, txs
<1> QED BY <1>1, <1>2, <1>3, <1>4, <1>5, <1>6, <1>7, <1>8 DEF Next

\* While the app is not started again, or each transaction of the wallet has to
\* do with an address before the first gap limit, the list is part of allTx, each listed transaction is the
\* wallet's, and the balance is up to date (RegisterTransaction,
\* UpdateTransactions, RemoveTransaction, BR_WalletNew).
THEOREM KeptAlways ==
    ASSUME MaxReloads = 0 \/ Near
    PROVE  Spec => [](Inv /\ Kept)
<1>1. Init => Inv /\ Kept
  BY Start, KeptStart
<1>2. (Inv /\ Kept) /\ [Next]_vars => (Inv /\ Kept)'
  BY Keeps, KeptStays
<1> QED BY <1>1, <1>2, PTL DEF Spec

\* The list holds each transaction once, and none that was freed as one of
\* others (RegisterTransaction, UpdateTransactions): within one run of the app,
\* and over its restarts where each transaction of the wallet pays to an address
\* before the first gap limit or spends what was paid to one.
THEOREM NoneIsFreed ==
    ASSUME MaxReloads = 0 \/ Near
    PROVE  Spec => []ListOK
<1>1. Inv /\ Kept => ListOK
  <2> SUFFICES ASSUME Inv, Kept PROVE ListOK
    OBVIOUS
  <2>1. Types /\ SumOK /\ Distinct(list) /\ Listed \subseteq all /\ Listed \subseteq Tx /\ list \in Seq(Tx)
    BY ListFacts DEF Inv, Kept, Types
  <2>2. Len(list) = Cardinality(Listed)
    BY <2>1, DistinctCount DEF Listed
  <2>3. sum.invalid \cup sum.pending \subseteq Tx /\ Len(sum.hist) = Len(list)
    BY <2>1 DEF SumOK, Worked
  <2> QED BY <2>1, <2>2, <2>3 DEF ListOK, TypeOK, NothingFreed, Types
<1> QED BY <1>1, KeptAlways, PTL

\* The balance is the sum of what the transactions that count paid to the wallet
\* and none of them spends, and what it received less what it sent, whatever came
\* in between (_BR_WalletUpdateBalance): under the same condition.
THEOREM BalanceIsWhatIsUnspent ==
    ASSUME MaxReloads = 0 \/ Near
    PROVE  Spec => []BalanceIsUnspent
<1>1. Inv /\ Kept => BalanceIsUnspent
  <2> SUFFICES ASSUME Inv, Kept PROVE BalanceIsUnspent
    OBVIOUS
  <2>1. Worked(sum, Listed, Len(list), sum.len, sum.tip) /\ Cleared(sum, Listed, sum.len)
    BY DEF Inv, Kept, SumOK
  <2>2. /\ sum.utxos \in Seq(Outpoint) /\ sum.balance = Total(sum.utxos)
        /\ sum.balance = sum.received - sum.sent
    BY <2>1 DEF Worked
  <2>3. /\ Distinct(sum.utxos)
        /\ \A o : o \in sum.spent <=> \E s \in Listed \ sum.invalid : o \in In[s]
        /\ \A t \in Counted : \A o \in ToSet(Paid(t)) :
              IsDerived(sum.len, Addr(o)) /\ o \notin sum.spent => o \in ToSet(sum.utxos)
        /\ \A o \in ToSet(sum.utxos) : o.tx \in Counted /\ \A s \in Counted : o \notin In[s]
    BY <2>1 DEF Cleared, Counted
  <2>4. Cardinality(ToSet(sum.utxos)) = Len(sum.utxos)
    BY <2>2, <2>3, DistinctCount
  <2> QED BY <2>2, <2>3, <2>4 DEF BalanceIsUnspent
<1> QED BY <1>1, KeptAlways, PTL

\* Working the balance out again would change nothing: what UpdateTransactions
\* skips over makes nothing stale, under the same condition.
THEOREM BalanceStaysFresh ==
    ASSUME MaxReloads = 0 \/ Near
    PROVE  Spec => []BalanceIsFresh
<1>1. Inv /\ Kept => BalanceIsFresh
  BY DEF Kept
<1> QED BY <1>1, KeptAlways, PTL

=============================================================================
