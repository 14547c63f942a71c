------------------------------- MODULE Wallet -------------------------------
(***************************************************************************)
(* BR_Wallet.c: the transactions of a Bitcoin wallet, what they leave       *)
(* unspent, and the addresses the wallet watches.                           *)
(*                                                                         *)
(* Every function of the wallet is one or more sections under wallet->lock, *)
(* and each section is an action.  The functions that change transactions   *)
(* are called by BR_PeerManager.c, which holds its own lock meanwhile, so   *)
(* that they do not run at the same time; those that only want an address   *)
(* come in between, from the screens.                                       *)
(*                                                                         *)
(* Transactions are names with inputs and outputs: scripts, signatures and  *)
(* hashes are left out, and only the addresses the wallet can derive        *)
(* matter, by chain and index.                                              *)
(***************************************************************************)
EXTENDS Integers, FiniteSets, Sequences, SequencesExt

CONSTANTS
    Tx,           \* the transactions that peers may relay
    In,           \* their inputs: the outpoints [tx, n] they spend
    Out,          \* their outputs: sequences of [chain, index, amount]
    Unconfirmed,  \* TX_UNCONFIRMED, a height above all others
    LockTime,     \* the height each is locked until: 0 if it is not, and one above
                  \* all others if it is too large, replaceable or has dust outputs
    GapLimit,     \* SEQUENCE_GAP_LIMIT_EXTERNAL and _INTERNAL
    ExtraGap,     \* what the bloom filter adds to them
    MaxHeight,    \* bound on the height of the chain
    MaxReloads    \* bound on the restarts of the app

Chains == {"ext", "int"}
Foreign == "none"           \* the chain of addresses that are not the wallet's

ASSUME TxAssumption ==
    /\ IsFiniteSet(Tx)
    /\ In \in [Tx -> SUBSET [tx : Tx, n : Nat]]
    /\ Out \in [Tx -> Seq([chain : Chains \cup {Foreign}, index : Nat, amount : Nat])]
    /\ LockTime \in [Tx -> Nat]
ASSUME LimitsAssumption ==
    /\ GapLimit \in [Chains -> Nat \ {0}] /\ ExtraGap \in Nat
    /\ MaxHeight \in Nat /\ MaxReloads \in Nat
    /\ Unconfirmed \in Nat /\ Unconfirmed > MaxHeight

VARIABLES
    list,      \* wallet->transactions
    all,       \* wallet->allTx
    height,    \* blockHeight of each transaction
    len,       \* how many addresses of each chain are generated
    chain,     \* the blocks the peers tell of: the transactions of Tx in each
    tip,       \* wallet->blockHeight
    sum,       \* what _BR_WalletUpdateBalance left behind
    filling,   \* chains for which RegisterTransaction still generates addresses
    removing,  \* the calls of RemoveTransaction under way, the inner one first
    told,      \* the last txDeleted: the transaction and whether to notify
    reloads,   \* restarts so far
    ordered    \* history: the list has always been in order of height

txs == <<list, all, height, ordered>>
vars == <<txs, len, chain, tip, sum, filling, removing, told, reloads>>

Spends(s, t) == \E o \in In[s] : o.tx = t
AmountAt(o) == Out[o.tx][o.n].amount
Listed == ToSet(list)

\* Addresses are pairs of a chain and an index.
Addr(o) == <<Out[o.tx][o.n].chain, Out[o.tx][o.n].index>>
Paid(t) == [n \in DOMAIN Out[t] |-> [tx |-> t, n |-> n]]
IsDerived(l, a) == a[1] \in Chains /\ a[2] < l[a[1]]

Total(os) == FoldLeft(LAMBDA a, o : a + AmountAt(o), 0, os)

\* What is left of s without the members of D.
Without(s, D) ==
    LET kept[i \in 0 .. Len(s)] ==
            IF i = 0 THEN <<>>
            ELSE IF s[i] \in D THEN kept[i - 1] ELSE Append(kept[i - 1], s[i])
    IN  kept[Len(s)]

-----------------------------------------------------------------------------
(* _BR_WalletUpdateBalance                                                  *)

Empty == [utxos |-> <<>>, spent |-> {}, invalid |-> {}, pending |-> {}, used |-> {},
          balance |-> 0, received |-> 0, sent |-> 0, hist |-> <<>>,
          len |-> GapLimit, tip |-> 0]

Refused(a, t, h) ==
    h[t] = Unconfirmed /\ \E o \in In[t] : o \in a.spent \/ o.tx \in a.invalid
Postponed(a, t, h, top) ==
    h[t] = Unconfirmed /\ \/ LockTime[t] > top + 1
                          \/ \E o \in In[t] : o.tx \in a.pending

\* Of the outputs, those that no transaction so far spends.
Unspent_Own(os, a, t) == Without(os, In[t])
Unspent(os, a, t) == Without(os, a.spent)

\* A transaction that counts; only one that does takes spent outputs out of the
\* unspent ones.
Count(a, t, l) ==
    LET mine == Without(Paid(t), {o \in ToSet(Paid(t)) : ~ IsDerived(l, Addr(o))})
        utxos == Unspent(a.utxos \o mine, a, t)
        balance == Total(utxos)
        rise == balance - a.balance
    IN  [a EXCEPT !.utxos = utxos, !.used = @ \cup {Addr(o) : o \in ToSet(Paid(t))},
                  !.balance = balance, !.hist = Append(@, balance),
                  !.received = IF rise > 0 THEN @ + rise ELSE @,
                  !.sent = IF rise < 0 THEN @ - rise ELSE @]

Account(a, t, h, l, top) ==
    IF Refused(a, t, h)
    THEN [a EXCEPT !.invalid = @ \cup {t}, !.hist = Append(@, a.balance)]
    ELSE LET b == [a EXCEPT !.spent = @ \cup In[t]]
         IN  IF Postponed(b, t, h, top)
             THEN [b EXCEPT !.pending = @ \cup {t}, !.hist = Append(@, b.balance)]
             ELSE Count(b, t, l)

UpdateBalance(ts, h, l, top) ==
    FoldLeft(LAMBDA a, t : Account(a, t, h, l, top), [Empty EXCEPT !.len = l, !.tip = top], ts)

-----------------------------------------------------------------------------
(* The order of the list                                                    *)

\* Whether a belongs behind b: it is higher, or spends it, if need be over
\* several transactions.
Ascending(a, b, known, h) ==
    LET behind[x \in Tx] ==
            CASE h[x] > h[b] -> TRUE
              [] h[x] < h[b] -> FALSE
              [] Spends(x, b) -> TRUE
              [] Spends(b, x) -> FALSE
              [] OTHER -> \E o \in In[x] : o.tx \in known /\ behind[o.tx]
    IN  behind[a]

\* The last address of a chain that a pays to, or -1.
ChainIndex(a, c, l) ==
    LET js == {o.index : o \in {p \in ToSet(Out[a]) : p.chain = c /\ p.index < l[c]}}
    IN  IF js = {} THEN -1 ELSE CHOOSE j \in js : \A k \in js : k <= j

Behind(a, b, known, h, l) ==
    IF Ascending(a, b, known, h) THEN TRUE
    ELSE IF Ascending(b, a, known, h) THEN FALSE
    ELSE LET i == ChainIndex(a, "int", l)
             j == ChainIndex(b, IF i = -1 THEN "ext" ELSE "int", l)
             k == IF i = -1 THEN ChainIndex(a, "ext", l) ELSE i
         IN  k # -1 /\ j # -1 /\ k > j

\* _BR_WalletInsertTx: in front of the block of transactions at the end that
\* belong behind it.
Insert(ts, t, known, h, l) ==
    LET stop == CHOOSE i \in 0 .. Len(ts) :
                    /\ \A j \in i + 1 .. Len(ts) : Behind(ts[j], t, known, h, l)
                    /\ i > 0 => ~ Behind(ts[i], t, known, h, l)
    IN  SubSeq(ts, 1, stop) \o <<t>> \o SubSeq(ts, stop + 1, Len(ts))

Sorted(ts, h) == \A i, j \in DOMAIN ts : i < j => h[ts[i]] <= h[ts[j]]

-----------------------------------------------------------------------------
(* BR_WalletUnusedAddrs                                                     *)

\* The number of addresses in the chain once gap of them follow the last used
\* one: a new address that has been used already starts the gap again.
Generated_Once(l, c, gap, used) ==
    LET unused == Max({0} \cup {j + 1 : j \in {k \in 0 .. l - 1 : <<c, k>> \in used}})
    IN  Max({l, unused + gap})
Generated(l, c, gap, used) ==
    LET unused(n) == Max({0} \cup {j + 1 : j \in {k \in 0 .. n - 1 : <<c, k>> \in used}})
        grow[n \in Nat] == IF unused(n) + gap > n THEN grow[n + 1] ELSE n
    IN  grow[l]

UnusedAddrs(c, gap) == len' = [len EXCEPT ![c] = Generated(@, c, gap, sum.used)]

-----------------------------------------------------------------------------
(* The sections under the lock                                              *)

Init ==
    /\ list = <<>> /\ all = {} /\ height = [t \in Tx |-> Unconfirmed]
    /\ len = GapLimit /\ chain = <<>> /\ tip = 0
    /\ sum = Empty
    /\ filling = {} /\ removing = <<>> /\ told = <<>> /\ reloads = 0 /\ ordered = TRUE

Mined == UNION ToSet(chain)
KeepOrdered == ordered' = (ordered /\ Sorted(list', height'))

\* No function that BR_PeerManager.c calls is under way.
Free == filling = {} /\ removing = <<>>

\* _BR_WalletContainsTx: it pays to the wallet, or spends what a known
\* transaction paid to it.
ContainsTx(t) ==
    \/ \E o \in ToSet(Paid(t)) : IsDerived(len, Addr(o))
    \/ \E o \in In[t] : o.tx \in all /\ o.n \in DOMAIN Out[o.tx] /\ IsDerived(len, Addr(o))

IsNew(t) == t \notin all

\* RegisterTransaction: an unconfirmed transaction of others is only known.
Register(t) ==
    /\ Free /\ IsNew(t) /\ t \notin Mined
    /\ all' = all \cup {t} /\ height' = [height EXCEPT ![t] = Unconfirmed]
    /\ IF ContainsTx(t)
       THEN /\ list' = Insert(list, t, all', height', len)
            /\ sum' = UpdateBalance(list', height', len, tip)
            /\ filling' = Chains
       ELSE UNCHANGED <<list, sum, filling>>
    /\ KeepOrdered
    /\ told' = <<>> /\ UNCHANGED <<len, chain, tip, removing, reloads>>

\* Its two calls of BR_WalletUnusedAddrs, the external chain first.
FillGap(c) ==
    /\ c \in filling /\ (c = "int" => "ext" \notin filling)
    /\ UnusedAddrs(c, GapLimit[c])
    /\ filling' = filling \ {c}
    /\ told' = <<>> /\ UNCHANGED <<txs, chain, tip, sum, removing, reloads>>

\* A screen asks for an address, or the bloom filter for many.
AskAddresses(c, gap) ==
    /\ UnusedAddrs(c, gap) /\ len' # len
    /\ told' = <<>> /\ UNCHANGED <<txs, chain, tip, sum, filling, removing, reloads>>

\* BR_WalletUpdateTransactions, of transactions with another height or timestamp
\* than before: timestamps are not kept.  The balance is worked out again only if one of
\* them was pending or invalid; a confirmed transaction of others is forgotten.
NeedsUpdate_Pending(mine) == mine \cap sum.pending # {}
NeedsUpdate(mine) == mine \cap (sum.pending \cup sum.invalid) # {}
Forgotten_All(changing, mine) == changing
Forgotten(changing, mine) == changing \ mine
UpdateTransactions(ts, h) ==
    LET changing == ts \cap all
        mine == {t \in changing : ContainsTx(t)}
    IN  /\ tip' = IF h > tip THEN h ELSE tip
        /\ height' = [t \in Tx |-> IF t \in changing THEN h ELSE height[t]]
        /\ all' = IF h = Unconfirmed THEN all ELSE all \ Forgotten(changing, mine)
        /\ sum' = IF NeedsUpdate(mine) THEN UpdateBalance(list, height', len, tip') ELSE sum
        /\ UNCHANGED list /\ KeepOrdered
        /\ told' = <<>> /\ UNCHANGED <<len, filling, removing, reloads>>

\* What a block chain can hold: no two spend the same output, and what they
\* spend is in it too.
Consistent(ts) ==
    /\ \A s, t \in ts : s # t => In[s] \cap In[t] = {}
    /\ \A t \in ts : \A o \in In[t] : o.tx \in ts

\* A new block confirms transactions that were relayed before.
Confirm ==
    /\ Free /\ Len(chain) < MaxHeight
    /\ \E ts \in SUBSET (all \ Mined) :
          /\ Consistent(ts \cup Mined)
          /\ chain' = Append(chain, ts)
          /\ UpdateTransactions(ts, Len(chain'))

\* Enough peers relayed an unconfirmed transaction, or one rejected it.
Verify(t, differs) ==
    /\ Free /\ t \in Listed /\ height[t] = Unconfirmed
    /\ UpdateTransactions({s \in {t} : differs}, Unconfirmed)
    /\ UNCHANGED chain

\* BR_WalletSetTxUnconfirmedAfter: those at the end of the list.
After_AtLeast(ts, h, from) == {ts[i] : i \in {j \in DOMAIN ts : \A k \in j .. Len(ts) : h[ts[k]] >= from}}
After(ts, h, from) == {ts[i] : i \in {j \in DOMAIN ts : \A k \in j .. Len(ts) : h[ts[k]] > from}}
Reorganize(join) ==
    /\ Free /\ join < Len(chain)
    /\ chain' = SubSeq(chain, 1, join) /\ tip' = join
    /\ LET ts == After(list, height, join)
       IN  /\ height' = [t \in Tx |-> IF t \in ts THEN Unconfirmed ELSE height[t]]
           /\ sum' = IF ts = {} THEN sum ELSE UpdateBalance(list, height', len, tip')
    /\ UNCHANGED list /\ KeepOrdered
    /\ told' = <<>> /\ UNCHANGED <<all, len, filling, removing, reloads>>

-----------------------------------------------------------------------------
(* BR_WalletRemoveTransaction, which calls itself between two sections      *)

\* Those it finds that spend t: it stops at the first confirmed one.
Dependents_Last(t) ==
    Without(SubSeq(list, Len(list), Len(list)), {s \in Listed : s = t \/ ~ Spends(s, t)})
Dependents(t) ==
    LET from == CHOOSE i \in 1 .. Len(list) + 1 :
                    /\ \A j \in i .. Len(list) : height[list[j]] >= height[t]
                    /\ i > 1 => height[list[i - 1]] < height[t]
    IN  Without(SubSeq(list, from, Len(list)), {s \in Listed : s = t \/ ~ Spends(s, t)})

AmountSent(t) ==
    LET mine == {o \in In[t] : o.tx \in all /\ o.n \in DOMAIN Out[o.tx] /\ IsDerived(len, Addr(o))}
    IN  Total(SetToSeq(mine))

\* BR_WalletTransactionIsValid.
IsValid_Known(t, known, a) == t \notin a.invalid
IsValid(t, known, a) ==
    LET valid[x \in Tx] ==
            height[x] = Unconfirmed =>
                /\ IF x \in known THEN x \notin a.invalid ELSE In[x] \cap a.spent = {}
                /\ \A o \in In[x] : o.tx \in known => valid[o.tx]
    IN  valid[t]

\* The peers have dropped an unconfirmed transaction.
RemoveTransaction(t) ==
    /\ Free /\ t \in Listed /\ height[t] = Unconfirmed
    /\ removing' = <<t>>
    /\ told' = <<>> /\ UNCHANGED <<txs, len, chain, tip, sum, filling, reloads>>

RemoveGone ==
    /\ removing # <<>> /\ Head(removing) \notin all
    /\ removing' = Tail(removing)
    /\ told' = <<>> /\ UNCHANGED <<txs, len, chain, tip, sum, filling, reloads>>

RemoveDependents ==
    /\ removing # <<>>
    /\ LET t == Head(removing)
       IN  /\ t \in all /\ Dependents(t) # <<>>
           /\ removing' = Dependents(t) \o removing
    /\ told' = <<>> /\ UNCHANGED <<txs, len, chain, tip, sum, filling, reloads>>

\* The user is told of a payment that was valid so far, and advised to look at
\* the chain again when all it spends is confirmed.
RemoveLeaf ==
    /\ removing # <<>>
    /\ LET t == Head(removing)
           notify == AmountSent(t) > 0 /\ IsValid(t, all', sum')
       IN  /\ t \in all /\ Dependents(t) = <<>>
           /\ all' = all \ {t}
           /\ list' = Without(list, {t})
           /\ sum' = UpdateBalance(list', height, len, tip)
           /\ told' = [tx |-> t, notify |-> notify,
                       rescan |-> notify /\ \A o \in In[t] : o.tx \in all' /\ height[o.tx] # Unconfirmed]
    /\ removing' = Tail(removing)
    /\ UNCHANGED <<height, len, chain, tip, filling, reloads>> /\ KeepOrdered

-----------------------------------------------------------------------------
\* BR_WalletNew inserts the transactions before it derives any address.
Inserted(order, h) ==
    LET none == [c \in Chains |-> 0]
    IN  FoldLeft(LAMBDA ts, t : Insert(ts, t, ToSet(ts) \cup {t}, h, none), <<>>, order)

\* The app starts again: BR_WalletNew with the transactions it saved, in the
\* order the database gives them, the first one of which must be the wallet's.
Reload ==
    /\ Free /\ reloads < MaxReloads /\ reloads' = reloads + 1
    /\ \E order \in SetToSeqs(Listed) :
          LET used == UNION {{Addr(o) : o \in ToSet(Paid(t))} : t \in Listed}
          IN  /\ list' = Inserted(order, height)
              /\ all' = Listed
              /\ len' = [c \in Chains |-> Generated(0, c, GapLimit[c], used)]
              /\ tip' = 0
              /\ sum' = UpdateBalance(list', height, len', 0)
              /\ order # <<>> => ContainsTx(order[1])'
    /\ UNCHANGED height /\ KeepOrdered
    /\ told' = <<>> /\ UNCHANGED <<chain, filling, removing>>

Next ==
    \/ \E t \in Tx : Register(t) \/ RemoveTransaction(t) \/ Verify(t, TRUE) \/ Verify(t, FALSE)
    \/ \E c \in Chains : FillGap(c) \/ AskAddresses(c, 1) \/ AskAddresses(c, GapLimit[c] + ExtraGap)
    \/ Confirm
    \/ \E join \in 0 .. MaxHeight - 1 : Reorganize(join)
    \/ RemoveGone \/ RemoveDependents \/ RemoveLeaf
    \/ Reload

Spec == Init /\ [][Next]_vars

-----------------------------------------------------------------------------
(* Properties                                                               *)

TypeOK ==
    /\ Len(list) = Cardinality(Listed) /\ all \subseteq Tx
    /\ height \in [Tx -> 1 .. MaxHeight \cup {Unconfirmed}]
    /\ len \in [Chains -> Nat] /\ chain \in Seq(SUBSET Tx)
    /\ tip \in 0 .. MaxHeight \cup {Unconfirmed}
    /\ sum.invalid \cup sum.pending \subseteq Tx /\ Len(sum.hist) = Len(list)
    /\ filling \subseteq Chains /\ removing \in Seq(Tx) /\ reloads \in 0 .. MaxReloads

Counted == Listed \ (sum.invalid \cup sum.pending)

\* The unspent outputs are what the transactions that count paid to the wallet
\* and none of them spends, each once, and the balance is their sum and the
\* difference of what was received and sent: whatever order they came in,
\* whatever was confirmed, thrown out of the chain or removed since
\* (_BR_WalletUpdateBalance).
BalanceIsUnspent ==
    /\ Cardinality(ToSet(sum.utxos)) = Len(sum.utxos)
    /\ \A t \in Counted : \A o \in ToSet(Paid(t)) :
          IsDerived(sum.len, Addr(o)) /\ ~ (\E s \in Listed \ sum.invalid : o \in In[s])
              => o \in ToSet(sum.utxos)
    /\ \A o \in ToSet(sum.utxos) : o.tx \in Counted /\ ~ \E s \in Counted : o \in In[s]
    /\ sum.balance = Total(sum.utxos) /\ sum.balance = sum.received - sum.sent

\* What UpdateTransactions leaves alone would not change if it were worked out
\* again: nothing it skips over makes the balance stale.
BalanceIsFresh == sum = UpdateBalance(list, height, sum.len, sum.tip)

\* The transactions of the list are in allTx too: none was freed as one of
\* others while the wallet still lists it (UpdateTransactions).
NothingFreed == ordered => Listed \subseteq all

\* Together: the list holds each transaction once, and none that was freed
\* (RegisterTransaction, UpdateTransactions).
ListOK == TypeOK /\ NothingFreed

\* What the wallet takes for confirmed is in the chain, in that very block, and
\* the rest is not, also after a reorganisation (SetTxUnconfirmedAfter).
HeightIsMined ==
    \A t \in Listed : IF height[t] = Unconfirmed THEN t \notin Mined
                      ELSE height[t] \in DOMAIN chain /\ t \in chain[height[t]]

\* As long as the transactions confirm in the order the wallet lists them.
HeightIsMinedInOrder == ordered => HeightIsMined

\* A transaction is not removed while the list holds one that spends it:
\* RemoveTransaction finds all that depend on it first, and they stay removed
\* while it lets the lock go in between.  Again in that order only.
RemovedWithDependents ==
    [][ordered /\ reloads' = reloads =>
          \A t \in Listed \ ToSet(list') : \A s \in ToSet(list') : ~ Spends(s, t)]_vars

\* The user is told of a removal just when a payment of the wallet that was
\* valid until then is gone, no other transaction of the list spends the same
\* in its place and what it spends is valid (RemoveTransaction asks BR_WalletTransactionIsValid of a
\* transaction it has removed already).
ToldIfValid ==
    [][told' # <<>> =>
        LET t == told'.tx
            replaced == \E s \in ToSet(list') \ sum'.invalid : In[s] \cap In[t] # {}
            sunk == \E o \in In[t] : o.tx \in sum'.invalid
        IN  told'.notify <=>
                AmountSent(t) > 0 /\ t \notin sum.invalid /\ ~ replaced /\ ~ sunk]_vars

\* Once RegisterTransaction is over, both chains end in a gap of unused
\* addresses, those it found used beyond the old end included.
GapIsOpen ==
    [][filling # {} /\ filling' = {} =>
          \A c \in Chains : \A i \in len'[c] - GapLimit[c] .. len'[c] - 1 : <<c, i>> \notin sum.used]_vars
=============================================================================
