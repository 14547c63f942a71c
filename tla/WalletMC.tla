------------------------------ MODULE WalletMC ------------------------------
(* Four transactions: the first pays the wallet twice; the second spends one *)
(* output, to a stranger with change, and the third the same one; the fourth *)
(* spends the other and the change of the second, to the next receive        *)
(* address, and is locked.  As long as the wallet has neither that address   *)
(* nor what it spends it is a stranger's.                                    *)
EXTENDS Wallet

\* Outputs: to a stranger, to a receive address, to a change address.
Away(n) == [chain |-> Foreign, index |-> 0, amount |-> n]
Receive(i, n) == [chain |-> "ext", index |-> i, amount |-> n]
Change(i, n) == [chain |-> "int", index |-> i, amount |-> n]

MCTx == 1 .. 4
MCIn == <<{}, {[tx |-> 1, n |-> 1]}, {[tx |-> 1, n |-> 1]}, {[tx |-> 1, n |-> 2], [tx |-> 2, n |-> 2]}>>
MCOut == <<<<Receive(0, 5), Receive(0, 2)>>, <<Away(2), Change(0, 3)>>, <<Away(4), Change(0, 1)>>,
           <<Receive(1, 5)>>>>
MCLockTime == <<0, 0, 0, 2>>
MCGaps == [c \in Chains |-> 1]
=============================================================================
