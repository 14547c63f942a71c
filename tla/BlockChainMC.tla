---------------------------- MODULE BlockChainMC ----------------------------
(* Two checkpoints r0 and g, a block y1 that forks off between them, a chain  *)
(* a1 to a4 above g with a fork after a2 that overtakes it, and a bad block.  *)
(* t2 confirms in both branches at different heights, t3 and t4 in the first  *)
(* only, t1 before the fork; the wallet lists t3 in front of t1, and t4       *)
(* behind it.                                                                 *)
EXTENDS BlockChain, TLC

MCBlock == {"r0", "y1", "g", "a1", "a2", "a3", "a4", "b3", "b4", "b5", "x5"}
MCPrev == [b \in MCBlock |->
    CASE b = "y1" -> "r0" [] b = "a1" -> "g" [] b = "a2" -> "a1" [] b \in {"a3", "b3"} -> "a2"
      [] b = "a4" -> "a3" [] b = "b4" -> "b3" [] b = "b5" -> "b4" [] b = "x5" -> "a4" [] OTHER -> None]
MCHeight == [b \in MCBlock |->
    CASE b = "r0" -> 0 [] b = "y1" -> 1 [] b = "g" -> 2 [] b = "a1" -> 3 [] b = "a2" -> 4
      [] b \in {"a3", "b3"} -> 5 [] b \in {"a4", "b4"} -> 6 [] OTHER -> 7]
MCTxOf == [b \in MCBlock |->
    CASE b = "a2" -> {"t1"} [] b = "a3" -> {"t2", "t3", "t4"} [] b = "b4" -> {"t2"} [] OTHER -> {}]
MCList == <<"t3", "t1", "t2", "t4">>
MCRegistered == {[t \in {"t1", "t2", "t3", "t4"} |-> CHOOSE i \in DOMAIN MCList : MCList[i] = t]}
Symmetric == Permutations(Peers)
=============================================================================
