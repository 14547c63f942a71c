--------------------------- MODULE TxPublishingMC ---------------------------
(* Two peers and a new transaction; or a fixed peer, and a new transaction   *)
(* that spends one that was received.                                        *)
EXTENDS TxPublishing, TLC

CONSTANTS p1, p2, t1, t2

MCInputs == [t \in Tx |-> IF t = t2 THEN {t1} ELSE {}]
MCTwoPeers == [max |-> 2, peers |-> {p1, p2}, sent |-> {t1}, received |-> {}]
MCFixedPeer == {[max |-> 1, peers |-> {p}, sent |-> {t2}, received |-> {t1}] : p \in Peers}
MCSettings == {MCTwoPeers} \cup MCFixedPeer
MCSymmetry == Permutations(Peers)
=============================================================================
