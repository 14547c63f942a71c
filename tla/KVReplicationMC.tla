--------------------------- MODULE KVReplicationMC ---------------------------
(***************************************************************************)
(* KVReplication for TLC: the devices are alike.                            *)
(***************************************************************************)
EXTENDS KVReplication, TLC

Symmetry == Permutations(Devices)

\* Syncs one after the other on clocks that differ, answers lost.
Skewed == [clocks |-> "skewed", solo |-> FALSE, slots |-> {1}, times |-> {1, 2},
           maxVer |-> 1, maxFaults |-> 1]
\* Syncs of one device that overlap, on clocks that agree; the devices take turns.
Overlapping == [clocks |-> "shared", solo |-> TRUE, slots |-> {1, 2}, times |-> {1, 2},
                maxVer |-> 1, maxFaults |-> 0]
\* One sync at a time on a clock that moves on; maxVer is never reached.
Ticking == [clocks |-> "ticking", solo |-> TRUE, slots |-> {1}, times |-> 1 .. 24,
            maxVer |-> 20, maxFaults |-> 1]

AllWorlds == {Skewed, Overlapping, Ticking}
OverlappingWorlds == {Overlapping}
=============================================================================
