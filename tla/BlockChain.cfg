SPECIFICATION Spec
CONSTANTS
    Block <- MCBlock
    Prev <- MCPrev
    Height <- MCHeight
    TxOf <- MCTxOf
    Tx = {"t1", "t2", "t3", "t4"}
    Unconfirmed = 8
    Registered <- MCRegistered
    Bad = {"x5"}
    Old = {"a1", "a2"}
    Checkpoints = {"r0", "g"}
    Start = "g"
    Interval = 2
    Announced = {3, 6}
    Peers = {p1, p2}
    MaxEvents = 1
SYMMETRY Symmetric
CHECK_DEADLOCK FALSE
INVARIANTS
    BestChain
    HeightsFollowChain
    NoHonestRefused
    WalksOK
    OrphansWait
