SPECIFICATION Spec
CONSTANTS
    Tx <- MCTx
    In <- MCIn
    Out <- MCOut
    Unconfirmed = 9
    LockTime <- MCLockTime
    GapLimit <- MCGaps
    ExtraGap = 0
    MaxHeight = 2
    MaxReloads = 1
CHECK_DEADLOCK FALSE
INVARIANTS
    BalanceIsUnspent
    
    ListOK
    HeightIsMinedInOrder
PROPERTIES
    RemovedWithDependents
    ToldIfValid
    GapIsOpen
