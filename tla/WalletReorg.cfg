SPECIFICATION Spec
CONSTANTS
    Tx <- MCTx
    In <- MCIn
    Out <- MCOut
    Unconfirmed = 9
    LockTime <- MCLockTime
    GapLimit <- MCGaps
    ExtraGap = 0
    MaxHeight = 2
    MaxReloads = 0
CHECK_DEADLOCK FALSE
INVARIANT
    HeightIsMined
