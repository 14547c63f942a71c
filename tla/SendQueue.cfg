CONSTANTS
    MaxSends = 3
    MaxDowns = 1
    MaxSpacedDowns = 2
SPECIFICATION Spec
INVARIANTS
    NothingLost
    QueueOK
    ExactlyOnce
CHECK_DEADLOCK FALSE
