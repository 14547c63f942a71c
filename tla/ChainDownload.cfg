SPECIFICATION Spec
CONSTANTS
    MaxTop = 11
    Tops <- McTops
    Pays <- McPays
    Gap = 2
    Spare = 1
    Batch = 4
    HeaderBatch = 2
    Switch = 3
    Key = 4
    Ignored = 5
    Recent = 6
    MaxLosses = 2
    MaxUpdates = 1
INVARIANTS
    NothingMissed
    FilterOK
    AnswersAccepted
    NoStall
PROPERTIES
    Synced
CHECK_DEADLOCK FALSE
