SPECIFICATION Spec
CONSTANTS
    MaxTop = 13
    Tops <- LongTops
    Pays <- LatePays
    Gap = 3
    Spare = 1
    Batch = 4
    HeaderBatch = 2
    Switch = 6
    Key = 7
    Ignored = 8
    Recent = 9
    MaxLosses = 0
    MaxUpdates = 0
INVARIANTS
    HonestKept
CHECK_DEADLOCK FALSE
