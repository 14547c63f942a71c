CONSTANTS
    Devices = {d1, d2}
    Times = {1, 2, 3, 4, 5, 6, 7, 8, 9, 10, 11, 12, 13, 14, 15, 16, 17, 18, 19, 20, 21, 22, 23, 24}
    Worlds <- AllWorlds
    Slots = {1, 2}
    MaxWrites = 2
SPECIFICATION FairSpec
INVARIANTS
    RowsOK
PROPERTIES
    FetchedIsNewer
    EventuallyConverged
CHECK_DEADLOCK FALSE
