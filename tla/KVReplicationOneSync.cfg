CONSTANTS
    Devices = {d1, d2}
    Times = {1, 2}
    Worlds <- OverlappingWorlds
    Slots = {1, 2}
    MaxWrites = 2
SPECIFICATION Spec
SYMMETRY Symmetry
INVARIANT
    OneSyncAtATime
CHECK_DEADLOCK FALSE
