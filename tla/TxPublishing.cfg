SPECIFICATION Spec
CONSTANTS
    p1 = p1  p2 = p2  t1 = t1  t2 = t2
    Peers = {p1, p2}
    Tx = {t1, t2}
    Inputs <- MCInputs
    Settings <- MCSettings
    MaxFailures = 1
    MaxLinks = 2
    MaxEvents = 1
SYMMETRY MCSymmetry
INVARIANTS
    ToldOnce FailedIsFinal PublishedInWallet RelaysConnected ObjectsOK StillTrying
CHECK_DEADLOCK FALSE
