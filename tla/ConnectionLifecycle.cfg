CONSTANTS
    MaxConns = 5
    MaxEvents = 3
    MaxSharedEvents = 2
SPECIFICATION FairSpec
INVARIANTS
    NoStaleData
    NoStall
    Agreement
    SocketsOK
PROPERTY
    EventuallyInSession
