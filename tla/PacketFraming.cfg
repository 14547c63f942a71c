CONSTANTS
    Kinds <- MCKinds
    Classes = {6, 8}
    MaxLen = 5
    PartialSize = 5
    MaxBytes = 10
    Junk <- MCJunk
SPECIFICATION FairSpec
INVARIANTS
    DeliveredIsPrefix
    NothingWithheld
    NoParseAfterReuse
    IndInv
PROPERTIES
    EventuallyDelivered
    ImplementsStream
CHECK_DEADLOCK FALSE
