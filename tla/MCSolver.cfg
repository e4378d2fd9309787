CONSTANTS
    NPlugins = 2
    MaxEvents = 3
SPECIFICATION FairSpec
INVARIANTS
    TypeOK
    DrainBeforeReturn
    CleanEndCoversStream
    OfferedInOrder
PROPERTIES
    JobsMoveForward
    CancelStops
    KeepsContract
CHECK_DEADLOCK FALSE
