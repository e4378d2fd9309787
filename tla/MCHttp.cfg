CONSTANTS
    Names = {"a", "b"}
    Values = {1, 2}
    Tables <- MCTables
    MaxOps = 3
    MaxOthers = 1
    Commands <- MCCommands
    BadBody = BadBody
    None = None
    Half64 = 4
    MaxInvocations = 3
    KnownAssets <- MCKnownAssets
    MetaDecimals <- MCMetaDecimals
    BtcDecimals = 8
    Seeds <- MCSeeds
    Solves = {s1, s2, s3}
    Asked = {0, 1, 2, 3}
    MaxLimit = 2
    DefaultLimit = 1
    Second = 2
    MaxClock = 3
    Absent = Absent
    Bodies <- MCBodies
    Nothing = Nothing
    Null = Null
    MaxFetches = 3
SPECIFICATION HttpSpec
CHECK_DEADLOCK FALSE
INVARIANTS
    ShownWasThere
    QuietViewIsTrue
    OutcomeIsTrue
    RetriedAddIsSafe
    ListIsRight
    
PROPERTIES
    ImplementsPairs
    ClientsEnd
