CONSTANTS
    NPlugins = 1
    MaxEvents = 2
    Requests = {r1, r2}
    Envs <- MCEnvs
    Unset = Unset
    Junk = Junk
    None = None
    Failed = Failed
    DefaultGRPCPort = 1
    DefaultHTTPPort = 2
    MaxPort = 8
    Taken = {3}
    MaxFaults = 2
    MaxCrashes = 2
SPECIFICATION LifeSpec
INVARIANTS
    SolvesHaveResources
    HandlersHaveResources
    StatusHonest
    StartedSoundly
    GivesUpForCause
PROPERTIES
    SignalExits
CHECK_DEADLOCK FALSE
