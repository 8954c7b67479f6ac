SPECIFICATION FairSpec
CONSTANTS
    MaxStarts = 2
    MaxClients = 1
    InitResults <- SomeResults
    ULONG_MAX = 7
INVARIANTS
    TypeOK
    StillAliveIsTrue
    NullMeansNotStored
PROPERTIES
    StopIsKept
    AwakeLoopStops
CHECK_DEADLOCK FALSE
