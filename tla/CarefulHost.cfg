SPECIFICATION CarefulFairSpec
CONSTANTS
    MaxStarts = 3
    MaxClients = 2
    InitResults <- SomeResults
    ULONG_MAX = 7
INVARIANTS
    NoFault
    OwnArguments
PROPERTIES
    LifecycleSpec
    StopAdvances
    StartSettles
    StopEndsWithTraffic
CHECK_DEADLOCK FALSE
