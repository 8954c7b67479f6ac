SPECIFICATION CarefulFairSpec
CONSTANTS
    MaxStarts = 1
    MaxClients = 0
    InitResults <- SomeResults
    ULONG_MAX = 7
PROPERTY StopReturns
CHECK_DEADLOCK FALSE
