SPECIFICATION CarefulSpec
CONSTANTS
    MaxStarts = 2
    MaxClients = 1
    InitResults <- SomeResults
    ULONG_MAX = 7
INVARIANT ServesUntilStopped
CHECK_DEADLOCK FALSE
