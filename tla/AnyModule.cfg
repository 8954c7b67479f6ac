SPECIFICATION FairSpec
CONSTANTS
    Server = server
    Clients = {c1, c2, c3, c4}
    BufferSize = 2
    ReadSizes <- AllReads
    AcceptFails = TRUE
INVARIANTS
    TypeOK
    DataWhileAlive
    ReturnsClean
PROPERTIES
    ClosedIsFreed
    StopReturnsFromLoop
CHECK_DEADLOCK FALSE
