SPECIFICATION DisciplinedSpec
CONSTANTS
    Server = server
    Clients = {c1, c2, c3, c4}
    BufferSize = 2
    ReadSizes <- ShortReads
    AcceptFails = FALSE
INVARIANTS
    NoFault
PROPERTY
    PromiseSpec
CHECK_DEADLOCK FALSE
