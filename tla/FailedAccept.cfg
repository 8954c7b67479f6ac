SPECIFICATION DisciplinedSpec
CONSTANTS
    Server = server
    Clients = {c1, c2}
    BufferSize = 2
    ReadSizes <- ShortReads
    AcceptFails = TRUE
INVARIANT HearsOfAccepted
CHECK_DEADLOCK FALSE
