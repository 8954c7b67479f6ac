SPECIFICATION Spec
CONSTANTS
    Users = {t1, t2}
    NoUser = NoUser
    MaxObjects = 2
INVARIANTS
    TypeOK
    DanglesOnlyInDisconnect
    NoFault
    NothingLost
    

    
CHECK_DEADLOCK FALSE
