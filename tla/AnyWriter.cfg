SPECIFICATION FairSpec
CONSTANTS
    Sockets = {tcp, udp}
    UdpSockets = {udp}
    MaxRequests = 4
    Lengths = {2}
INVARIANTS
    TypeOK
    RequestsOwned
PROPERTIES
    DeliverySpec
    RequestsEnd
CHECK_DEADLOCK FALSE
