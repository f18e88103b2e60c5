SPECIFICATION Spec
CONSTANTS
    Clients = {p1}
    Fds = {f1}
    SubReactorCount = 1
    MaxAccepts = 1
    ChannelCapacity = 1
    SweeperEnabled = FALSE
    NoConn = NoConn
PROPERTIES
    ClientFailureKeepsServer
CHECK_DEADLOCK FALSE
