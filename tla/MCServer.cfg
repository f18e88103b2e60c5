SPECIFICATION Spec
CONSTANTS
    Clients = {p1, p2, p3}
    Fds = {f1, f2}
    SubReactorCount = 2
    MaxAccepts = 2
    ChannelCapacity = 1
    SweeperEnabled = TRUE
    NoConn = NoConn
SYMMETRY MCSymmetry
INVARIANTS
    NoLostWakeup
    DescriptorsSafe
PROPERTIES
    NoClientAfterStop
    ResponsesOutliveStop
CHECK_DEADLOCK FALSE
