SPECIFICATION FairSpec
CONSTANTS
    Clients = {p1}
    Fds = {f1}
    SubReactorCount = 2
    MaxAccepts = 1
    ChannelCapacity = 1
    SweeperEnabled = TRUE
    NoConn = NoConn
PROPERTIES
    StopLeadsToExit
    FailureLeadsToExit
    PendingLeadsToTaken
CHECK_DEADLOCK FALSE
