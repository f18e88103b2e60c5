SPECIFICATION FairSpec
CONSTANTS
    Reactors = {r1, r2}
    PlainCounters = {"bytesReceived"}
    Bound1 = 1
    Bound2 = 2
    Bounds <- MCBounds
    Latencies = {1, 3}
    Sizes = {1, 2}
    Percent = 60
    Wrap = 64
    MaxCalls = 2
    Window = 1
INVARIANTS
    StatsExact
    ActiveNeverWraps
PROPERTIES
    MaximaRaised
CHECK_DEADLOCK FALSE
