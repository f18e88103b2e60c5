SPECIFICATION FairSweptSpec
CONSTANTS
    Keys = {k1, k2}
    Values = {v1}
    Nil = Nil
    NoExpiry = NoExpiry
    Seconds = {1, 2}
    TicksPerSecond = 1
    SweepBatches = {1}
    MinHeapRecords = 2
    MinStaleRecords = 1
    MaxClock = 2
    MaxGeneration = 2
    MaxOverwrites = 1
PROPERTIES
    SleepsOnlyWhenClean
    ExpiredLeadsToErased
    StopLeadsToSweeperExit
CHECK_DEADLOCK FALSE
