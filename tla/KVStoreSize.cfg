SPECIFICATION Spec
CONSTANTS
    Keys = {k1, k2}
    Values = {v1}
    Nil = Nil
    NoExpiry = NoExpiry
    Seconds <- MCSeconds
    TicksPerSecond = 2
    SweepBatches = {1, 2}
    MinHeapRecords = 2
    MinStaleRecords = 1
    MaxClock = 3
    MaxGeneration = 3
    MaxOverwrites = 1
SYMMETRY MCSymmetry
CHECK_DEADLOCK FALSE
PROPERTY SizeCountsValidKeys
