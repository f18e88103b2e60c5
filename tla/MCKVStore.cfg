SPECIFICATION Spec
CONSTANTS
    Keys = {k1, k2}
    Values = {v1, v2}
    Nil = Nil
    NoExpiry = NoExpiry
    Seconds <- MCSeconds
    TicksPerSecond = 2
    SweepBatches = {1, 2}
    MinHeapRecords = 2
    MinStaleRecords = 1
    MaxClock = 4
    MaxGeneration = 2
    MaxOverwrites = 1
SYMMETRY MCSymmetry
INVARIANTS
    CountersRight
    HeapConsistent
PROPERTIES
    SweepDoneMeansClean
    SweepBoundsHeap
    RefinesTTLMap
CHECK_DEADLOCK FALSE
