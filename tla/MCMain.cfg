SPECIFICATION MCSpec
CONSTANTS
    Cores = 1
    Cases <- MCCases
    ChannelCapacity = 1
    MaxSignals = 5
INVARIANTS
    SettingsRight
    SignalsHarmless
    DispositionsRestored
PROPERTIES
    SignalStops
CHECK_DEADLOCK FALSE
