SPECIFICATION Spec
CONSTANTS
    Fds = {f1, f2, f3}
    Conditions <- MCConditions
    INITIAL_EVENT_CAPACITY = 1
    MAX_EVENT_CAPACITY = 2
INVARIANTS
    InterestsConsistent
    GhostsExplained
    NobodyStarves
PROPERTIES
    ImplementsAPI
CHECK_DEADLOCK FALSE
