CONSTANTS
    MaxAttempts = 3
    MaxEvents = 3
    MaxVersion = 5
SPECIFICATION StreamFairSpec
INVARIANTS
    ShownInOrder
    SessionAgrees
PROPERTIES
    CallEnds
    OutcomeArrives
CHECK_DEADLOCK FALSE
