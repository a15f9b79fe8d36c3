CONSTANTS
    NoSnapshot = NoSnapshot
    Pollers = {p1}
    SearchSteps = 2
SPECIFICATION FairSpec
CHECK_DEADLOCK FALSE
INVARIANTS
    IInv
    OneOutcome
    SavedBeforeCompleted
    OnlyStaleSavesRejected
    FinishedRunForgotten
PROPERTIES
    RefinesLifecycle
    RunSettles
    WorkerEnds
