CONSTANTS
    NoSnapshot = NoSnapshot
    Pollers = {p1}
    SearchSteps = 1
SPECIFICATION Spec
CHECK_DEADLOCK FALSE
INVARIANT ResultAnnounced
