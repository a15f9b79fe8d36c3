CONSTANTS
    NoSnapshot = NoSnapshot
    Pollers = {p1}
    SearchSteps = 1
SPECIFICATION FairSpec
CHECK_DEADLOCK FALSE
PROPERTY RejectedWriterStops
