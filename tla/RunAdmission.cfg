CONSTANTS
    None = None
    Other = Other
    Processes = {p1, p2}
    Clients = {c1, c2}
    Keys = {k1}
    Bodies = {b1, b2}
    Runs = {r0, r1, r2}
    LegacyRun = r0
    Capacity = 1
SPECIFICATION Spec
SYMMETRY Symmetry
CHECK_DEADLOCK FALSE
INVARIANTS
    StartedOncePerKey
    AnswersAgree
    ReservedRunReadable
    LocalRunsAccounted
    SlotsAccounted
