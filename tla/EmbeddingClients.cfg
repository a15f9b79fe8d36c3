CONSTANTS
    None = None
    Threads = {t1, t2, t3}
    Closers = {k1, k2}
    Configurations = {m1, m2}
    Clients = {a, b, c}
SPECIFICATION LeasesFairSpec
CHECK_DEADLOCK FALSE
INVARIANTS
    InUseIsOpen
    NothingLeaks
PROPERTIES
    ClosingDrains
    CloseReturns
