CONSTANTS
    Savers = {s1, s2, s3}
    Runs = {ra, rb}
    MaxAttempts = 2
    Members = {m1, m2}
    Analyses = {a1, a2}
    TermChats = {t1}
    Author <- MCAuthor
    Requests = {q1, q2}
    Connections = 2
    MaxId = 2
SPECIFICATION HistorySpec
SYMMETRY Symmetry
CHECK_DEADLOCK FALSE
INVARIANTS
    ReportedIsKept
    SavedIsWhole
    FollowUpsHaveTheirContext
PROPERTIES
    AtomicUpdates
