CONSTANTS
    Savers = {s1}
    Runs = {ra}
    MaxAttempts = 1
    Members = {m1}
    Analyses = {a1}
    TermChats = {t1}
    Author <- MCAuthor
    Requests = {q1}
    Connections = 1
    MaxId = 1
SPECIFICATION HistorySpec
CHECK_DEADLOCK FALSE
INVARIANT TermChatsAreAccepted
