CONSTANTS
    None = None
    Threads = {t1, t2, t3}
    Keys = {f1, f2}
    QueryOf <- OneQuery
    Closers = {k1}
    Queries = {q}
    Configurations = {m}
    Clients = {a}
    MaxEntries = 1
SPECIFICATION FairSpec
INVARIANTS
    OneLoad
    WaitersAreServed
    FailuresAreForgotten
    OneRequestPerQuery
PROPERTY
    EverySearchAnswers
