SPECIFICATION Spec
CONSTANTS
    Pages = {p1, p2}
    Accounts = {a1, a2}
    Admin = admin
    Emails = {e1}
    AdminEmail = e0
    Tokens = {t1, t2}
    Items = {i1, i2}
    Threads = {s1, s2}
    Scenes <- MCScenes
    None = None
SYMMETRY Symmetry
INVARIANTS
    PageShowsItsUser
    OneAccountPerEmail
    DeletedStaysDeleted
CHECK_DEADLOCK FALSE
