SPECIFICATION Spec
CONSTANTS
    Terms = {1, 2}
    VectorWeight = 7
    KeywordWeight = 3
    Threshold = 50
    RrfK = 2
    CandidateLimit = 4
    TopK = 2
    MaxDocuments = 3
    MaxWindows = 2
    Budget = 4
    Visible = 3
    MaxClaims = 2
    Requests <- MCRequests
INVARIANTS
    AnswerIsGrounded
    BestCandidatesFirst
PROPERTIES
    ProgressInOrder
    AnalysisEnds
CHECK_DEADLOCK FALSE
