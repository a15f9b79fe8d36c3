CONSTANTS
    Kinds = {"law", "case_api", "case_file", "casebook", "consumer", "labor"}
    Contents <- Editions
    GarbledSentences = {4}
    MaxCharacters = 10
    Overlap = 2
    Files = {1, 2}
    Published <- PublishedEditions
    Selections = {{1, 2}, {2}}
    Jobs = {j1, j2}
    Repairer = j1
    MaxEdits = 1
SPECIFICATION FairSpec
CHECK_DEADLOCK FALSE
INVARIANTS
    EmbeddingMatchesText
    ChunksMatchDocument
PROPERTY
    RerunRepairs
