SPECIFICATION Spec
CONSTANTS
    MaxInflight = 2
    MaxBatch = 1
    FirstTerm = 2
    Histories <- Started
    MaxTerm = 4
    MaxLog = 2
    MaxLate = 1
    MaxLosses = 1
CHECK_DEADLOCK FALSE
INVARIANTS
    MatchIsReal
    CommitsAgree
PROPERTIES
    CatchesUp
