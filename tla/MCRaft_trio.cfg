SPECIFICATION Spec
CONSTANTS
    Server = {s1, s2, s3}
    Command = {}
    Noop = Noop
    Nil = Nil
    GroupCommit = FALSE
    MaxBatch = 9
    MaxTerm = 2
    MaxElections = 3
    MaxLog = 0
    MaxLate = 0
    MaxRestarts = 0
    MaxPauses = 0
SYMMETRY Symmetry
VIEW View
CHECK_DEADLOCK FALSE
INVARIANTS
    ElectionSafety
    LeaderCompleteness
    ReadIndexCurrent
