SPECIFICATION Spec
CONSTANTS
    Server = {s1, s2, s3}
    Command = {}
    Noop = Noop
    Nil = Nil
    GroupCommit = FALSE
    MaxBatch = 1
    MaxTerm = 3
    MaxElections = 3
    MaxLog = 0
    MaxLate = 0
    MaxRestarts = 0
    MaxPauses = 1
SYMMETRY Symmetry
VIEW View
CONSTRAINT Orderly
CHECK_DEADLOCK FALSE
INVARIANTS
    LogMatching
    ElectableHasCommitted
PROPERTIES
    ImplementsReplicatedLog
