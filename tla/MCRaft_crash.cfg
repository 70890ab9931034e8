SPECIFICATION Spec
CONSTANTS
    Server = {s1, s2}
    Command = {c1}
    Noop = Noop
    Nil = Nil
    GroupCommit = TRUE
    MaxBatch = 9
    MaxTerm = 2
    MaxElections = 2
    MaxLog = 4
    MaxLate = 1
    MaxRestarts = 1
    MaxPauses = 1
SYMMETRY Symmetry
VIEW View
CONSTRAINT LateApart
CHECK_DEADLOCK FALSE
INVARIANTS
    TypeOK
    AcknowledgedOnDisk
    CommittedOnDisk
    CommandOnce
PROPERTIES
    CommittedNeverTruncated
    VoteIsFinal
