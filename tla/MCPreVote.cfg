SPECIFICATION Spec
CONSTANTS
    Server = {s1, s2, s3}
    Nil = Nil
    MaxTerm = 2
    MaxPolls = 2
    MaxPauses = 1
SYMMETRY Symmetry
CHECK_DEADLOCK FALSE
INVARIANTS
    ElectionsAgreed
    OneElectionPerRound
PROPERTIES
    NoElectionAfterContact
