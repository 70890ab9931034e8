SPECIFICATION Spec
CONSTANTS
    Server = {s1, s2, s3, s4}
    Bootstrap = {s1, s2, s3, s4}
    Nil = Nil
    MaxTerm = 3
    MaxLog = 3
SYMMETRY Symmetry
VIEW View
CONSTRAINT Orderly
CHECK_DEADLOCK FALSE
INVARIANTS
    ElectionSafety
