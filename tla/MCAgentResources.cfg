SPECIFICATION ResourcesSpec
CONSTANTS
    e1 = e1
    Execution = {e1}
    Effect = {f1, f2}
    Owner <- OwnerDef
    Snapshot = {s1, s2}
    Nil = Nil
    Result = {r1}
    Resource = {q1, q2}
    MaxStep = 1
    MaxAttempts = 1
    MaxVersion = 1
SYMMETRY Symmetry
INVARIANTS
    CompleteIsSettled
    AuthorizationsSerial
PROPERTIES
    ConflictStopsExecution
    ResultIsFinal
