SPECIFICATION AgentSpec
CONSTANTS
    e1 = e1
    Execution = {e1}
    Effect = {f1}
    Owner <- OwnerDef
    Snapshot = {s1, s2}
    Nil = Nil
    Result = {r1}
    MaxStep = 1
    MaxAttempts = 2
PROPERTIES
    TransitionAnswersConflict
