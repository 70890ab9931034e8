SPECIFICATION FairSpec
CONSTANTS
    e1 = e1
    Execution = {e1}
    Effect = {f1}
    Owner <- OwnerDef
    Snapshot = {1, 2}
    Nil = Nil
    Result <- Nat
    Worker = {w1, w2}
    FreshIds = TRUE
    MaxFailures = 2
    MaxStep = 0
    MaxAttempts = 0
INVARIANTS
    CallsAuthorized
    ResultIsReal
    CompleteIsRefunded
PROPERTIES
    EffectSettles
