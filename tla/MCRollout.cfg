SPECIFICATION Spec
CONSTANTS
    c1 = c1
    c2 = c2
    p1 = p1
    v1 = v1
    v2 = v2
    Nil = Nil
    Controller = {c1, c2}
    Pod = {p1}
    Version = {v1, v2}
    Key <- KeyDef
    Value <- ValueDef
    Target <- TargetDef
    Forward = {c1}
    First = v1
    ExpectedPods = 1
    MaxFaults = 2
CHECK_DEADLOCK FALSE
INVARIANTS
    TypeOK
    EventsTellStore
    FlipOnce
    FlipIsLoaded
    RunHoldsLock
    FollowsCurrent
