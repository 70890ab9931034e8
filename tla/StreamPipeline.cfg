SPECIFICATION Spec
CONSTANTS
    Partitions = 2
    Times = {0, 4}
    MaxRetained = 1
    PollSize = 3
    MaxRecords = 3
    MaxGenerations = 2
    MaxHeld = 2
    MaxFailures = 1
    Lateness = 1
    Size = 3
    Slide = 1
    Retention = 1
    LatePolicy = "update"
CHECK_DEADLOCK FALSE
INVARIANTS
    TypeOK
    NoCommittedRefetch
    NothingPassedOver
    EffectsWithOffsets
    SlowestHoldsBack
    NoWindowLeftBehind
    ResultStands
    EmittedOnce
