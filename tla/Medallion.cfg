SPECIFICATION Spec
CONSTANTS
    LastTick = 3
    BucketsPerDay = 1
    MaxTriggered = 2
    MaxFailures = 1
    Row <- Rows
    EventDay <- OneADay
    LastVersion = 2
    Lookback = 2
    Baseline = 1
    Recompute = 2
    MaxObjects = 2
CHECK_DEADLOCK FALSE
INVARIANTS
    TypeOK
PROPERTIES
    NoStepLoses
    LandedRowCounted
