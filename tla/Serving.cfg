SPECIFICATION Spec
CONSTANTS
    x1 = x1
    x2 = x2
    r1 = r1
    r2 = r2
    m1 = m1
    m2 = m2
    Txn <- TwoTxns
    DayOf <- SameDay
    LastDay = 2
    Lookback = 0
    Model <- TwoModels
    MaxRuns = 2
    Request <- TwoRequests
    NoRequest = NoRequest
    TTL = 1
    MaxLoad = 1
    MaxClock = 2
CHECK_DEADLOCK FALSE
SYMMETRY Symmetric
INVARIANTS
    TypeOK
    LedgerAgrees
    BundleWhole
    FreshEnough
    ServedRunRecorded
PROPERTIES
    NoStepBack
