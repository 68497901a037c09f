SPECIFICATION Spec
SYMMETRY Symmetric
CONSTANTS
    c1 = c1
    c2 = c2
    Customer <- Customers
    NoCustomer = NoCustomer
    Far = 2
    Second = 2
    MinAmount = 1
    MaxAmount = 16
    Hour = 2
    Day = 3
    Month = 3
    HighHour = 2
    HighDay = 3
    MinHistory = 2
    Outlier = 3
    Precision = 1
    SpeedLimit = 1
    Spend = {2}
    Probe = 2
    Hits = {4}
    BurstSizes = {2}
    Steps = {0, 2}
    Factors = {8, 9}
    MaxEvents = 3
    Moments = {2, 5, 11}
    MaxCorrupt = 1
    StoreCap = 2
    CallerFields = {"amount_zscore_30d"}
    Requested = {2, 7, 16}
CHECK_DEADLOCK FALSE
INVARIANTS
    TypeOK
    BoundaryExact
    BurstCaught
    TravelCaught
    VelocityParity
    ServedAsTrained
