SPECIFICATION Spec
CONSTANTS
    c1 = c1
    c2 = c2
    s1 = s1
    s2 = s2
    Unknown = Unknown
    Total = 3
    Customer <- TwoCustomers
    CustomerOf <- Customers3
    Shard <- TwoShards
    ShardOf <- Hash
    MaxRecords = 2
    MaxAttempts = 2
    MaxLostAnswers = 1
    Malformed = {}
    Stamp <- Stamps3
    BatchSize = 2
    MaxEvents = 2
    Horizon = 1
    Retention = 2
    MaxClock = 4
    MaxFailures = 1
CHECK_DEADLOCK FALSE
INVARIANTS
    TypeOK
    SummaryHonest
    
    NothingSkipped
