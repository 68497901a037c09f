SPECIFICATION Spec
CONSTANTS
    e1 = e1
    e2 = e2
    good = good
    bad = bad
    odd = odd
    m1 = m1
    m2 = m2
    Execution <- TwoExecutions
    Row <- AllRows
    Merchant = {m1, m2}
    MerchantOf <- TwoMerchants
    Malformed <- BadRow
    Unfit <- OddRow
    Unscored = {}
    Batches <- Partitions
    ThrottleRetries = 0
    TaskRetries = 1
    LambdaRetries = 0
    Freshness = {TRUE}
    Overlap = TRUE
    Orphans = TRUE
CHECK_DEADLOCK FALSE
SYMMETRY Symmetric
INVARIANTS
    TypeOK
    VerdictCoversOwnRows
    EveryRowAccounted
    SucceededIsServed
PROPERTIES
    NoServedRowLost
