SPECIFICATION FairSpec
CONSTANTS
    e1 = e1
    e2 = e2
    good = good
    bad = bad
    odd = odd
    m1 = m1
    m2 = m2
    Merchant = {m1, m2}
    Execution <- TwoExecutions
    Row <- GoodRow
    MerchantOf <- OneMerchant
    Malformed <- None
    Unfit <- None
    Unscored = {}
    Batches <- GoodPartition
    ThrottleRetries = 1
    TaskRetries = 1
    LambdaRetries = 0
    Freshness = {TRUE}
    Overlap = TRUE
    Orphans = TRUE
CHECK_DEADLOCK FALSE
PROPERTIES
    EveryExecutionEnds
