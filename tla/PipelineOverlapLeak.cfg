SPECIFICATION Spec
CONSTANTS
    e1 = e1
    e2 = e2
    good = good
    bad = bad
    odd = odd
    m1 = m1
    m2 = m2
    Merchant = {m1, m2}
    Execution <- TwoExecutions
    Row <- AllRows
    MerchantOf <- OneMerchant
    Malformed <- BadRow
    Unfit <- OddRow
    Unscored <- None
    Batches <- Partitions
    ThrottleRetries = 0
    TaskRetries = 0
    LambdaRetries = 0
    Freshness = {TRUE}
    Overlap = TRUE
    Orphans = FALSE
CHECK_DEADLOCK FALSE
INVARIANTS
    NeverWrong
