SPECIFICATION Spec
CONSTANTS
    e1 = e1
    e2 = e2
    good = good
    bad = bad
    odd = odd
    m1 = m1
    m2 = m2
    Merchant = {m1, m2}
    Execution <- TwoExecutions
    Row <- AllRows
    MerchantOf <- TwoMerchants
    Malformed <- BadRow
    Unfit <- OddRow
    Unscored = {}
    Batches <- Partitions
    ThrottleRetries = 1
    TaskRetries = 1
    LambdaRetries = 1
    Freshness = {TRUE, FALSE}
    Overlap = FALSE
    Orphans = FALSE
CHECK_DEADLOCK FALSE
INVARIANTS
    NeverWrong
PROPERTIES
    GatedLakeImplemented
