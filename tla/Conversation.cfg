SPECIFICATION Spec
CONSTANTS
    t1 = t1
    t2 = t2
    t3 = t3
    c1 = c1
    c2 = c2
    t4 = t4
    t5 = t5
    Alone = Alone
    NoTurn = NoTurn
    Turn <- FiveTurns
    Conversations = {c1, c2}
    ConversationOf <- TwoConversations
    Tool = {"query_lakehouse"}
    MaxIterations = 1
    RecursionLimit = 4
    Concurrent = {c2}
CHECK_DEADLOCK FALSE
SYMMETRY Symmetric
INVARIANTS
    TypeOK
    CapHolds
    BudgetPerTurn
    HistoryKept
    ConversationsIsolated
