SPECIFICATION Spec
CONSTANTS
    a1 = a1
    a2 = a2
    v1 = v1
    v2 = v2
    Client <- Clients
    Asker <- Askers
    Viewer <- Viewers
    Cap = 1
    Unlimited = 9
    Timeout = 0
    MaxGold = 2
    DefaultTables = {}
    TableOrder <- OneTable
    NoLimit = NoLimit
    Expression = Expression
    SchemaTTL = 1
    MaxVersion = 1
    Nobody = Nobody
    Statements <- Answers
    MaxRepairs = 1
    Name = {"daily"}
    Parts <- OneDashboard
    TTL = 1
    Groups <- Pairs
CHECK_DEADLOCK FALSE
INVARIANTS
    TypeOK
    TruncationVisible
    PromptedAccepted
    NoOrphanQuery
    FreshEnough
PROPERTIES
    SchemaSurvives
    EveryQuestionEnds
