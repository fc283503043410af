SPECIFICATION QuerySpec
CONSTANTS
    Tasks = {1}
    PriorityOf <- AllNormal
    BoundTasks = {}
    MaxNotBefore = 0
    MaxAttempts = 2
    QoSPriority = FALSE
    FairnessMax = 1
    DLQEnabled = FALSE
    BackoffEnabled = FALSE
    BackoffInitial = 1
    BackoffMultiplier = 1
    BackoffMax = 1
    JitterPercent = 0
    ReentryBudget = 0
    LeaseTimeout = 1
    ReportTimeout = 1
    TimeoutTerminal = "failed"
    ReconcileBatch = 1
    OpIDs = {}
    MaxManualRetry = 1
    OutcomeKeys = {k1}
    TimeoutKey = k0
    Queries = {q1, q2}
    MaxOwed = 2
    None = None
SYMMETRY QuerySymmetry
INVARIANTS
    CacheShowsTaskStates
