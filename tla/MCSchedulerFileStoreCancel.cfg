SPECIFICATION StoreSpec
CONSTANTS
    Tasks = {1, 2}
    PriorityOf <- AllNormal
    BoundTasks = {}
    MaxNotBefore = 0
    MaxAttempts = 2
    QoSPriority = FALSE
    FairnessMax = 1
    DLQEnabled = FALSE
    BackoffEnabled = FALSE
    BackoffInitial = 1
    BackoffMultiplier = 1
    BackoffMax = 1
    JitterPercent = 0
    ReentryBudget = 0
    LeaseTimeout = 1
    ReportTimeout = 1
    TimeoutTerminal = "failed"
    ReconcileBatch = 0
    OpIDs = {o1}
    MaxManualRetry = 1
    OutcomeKeys = {k1}
    TimeoutKey = k0
    BatchSize = 2
    Debounce = FALSE
    WriteFails = 1
    Crashes = 1
INVARIANTS
    Reopenable
