SPECIFICATION Spec
CONSTANTS
    Tasks = {1, 2}
    PriorityOf <- AllNormal
    BoundTasks = {2}
    MaxNotBefore = 1
    MaxAttempts = 4
    QoSPriority = FALSE
    FairnessMax = 1
    DLQEnabled = FALSE
    BackoffEnabled = TRUE
    BackoffInitial = 1
    BackoffMultiplier = 2
    BackoffMax = 2
    JitterPercent = 100
    ReentryBudget = 2
    LeaseTimeout = 2
    ReportTimeout = 2
    TimeoutTerminal = "failed"
    ReconcileBatch = 2
    OpIDs = {o1}
    MaxManualRetry = 1
    OutcomeKeys = {k1}
    TimeoutKey = k0
INVARIANTS
    LateReportIsRecorded
