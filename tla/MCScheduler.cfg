SPECIFICATION FairSpec
CONSTANTS
    Tasks = {1, 2}
    PriorityOf <- HighLow
    BoundTasks = {2}
    MaxNotBefore = 0
    MaxAttempts = 2
    QoSPriority = TRUE
    FairnessMax = 1
    DLQEnabled = TRUE
    BackoffEnabled = TRUE
    BackoffInitial = 1
    BackoffMultiplier = 2
    BackoffMax = 1
    JitterPercent = 0
    ReentryBudget = 0
    LeaseTimeout = 1
    ReportTimeout = 1
    TimeoutTerminal = "dead_letter"
    ReconcileBatch = 0
    OpIDs = {o1, o2}
    MaxManualRetry = 1
    OutcomeKeys = {k1}
    TimeoutKey = k0
INVARIANTS
    OneLiveAttempt
    NoLostTask
    CommitsMatchAttempts
    SourceTellsTheTruth
    FairnessWindow
PROPERTIES
    FirstTerminalWins
    ImplementsLifecycle
