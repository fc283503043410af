SPECIFICATION StoresSpec
CONSTANTS
    Tasks = {1}
    PriorityOf <- AllNormal
    BoundTasks = {}
    MaxNotBefore = 0
    MaxAttempts = 2
    QoSPriority = FALSE
    FairnessMax = 1
    DLQEnabled = FALSE
    BackoffEnabled = FALSE
    BackoffInitial = 1
    BackoffMultiplier = 1
    BackoffMax = 1
    JitterPercent = 0
    ReentryBudget = 0
    LeaseTimeout = 1
    ReportTimeout = 1
    TimeoutTerminal = "failed"
    ReconcileBatch = 1
    OpIDs = {}
    MaxManualRetry = 1
    OutcomeKeys = {k1}
    TimeoutKey = k0
    Queries = {q1, q2}
    MaxOwed = 2
    None = None
    MemIds = {1,2}
    MemUpserts <- Batches
    MemDeletes = {{1}}
    BlankId = 0
    MemRetention = 1
    MemTTL = 0
    FsyncBatch = 2
    CompactMinOps = 3
    CompactMaxLog = 9
    MaxMemSeq = 2
    MaxMemClock = 1
    MaxMemFaults = 1
    NoFile = NoFile
    Torn = Torn
    NoRecord = NoRecord
    Unsure = Unsure
    Bodies = {a,b}
    References = {r}
    JournalRetention = 2
    LedgerRetention = 2
    MaxHistorySeq = 4
    MaxHistoryFaults = 1
    MaxHistoryCrashes = 2
    Adapters = {a1,a2}
    FactCount = 2
    PageLimit = 2
    RecentWindow = 1
    MaxRevision = 6
    MaxAmends = 1
    MaxInterrupts = 1
    Writers = {p1,p2}
    Checkpoints = {c1,c2}
    Outcomes = {ok}
    CheckpointRoom = 2
    MaxLeases = 2
    MaxAdmissions = 2
    MaxPublications = 3
    MaxWriteFaults = 1
    Resumers = {r1,r2}
    ResumeIdentities = {i,j}
    MaxGeneration = 2
    MaxResumeFaults = 2
    MaxResumeCrashes = 1
    Alerts = {l1,l2,l3}
    AlertQueueSize = 1
    AlertMaxAttempts = 2
    AlertThreshold = 2
    AlertOpenWindow = 1
    AlertProbes = 2
    Probers = {h1,h2}
    HealthOptions <- Governances
    MaxHealthTime = 3
    ResultTTL = 1
    BackoffDelays = {1}
    ProbeFailureThreshold = 2
    CircuitOpenDuration = 1
    HalfOpenMaxProbe = 2
    HalfOpenSuccessThreshold = 2
INVARIANTS
    CacheIsCurrentBarBlindSpots
    
    LedgerFollowsJournal
    RepairStaysPossible
    ReopensUnlessAckTrimmed
    CursorCoversAnswered
    OneContentPerFact
    OneAttemptPerCheckpoint
    AcknowledgedIsDurable
    
    AlertSlotsInUse
    ProbeSlotsInUse
PROPERTIES
    DriftIsExplained
CHECK_DEADLOCK FALSE
