SPECIFICATION WorkersSpec
CONSTANTS
    Messages = {1}
    Keys = {k1}
    Workers = {w1, w2}
    ContinuationWorkers = {w1}
    Resumers = {r1, r2}
    NoOne = none
    TTLOf <- NoTTL
    NotBeforeOf <- NoDelay
    MaxAttempts = 2
    DLQEnabled = TRUE
    BackoffInitial = 1
    BackoffMax = 1
    JitterPercent = 0
    InflightTimeout = 1
    NackOnError = {w2}
    PauseTime = 2
    Retention = 2
    BatchSize = 2
    WriteFails = 1
    Crashes = 1
INVARIANTS
    SurvivesRestart
    ReadableHistoryIsDurable
    WorkerOwnsDelivery
    ResumedOnce
    ResultIsTrue
PROPERTIES
    EveryMessageSettles
