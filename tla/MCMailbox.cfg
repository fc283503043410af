SPECIFICATION Spec
CONSTANTS
    Messages = {1, 2}
    Keys = {k1, k2}
    Workers = {w1, w2}
    ContinuationWorkers = {w1}
    Resumers = {r1}
    NoOne = none
    TTLOf <- FirstExpires
    NotBeforeOf <- SecondWaits
    MaxAttempts = 2
    DLQEnabled = TRUE
    BackoffInitial = 1
    BackoffMax = 1
    JitterPercent = 0
    InflightTimeout = 1
    NackOnError = {}
    PauseTime = 2
    Retention = 2
INVARIANTS
    QueueIsTheQueued
    DeliveriesBounded
    HistoryIsFaithful
SYMMETRY KeySymmetry
