SPECIFICATION FlowsSpec
CONSTANTS
    StepCount = 3
    Conditionings <- StepConditions
    StepRetries = 1
    MaxWorkflowResumes = 1
    MaxWorkflowFaults = 1
    Calls = {c1,c2}
    RemoteTasks = {t1,t2}
    RequestMaxAttempts = 2
    SSEReconnects = 1
    ReportMaxAttempts = 2
    MaxTransportFaults = 1
    ExportedEvents = {e1,e2,e3}
    ExportConfigs <- ExportSettings
    ExportQueueCapacity = 1
    ExportBatchSize = 2
    MaxExportWorkers = 2
INVARIANTS
    PlansAreOrders
    ResultsFollowConditions
    OneStoryPerTask
PROPERTIES
    SavedWorkIsKept
    RunsEnd
    AcknowledgedCallsAreAnswered
    AcceptedEventsAreExported
CHECK_DEADLOCK FALSE
