SPECIFICATION A2ASpec
CONSTANTS
    Calls = {c1, c2}
    RemoteTasks = {t1, t2}
    RequestMaxAttempts = 2
    SSEReconnects = 1
    ReportMaxAttempts = 2
    MaxTransportFaults = 1
PROPERTY TakenTasksEnd
CHECK_DEADLOCK FALSE
