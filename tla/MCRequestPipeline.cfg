CONSTANTS
    r1 = r1
    r2 = r2
    r3 = r3
    k1 = k1
    Clients = {r1, r2, r3}
    Keys = {k1}
    WorkerThreads = 2
    BurstSize = 2
    PeriodOf <- MCPeriod
    IdleLimit = 6
    CleanupInterval = 2
    MaxLag = 1
SPECIFICATION Spec
INVARIANTS
    WithinQuota
    SinksAreLive
PROPERTIES
    QueuedIsTaken
    StopEndsServer
CHECK_DEADLOCK FALSE
