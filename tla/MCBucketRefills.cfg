CONSTANTS
    r1 = r1
    r2 = r2
    r3 = r3
    k1 = k1
    Clients = {r1}
    Keys = {k1}
    WorkerThreads = 1
    BurstSize = 1
    PeriodOf <- MCPeriod
    IdleLimit = 4
    CleanupInterval = 2
    MaxLag = 1
SPECIFICATION Spec
PROPERTY SteadyIsServed
CHECK_DEADLOCK FALSE
