CONSTANTS
    a1 = a1
    a2 = a2
    c1 = c1
    c2 = c2
    h1 = h1
    h2 = h2
    AgentIds = {a1, a2}
    CommandIds = {c1, c2}
    Hosts = {h1}
    HostOf <- MCHostOf
    ReportStatuses = {}
    WorkerThreads = 2
    MaxCommandHistory = 1
    CommandHistoryPruneCount = 1
    MaxLate = 1
    AcceptedStatuses = {200, 201}
SPECIFICATION FaultySpec
SYMMETRY Perms
INVARIANTS
    NoRedelivery
    AckedFate
    ExecutedAtMostOnce
PROPERTIES
    UnregisteredIsForever
    ImplementsDelivery
    FinalStatusIsTrue
CHECK_DEADLOCK FALSE
