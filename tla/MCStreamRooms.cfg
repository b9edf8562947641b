CONSTANTS
    h1 = h1
    h2 = h2
    h3 = h3
    l1 = l1
    l2 = l2
    Requests = {h1, h2, h3}
    Locations = {l1, l2}
    NumWorkers = 2
    ServerThreads = 2
SPECIFICATION Spec
INVARIANTS
    OneRouterPerRoom
    TablesLinked
    TablesBacked
    LeakHasCause
PROPERTIES
    LockReleased
CHECK_DEADLOCK FALSE
