\* A look-up of the SQLite database may fail.
CONSTANTS
    Jtis = {"j1"}
    HttpThreads = {"w1", "w2"}
    Lifetime = 2
    Ttl = 4
    PurgeInterval = 2
    MaxTime = 6
SPECIFICATION TokenSpec
INVARIANT LookupFailsClosed
CHECK_DEADLOCK FALSE
