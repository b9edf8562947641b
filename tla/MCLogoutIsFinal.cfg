\* The revocation lapses while the token is still valid.
CONSTANTS
    Jtis = {"j1"}
    HttpThreads = {"w1", "w2"}
    Lifetime = 4
    Ttl = 2
    PurgeInterval = 2
    MaxTime = 5
SPECIFICATION TokenSpec
INVARIANT LogoutIsFinal
CHECK_DEADLOCK FALSE
