CONSTANTS
    ReconnectThreads = {t1, t2}
    maxReconnectAttempts = 2
    MaxConnects = 2
SPECIFICATION ProducerSpec
INVARIANT DisconnectCancels
CHECK_DEADLOCK FALSE
