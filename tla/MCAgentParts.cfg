CONSTANTS
    t1 = t1
    t2 = t2
    Capacity = 2
    ThresholdChecks = 2
    LastStep = 2
    MaxFrames = 3
    MaxSessions = 2
    ReconnectThreads = {t1, t2}
    maxReconnectAttempts = 2
    MaxConnects = 2
    kMaxPayload = 8
    kStapSmallLimit = 3
    SeqModulus = 5
    Slices <- MCSlices
    Versions = {1, 2}
    MaxSlices = 2
SPECIFICATION MCSpec
INVARIANTS
    FreshestKept
    EncoderOutlivesUsers
    QualityLadder
    GuardHasThread
    PacketsCarryFrame
    LocksAreHeld
PROPERTIES
    PipelineStops
    CommandsReturn
CHECK_DEADLOCK FALSE
