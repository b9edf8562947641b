CONSTANTS
    a1 = a1
    c1 = c1
    c2 = c2
    m1 = m1
    f1 = f1
    g1 = g1
    s1 = s1
    l1 = l1
    l2 = l2
    k1 = k1
    t1 = t1
    t2 = t2
    u1 = u1
    u2 = u2
    h1 = h1
    h2 = h2
    w1 = w1
    w2 = w2
    q1 = q1
    q2 = q2
    p1 = p1
    p2 = p2
    AgentIds = {a1}
    CommandIds = {c1, c2}
    MaxCommandHistory = 1
    CommandHistoryPruneCount = 1
    LocalComputers = {m1}
    Features = {f1, g1}
    agentFeatureUid <- LockScreen
    Schools = {s1}
    Locations = {l1, l2}
    ClassIds = {k1}
    TeacherIds = {t1, t2}
    TeacherNames = {u1, u2}
    Handlers = {h1, h2}
    Teachers = {t1}
    Classes = {k1}
    Students = {p1, p2}
    Requests = {q1, q2}
    Machines = {m1}
    UsernameOf <- MCUsernameOf
    Workers = {w1, w2}
    StudentClaims = {"username", "id"}
    TeacherClaims = {"", "tenant"}
SPECIFICATION MCSpec
SYMMETRY Perms
INVARIANTS
    ActiveIsTold
    BatchIsWhole
    StructureHolds
    PasswordHasConsent
    OlderPendingHasCause
    BoundUnderPassword
    ReferencesHold
PROPERTY ImplementsConsent
CHECK_DEADLOCK FALSE
