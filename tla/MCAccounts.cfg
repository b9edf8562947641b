\* Every statement of a registration may fail and the server may end at any
\* time.  The revocation of a token lapses while the token is still valid.
CONSTANTS
    r1 = r1
    r2 = r2
    r3 = r3
    v1 = v1
    v2 = v2
    u1 = u1
    u2 = u2
    e1 = e1
    e2 = e2
    x1 = x1
    j1 = j1
    w1 = w1
    w2 = w2
    Registrations = {r1, r2, r3}
    Verifications = {v1, v2}
    Usernames = {u1, u2}
    EmailOf <- MCEmailOf
    UserOf <- MCUserOf
    SlugOf <- MCSlugOf
    Suffixes = {x1}
    Jtis = {j1}
    HttpThreads = {w1, w2}
    Lifetime = 3
    Ttl = 2
    PurgeInterval = 2
    MaxTime = 5
SPECIFICATION MCSpec
SYMMETRY Perms
INVARIANTS
    OwnersAreBound
    LateVerifyRefused
    LogoutHolds
    DeniedUntilLapse
CHECK_DEADLOCK FALSE
