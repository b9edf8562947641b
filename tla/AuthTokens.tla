----------------------------- MODULE AuthTokens -----------------------------
(***************************************************************************)
(* The life of a login token: AuthController issues and revokes it,        *)
(* AuthMiddleware and JwtAuth accept or refuse it on every protected       *)
(* route, TokenStore remembers that it was revoked.                        *)
(*                                                                         *)
(* TokenStore locks its mutex once per method.  A call of                  *)
(* JwtAuth::authenticate is split between purging, validating (which       *)
(* compares exp with the clock and locks nothing) and the lookup of the    *)
(* denylist; a logout authenticates twice, in the middleware and in the    *)
(* handler, and reads the clock before it takes the mutex to revoke.  A    *)
(* thread may be suspended anywhere for any time.                          *)
(*                                                                         *)
(* Time.  Timestamps are truncated to seconds; the clock itself is not,    *)
(* and is the second it is in and whether it is exactly on it.             *)
(***************************************************************************)
EXTENDS Naturals

CONSTANTS
    Jtis,           \* JWT ids, UUIDs given once
    HttpThreads,    \* threads of the HTTP server
    Lifetime,       \* jwtExpirySeconds: 3600, 86400 where deployed
    Ttl,            \* k_defaultRevocationTtl: 3600
    PurgeInterval,  \* kTokenPurgeIntervalCalls: 100
    MaxTime         \* bound: seconds the model runs for

\* Nothing relates Ttl to Lifetime: the one is fixed, the other configured.
ASSUME TokenAssumption ==
    /\ {Lifetime, Ttl, PurgeInterval} \subseteq Nat \ {0}
    /\ MaxTime \in Nat

VARIABLES
    now, onSecond,   \* the clock
    expiresAt,       \* jti -> claim exp, 0 before the token is issued
    m_useSqlite,     \* a tokenRevocationFile is configured
    revokedUntil,    \* revoked_tokens: jti -> expires_at, 0 without row
    m_memRevoked,    \* the denylist when there is no file
    authCount,       \* calls of authenticate, modulo PurgeInterval
    auth,            \* thread -> the request it serves
    loggedOut,       \* jtis a logout was answered 204 for
    unstored,        \* those of them the denylist never got, or lost
    denyUntil        \* jti -> Ttl after its first revocation read the clock

storeVars == <<m_useSqlite, revokedUntil, m_memRevoked>>
clockVars == <<now, onSecond>>
logVars   == <<loggedOut, unstored, denyUntil>>
tokenVars == <<clockVars, expiresAt, storeVars, authCount, auth, logVars>>

\* blind: the lookup of the denylist failed.
NoRequest == [op |-> "none", step |-> "idle", jti |-> "none", late |-> FALSE,
              blind |-> FALSE, until |-> 0]

\* JwtAuth::create, with or without a revocation file.
TokenInit ==
    /\ now = 0 /\ onSecond = TRUE
    /\ expiresAt    = [j \in Jtis |-> 0]
    /\ m_useSqlite  \in BOOLEAN
    /\ revokedUntil = [j \in Jtis |-> 0]
    /\ m_memRevoked = {}
    /\ authCount    = 0
    /\ auth         = [w \in HttpThreads |-> NoRequest]
    /\ loggedOut    = {}
    /\ unstored     = {}
    /\ denyUntil    = [j \in Jtis |-> 0]

\* The thread goes from one step of its request to the next.
AuthGoes(w, from, to) ==
    /\ auth[w].step = from
    /\ auth' = [auth EXCEPT ![w].step = to]

----------------------------------------------------------------------------
(* AuthController::handleLogin *)

\* Whoever has logged in, as teacher, student, administrator or with a key,
\* gets a token; so does an agent that registers.
HandleLogin(j) ==
    /\ expiresAt[j] = 0
    /\ expiresAt' = [expiresAt EXCEPT ![j] = now + Lifetime]
    /\ UNCHANGED <<clockVars, storeVars, authCount, auth, logVars>>

----------------------------------------------------------------------------
(* JwtAuth::authenticate, called by AuthMiddleware::process ("request",    *)
(* "gate") and by handleLogout ("logout").                                 *)

\* A protected route, DELETE /api/v1/auth ("gate") among them, is called with
\* token j.
HandleProtected(w, op, j) ==
    /\ auth[w] = NoRequest
    /\ expiresAt[j] # 0
    /\ auth' = [auth EXCEPT ![w] = [op |-> op, step |-> "count", jti |-> j,
                                    late |-> j \in loggedOut, blind |-> FALSE,
                                    until |-> 0]]
    /\ UNCHANGED <<clockVars, expiresAt, storeVars, authCount, logVars>>

\* Every PurgeInterval-th call purges first.
CountCall(w) ==
    /\ authCount' = (authCount + 1) % PurgeInterval
    /\ AuthGoes(w, "count", IF authCount' = 0 THEN "purge" ELSE "validate")
    /\ UNCHANGED <<clockVars, expiresAt, storeVars, logVars>>

\* Mutant of PurgedRows: expires_at >= ? instead of expires_at <= ?.
PurgedRowsLive == {j \in Jtis : revokedUntil[j] >= now}

\* DELETE FROM revoked_tokens WHERE expires_at <= now.
PurgedRows == {j \in Jtis : revokedUntil[j] <= now}

\* TokenStore::purgeExpired; a failure is logged, and memory is not purged.
PurgeExpired(w) ==
    /\ AuthGoes(w, "purge", "validate")
    /\ \/ /\ m_useSqlite
          /\ revokedUntil' = [j \in Jtis |-> IF j \in PurgedRows THEN 0
                                             ELSE revokedUntil[j]]
       \/ UNCHANGED revokedUntil
    /\ UNCHANGED <<clockVars, expiresAt, m_useSqlite, m_memRevoked, authCount,
                   logVars>>

\* JwtValidator::validate of a token this server has signed: now > exp fails.
Valid(j) == now < expiresAt[j] \/ (now = expiresAt[j] /\ onSecond)

\* 401; handleLogout revokes the raw token instead.
Refuse(w, failed) ==
    auth' = [auth EXCEPT ![w] = IF @.op = "logout"
                                THEN [@ EXCEPT !.step = "raw", !.blind = failed]
                                ELSE NoRequest]

Accept(w, failed) ==
    auth' = [auth EXCEPT ![w] = [@ EXCEPT !.step = "passed", !.blind = failed]]

Validate(w) ==
    /\ auth[w].step = "validate"
    /\ IF Valid(auth[w].jti) THEN AuthGoes(w, "validate", "lookup")
       ELSE Refuse(w, FALSE)
    /\ UNCHANGED <<clockVars, expiresAt, storeVars, authCount, logVars>>

\* TokenStore::isRevoked.
IsRevoked(j) == IF m_useSqlite THEN revokedUntil[j] > now
                ELSE j \in m_memRevoked

Lookup(w) ==
    /\ auth[w].step = "lookup"
    /\ IF IsRevoked(auth[w].jti) THEN Refuse(w, FALSE) ELSE Accept(w, FALSE)
    /\ UNCHANGED <<clockVars, expiresAt, storeVars, authCount, logVars>>

\* A statement that cannot be prepared counts as revoked, one that cannot be
\* stepped as not revoked.
LookupFails(w) ==
    /\ m_useSqlite
    /\ auth[w].step = "lookup"
    /\ Refuse(w, TRUE) \/ Accept(w, TRUE)
    /\ UNCHANGED <<clockVars, expiresAt, storeVars, authCount, logVars>>

\* The handler of the route runs and answers.
ServeRequest(w) ==
    /\ auth[w].step = "passed" /\ auth[w].op = "request"
    /\ auth' = [auth EXCEPT ![w] = NoRequest]
    /\ UNCHANGED <<clockVars, expiresAt, storeVars, authCount, logVars>>

----------------------------------------------------------------------------
(* AuthController::handleLogout *)

\* It authenticates once more, to get at the jti.
HandleLogout(w) ==
    /\ auth[w].step = "passed" /\ auth[w].op = "gate"
    /\ auth' = [auth EXCEPT ![w] = [@ EXCEPT !.op = "logout", !.step = "count",
                                             !.blind = FALSE]]
    /\ UNCHANGED <<clockVars, expiresAt, storeVars, authCount, logVars>>

\* TokenStore::revoke: the clock is read ...
Revoke(w) ==
    LET j == auth[w].jti
    IN /\ auth[w].step = "passed" /\ auth[w].op = "logout"
       /\ auth' = [auth EXCEPT ![w] = [@ EXCEPT !.step = "store",
                                                !.until = now + Ttl]]
       /\ denyUntil' = [denyUntil EXCEPT ![j] = IF @ = 0 THEN now + Ttl ELSE @]
       /\ UNCHANGED <<clockVars, expiresAt, storeVars, authCount, loggedOut,
                      unstored>>

Answer204(w) ==
    /\ auth'      = [auth EXCEPT ![w] = NoRequest]
    /\ loggedOut' = loggedOut \cup {auth[w].jti}

\* Mutant of RevokeWithExpiry: the key is the token, not its jti.
RevokeWithTokenAsKey(w) ==
    /\ auth[w].step = "store"
    /\ Answer204(w)
    /\ UNCHANGED <<clockVars, expiresAt, storeVars, authCount, unstored,
                   denyUntil>>

\* ... INSERT OR REPLACE, also over a later expires_at; 204.
RevokeWithExpiry(w) ==
    LET j == auth[w].jti
    IN /\ auth[w].step = "store"
       /\ IF m_useSqlite
          THEN /\ revokedUntil' = [revokedUntil EXCEPT ![j] = auth[w].until]
               /\ UNCHANGED m_memRevoked
          ELSE /\ m_memRevoked' = m_memRevoked \cup {j}
               /\ UNCHANGED revokedUntil
       /\ Answer204(w)
       /\ UNCHANGED <<clockVars, expiresAt, m_useSqlite, authCount, unstored,
                      denyUntil>>

\* The INSERT fails: an error is logged, and 204 all the same.
RevokeFails(w) ==
    /\ auth[w].step = "store" /\ m_useSqlite
    /\ Answer204(w)
    /\ unstored' = unstored \cup {auth[w].jti}
    /\ UNCHANGED <<clockVars, expiresAt, storeVars, authCount, denyUntil>>

\* The second authentication failed: an entry no lookup asks for; 204.
RevokeRawToken(w) ==
    /\ auth[w].step = "raw"
    /\ Answer204(w)
    /\ unstored' = IF auth[w].blind THEN unstored \cup {auth[w].jti}
                   ELSE unstored
    /\ UNCHANGED <<clockVars, expiresAt, storeVars, authCount, denyUntil>>

----------------------------------------------------------------------------
(* The environment *)

\* The server is started again: requests and the denylist in memory are gone.
RestartServer ==
    /\ auth'         = [w \in HttpThreads |-> NoRequest]
    /\ authCount'    = 0
    /\ m_memRevoked' = {}
    /\ unstored'     = IF m_useSqlite THEN unstored ELSE unstored \cup loggedOut
    /\ UNCHANGED <<clockVars, expiresAt, m_useSqlite, revokedUntil, loggedOut,
                   denyUntil>>

TimePasses ==
    /\ \/ onSecond /\ onSecond' = FALSE /\ UNCHANGED now
       \/ ~onSecond /\ now < MaxTime /\ onSecond' = TRUE /\ now' = now + 1
    /\ UNCHANGED <<expiresAt, storeVars, authCount, auth, logVars>>

Authenticate(w) ==
    \/ CountCall(w)
    \/ PurgeExpired(w)
    \/ Validate(w)
    \/ Lookup(w)
    \/ LookupFails(w)

Logout(w) ==
    \/ HandleLogout(w)
    \/ Revoke(w)
    \/ RevokeWithExpiry(w)
    \/ RevokeFails(w)
    \/ RevokeRawToken(w)

TokenNext ==
    \/ \E j \in Jtis : HandleLogin(j)
    \/ \E w \in HttpThreads :
          \/ \E j \in Jtis, op \in {"request", "gate"} : HandleProtected(w, op, j)
          \/ Authenticate(w)
          \/ ServeRequest(w)
          \/ Logout(w)
    \/ RestartServer
    \/ TimePasses

TokenSpec == TokenInit /\ [][TokenNext]_tokenVars

----------------------------------------------------------------------------
(* Properties *)

AuthOps   == {"request", "gate", "logout"}
AuthSteps == {"count", "purge", "validate", "lookup", "passed", "store", "raw"}
AuthCalls == {NoRequest} \cup [op : AuthOps, step : AuthSteps, jti : Jtis,
                               late : BOOLEAN, blind : BOOLEAN, until : Nat]

\* The types of clock, denylist and requests.
TokenTypeOK ==
    /\ now \in Nat /\ onSecond \in BOOLEAN
    /\ expiresAt    \in [Jtis -> Nat]
    /\ m_useSqlite  \in BOOLEAN
    /\ revokedUntil \in [Jtis -> Nat]
    /\ m_memRevoked \subseteq Jtis
    /\ authCount    \in 0..(PurgeInterval - 1)
    /\ auth         \in [HttpThreads -> AuthCalls]
    /\ loggedOut    \subseteq Jtis
    /\ unstored     \subseteq Jtis
    /\ denyUntil    \in [Jtis -> Nat]

\* A request let in although it began after a logout of its token was answered
\* 204, and the denylist had got the revocation and not lost it in a restart.
LetInAgain(w) ==
    /\ auth[w].step = "passed" /\ auth[w].late
    /\ auth[w].jti \notin unstored

\* A row's time is over: Ttl has passed since the first logout read the clock.
\* Nothing lapses in memory.
Lapsed(j) == m_useSqlite /\ denyUntil[j] # 0 /\ now >= denyUntil[j]

\* A stored logout holds for the whole Ttl of the revocation: a request that
\* began after the 204 is let in only once Ttl seconds have passed since a
\* logout of the token read the clock, or when its own lookup failed.  Purging,
\* logouts that overwrite each other's rows, refused second authentications and
\* threads suspended at any point open no other way.
LogoutHolds ==
    \A w \in HttpThreads :
       LetInAgain(w) => Lapsed(auth[w].jti) \/ auth[w].blind

\* The denylist itself: the entry of a stored logout is there until it has
\* lapsed, whatever is purged or replaced meanwhile, unless the token had
\* expired before it could be entered.
DeniedUntilLapse ==
    \A j \in loggedOut \ unstored : IsRevoked(j) \/ Lapsed(j) \/ ~Valid(j)

\* "Must exceed the maximum JWT lifetime so the token cannot be re-used after
\* the entry is deleted" (TokenStore.cpp:27): with every statement working, a
\* token does not come back after its logout.
LogoutIsFinal == \A w \in HttpThreads : LetInAgain(w) => auth[w].blind

\* "FAIL-CLOSED: deny access when DB is unavailable" (TokenStore.cpp:226): a
\* lookup that fails lets no revoked token in.
LookupFailsClosed ==
    \A w \in HttpThreads : LetInAgain(w) => Lapsed(auth[w].jti)
=============================================================================
