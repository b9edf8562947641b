-------------------------- MODULE AuthTokensProofs --------------------------
(***************************************************************************)
(* Proofs about AuthTokens, for every number of tokens and threads, every  *)
(* purge interval, every lifetime of tokens and every Ttl of revocations:  *)
(* nothing is assumed of how long the one is against the other.            *)
(***************************************************************************)
EXTENDS AuthTokens, TLAPS

\* A revocation that is in force, or whose time is over.  Only the loss of a
\* denylist in memory undoes it.
Denied(j) ==
    IF m_useSqlite
    THEN /\ denyUntil[j] # 0
         /\ denyUntil[j] <= revokedUntil[j] \/ denyUntil[j] <= now
    ELSE j \in m_memRevoked

\* A revocation lies at most Ttl ahead, a row lasts as long as the first
\* revocation of its token, and a token that was logged out was issued and is
\* denied, or was over.
TokenBook ==
    \A j \in Jtis :
       /\ denyUntil[j] <= now + Ttl
       /\ revokedUntil[j] # 0 => /\ denyUntil[j] # 0
                                 /\ denyUntil[j] <= revokedUntil[j]
       /\ j \in loggedOut => expiresAt[j] # 0
       /\ j \in loggedOut /\ j \notin unstored => Denied(j) \/ ~Valid(j)

\* What is true of a request c at each of its steps.
CallOK(c) ==
    /\ c.step # "idle" => expiresAt[c.jti] # 0
    /\ c.late => c.jti \in loggedOut
    /\ c.step = "lookup" /\ c.late => c.jti \in unstored \/ Denied(c.jti)
    /\ c.step = "store" => denyUntil[c.jti] # 0 /\ denyUntil[c.jti] <= c.until
    /\ c.step = "raw" => c.blind \/ ~Valid(c.jti) \/ Denied(c.jti)
    /\ c.step = "passed" /\ c.late =>
          c.jti \in unstored \/ Lapsed(c.jti) \/ c.blind

CallBook == \A w \in HttpThreads : CallOK(auth[w])

TokenInv == TokenTypeOK /\ TokenBook /\ CallBook

----------------------------------------------------------------------------
(* Facts about requests. *)

Requests == [op : AuthOps, step : AuthSteps, jti : Jtis, late : BOOLEAN,
             blind : BOOLEAN, until : Nat]

\* A thread without a request is idle and not late.
LEMMA IdleFields ==
    NoRequest \in AuthCalls /\ NoRequest.step = "idle" /\ NoRequest.late = FALSE
  BY DEF NoRequest, AuthCalls

\* A request under way has its fields.
LEMMA CallFields ==
    ASSUME NEW c \in AuthCalls
    PROVE  /\ c.step # "idle" => /\ c \in Requests /\ c.jti \in Jtis
                                 /\ c.until \in Nat
           /\ c.step = "idle" => c = NoRequest /\ c.late = FALSE
<1>1. CASE c = NoRequest
  BY <1>1 DEF NoRequest
<1>2. CASE c \in Requests
  BY <1>2 DEF AuthSteps, Requests
<1> QED BY <1>1, <1>2 DEF AuthCalls, Requests

\* What is known of the request a thread is in.
LEMMA CurrentCall ==
    ASSUME TokenInv, NEW w \in HttpThreads, auth[w].step # "idle"
    PROVE  /\ auth[w] \in AuthCalls /\ auth[w] \in Requests /\ CallOK(auth[w])
           /\ auth[w].jti \in Jtis /\ expiresAt[auth[w].jti] # 0
           /\ auth[w].until \in Nat
<1>1. auth[w] \in AuthCalls /\ CallOK(auth[w])
  BY DEF TokenInv, TokenTypeOK, CallBook
<1> QED BY <1>1, CallFields DEF CallOK

\* A request goes on to another step, having read the clock, having looked the
\* token up, or from the middleware to handleLogout.
On(c, s)     == [c EXCEPT !.step = s]
At(c, s, t)  == [c EXCEPT !.step = s, !.until = t]
Is(c, s, b)  == [c EXCEPT !.step = s, !.blind = b]
As(c, o, s)  == [c EXCEPT !.op = o, !.step = s, !.blind = FALSE]

\* It keeps its token.
LEMMA MovedOn ==
    ASSUME NEW c \in Requests, NEW s \in AuthSteps
    PROVE  /\ On(c, s) \in AuthCalls /\ On(c, s).step = s
           /\ On(c, s).jti = c.jti /\ On(c, s).late = c.late
  BY DEF Requests, AuthCalls, On

\* So does a logout that has read the clock.
LEMMA MovedAt ==
    ASSUME NEW c \in Requests, NEW s \in AuthSteps, NEW t \in Nat
    PROVE  /\ At(c, s, t) \in AuthCalls /\ At(c, s, t).step = s
           /\ At(c, s, t).jti = c.jti /\ At(c, s, t).late = c.late
           /\ At(c, s, t).until = t
  BY DEF Requests, AuthCalls, At

\* So does a request that has looked its token up.
LEMMA MovedIs ==
    ASSUME NEW c \in Requests, NEW s \in AuthSteps, NEW b \in BOOLEAN
    PROVE  /\ Is(c, s, b) \in AuthCalls /\ Is(c, s, b).step = s
           /\ Is(c, s, b).jti = c.jti /\ Is(c, s, b).late = c.late
           /\ Is(c, s, b).blind = b
  BY DEF Requests, AuthCalls, Is

\* So does a logout that passes the middleware.
LEMMA MovedToLogout ==
    ASSUME NEW c \in Requests, NEW s \in AuthSteps, NEW o \in AuthOps
    PROVE  /\ As(c, o, s) \in AuthCalls /\ As(c, o, s).step = s
           /\ As(c, o, s).jti = c.jti /\ As(c, o, s).late = c.late
  BY DEF Requests, AuthCalls, As

----------------------------------------------------------------------------
(* What a step may do to a token without disturbing any request. *)

Persists(j) ==
    /\ Denied(j) => Denied(j)'
    /\ Lapsed(j) => Lapsed(j)'
    /\ expiresAt[j] # 0 => expiresAt'[j] # 0 /\ (Valid(j)' => Valid(j))
    /\ denyUntil[j] # 0 => denyUntil'[j] = denyUntil[j]
    /\ j \in loggedOut => j \in loggedOut'
    /\ j \in unstored => j \in unstored'

\* A thread that did not move is as right as it was.
LEMMA OthersKept ==
    ASSUME TokenTypeOK, TokenTypeOK', CallBook,
           \A j \in Jtis : Persists(j),
           NEW v \in HttpThreads, auth'[v] = auth[v]
    PROVE  CallOK(auth[v])'
<1>1. auth[v] \in AuthCalls /\ CallOK(auth[v])
  BY DEF TokenTypeOK, CallBook
<1>2. CASE auth[v].step = "idle"
  BY <1>1, <1>2, CallFields, IdleFields DEF CallOK
<1>3. CASE auth[v].step # "idle"
  <2>1. PICK j \in Jtis : j = auth[v].jti
    BY <1>1, <1>3, CallFields
  <2>2. Persists(j) /\ expiresAt[j] # 0
    BY <1>1, <1>3, <2>1 DEF CallOK
  <2> HIDE DEF CallOK
  <2>3. auth'[v].step = auth[v].step /\ auth'[v].late = auth[v].late
        /\ auth'[v].jti = j /\ auth'[v].until = auth[v].until
        /\ auth'[v].blind = auth[v].blind
    BY <2>1
  <2> QED BY <1>1, <2>1, <2>2, <2>3 DEF CallOK, Persists
<1> QED BY <1>2, <1>3

\* What Valid, Lapsed and Denied depend on.
LEMMA SameValid ==
    ASSUME now' = now, onSecond' = onSecond, NEW j \in Jtis,
           expiresAt'[j] = expiresAt[j]
    PROVE  Valid(j)' <=> Valid(j)
  BY DEF Valid

\* The same for Lapsed.
LEMMA SameLapsed ==
    ASSUME now' = now, m_useSqlite' = m_useSqlite, NEW j \in Jtis,
           denyUntil'[j] = denyUntil[j]
    PROVE  Lapsed(j)' <=> Lapsed(j)
  BY DEF Lapsed

\* The same for Denied.
LEMMA SameDenied ==
    ASSUME now' = now, m_useSqlite' = m_useSqlite, NEW j \in Jtis,
           denyUntil'[j] = denyUntil[j], revokedUntil'[j] = revokedUntil[j],
           m_memRevoked' = m_memRevoked
    PROVE  Denied(j)' <=> Denied(j)
  BY DEF Denied

\* The tables are as they were.
LEMMA SameTables ==
    ASSUME UNCHANGED <<clockVars, expiresAt, storeVars, denyUntil>>,
           NEW j \in Jtis
    PROVE  /\ Denied(j)' <=> Denied(j)
           /\ Lapsed(j)' <=> Lapsed(j)
           /\ Valid(j)' <=> Valid(j)
  BY SameValid, SameLapsed, SameDenied DEF clockVars, storeVars

\* One thread goes on and leaves the tables alone; a token it reports logged
\* out is denied, or over, or counted as not stored.
LEMMA ThreadStep ==
    ASSUME TokenInv, NEW w \in HttpThreads, NEW c \in AuthCalls,
           auth' = [auth EXCEPT ![w] = c],
           UNCHANGED <<clockVars, expiresAt, storeVars, denyUntil>>,
           authCount' \in 0..(PurgeInterval - 1),
           unstored \subseteq unstored', unstored' \subseteq Jtis,
           loggedOut \subseteq loggedOut', loggedOut' \subseteq Jtis,
           CallOK(c)',
           \A j \in loggedOut' \ loggedOut :
              /\ expiresAt[j] # 0
              /\ j \in unstored' \/ ~Valid(j) \/ Denied(j)
    PROVE  TokenInv'
<1> USE DEF TokenInv
<1>1. TokenTypeOK'
  BY DEF TokenTypeOK, clockVars, storeVars
<1>2. \A j \in Jtis : Persists(j)
  BY SameTables DEF Persists
<1>3. TokenBook'
  <2> SUFFICES ASSUME NEW j \in Jtis
               PROVE  /\ (denyUntil[j] <= now + Ttl)'
                      /\ (revokedUntil[j] # 0 => /\ denyUntil[j] # 0
                                                 /\ denyUntil[j] <= revokedUntil[j])'
                      /\ (j \in loggedOut => expiresAt[j] # 0)'
                      /\ (j \in loggedOut /\ j \notin unstored =>
                             Denied(j) \/ ~Valid(j))'
    BY DEF TokenBook
  <2>1. (Denied(j)' <=> Denied(j)) /\ (Valid(j)' <=> Valid(j))
    BY SameTables
  <2>2. /\ denyUntil[j] <= now + Ttl
        /\ revokedUntil[j] # 0 => denyUntil[j] # 0 /\ denyUntil[j] <= revokedUntil[j]
        /\ j \in loggedOut => expiresAt[j] # 0
        /\ j \in loggedOut /\ j \notin unstored => Denied(j) \/ ~Valid(j)
    BY DEF TokenBook
  <2> QED BY <2>1, <2>2 DEF clockVars, storeVars
<1>4. CallBook'
  <2> SUFFICES ASSUME NEW v \in HttpThreads PROVE CallOK(auth[v])'
    BY DEF CallBook
  <2>1. CASE v = w
    <3>1. auth'[v] = c
      BY <2>1 DEF TokenTypeOK
    <3> QED BY <3>1 DEF CallOK
  <2>2. CASE v # w
    <3>1. auth'[v] = auth[v]
      BY <2>2 DEF TokenTypeOK
    <3> QED BY <1>1, <1>2, <3>1, OthersKept
  <2> QED BY <2>1, <2>2
<1> QED BY <1>1, <1>3, <1>4

\* What ThreadStep asks of the logs when they are left alone.
LEMMA Logs ==
    ASSUME TokenInv
    PROVE  /\ unstored \subseteq Jtis /\ loggedOut \subseteq Jtis
           /\ authCount \in 0..(PurgeInterval - 1) /\ now \in Nat
           /\ now + Ttl \in Nat /\ now + Lifetime \in Nat \ {0}
  BY TokenAssumption DEF TokenInv, TokenTypeOK

\* A denied token the denylist does not find has lapsed; one it finds is
\* denied.
LEMMA DeniedIsFoundOrLapsed ==
    ASSUME TokenInv, NEW j \in Jtis
    PROVE  /\ Denied(j) => IsRevoked(j) \/ Lapsed(j)
           /\ IsRevoked(j) => Denied(j)
<1>1. /\ now \in Nat /\ denyUntil[j] \in Nat /\ revokedUntil[j] \in Nat
      /\ m_useSqlite \in BOOLEAN
  BY DEF TokenInv, TokenTypeOK
<1>2. revokedUntil[j] # 0 => denyUntil[j] # 0 /\ denyUntil[j] <= revokedUntil[j]
  BY DEF TokenInv, TokenBook
<1>3. CASE m_useSqlite
  BY <1>1, <1>2, <1>3 DEF Denied, IsRevoked, Lapsed
<1>4. CASE ~m_useSqlite
  BY <1>4 DEF Denied, IsRevoked
<1> QED BY <1>3, <1>4

----------------------------------------------------------------------------
(* The steps of a request. *)

\* A request comes in.
LEMMA ProtectedStep ==
    ASSUME TokenInv, NEW w \in HttpThreads, NEW op \in {"request", "gate"},
           NEW j \in Jtis, HandleProtected(w, op, j)
    PROVE  TokenInv'
<1>0. [op |-> op, step |-> "count", jti |-> j, late |-> j \in loggedOut,
       blind |-> FALSE, until |-> 0] \in AuthCalls
  BY DEF AuthCalls, AuthOps, AuthSteps
<1>1. PICK c \in AuthCalls :
         c = [op |-> op, step |-> "count", jti |-> j, late |-> j \in loggedOut,
              blind |-> FALSE, until |-> 0]
  BY <1>0, Zenon
<1>2. c.step = "count" /\ c.jti = j /\ (c.late => j \in loggedOut)
  BY <1>1
<1>3. UNCHANGED <<clockVars, expiresAt, storeVars, authCount, logVars>>
  BY DEF HandleProtected
<1>4. CallOK(c)'
  BY <1>2, <1>3 DEF CallOK, HandleProtected, logVars
<1>5. auth' = [auth EXCEPT ![w] = c]
  BY <1>1 DEF HandleProtected
<1> QED BY <1>3, <1>4, <1>5, Logs, ThreadStep DEF logVars

\* A refused request is over, or a logout that revokes the raw token.
LEMMA RefuseStep ==
    ASSUME TokenInv, NEW w \in HttpThreads, NEW b \in BOOLEAN,
           auth[w].step \in {"validate", "lookup"}, Refuse(w, b),
           UNCHANGED <<clockVars, expiresAt, storeVars, authCount, logVars>>,
           b \/ ~Valid(auth[w].jti) \/ Denied(auth[w].jti)
    PROVE  TokenInv'
<1>1. /\ auth[w] \in Requests /\ CallOK(auth[w]) /\ auth[w].jti \in Jtis
      /\ expiresAt[auth[w].jti] # 0
  BY CurrentCall
<1>2. CASE auth[w].op = "logout"
  <2>1. PICK d : d = Is(auth[w], "raw", b)
    OBVIOUS
  <2>2. /\ d \in AuthCalls /\ d.step = "raw" /\ d.jti = auth[w].jti
        /\ d.late = auth[w].late /\ d.blind = b
    <3>1. "raw" \in AuthSteps
      BY DEF AuthSteps
    <3> QED BY <1>1, <2>1, <3>1, MovedIs
  <2>3. auth' = [auth EXCEPT ![w] = d]
    BY <1>2, <2>1 DEF Refuse, Is
  <2>4. CallOK(d)'
    BY <1>1, <2>2, SameTables DEF CallOK, logVars
  <2> QED BY <2>2, <2>3, <2>4, Logs, ThreadStep DEF logVars
<1>3. CASE auth[w].op # "logout"
  <2>1. auth' = [auth EXCEPT ![w] = NoRequest]
    BY <1>3 DEF Refuse
  <2>2. CallOK(NoRequest)'
    BY IdleFields DEF CallOK
  <2> QED BY <2>1, <2>2, IdleFields, Logs, ThreadStep DEF logVars
<1> QED BY <1>2, <1>3

\* An accepted request goes on; a late one has its token lapsed or the lookup
\* failed.
LEMMA AcceptStep ==
    ASSUME TokenInv, NEW w \in HttpThreads, NEW b \in BOOLEAN,
           auth[w].step = "lookup", Accept(w, b),
           UNCHANGED <<clockVars, expiresAt, storeVars, authCount, logVars>>,
           b \/ ~IsRevoked(auth[w].jti)
    PROVE  TokenInv'
<1>1. /\ auth[w] \in Requests /\ CallOK(auth[w]) /\ auth[w].jti \in Jtis
      /\ expiresAt[auth[w].jti] # 0
  BY CurrentCall
<1>2. auth[w].late => auth[w].jti \in unstored \/ Lapsed(auth[w].jti) \/ b
  BY <1>1, DeniedIsFoundOrLapsed DEF CallOK
<1>3. PICK d : d = Is(auth[w], "passed", b)
  OBVIOUS
<1>4. /\ d \in AuthCalls /\ d.step = "passed" /\ d.jti = auth[w].jti
      /\ d.late = auth[w].late /\ d.blind = b
  <2>1. "passed" \in AuthSteps
    BY DEF AuthSteps
  <2> QED BY <1>1, <1>3, <2>1, MovedIs
<1>5. auth' = [auth EXCEPT ![w] = d]
  BY <1>3 DEF Accept, Is
<1>6. CallOK(d)'
  BY <1>1, <1>2, <1>4, SameTables DEF CallOK, logVars
<1> QED BY <1>4, <1>5, <1>6, Logs, ThreadStep DEF logVars

\* The call is counted.
LEMMA CountStep ==
    ASSUME TokenInv, NEW w \in HttpThreads, CountCall(w)
    PROVE  TokenInv'
<1>1. /\ auth[w] \in Requests /\ CallOK(auth[w]) /\ auth[w].step = "count"
      /\ expiresAt[auth[w].jti] # 0
  BY CurrentCall DEF CountCall, AuthGoes
<1>2. authCount' \in 0..(PurgeInterval - 1)
  BY TokenAssumption DEF TokenInv, TokenTypeOK, CountCall
<1>3. PICK s \in {"purge", "validate"} : auth' = [auth EXCEPT ![w].step = s]
  <2>1. CASE authCount' = 0
    BY <2>1 DEF CountCall, AuthGoes
  <2>2. CASE authCount' # 0
    BY <2>2 DEF CountCall, AuthGoes
  <2> QED BY <2>1, <2>2
<1>4. PICK d : d = On(auth[w], s)
  OBVIOUS
<1>5. /\ d \in AuthCalls /\ d.step = s /\ d.jti = auth[w].jti
      /\ d.late = auth[w].late
  <2>1. s \in AuthSteps
    BY DEF AuthSteps
  <2> QED BY <1>1, <1>4, <2>1, MovedOn
<1>6. CallOK(d)'
  BY <1>1, <1>5 DEF CallOK, CountCall, logVars
<1>7. auth' = [auth EXCEPT ![w] = d]
  BY <1>3, <1>4 DEF On
<1> QED BY <1>2, <1>5, <1>6, <1>7, Logs, ThreadStep DEF CountCall, logVars

\* A token that validates is, after its logout, denied or not stored.
LEMMA ValidateStep ==
    ASSUME TokenInv, NEW w \in HttpThreads, Validate(w)
    PROVE  TokenInv'
<1>1. /\ auth[w] \in Requests /\ CallOK(auth[w]) /\ auth[w].step = "validate"
      /\ auth[w].jti \in Jtis /\ expiresAt[auth[w].jti] # 0
  BY CurrentCall DEF Validate
<1>2. CASE ~Valid(auth[w].jti)
  <2>1. Refuse(w, FALSE) /\ FALSE \in BOOLEAN
    BY <1>2 DEF Validate
  <2> QED BY <1>1, <1>2, <2>1, RefuseStep DEF Validate
<1>3. CASE Valid(auth[w].jti)
  <2>1. PICK d : d = On(auth[w], "lookup")
    OBVIOUS
  <2>2. /\ d \in AuthCalls /\ d.step = "lookup" /\ d.jti = auth[w].jti
        /\ d.late = auth[w].late
    <3>1. "lookup" \in AuthSteps
      BY DEF AuthSteps
    <3> QED BY <1>1, <2>1, <3>1, MovedOn
  <2>3. auth' = [auth EXCEPT ![w] = d]
    BY <1>3, <2>1 DEF Validate, AuthGoes, On
  <2>4. d.late => d.jti \in unstored \/ Denied(d.jti)
    BY <1>1, <1>3, <2>2 DEF TokenInv, TokenBook, CallOK
  <2>5. UNCHANGED <<clockVars, expiresAt, storeVars, authCount, logVars>>
    BY DEF Validate
  <2>6. CallOK(d)'
    BY <1>1, <2>2, <2>4, <2>5, SameTables DEF CallOK, logVars
  <2> QED BY <2>2, <2>3, <2>5, <2>6, Logs, ThreadStep DEF logVars
<1> QED BY <1>2, <1>3

\* The lookup decides, or fails either way.
LEMMA LookupStep ==
    ASSUME TokenInv, NEW w \in HttpThreads, Lookup(w) \/ LookupFails(w)
    PROVE  TokenInv'
<1>1. /\ auth[w].step = "lookup" /\ auth[w].jti \in Jtis
      /\ UNCHANGED <<clockVars, expiresAt, storeVars, authCount, logVars>>
      /\ TRUE \in BOOLEAN /\ FALSE \in BOOLEAN
  BY CurrentCall DEF Lookup, LookupFails
<1>2. CASE Lookup(w)
  <2>1. CASE IsRevoked(auth[w].jti)
    BY <1>1, <1>2, <2>1, RefuseStep, DeniedIsFoundOrLapsed DEF Lookup
  <2>2. CASE ~IsRevoked(auth[w].jti)
    BY <1>1, <1>2, <2>2, AcceptStep DEF Lookup
  <2> QED BY <2>1, <2>2
<1>3. CASE LookupFails(w)
  <2>1. CASE Refuse(w, TRUE)
    BY <1>1, <2>1, RefuseStep
  <2>2. CASE Accept(w, TRUE)
    BY <1>1, <2>2, AcceptStep
  <2> QED BY <1>3, <2>1, <2>2 DEF LookupFails
<1> QED BY <1>2, <1>3

\* The route is served, or the logout begins.
LEMMA ServedStep ==
    ASSUME TokenInv, NEW w \in HttpThreads, ServeRequest(w) \/ HandleLogout(w)
    PROVE  TokenInv'
<1>1. /\ auth[w] \in Requests /\ CallOK(auth[w]) /\ auth[w].step = "passed"
      /\ expiresAt[auth[w].jti] # 0
      /\ UNCHANGED <<clockVars, expiresAt, storeVars, authCount, logVars>>
  BY CurrentCall DEF ServeRequest, HandleLogout
<1>2. CASE ServeRequest(w)
  <2>1. CallOK(NoRequest)'
    BY IdleFields DEF CallOK
  <2> QED BY <1>1, <1>2, <2>1, IdleFields, Logs, ThreadStep
          DEF ServeRequest, logVars
<1>3. CASE HandleLogout(w)
  <2>1. PICK d : d = As(auth[w], "logout", "count")
    OBVIOUS
  <2>2. "count" \in AuthSteps /\ "logout" \in AuthOps
    BY DEF AuthSteps, AuthOps
  <2>3. /\ d \in AuthCalls /\ d.step = "count" /\ d.jti = auth[w].jti
        /\ d.late = auth[w].late
    BY <1>1, <2>1, <2>2, MovedToLogout
  <2>4. auth' = [auth EXCEPT ![w] = d]
    BY <1>3, <2>1 DEF HandleLogout, As
  <2>5. CallOK(d)'
    BY <1>1, <2>3 DEF CallOK, logVars
  <2> QED BY <1>1, <2>3, <2>4, <2>5, Logs, ThreadStep DEF logVars
<1> QED BY <1>2, <1>3

\* A logout ends without a row: the INSERT failed, or the second
\* authentication refused the token.
LEMMA LostRevocationStep ==
    ASSUME TokenInv, NEW w \in HttpThreads, RevokeFails(w) \/ RevokeRawToken(w)
    PROVE  TokenInv'
<1>1. /\ CallOK(auth[w]) /\ auth[w].step \in {"store", "raw"}
      /\ auth[w].jti \in Jtis /\ expiresAt[auth[w].jti] # 0
  BY CurrentCall DEF RevokeFails, RevokeRawToken
<1>2. CallOK(NoRequest)'
  BY IdleFields DEF CallOK
<1>3. /\ auth' = [auth EXCEPT ![w] = NoRequest]
      /\ loggedOut' = loggedOut \cup {auth[w].jti}
  BY DEF RevokeFails, RevokeRawToken, Answer204
<1>4. UNCHANGED <<clockVars, expiresAt, storeVars, authCount, denyUntil>>
  BY DEF RevokeFails, RevokeRawToken
<1>5. /\ unstored \subseteq unstored' /\ unstored' \subseteq Jtis
      /\ \/ auth[w].jti \in unstored'
         \/ ~Valid(auth[w].jti) \/ Denied(auth[w].jti)
  <2>1. CASE RevokeFails(w)
    BY <1>1, <2>1, Logs DEF RevokeFails
  <2>2. CASE RevokeRawToken(w)
    BY <1>1, <2>2, Logs DEF RevokeRawToken, CallOK
  <2> QED BY <2>1, <2>2
<1> QED BY <1>1, <1>2, <1>3, <1>4, <1>5, Logs, IdleFields, ThreadStep

----------------------------------------------------------------------------
(* The steps that change the tables or the clock. *)

\* A token is issued: no request, row or logout has it yet.
LEMMA LoginStep ==
    ASSUME TokenInv, NEW j \in Jtis, HandleLogin(j)
    PROVE  TokenInv'
<1> USE DEF TokenInv
<1>1. now + Lifetime \in Nat \ {0}
  BY Logs
<1>2. TokenTypeOK'
  BY <1>1 DEF TokenTypeOK, HandleLogin, clockVars, storeVars, logVars
<1>3. /\ j \notin loggedOut /\ expiresAt[j] = 0 /\ expiresAt'[j] # 0
      /\ \A k \in Jtis : k # j => expiresAt'[k] = expiresAt[k]
  BY <1>1 DEF TokenTypeOK, TokenBook, HandleLogin
<1>4. UNCHANGED <<clockVars, storeVars, auth, logVars>>
  BY DEF HandleLogin
<1>5. /\ \A k \in Jtis : Denied(k)' <=> Denied(k)
      /\ \A k \in Jtis : Lapsed(k)' <=> Lapsed(k)
      /\ \A k \in Jtis : k # j => (Valid(k)' <=> Valid(k))
  BY <1>3, <1>4, SameDenied, SameLapsed, SameValid
     DEF clockVars, storeVars, logVars
<1>6. \A k \in Jtis : Persists(k)
  BY <1>3, <1>4, <1>5 DEF Persists, logVars
<1>7. TokenBook'
  BY <1>3, <1>4, <1>5 DEF TokenBook, clockVars, storeVars, logVars
<1>8. CallBook'
  BY <1>2, <1>4, <1>6, OthersKept DEF CallBook
<1> QED BY <1>2, <1>7, <1>8

\* The logout reads the clock: what it will store is no earlier than the first
\* revocation of the token.
LEMMA RevokeStep ==
    ASSUME TokenInv, NEW w \in HttpThreads, Revoke(w)
    PROVE  TokenInv'
<1> USE DEF TokenInv
<1>j. PICK j \in Jtis : j = auth[w].jti
  BY CurrentCall DEF Revoke
<1>1. /\ auth[w] \in Requests /\ CallOK(auth[w]) /\ auth[w].step = "passed"
      /\ expiresAt[j] # 0
  BY <1>j, CurrentCall DEF Revoke
<1>2. /\ now + Ttl \in Nat /\ now + Ttl # 0 /\ now \in Nat /\ Ttl \in Nat
      /\ denyUntil[j] \in Nat /\ denyUntil[j] <= now + Ttl
  BY TokenAssumption DEF TokenTypeOK, TokenBook
<1>3. PICK d : d = At(auth[w], "store", now + Ttl)
  OBVIOUS
<1>4. /\ d \in AuthCalls /\ d.step = "store" /\ d.jti = j
      /\ d.late = auth[w].late /\ d.until = now + Ttl
  <2>1. "store" \in AuthSteps
    BY DEF AuthSteps
  <2>2. PICK u \in Nat : u = now + Ttl
    BY <1>2
  <2>3. d = At(auth[w], "store", u)
    BY <1>3, <2>2
  <2> QED BY <1>j, <1>1, <2>1, <2>2, <2>3, MovedAt
<1>5. auth' = [auth EXCEPT ![w] = d]
  BY <1>3 DEF Revoke, At
<1>6. /\ denyUntil[j] = 0 => denyUntil'[j] = now + Ttl
      /\ denyUntil[j] # 0 => denyUntil'[j] = denyUntil[j]
      /\ \A k \in Jtis : k # j => denyUntil'[k] = denyUntil[k]
      /\ denyUntil' \in [Jtis -> Nat]
  BY <1>j, <1>2 DEF Revoke, TokenTypeOK
<1>7. UNCHANGED <<clockVars, expiresAt, storeVars, authCount, loggedOut,
                  unstored>>
  BY DEF Revoke
<1>8. TokenTypeOK'
  BY <1>4, <1>5, <1>6, <1>7 DEF TokenTypeOK, clockVars, storeVars
<1>9. ASSUME NEW k \in Jtis
      PROVE  Persists(k) /\ (Valid(k)' <=> Valid(k))
  <2>1. Valid(k)' <=> Valid(k)
    BY <1>7, SameValid DEF clockVars
  <2>2. denyUntil[k] # 0 => denyUntil'[k] = denyUntil[k]
    BY <1>6
  <2>3. CASE denyUntil[k] = 0
    <3>1. ~Lapsed(k)
      BY <2>3 DEF Lapsed
    <3>2. Denied(k) => Denied(k)'
      BY <1>7, <2>3 DEF Denied, storeVars
    <3> QED BY <1>7, <2>1, <2>2, <3>1, <3>2 DEF Persists
  <2>4. CASE denyUntil[k] # 0
    <3>1. (Denied(k)' <=> Denied(k)) /\ (Lapsed(k)' <=> Lapsed(k))
      BY <1>7, <2>2, <2>4, SameDenied, SameLapsed DEF clockVars, storeVars
    <3> QED BY <1>7, <2>1, <2>2, <3>1 DEF Persists
  <2> QED BY <2>1, <2>3, <2>4
<1>10. \A k \in Jtis : Persists(k)
  BY <1>9
<1>11. TokenBook'
  <2> SUFFICES ASSUME NEW k \in Jtis
               PROVE  /\ denyUntil'[k] <= now + Ttl
                      /\ revokedUntil[k] # 0 => /\ denyUntil'[k] # 0
                                                /\ denyUntil'[k] <= revokedUntil[k]
                      /\ k \in loggedOut => expiresAt[k] # 0
                      /\ k \in loggedOut /\ k \notin unstored =>
                            Denied(k)' \/ ~Valid(k)'
    BY <1>7 DEF TokenBook, clockVars, storeVars
  <2>1. denyUntil'[k] <= now + Ttl
    BY <1>2, <1>6 DEF TokenBook
  <2>2. revokedUntil[k] # 0 => denyUntil'[k] # 0 /\ denyUntil'[k] <= revokedUntil[k]
    BY <1>6 DEF TokenBook
  <2>3. /\ k \in loggedOut => expiresAt[k] # 0
        /\ k \in loggedOut /\ k \notin unstored => Denied(k) \/ ~Valid(k)
    BY DEF TokenBook
  <2>4. (Valid(k)' <=> Valid(k)) /\ (Denied(k) => Denied(k)')
    BY <1>9 DEF Persists
  <2> QED BY <2>1, <2>2, <2>3, <2>4
<1>12. CallOK(d)'
  BY <1>1, <1>2, <1>4, <1>6, <1>7, <1>j DEF CallOK
<1>13. CallBook'
  <2> SUFFICES ASSUME NEW v \in HttpThreads PROVE CallOK(auth[v])'
    BY DEF CallBook
  <2>1. CASE v = w
    <3>1. auth'[v] = d
      BY <1>5, <2>1 DEF TokenTypeOK
    <3> QED BY <1>12, <3>1 DEF CallOK
  <2>2. CASE v # w
    <3>1. auth'[v] = auth[v]
      BY <1>5, <2>2 DEF TokenTypeOK
    <3> QED BY <1>8, <1>10, <3>1, OthersKept
  <2> QED BY <2>1, <2>2
<1> QED BY <1>8, <1>11, <1>13

\* Rows are purged when they have lapsed: no token is less denied.
LEMMA PurgeStep ==
    ASSUME TokenInv, NEW w \in HttpThreads, PurgeExpired(w)
    PROVE  TokenInv'
<1> USE DEF TokenInv
<1>1. /\ auth[w] \in Requests /\ CallOK(auth[w]) /\ auth[w].step = "purge"
      /\ expiresAt[auth[w].jti] # 0
  BY CurrentCall DEF PurgeExpired, AuthGoes
<1>2. PICK d : d = On(auth[w], "validate")
  OBVIOUS
<1>3. /\ d \in AuthCalls /\ d.step = "validate" /\ d.jti = auth[w].jti
      /\ d.late = auth[w].late
  <2>1. "validate" \in AuthSteps
    BY DEF AuthSteps
  <2> QED BY <1>1, <1>2, <2>1, MovedOn
<1>4. auth' = [auth EXCEPT ![w] = d]
  BY <1>2 DEF PurgeExpired, AuthGoes, On
<1>5. UNCHANGED <<clockVars, expiresAt, m_useSqlite, m_memRevoked, authCount,
                  logVars>>
  BY DEF PurgeExpired
<1>6. /\ revokedUntil' \in [Jtis -> Nat]
      /\ \A j \in Jtis : \/ revokedUntil'[j] = revokedUntil[j]
                         \/ revokedUntil'[j] = 0 /\ revokedUntil[j] <= now
  <2>0. /\ revokedUntil \in [Jtis -> Nat]
        /\ \/ UNCHANGED revokedUntil
           \/ revokedUntil' = [j \in Jtis |-> IF j \in PurgedRows THEN 0
                                              ELSE revokedUntil[j]]
    BY DEF PurgeExpired, TokenTypeOK
  <2> QED BY <2>0 DEF PurgedRows
<1>7. TokenTypeOK'
  BY <1>3, <1>4, <1>5, <1>6 DEF TokenTypeOK, clockVars, logVars
<1>8. ASSUME NEW j \in Jtis
      PROVE  Persists(j) /\ (Valid(j)' <=> Valid(j))
  <2>1. (Valid(j)' <=> Valid(j)) /\ (Lapsed(j)' <=> Lapsed(j))
    BY <1>5, SameValid, SameLapsed DEF clockVars, logVars
  <2>2. Denied(j) => Denied(j)'
    <3>1. CASE revokedUntil'[j] = revokedUntil[j]
      BY <1>5, <3>1, SameDenied DEF clockVars, logVars
    <3>2. CASE revokedUntil'[j] = 0 /\ revokedUntil[j] <= now
      <4>1. denyUntil[j] <= revokedUntil[j] => denyUntil[j] <= now
        BY <3>2 DEF TokenTypeOK
      <4> QED BY <1>5, <4>1 DEF Denied, clockVars, logVars
    <3> QED BY <1>6, <3>1, <3>2
  <2> QED BY <1>5, <2>1, <2>2 DEF Persists, logVars
<1>10. \A j \in Jtis : Persists(j)
  BY <1>8
<1>11. TokenBook'
  <2> SUFFICES ASSUME NEW j \in Jtis
               PROVE  /\ (denyUntil[j] <= now + Ttl)'
                      /\ (revokedUntil[j] # 0 => /\ denyUntil[j] # 0
                                                 /\ denyUntil[j] <= revokedUntil[j])'
                      /\ (j \in loggedOut => expiresAt[j] # 0)'
                      /\ (j \in loggedOut /\ j \notin unstored =>
                             Denied(j) \/ ~Valid(j))'
    BY DEF TokenBook
  <2>1. (Valid(j)' <=> Valid(j)) /\ (Denied(j) => Denied(j)')
    BY <1>8 DEF Persists
  <2>2. /\ denyUntil[j] <= now + Ttl
        /\ revokedUntil[j] # 0 => denyUntil[j] # 0 /\ denyUntil[j] <= revokedUntil[j]
        /\ j \in loggedOut => expiresAt[j] # 0
        /\ j \in loggedOut /\ j \notin unstored => Denied(j) \/ ~Valid(j)
    BY DEF TokenBook
  <2> QED BY <1>5, <1>6, <2>1, <2>2 DEF clockVars, logVars
<1>12. CallOK(d)'
  BY <1>1, <1>3, <1>5 DEF CallOK, logVars
<1>13. CallBook'
  <2> SUFFICES ASSUME NEW v \in HttpThreads PROVE CallOK(auth[v])'
    BY DEF CallBook
  <2>1. CASE v = w
    <3>1. auth'[v] = d
      BY <1>4, <2>1 DEF TokenTypeOK
    <3> QED BY <1>12, <3>1 DEF CallOK
  <2>2. CASE v # w
    <3>1. auth'[v] = auth[v]
      BY <1>4, <2>2 DEF TokenTypeOK
    <3> QED BY <1>7, <1>10, <3>1, OthersKept
  <2> QED BY <2>1, <2>2
<1> QED BY <1>7, <1>11, <1>13

\* The row is written, and lasts as long as the first revocation; or the token
\* is in memory.
LEMMA StoreStep ==
    ASSUME TokenInv, NEW w \in HttpThreads, RevokeWithExpiry(w)
    PROVE  TokenInv'
<1> USE DEF TokenInv
<1>j. PICK j \in Jtis : j = auth[w].jti
  BY CurrentCall DEF RevokeWithExpiry
<1>1. /\ auth[w] \in AuthCalls /\ CallOK(auth[w]) /\ auth[w].step = "store"
      /\ expiresAt[j] # 0 /\ auth[w].until \in Nat
  BY <1>j, CurrentCall DEF RevokeWithExpiry
<1>2. denyUntil[j] # 0 /\ denyUntil[j] <= auth[w].until /\ denyUntil[j] \in Nat
  BY <1>1, <1>j DEF CallOK, TokenTypeOK
<1>3. /\ auth' = [auth EXCEPT ![w] = NoRequest]
      /\ loggedOut' = loggedOut \cup {j}
      /\ UNCHANGED <<clockVars, expiresAt, m_useSqlite, authCount, unstored,
                     denyUntil>>
  BY <1>j DEF RevokeWithExpiry, Answer204
<1>4. \/ /\ m_useSqlite /\ UNCHANGED m_memRevoked
         /\ revokedUntil' = [revokedUntil EXCEPT ![j] = auth[w].until]
      \/ /\ ~m_useSqlite /\ UNCHANGED revokedUntil
         /\ m_memRevoked' = m_memRevoked \cup {j}
  BY <1>j DEF RevokeWithExpiry, TokenTypeOK
<1>5. TokenTypeOK'
  BY <1>1, <1>3, <1>4, IdleFields DEF TokenTypeOK, clockVars
<1>6. /\ \/ revokedUntil'[j] = revokedUntil[j] /\ ~m_useSqlite
         \/ revokedUntil'[j] = auth[w].until
      /\ \A k \in Jtis : k # j => revokedUntil'[k] = revokedUntil[k]
      /\ m_memRevoked \subseteq m_memRevoked'
  BY <1>1, <1>4 DEF TokenTypeOK
<1>8. Denied(j)'
  <2>1. CASE m_useSqlite
    BY <1>2, <1>3, <1>6, <2>1 DEF Denied
  <2>2. CASE ~m_useSqlite
    BY <1>3, <1>4, <2>2 DEF Denied
  <2> QED BY <2>1, <2>2
<1>9. ASSUME NEW k \in Jtis
      PROVE  Persists(k) /\ (Valid(k)' <=> Valid(k))
  <2>1. (Valid(k)' <=> Valid(k)) /\ (Lapsed(k)' <=> Lapsed(k))
    BY <1>3, SameValid, SameLapsed DEF clockVars
  <2>2. Denied(k) => Denied(k)'
    <3>1. CASE k = j
      BY <1>8, <3>1
    <3>2. CASE k # j
      BY <1>3, <1>6, <3>2 DEF Denied, clockVars
    <3> QED BY <3>1, <3>2
  <2> QED BY <1>3, <2>1, <2>2 DEF Persists
<1>10. \A k \in Jtis : Persists(k)
  BY <1>9
<1>11. TokenBook'
  <2> SUFFICES ASSUME NEW k \in Jtis
               PROVE  /\ (denyUntil[k] <= now + Ttl)'
                      /\ (revokedUntil[k] # 0 => /\ denyUntil[k] # 0
                                                 /\ denyUntil[k] <= revokedUntil[k])'
                      /\ (k \in loggedOut => expiresAt[k] # 0)'
                      /\ (k \in loggedOut /\ k \notin unstored =>
                             Denied(k) \/ ~Valid(k))'
    BY DEF TokenBook
  <2>1. (Valid(k)' <=> Valid(k)) /\ (Denied(k) => Denied(k)')
    BY <1>9 DEF Persists
  <2>2. /\ denyUntil[k] <= now + Ttl
        /\ revokedUntil[k] # 0 => denyUntil[k] # 0 /\ denyUntil[k] <= revokedUntil[k]
        /\ k \in loggedOut => expiresAt[k] # 0
        /\ k \in loggedOut /\ k \notin unstored => Denied(k) \/ ~Valid(k)
    BY DEF TokenBook
  <2>3. CASE k = j
    BY <1>1, <1>2, <1>3, <1>6, <1>8, <2>2, <2>3 DEF clockVars
  <2>4. CASE k # j
    BY <1>3, <1>6, <2>1, <2>2, <2>4 DEF clockVars
  <2> QED BY <2>3, <2>4
<1>12. CallBook'
  <2> SUFFICES ASSUME NEW v \in HttpThreads PROVE CallOK(auth[v])'
    BY DEF CallBook
  <2>1. CASE v = w
    <3>1. auth'[v] = NoRequest
      BY <1>3, <2>1 DEF TokenTypeOK
    <3> QED BY <3>1, IdleFields DEF CallOK
  <2>2. CASE v # w
    <3>1. auth'[v] = auth[v]
      BY <1>3, <2>2 DEF TokenTypeOK
    <3> QED BY <1>5, <1>10, <3>1, OthersKept
  <2> QED BY <2>1, <2>2
<1> QED BY <1>5, <1>11, <1>12

\* After a restart there are no requests; what memory forgot is not stored.
LEMMA RestartStep ==
    ASSUME TokenInv, RestartServer
    PROVE  TokenInv'
<1> USE DEF TokenInv, RestartServer
<1>1. TokenTypeOK'
  BY IdleFields, TokenAssumption DEF TokenTypeOK, clockVars
<1>3. TokenBook'
  <2> SUFFICES ASSUME NEW j \in Jtis
               PROVE  /\ (denyUntil[j] <= now + Ttl)'
                      /\ (revokedUntil[j] # 0 => /\ denyUntil[j] # 0
                                                 /\ denyUntil[j] <= revokedUntil[j])'
                      /\ (j \in loggedOut => expiresAt[j] # 0)'
                      /\ (j \in loggedOut /\ j \notin unstored =>
                             Denied(j) \/ ~Valid(j))'
    BY DEF TokenBook
  <2>1. Valid(j)' <=> Valid(j)
    BY SameValid DEF clockVars
  <2>2. /\ denyUntil[j] <= now + Ttl
        /\ revokedUntil[j] # 0 => denyUntil[j] # 0 /\ denyUntil[j] <= revokedUntil[j]
        /\ j \in loggedOut => expiresAt[j] # 0
        /\ j \in loggedOut /\ j \notin unstored => Denied(j) \/ ~Valid(j)
    BY DEF TokenBook
  <2>3. j \in loggedOut /\ j \notin unstored' => Denied(j)' \/ ~Valid(j)'
    <3>1. CASE m_useSqlite
      <4>1. Denied(j) => Denied(j)'
        BY <3>1 DEF Denied, clockVars
      <4>2. unstored' = unstored
        BY <3>1
      <4> QED BY <2>1, <2>2, <4>1, <4>2
    <3>2. CASE ~m_useSqlite
      BY <3>2
    <3> QED BY <3>1, <3>2
  <2> QED BY <2>2, <2>3 DEF clockVars
<1>4. \A w \in HttpThreads : auth'[w] = NoRequest
  OBVIOUS
<1>5. CallBook'
  BY <1>4, IdleFields DEF CallBook, CallOK
<1> QED BY <1>1, <1>3, <1>5

\* The clock goes on: tokens and revocations lapse, and stay lapsed.
LEMMA TimeStep ==
    ASSUME TokenInv, TimePasses
    PROVE  TokenInv'
<1> USE DEF TokenInv
<1>1. UNCHANGED <<expiresAt, m_useSqlite, revokedUntil, m_memRevoked,
                  authCount, auth, loggedOut, unstored, denyUntil>>
  BY DEF TimePasses, storeVars, logVars
<1>2. now \in Nat
  BY DEF TokenTypeOK
<1>3. /\ now' \in Nat /\ now <= now'
      /\ now' = now => onSecond /\ ~onSecond'
      /\ onSecond' \in BOOLEAN
  <2>1. CASE onSecond /\ onSecond' = FALSE /\ now' = now
    <3>1. now' \in Nat /\ now <= now'
      BY <1>2, <2>1
    <3>2. onSecond' \in BOOLEAN /\ onSecond /\ ~onSecond'
      BY <2>1
    <3> QED BY <3>1, <3>2
  <2>2. CASE onSecond' = TRUE /\ now' = now + 1
    <3>1. now' \in Nat /\ now <= now' /\ now' # now
      BY <1>2, <2>2
    <3>2. onSecond' \in BOOLEAN
      BY <2>2
    <3> QED BY <3>1, <3>2
  <2> QED BY <2>1, <2>2 DEF TimePasses
<1>4. TokenTypeOK'
  BY <1>1, <1>3 DEF TokenTypeOK
<1>5. \A j \in Jtis : Valid(j)' => Valid(j)
  BY <1>1, <1>2, <1>3 DEF Valid, TokenTypeOK
<1>6. \A j \in Jtis : (Denied(j) => Denied(j)') /\ (Lapsed(j) => Lapsed(j)')
  <2> SUFFICES ASSUME NEW j \in Jtis
               PROVE  (Denied(j) => Denied(j)') /\ (Lapsed(j) => Lapsed(j)')
    OBVIOUS
  <2>1. denyUntil[j] \in Nat
    BY DEF TokenTypeOK
  <2>2. denyUntil[j] <= now => denyUntil[j] <= now'
    BY <1>2, <1>3, <2>1
  <2>3. Lapsed(j) => Lapsed(j)'
    BY <1>1, <1>2, <1>3, <2>1 DEF Lapsed
  <2> QED BY <1>1, <2>2, <2>3 DEF Denied
<1>7. \A j \in Jtis : Persists(j)
  BY <1>1, <1>5, <1>6 DEF Persists
<1>8. TokenBook'
  <2>1. \A j \in Jtis : denyUntil[j] <= now' + Ttl
    BY <1>2, <1>3, TokenAssumption DEF TokenBook, TokenTypeOK
  <2> QED BY <1>1, <1>5, <1>6, <2>1 DEF TokenBook
<1>9. CallBook'
  BY <1>1, <1>4, <1>7, OthersKept DEF CallBook
<1> QED BY <1>4, <1>8, <1>9

----------------------------------------------------------------------------
(* The theorems. *)

\* JwtAuth::create establishes the invariant.
LEMMA InitInvariant == TokenInit => TokenInv
<1> SUFFICES ASSUME TokenInit PROVE TokenInv
  OBVIOUS
<1>1. TokenTypeOK
  BY IdleFields, TokenAssumption DEF TokenInit, TokenTypeOK
<1>2. TokenBook
  <2>1. now = 0 /\ 0 <= 0 + Ttl /\ loggedOut = {}
    BY TokenAssumption DEF TokenInit
  <2>2. \A j \in Jtis : denyUntil[j] = 0 /\ revokedUntil[j] = 0
    BY DEF TokenInit
  <2> QED BY <2>1, <2>2 DEF TokenBook
<1>3. \A w \in HttpThreads : auth[w] = NoRequest
  BY DEF TokenInit
<1>4. CallBook
  BY <1>3, IdleFields DEF CallBook, CallOK
<1> QED BY <1>1, <1>2, <1>4 DEF TokenInv

\* Every step keeps it.
LEMMA NextInvariant == TokenInv /\ [TokenNext]_tokenVars => TokenInv'
<1> SUFFICES ASSUME TokenInv, [TokenNext]_tokenVars PROVE TokenInv'
  OBVIOUS
<1>1. CASE \E j \in Jtis : HandleLogin(j)
  BY <1>1, LoginStep
<1>2. ASSUME NEW w \in HttpThreads, NEW j \in Jtis,
             NEW op \in {"request", "gate"}, HandleProtected(w, op, j)
      PROVE  TokenInv'
  BY <1>2, ProtectedStep
<1>3. ASSUME NEW w \in HttpThreads, Authenticate(w)
      PROVE  TokenInv'
  BY <1>3, CountStep, PurgeStep, ValidateStep, LookupStep DEF Authenticate
<1>4. ASSUME NEW w \in HttpThreads, ServeRequest(w)
      PROVE  TokenInv'
  BY <1>4, ServedStep
<1>5. ASSUME NEW w \in HttpThreads, Logout(w)
      PROVE  TokenInv'
  BY <1>5, ServedStep, RevokeStep, StoreStep, LostRevocationStep DEF Logout
<1>6. CASE RestartServer
  BY <1>6, RestartStep
<1>7. CASE TimePasses
  BY <1>7, TimeStep
<1>8. CASE UNCHANGED tokenVars
  <2>1. /\ UNCHANGED <<clockVars, expiresAt, storeVars, denyUntil, loggedOut,
                       unstored, auth, authCount>>
    BY <1>8 DEF tokenVars, logVars
  <2>2. \A j \in Jtis : Persists(j)
    BY <2>1, SameTables DEF Persists
  <2>3. TokenTypeOK'
    BY <2>1 DEF TokenInv, TokenTypeOK, clockVars, storeVars
  <2>4. TokenBook'
    BY <2>1, SameTables DEF TokenInv, TokenBook, clockVars, storeVars
  <2>5. CallBook'
    BY <2>1, <2>2, <2>3, OthersKept DEF TokenInv, CallBook
  <2> QED BY <2>3, <2>4, <2>5 DEF TokenInv
<1> QED BY <1>1, <1>2, <1>3, <1>4, <1>5, <1>6, <1>7, <1>8 DEF TokenNext

\* TokenInv is inductive.
THEOREM Inductive == TokenSpec => []TokenInv
  BY InitInvariant, NextInvariant, PTL DEF TokenSpec

\* The types of clock, denylist and requests, for every number of tokens and
\* threads (JwtAuth, TokenStore).
THEOREM TypeCorrect == TokenSpec => []TokenTypeOK
<1>1. TokenInv => TokenTypeOK
  BY DEF TokenInv
<1> QED BY <1>1, Inductive, PTL

\* TokenStore keeps the entry of a stored revocation until it has lapsed,
\* whatever purgeExpired deletes and INSERT OR REPLACE overwrites, for every
\* lifetime of tokens and revocations.
THEOREM DenialUntilLapse == TokenSpec => []DeniedUntilLapse
<1>1. TokenInv => DeniedUntilLapse
  <2> SUFFICES ASSUME TokenInv, NEW j \in loggedOut, j \notin unstored
               PROVE  IsRevoked(j) \/ Lapsed(j) \/ ~Valid(j)
    BY DEF DeniedUntilLapse
  <2>1. j \in Jtis
    BY Logs
  <2> QED BY <2>1, DeniedIsFoundOrLapsed DEF TokenInv, TokenBook
<1> QED BY <1>1, Inductive, PTL

\* JwtAuth::authenticate lets a request that began after the 204 of a stored
\* logout in only when Ttl has passed since a logout read the clock, or when
\* its own lookup failed, however the threads are scheduled.
THEOREM LogoutHoldsForTtl == TokenSpec => []LogoutHolds
<1>1. TokenInv => LogoutHolds
  BY DEF TokenInv, CallBook, CallOK, LogoutHolds, LetInAgain
<1> QED BY <1>1, Inductive, PTL
=============================================================================
