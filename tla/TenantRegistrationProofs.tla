---------------------- MODULE TenantRegistrationProofs ----------------------
(***************************************************************************)
(* Proofs about TenantRegistration, for every set of registrations,        *)
(* verifications and user names, whoever shares a name, an address or a    *)
(* slug with whom, and whatever statements fail.                           *)
(***************************************************************************)
EXTENDS TenantRegistration, TLAPS

RegisterSteps == {"idle", "tenant", "retry", "owner", "bind", "token", "done",
                  "failed", "gone"}
VerifySteps   == {"idle", "check", "activate", "mark", "ok", "refused", "gone"}

\* The types of the columns and of the handlers' states.
TypeOK ==
    /\ tenantStatus   \in [Registrations -> {"absent", "pending", "active"}]
    /\ creator  \in [Usernames -> Registrations \cup {"free", "admin"}]
    /\ boundTo  \in [Usernames -> Registrations \cup {""}]
    /\ tokens   \in [Registrations -> {"none", "fresh", "expired", "used"}]
    /\ register \in [Registrations -> RegisterSteps]
    /\ verify   \in [Verifications ->
                       (Registrations \cup {NoToken}) \X VerifySteps]

\* Who holds an account: nobody is bound to another's account, and a handler
\* about to bind has created the account it binds, which may be deleted again.
AccountBook ==
    /\ \A u \in Usernames : boundTo[u] # "" => creator[u] = boundTo[u]
    /\ \A r \in Registrations :
          register[r] = "bind" => creator[UserOf[r]] = r \/ r \in removed

\* Past its UPDATE a registration has its owner, a line in the log or lost the
\* owner's account.
Bound(r) == boundTo[UserOf[r]] = r \/ r \in warned \/ r \in removed
OwnerBook ==
    \A r \in Registrations : register[r] \in {"token", "done"} => Bound(r)

\* There is a token only when its registration is done, a verification past
\* its first step has one, and only then can a tenant be active.
TokenBook ==
    /\ \A r \in Registrations : tokens[r] # "none" => register[r] = "done"
    /\ \A v \in Verifications : verify[v][2] # "idle" =>
          verify[v][1] \in Registrations /\ tokens[verify[v][1]] # "none"
    /\ \A r \in Registrations : tenantStatus[r] = "active" => tokens[r] # "none"

\* A token that was answered for is used up, unless the log says otherwise,
\* and a late verification is one of such a token.
AnswerBook ==
    /\ \A t \in answered : t \in Registrations
                              /\ (tokens[t] = "used" \/ t \in warned)
    /\ \A v \in late : /\ v \in Verifications
                       /\ verify[v][1] \in answered
                       /\ verify[v][2] # "idle"

IInv ==
    /\ TypeOK
    /\ AccountBook
    /\ OwnerBook
    /\ TokenBook
    /\ AnswerBook
    /\ LateVerifyRefused

----------------------------------------------------------------------------

\* No row and no handler at first.
LEMMA InitIInv ==
    ASSUME RegistrationAssumption, RegistrationInit
    PROVE  IInv
<1> USE DEF RegistrationInit, RegistrationAssumption
<1>1. TypeOK
  BY DEF TypeOK, RegisterSteps, VerifySteps, NoToken
<1>2. AccountBook /\ OwnerBook /\ TokenBook /\ AnswerBook /\ LateVerifyRefused
  BY DEF AccountBook, OwnerBook, TokenBook, AnswerBook, LateVerifyRefused, Bound
<1> QED BY <1>1, <1>2 DEF IInv

\* A step of a registration's handler that only moves on, or fails.
LEMMA RegisterMoves ==
    ASSUME IInv, NEW r \in Registrations, NEW from \in RegisterSteps,
           NEW to \in RegisterSteps \ {"bind", "token", "done"},
           RegisterStep(r, from, to), from # "done",
           UNCHANGED <<creator, boundTo, tokens, verify, answered, late,
                       warned, removed>>,
           \/ UNCHANGED tenantStatus
           \/ tenantStatus' = [tenantStatus EXCEPT ![r] = "pending"]
    PROVE  IInv'
<1> USE DEF IInv, RegisterStep
<1>1. TypeOK'
  BY DEF TypeOK
<1>2. AccountBook' /\ OwnerBook'
  BY DEF TypeOK, AccountBook, OwnerBook, Bound
<1>3. TokenBook'
  BY DEF TypeOK, TokenBook
<1>4. AnswerBook' /\ LateVerifyRefused'
  BY DEF AnswerBook, LateVerifyRefused
<1> QED BY <1>1, <1>2, <1>3, <1>4

\* What a move of a verification's handler leaves behind.
LEMMA VerifyMoved ==
    ASSUME TypeOK, NEW v \in Verifications, NEW t \in Registrations,
           NEW from \in VerifySteps, NEW to \in VerifySteps,
           VerifyStep(v, t, from, to)
    PROVE  /\ verify[v][1] = t /\ verify[v][2] = from
           /\ verify'[v][1] = t /\ verify'[v][2] = to
           /\ \A w \in Verifications : w # v => verify'[w] = verify[w]
<1>1. DOMAIN verify = Verifications
  BY DEF TypeOK
<1>2. /\ verify[v] = <<t, from>> /\ verify'[v] = <<t, to>>
      /\ \A w \in Verifications : w # v => verify'[w] = verify[w]
  BY <1>1 DEF VerifyStep
<1> QED BY <1>2

\* A step of a verification's handler that changes nothing but its place.
LEMMA VerifyMoves ==
    ASSUME IInv, NEW v \in Verifications, NEW t \in Registrations,
           NEW from \in VerifySteps \ {"idle"},
           NEW to \in VerifySteps \ {"idle"},
           VerifyStep(v, t, from, to),
           to \in {"activate", "mark", "ok"} =>
              v \notin late \/ t \in warned,
           UNCHANGED <<tenantStatus, creator, boundTo, tokens, register, answered,
                       late, warned, removed>>
    PROVE  IInv'
<1> USE DEF IInv
<1>0. /\ verify[v][1] = t /\ verify[v][2] = from
      /\ verify'[v][1] = t /\ verify'[v][2] = to
      /\ \A w \in Verifications : w # v => verify'[w] = verify[w]
  BY VerifyMoved
<1>1. TypeOK'
  <2>1. <<t, to>> \in (Registrations \cup {NoToken}) \X VerifySteps
    OBVIOUS
  <2> QED BY <2>1 DEF TypeOK, VerifyStep
<1>2. AccountBook' /\ OwnerBook'
  BY DEF AccountBook, OwnerBook, Bound
<1>3. TokenBook'
  BY <1>0 DEF TokenBook
<1>4. AnswerBook' /\ LateVerifyRefused'
  BY <1>0 DEF AnswerBook, LateVerifyRefused
<1> QED BY <1>1, <1>2, <1>3, <1>4

\* What the handlers of a registration do.
LEMMA RegisterPreserves ==
    ASSUME RegistrationAssumption, IInv, NEW r \in Registrations,
           HandleRegister(r) \/ RegisterHandler(r)
    PROVE  IInv'
<1> USE DEF RegisterSteps
<1>a. ASSUME NEW from \in {"tenant", "retry", "owner", "token"},
             RegisterFails(r, from)
      PROVE  IInv'
  BY <1>a, RegisterMoves DEF RegisterFails
<1>1. CASE HandleRegister(r)
  BY <1>1, RegisterMoves DEF HandleRegister
<1>2. CASE CreateTenant(r)
  <2>1. ASSUME NEW s, RegisterStep(r, "tenant", "owner"), InsertTenant(r, s)
        PROVE  IInv'
    BY <2>1, RegisterMoves DEF InsertTenant
  <2>2. CASE /\ RegisterStep(r, "tenant", "retry")
             /\ UNCHANGED <<tenantStatus, slug, creator, boundTo, tokens, verify,
                            answered, late, warned, removed>>
    BY <2>2, RegisterMoves
  <2> QED BY <1>2, <1>a, <2>1, <2>2 DEF CreateTenant
<1>3. CASE RetryTenant(r)
  <2>1. ASSUME NEW s, RegisterStep(r, "retry", "owner"), InsertTenant(r, s)
        PROVE  IInv'
    BY <2>1, RegisterMoves DEF InsertTenant
  <2> QED BY <1>3, <1>a, <2>1 DEF RetryTenant
<1>4. CASE CreateOwner(r)
  <2>1. CASE /\ creator[UserOf[r]] = "free"
             /\ RegisterStep(r, "owner", "bind")
             /\ creator' = [creator EXCEPT ![UserOf[r]] = r]
             /\ UNCHANGED <<tenantStatus, slug, boundTo, tokens, verify, answered,
                            late, warned, removed>>
    <3> USE <2>1 DEF IInv, RegisterStep, RegistrationAssumption
    <3>1. TypeOK'
      BY DEF TypeOK
    <3>2. AccountBook'
      BY DEF TypeOK, AccountBook
    <3>3. OwnerBook' /\ TokenBook'
      BY DEF TypeOK, OwnerBook, Bound, TokenBook
    <3>4. AnswerBook' /\ LateVerifyRefused'
      BY DEF AnswerBook, LateVerifyRefused
    <3> QED BY <3>1, <3>2, <3>3, <3>4
  <2> QED BY <1>4, <1>a, <2>1 DEF CreateOwner
<1>5. CASE BindOwner(r)
  <2> USE <1>5 DEF IInv, BindOwner, RegisterStep, RegistrationAssumption
  <2>1. TypeOK'
    <3>1. boundTo' \in [Usernames -> Registrations \cup {""}]
      <4>1. boundTo \in [Usernames -> Registrations \cup {""}]
        BY DEF TypeOK
      <4>2. CASE UNCHANGED boundTo
        BY <4>1, <4>2
      <4>3. CASE boundTo' = [boundTo EXCEPT ![UserOf[r]] =
                               IF creator[UserOf[r]] = r THEN r ELSE @]
        BY ONLY <4>1, <4>3, r \in Registrations
      <4> QED BY <4>2, <4>3
    <3>2. register' \in [Registrations -> RegisterSteps]
      BY DEF TypeOK
    <3> QED BY <3>1, <3>2 DEF TypeOK
  <2>7. /\ UserOf[r] \in Usernames /\ r # ""
        /\ creator[UserOf[r]] = r \/ r \in removed
    BY DEF AccountBook
  <2>8. /\ register'[r] = "token"
        /\ \A q \in Registrations : q # r => register'[q] = register[q]
    BY DEF TypeOK
  <2>9. DOMAIN boundTo = Usernames
    BY DEF TypeOK
  <2>2. /\ \A u \in Usernames : u # UserOf[r] => boundTo'[u] = boundTo[u]
        /\ \/ boundTo'[UserOf[r]] = boundTo[UserOf[r]]
           \/ boundTo'[UserOf[r]] = r /\ creator[UserOf[r]] = r
        /\ warned \subseteq warned' /\ removed' = removed
    BY <2>7, <2>9
  <2>6. AccountBook'
    <3>1. creator' = creator
      OBVIOUS
    <3>2. ASSUME NEW u \in Usernames, boundTo'[u] # ""
          PROVE  creator'[u] = boundTo'[u]
      BY <2>2, <2>7, <3>1, <3>2 DEF AccountBook
    <3>3. ASSUME NEW q \in Registrations, register'[q] = "bind"
          PROVE  creator'[UserOf[q]] = q \/ q \in removed'
      BY <2>2, <2>8, <3>1, <3>3 DEF AccountBook
    <3> QED BY <3>2, <3>3 DEF AccountBook
  <2>3. OwnerBook'
    <3>1. ASSUME NEW q \in Registrations, q # r, Bound(q)
          PROVE  Bound(q)'
      <4>1. CASE boundTo[UserOf[q]] = q
        <5>1. UserOf[q] \in Usernames /\ q # ""
          OBVIOUS
        <5>2. creator[UserOf[q]] = q
          BY <4>1, <5>1 DEF AccountBook
        <5> QED BY <2>2, <2>7, <3>1, <4>1, <5>1, <5>2 DEF Bound
      <4> QED BY <2>2, <3>1, <4>1 DEF Bound
    <3>2. Bound(r)'
      BY <2>7, <2>9 DEF Bound
    <3> QED BY <3>1, <3>2 DEF TypeOK, OwnerBook
  <2>4. TokenBook'
    BY DEF TypeOK, TokenBook
  <2>5. AnswerBook' /\ LateVerifyRefused'
    BY DEF AnswerBook, LateVerifyRefused
  <2> QED BY <2>1, <2>3, <2>4, <2>5, <2>6
<1>6. CASE InsertToken(r)
  <2>1. CASE /\ RegisterStep(r, "token", "done")
             /\ tokens' = [tokens EXCEPT ![r] = "fresh"]
             /\ UNCHANGED <<tenantStatus, slug, creator, boundTo, verify, answered,
                            late, warned, removed>>
    <3> USE <2>1 DEF IInv, RegisterStep
    <3>1. TypeOK'
      BY DEF TypeOK
    <3>2. AccountBook' /\ OwnerBook'
      BY DEF TypeOK, AccountBook, OwnerBook, Bound
    <3>3. TokenBook'
      BY DEF TypeOK, TokenBook
    <3>4. AnswerBook' /\ LateVerifyRefused'
      BY DEF TypeOK, TokenBook, AnswerBook, LateVerifyRefused
    <3> QED BY <3>1, <3>2, <3>3, <3>4
  <2> QED BY <1>6, <1>a, <2>1 DEF InsertToken
<1> QED
  BY <1>1, <1>2, <1>3, <1>4, <1>5, <1>6 DEF RegisterHandler

\* What the handlers of a verification do.
LEMMA VerifyPreserves ==
    ASSUME RegistrationAssumption, IInv, NEW v \in Verifications,
           NEW t \in Registrations,
           \/ HandleVerify(v, t) \/ CheckToken(v, t) \/ ActivateTenant(v, t)
           \/ MarkTokenUsed(v, t)
    PROVE  IInv'
<1> USE DEF VerifySteps
<1>1. CASE HandleVerify(v, t)
  <2> USE <1>1 DEF IInv, HandleVerify
  <2>1. /\ verify[v][2] = "idle"
        /\ verify'[v][1] = t /\ verify'[v][2] = "check"
        /\ \A w \in Verifications : w # v => verify'[w] = verify[w]
    <3>1. DOMAIN verify = Verifications
      BY DEF TypeOK
    <3>2. /\ verify[v] = <<NoToken, "idle">> /\ verify'[v] = <<t, "check">>
          /\ \A w \in Verifications : w # v => verify'[w] = verify[w]
      BY <3>1
    <3> QED BY ONLY <3>2
  <2>6. \A w \in late' : (w \in late /\ w # v) \/ (w = v /\ t \in answered)
    <3>1. v \notin late
      BY <2>1 DEF AnswerBook
    <3>2. late' = IF t \in answered THEN late \cup {v} ELSE late
      OBVIOUS
    <3> QED BY ONLY <3>1, <3>2
  <2>2. TypeOK'
    <3>1. <<t, "check">> \in (Registrations \cup {NoToken}) \X VerifySteps
      OBVIOUS
    <3> QED BY <3>1 DEF TypeOK
  <2>3. AccountBook' /\ OwnerBook'
    BY DEF AccountBook, OwnerBook, Bound
  <2>4. TokenBook'
    BY <2>1 DEF TokenBook
  <2>5. AnswerBook' /\ LateVerifyRefused'
    <3>1. AnswerBook /\ LateVerifyRefused
          /\ UNCHANGED <<tokens, answered, warned>>
      OBVIOUS
    <3> QED BY ONLY <2>1, <2>6, <3>1, v \in Verifications, t \in Registrations
         DEF AnswerBook, LateVerifyRefused
  <2> QED BY <2>2, <2>3, <2>4, <2>5
<1>2. CASE CheckToken(v, t)
  <2>1. CASE tokens[t] = "fresh" /\ VerifyStep(v, t, "check", "activate")
    <3>1. verify[v][1] = t
      BY <2>1, VerifyMoved DEF IInv
    <3>2. v \notin late \/ t \in warned
      BY <2>1, <3>1 DEF IInv, AnswerBook
    <3> QED BY <1>2, <2>1, <3>2, VerifyMoves DEF CheckToken
  <2>2. CASE VerifyStep(v, t, "check", "refused")
    BY <1>2, <2>2, VerifyMoves DEF CheckToken
  <2> QED BY <1>2, <2>1, <2>2 DEF CheckToken
<1>3. CASE ActivateTenant(v, t)
  <2>1. CASE /\ VerifyStep(v, t, "activate", "mark")
             /\ tenantStatus' = [tenantStatus EXCEPT ![t] = "active"]
             /\ UNCHANGED <<slug, creator, boundTo, tokens, register, answered,
                            late, warned, removed>>
    <3> USE <2>1 DEF IInv
    <3>1. /\ verify[v][1] = t /\ verify[v][2] = "activate"
          /\ verify'[v][1] = t /\ verify'[v][2] = "mark"
          /\ \A w \in Verifications : w # v => verify'[w] = verify[w]
      BY VerifyMoved
    <3>2. TypeOK'
      <4>1. <<t, "mark">> \in (Registrations \cup {NoToken}) \X VerifySteps
        OBVIOUS
      <4> QED BY <4>1 DEF TypeOK, VerifyStep
    <3>3. AccountBook' /\ OwnerBook'
      BY DEF AccountBook, OwnerBook, Bound
    <3>4. tokens[t] # "none"
      BY <3>1 DEF TokenBook
    <3>7. \A r \in Registrations : r # t => tenantStatus'[r] = tenantStatus[r]
      BY DEF TypeOK
    <3>5. TokenBook'
      <4>1. TokenBook /\ UNCHANGED <<tokens, register>>
        OBVIOUS
      <4> QED BY ONLY <3>1, <3>4, <3>7, <4>1, t \in Registrations DEF TokenBook
    <3>6. AnswerBook' /\ LateVerifyRefused'
      BY <3>1 DEF AnswerBook, LateVerifyRefused
    <3> QED BY <3>2, <3>3, <3>5, <3>6
  <2>2. CASE /\ VerifyStep(v, t, "activate", "refused")
             /\ UNCHANGED <<tenantStatus, slug, creator, boundTo, tokens, register,
                            answered, late, warned, removed>>
    BY <2>2, VerifyMoves
  <2> QED BY <1>3, <2>1, <2>2 DEF ActivateTenant
<1>4. CASE MarkTokenUsed(v, t)
  <2> USE <1>4 DEF IInv, MarkTokenUsed
  <2>0. DOMAIN tokens = Registrations
    BY DEF TypeOK
  <2>1. /\ verify[v][1] = t /\ verify[v][2] = "mark"
        /\ verify'[v][1] = t /\ verify'[v][2] = "ok"
        /\ \A w \in Verifications : w # v => verify'[w] = verify[w]
    BY VerifyMoved
  <2>2. /\ \A r \in Registrations : r # t => tokens'[r] = tokens[r]
        /\ tokens'[t] = "used" \/ (tokens'[t] = tokens[t] /\ t \in warned')
        /\ warned \subseteq warned'
    BY <2>0
  <2>3. TypeOK'
    <3>1. <<t, "ok">> \in (Registrations \cup {NoToken}) \X VerifySteps
      OBVIOUS
    <3>2. verify' \in [Verifications ->
                         (Registrations \cup {NoToken}) \X VerifySteps]
      BY <3>1 DEF TypeOK, VerifyStep
    <3>3. tokens' \in [Registrations -> {"none", "fresh", "expired", "used"}]
      BY DEF TypeOK
    <3> QED BY <3>2, <3>3 DEF TypeOK
  <2>4. AccountBook'
    BY DEF AccountBook
  <2>5. OwnerBook'
    BY <2>2 DEF OwnerBook, Bound
  <2>6. tokens[t] # "none"
    BY <2>1 DEF TokenBook
  <2>10. \A r \in Registrations : tokens'[r] # "none" <=> tokens[r] # "none"
    BY <2>2, <2>6
  <2>7. TokenBook'
    BY <2>1, <2>6, <2>10 DEF TokenBook
  <2>8. AnswerBook'
    BY <2>1, <2>2 DEF AnswerBook
  <2>9. LateVerifyRefused'
    BY <2>1, <2>2 DEF AnswerBook, LateVerifyRefused
  <2> QED BY <2>3, <2>4, <2>5, <2>7, <2>8, <2>9
<1> QED BY <1>1, <1>2, <1>3, <1>4

\* Administrators, time and restarts.
LEMMA EnvironmentPreserves ==
    ASSUME RegistrationAssumption, IInv,
           \/ \E u \in Usernames : \/ AdminCreatesTeacher(u)
                                   \/ AdminDeletesTeacher(u)
           \/ \E r \in Registrations : TokenExpires(r)
           \/ ServerRestart
           \/ UNCHANGED registrationVars
    PROVE  IInv'
<1> USE DEF IInv
<1>1. ASSUME NEW u \in Usernames, AdminCreatesTeacher(u)
      PROVE  IInv'
  <2> USE <1>1 DEF AdminCreatesTeacher, RegistrationAssumption
  <2>1. TypeOK'
    BY DEF TypeOK
  <2>2. AccountBook'
    BY DEF TypeOK, AccountBook
  <2>3. OwnerBook' /\ TokenBook' /\ AnswerBook' /\ LateVerifyRefused'
    BY DEF OwnerBook, Bound, TokenBook, AnswerBook, LateVerifyRefused
  <2> QED BY <2>1, <2>2, <2>3
<1>5. ASSUME NEW u \in Usernames, AdminDeletesTeacher(u)
      PROVE  IInv'
  <2> USE <1>5 DEF AdminDeletesTeacher, RegistrationAssumption
  <2>1. TypeOK'
    BY DEF TypeOK
  <2>2. /\ creator'[u] = "free" /\ boundTo'[u] = ""
        /\ \A x \in Usernames : x # u => /\ creator'[x] = creator[x]
                                         /\ boundTo'[x] = boundTo[x]
        /\ removed \subseteq removed'
        /\ \A r \in Registrations : creator[u] = r => r \in removed'
    BY DEF TypeOK
  <2>3. AccountBook'
    BY <2>2 DEF AccountBook
  <2>4. OwnerBook'
    <3>1. ASSUME NEW r \in Registrations, Bound(r)
          PROVE  Bound(r)'
      <4>1. UserOf[r] \in Usernames /\ r # ""
        OBVIOUS
      <4>2. boundTo[UserOf[r]] = r => creator[UserOf[r]] = r
        BY <4>1 DEF AccountBook
      <4> QED BY <2>2, <3>1, <4>1, <4>2 DEF Bound
    <3> QED BY <3>1 DEF OwnerBook
  <2>5. TokenBook' /\ AnswerBook' /\ LateVerifyRefused'
    BY DEF TokenBook, AnswerBook, LateVerifyRefused
  <2> QED BY <2>1, <2>3, <2>4, <2>5
<1>2. ASSUME NEW r \in Registrations, TokenExpires(r)
      PROVE  IInv'
  <2> USE <1>2 DEF TokenExpires
  <2>1. TypeOK'
    BY DEF TypeOK
  <2>2. AccountBook' /\ OwnerBook'
    BY DEF AccountBook, OwnerBook, Bound
  <2>3. TokenBook' /\ AnswerBook' /\ LateVerifyRefused'
    BY DEF TypeOK, TokenBook, AnswerBook, LateVerifyRefused
  <2> QED BY <2>1, <2>2, <2>3
<1>3. CASE ServerRestart
  <2> USE <1>3 DEF ServerRestart
  <2>1. /\ \A r \in Registrations : register'[r] \in {register[r], "gone"}
        /\ \A r \in Registrations : register[r] = "done" => register'[r] = "done"
        /\ \A v \in Verifications : verify[v] \in
              (Registrations \cup {NoToken}) \X VerifySteps
    BY DEF TypeOK
  <2>2. ASSUME NEW v \in Verifications
        PROVE  /\ verify'[v] \in (Registrations \cup {NoToken}) \X VerifySteps
               /\ verify'[v][1] = verify[v][1]
               /\ verify'[v][2] = verify[v][2]
                     \/ (verify'[v][2] = "gone" /\ verify[v][2] # "idle")
    BY <2>1 DEF VerifySteps
  <2>3. TypeOK'
    <3>1. register' \in [Registrations -> RegisterSteps]
      BY DEF TypeOK, RegisterSteps
    <3>2. verify' \in [Verifications ->
                         (Registrations \cup {NoToken}) \X VerifySteps]
      BY <2>2
    <3> QED BY <3>1, <3>2 DEF TypeOK
  <2>4. AccountBook' /\ OwnerBook'
    BY <2>1 DEF AccountBook, OwnerBook, Bound
  <2>5. TokenBook'
    BY <2>1, <2>2 DEF TokenBook
  <2>6. AnswerBook' /\ LateVerifyRefused'
    BY <2>2 DEF AnswerBook, LateVerifyRefused
  <2> QED BY <2>3, <2>4, <2>5, <2>6
<1>4. CASE UNCHANGED registrationVars
  BY <1>4 DEF registrationVars, TypeOK, AccountBook, OwnerBook, Bound, TokenBook,
              AnswerBook, LateVerifyRefused
<1> QED BY <1>1, <1>2, <1>3, <1>4, <1>5

\* IInv is inductive.
LEMMA Invariance == RegistrationSpec => []IInv
<1>1. IInv /\ [RegistrationNext]_registrationVars => IInv'
  BY RegistrationAssumption, RegisterPreserves, VerifyPreserves,
     EnvironmentPreserves DEF RegistrationNext, VerifyHandler
<1> QED BY InitIInv, RegistrationAssumption, <1>1, PTL DEF RegistrationSpec

\* The columns and the handlers' states keep their types.
THEOREM TypeCorrect == RegistrationSpec => []TypeOK
  BY Invariance, PTL DEF IInv

\* Registrations that race for a username, a slug or an address, statements
\* that fail and restarts leave no account bound to a tenant that did not
\* create it, and no active tenant without its owner but a logged one and one
\* whose owner's account an administrator has deleted.
THEOREM OwnersBound == RegistrationSpec => []OwnersAreBound
<1>1. IInv => OwnersAreBound
  BY DEF IInv, AccountBook, OwnerBook, TokenBook, Bound, OwnersAreBound
<1> QED BY Invariance, <1>1, PTL

\* A verification begun after its token was answered for never activates a
\* tenant, unless marking the token failed and was logged.
THEOREM NoReplay == RegistrationSpec => []LateVerifyRefused
  BY Invariance, PTL DEF IInv
=============================================================================
