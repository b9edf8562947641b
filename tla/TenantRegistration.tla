------------------------- MODULE TenantRegistration -------------------------
(***************************************************************************)
(* src/src/api/v1/controllers/RegisterController.cpp over tables tenants,  *)
(* teachers and registration_tokens: the public registration of an         *)
(* organisation and the verification of its e-mail address.                *)
(*                                                                         *)
(* Every statement runs under the database mutex, but a handler takes the  *)
(* mutex once per statement and uses no transaction: handlers interleave   *)
(* between statements, every statement may fail (full disk, I/O error),    *)
(* and the server may end between two of them.                             *)
(*                                                                         *)
(* A registration r stands for one POST /api/v1/register that passed       *)
(* validation; the tenant and the token it creates are named r as well     *)
(* (both have UUIDs).  A slug is a pair of the slug made from orgName and  *)
(* the random suffix of the retry.                                         *)
(***************************************************************************)
EXTENDS Naturals, FiniteSets

CONSTANTS
    Registrations,  \* POST /api/v1/register requests
    Verifications,  \* GET /api/v1/verify requests
    Usernames,      \* login names of teachers
    EmailOf,        \* registration -> dto.email
    UserOf,         \* registration -> dto.username
    SlugOf,         \* registration -> makeSlug(dto.orgName)
    Suffixes        \* first four digits of a random UUID

ASSUME RegistrationAssumption ==
    /\ UserOf \in [Registrations -> Usernames]
    /\ {"", "admin", "free"} \cap Registrations = {}
    /\ "" \notin Suffixes

VARIABLES
    tenantStatus, \* tenants.status, "absent" when there is no row
    slug,       \* tenants.slug
    creator,    \* username -> who created the teachers row, "free" if none
    boundTo,    \* username -> teachers.tenant_id
    tokens,     \* registration_tokens: "none", "fresh", "expired" or "used"
    register,   \* registration -> next step of its handler
    verify,     \* verification -> <<token, next step of its handler>>
    answered,   \* tokens a verification was answered 200 for
    late,       \* verifications begun after such an answer for their token
    warned,     \* registrations with a statement whose failure was only logged
    removed     \* registrations whose owner's account was deleted

registrationVars == <<tenantStatus, slug, creator, boundTo, tokens, register,
                      verify, answered, late, warned, removed>>

NoToken == "none"

Tenants == {r \in Registrations : tenantStatus[r] # "absent"}

RegistrationInit ==
    /\ tenantStatus = [r \in Registrations |-> "absent"]
    /\ slug     = [r \in Registrations |-> <<"", "">>]
    /\ creator  = [u \in Usernames |-> "free"]
    /\ boundTo  = [u \in Usernames |-> ""]
    /\ tokens   = [r \in Registrations |-> "none"]
    /\ register = [r \in Registrations |-> "idle"]
    /\ verify   = [v \in Verifications |-> <<NoToken, "idle">>]
    /\ answered = {}
    /\ late     = {}
    /\ warned   = {}
    /\ removed  = {}

----------------------------------------------------------------------------
(* handleRegister *)

RegisterStep(r, from, to) ==
    /\ register[r] = from
    /\ register' = [register EXCEPT ![r] = to]

\* The request is valid and its captcha verified (400 otherwise).
HandleRegister(r) ==
    /\ RegisterStep(r, "idle", "tenant")
    /\ UNCHANGED <<tenantStatus, slug, creator, boundTo, tokens, verify,
                   answered, late, warned, removed>>

\* Columns slug and owner_email are unique.
Conflict(r, s) == \E t \in Tenants : slug[t] = s \/ EmailOf[t] = EmailOf[r]

\* TenantRepository::create inserts a pending tenant.
InsertTenant(r, s) ==
    /\ tenantStatus' = [tenantStatus EXCEPT ![r] = "pending"]
    /\ slug'   = [slug EXCEPT ![r] = s]
    /\ UNCHANGED <<creator, boundTo, tokens, verify, answered, late, warned,
                   removed>>

\* A statement failed, or the handler gives up: an error answer.  What earlier
\* statements wrote stays.
RegisterFails(r, from) ==
    /\ RegisterStep(r, from, "failed")
    /\ UNCHANGED <<tenantStatus, slug, creator, boundTo, tokens, verify,
                   answered, late, warned, removed>>

\* The first attempt.  The message of neither conflict contains "owner_email",
\* the column's name, so a taken e-mail address is retried like a taken slug.
CreateTenant(r) ==
    LET s == <<SlugOf[r], "">> IN
    \/ /\ ~Conflict(r, s)
       /\ RegisterStep(r, "tenant", "owner")
       /\ InsertTenant(r, s)
    \/ /\ Conflict(r, s)
       /\ RegisterStep(r, "tenant", "retry")
       /\ UNCHANGED <<tenantStatus, slug, creator, boundTo, tokens, verify,
                      answered, late, warned, removed>>
    \/ RegisterFails(r, "tenant")

\* The second attempt with a random suffix: 409 when it conflicts too.
RetryTenant(r) ==
    \E x \in Suffixes :
       LET s == <<SlugOf[r], x>> IN
       \/ /\ ~Conflict(r, s)
          /\ RegisterStep(r, "retry", "owner")
          /\ InsertTenant(r, s)
       \/ RegisterFails(r, "retry")

\* TeacherRepository::create(.., "owner"); usernames are unique over all
\* tenants; a taken one, like any failure, is answered 500 and leaves the
\* tenant in place.
CreateOwner(r) ==
    \/ /\ creator[UserOf[r]] = "free"
       /\ RegisterStep(r, "owner", "bind")
       /\ creator' = [creator EXCEPT ![UserOf[r]] = r]
       /\ UNCHANGED <<tenantStatus, slug, boundTo, tokens, verify, answered,
                      late, warned, removed>>
    \/ RegisterFails(r, "owner")

\* Mutant of BindOwner: the UPDATE finds the account by its username.
BindOwnerByName(r) ==
    /\ RegisterStep(r, "bind", "token")
    /\ boundTo' = [boundTo EXCEPT ![UserOf[r]] =
                     IF creator[UserOf[r]] = "free" THEN @ ELSE r]
    /\ UNCHANGED <<tenantStatus, slug, creator, tokens, verify, answered, late,
                   warned, removed>>

\* UPDATE teachers SET tenant_id WHERE id: the row CreateOwner made, or none when
\* it is gone.  A failure is only logged, and no row is none.
BindOwner(r) ==
    /\ RegisterStep(r, "bind", "token")
    /\ \/ /\ boundTo' = [boundTo EXCEPT ![UserOf[r]] =
                           IF creator[UserOf[r]] = r THEN r ELSE @]
          /\ UNCHANGED warned
       \/ warned' = warned \cup {r} /\ UNCHANGED boundTo
    /\ UNCHANGED <<tenantStatus, slug, creator, tokens, verify, answered, late,
                   removed>>

\* insertToken, the e-mail (whose failure is only logged) and the answer 201.
InsertToken(r) ==
    \/ /\ RegisterStep(r, "token", "done")
       /\ tokens' = [tokens EXCEPT ![r] = "fresh"]
       /\ UNCHANGED <<tenantStatus, slug, creator, boundTo, verify, answered,
                      late, warned, removed>>
    \/ RegisterFails(r, "token")

----------------------------------------------------------------------------
(* handleVerify *)

VerifyStep(v, t, from, to) ==
    /\ verify[v] = <<t, from>>
    /\ verify' = [verify EXCEPT ![v] = <<t, to>>]

\* A request with the token of registration t; nobody else knows a UUID, so t
\* has been inserted.
HandleVerify(v, t) ==
    /\ tokens[t] # "none"
    /\ verify[v] = <<NoToken, "idle">>
    /\ verify' = [verify EXCEPT ![v] = <<t, "check">>]
    /\ late'   = IF t \in answered THEN late \cup {v} ELSE late
    /\ UNCHANGED <<tenantStatus, slug, creator, boundTo, tokens, register,
                   answered, warned, removed>>

\* checkToken: 409 for a used token, 410 for an expired one, 404 when the
\* statement fails.
CheckToken(v, t) ==
    /\ \/ tokens[t] = "fresh" /\ VerifyStep(v, t, "check", "activate")
       \/ VerifyStep(v, t, "check", "refused")
    /\ UNCHANGED <<tenantStatus, slug, creator, boundTo, tokens, register,
                   answered, late, warned, removed>>

\* TenantRepository::activate, whatever the status was.
ActivateTenant(v, t) ==
    \/ /\ VerifyStep(v, t, "activate", "mark")
       /\ tenantStatus' = [tenantStatus EXCEPT ![t] = "active"]
       /\ UNCHANGED <<slug, creator, boundTo, tokens, register, answered,
                      late, warned, removed>>
    \/ /\ VerifyStep(v, t, "activate", "refused")
       /\ UNCHANGED <<tenantStatus, slug, creator, boundTo, tokens, register,
                      answered, late, warned, removed>>

\* Mutant of MarkTokenUsed: the verification is answered, the token stays.
MarkTokenForgotten(v, t) ==
    /\ VerifyStep(v, t, "mark", "ok")
    /\ answered' = answered \cup {t}
    /\ UNCHANGED <<tenantStatus, slug, creator, boundTo, tokens, register,
                   late, warned, removed>>

\* markTokenUsed, whose failure is only logged, and the answer 200.
MarkTokenUsed(v, t) ==
    /\ VerifyStep(v, t, "mark", "ok")
    /\ \/ tokens' = [tokens EXCEPT ![t] = "used"] /\ UNCHANGED warned
       \/ warned' = warned \cup {t} /\ UNCHANGED tokens
    /\ answered' = answered \cup {t}
    /\ UNCHANGED <<tenantStatus, slug, creator, boundTo, register, late,
                   removed>>

----------------------------------------------------------------------------
(* The environment *)

\* TeacherController::handleCreateTeacher: an administrator takes a username;
\* the account belongs to no tenant.
AdminCreatesTeacher(u) ==
    /\ creator[u] = "free"
    /\ creator' = [creator EXCEPT ![u] = "admin"]
    /\ UNCHANGED <<tenantStatus, slug, boundTo, tokens, register, verify,
                   answered, late, warned, removed>>

\* TeacherController::handleDeleteTeacher: an administrator deletes an account,
\* with its tenant_id; the owner of a tenant is not treated differently.
AdminDeletesTeacher(u) ==
    /\ creator[u] # "free"
    /\ creator' = [creator EXCEPT ![u] = "free"]
    /\ boundTo' = [boundTo EXCEPT ![u] = ""]
    /\ removed' = removed \cup ({creator[u]} \cap Registrations)
    /\ UNCHANGED <<tenantStatus, slug, tokens, register, verify, answered, late,
                   warned>>

\* expires_at passes.
TokenExpires(r) ==
    /\ tokens[r] = "fresh"
    /\ tokens' = [tokens EXCEPT ![r] = "expired"]
    /\ UNCHANGED <<tenantStatus, slug, creator, boundTo, register, verify,
                   answered, late, warned, removed>>

\* The server ends and is started again: the handlers under way are gone.
ServerRestart ==
    /\ register' = [r \in Registrations |->
                      IF register[r] \in {"idle", "done", "failed"}
                      THEN register[r] ELSE "gone"]
    /\ verify'   = [v \in Verifications |->
                      IF verify[v][2] \in {"idle", "ok", "refused"}
                      THEN verify[v] ELSE <<verify[v][1], "gone">>]
    /\ UNCHANGED <<tenantStatus, slug, creator, boundTo, tokens, answered,
                   late, warned, removed>>

RegisterHandler(r) ==
    \/ CreateTenant(r)
    \/ RetryTenant(r)
    \/ CreateOwner(r)
    \/ BindOwner(r)
    \/ InsertToken(r)

VerifyHandler(v) ==
    \E t \in Registrations :
       \/ CheckToken(v, t)
       \/ ActivateTenant(v, t)
       \/ MarkTokenUsed(v, t)

RegistrationNext ==
    \/ \E r \in Registrations :
          \/ HandleRegister(r)
          \/ RegisterHandler(r)
          \/ TokenExpires(r)
    \/ \E v \in Verifications :
          \/ \E t \in Registrations : HandleVerify(v, t)
          \/ VerifyHandler(v)
    \/ \E u \in Usernames : AdminCreatesTeacher(u) \/ AdminDeletesTeacher(u)
    \/ ServerRestart

RegistrationSpec == RegistrationInit /\ [][RegistrationNext]_registrationVars

----------------------------------------------------------------------------
(* Properties *)

\* An account is only ever bound to the tenant of the registration that created
\* it, and the owner of an active tenant is bound to it, unless the log says that
\* the UPDATE failed or an administrator has deleted the account: registrations
\* that race for one username, and an administrator who deletes an account and
\* gives its name away between its creation and the UPDATE, never end with one
\* tenant owning another's account, and no other failure or race leaves an active
\* tenant without its owner.
OwnersAreBound ==
    /\ \A u \in Usernames : boundTo[u] # "" => creator[u] = boundTo[u]
    /\ \A r \in Registrations :
          tenantStatus[r] = "active" =>
             boundTo[UserOf[r]] = r \/ r \in warned \/ r \in removed

\* "Consume the token so it cannot be replayed" (RegisterController.cpp:637):
\* a verification begun after one of the same token was answered 200 is
\* refused, unless the log says that marking the token failed.
LateVerifyRefused ==
    \A v \in late : verify[v][1] \notin warned
                    => verify[v][2] \notin {"activate", "mark", "ok"}
=============================================================================
