-------------------------- MODULE PasswordRequests --------------------------
(***************************************************************************)
(* The accounts of one tenant and the tickets with which a subordinate     *)
(* asks for a new password: RequestController, StudentController and the   *)
(* writing handlers of ClassController and TeacherController, over tables  *)
(* teachers, classes, students and pending_requests.                       *)
(*                                                                         *)
(* A repository call is atomic (it holds the database mutex, and the one   *)
(* that needs two updates uses a transaction); a handler is not, and is    *)
(* split where it leaves one call and makes the next.  Tokens are checked  *)
(* without the database: one outlives the account it was issued for.       *)
(*                                                                         *)
(* Ids are UUIDs: a row that was deleted never comes back.  The password   *)
(* a ticket carries is named like the ticket.                              *)
(***************************************************************************)
EXTENDS Naturals, Sequences

CONSTANTS
    Teachers, Classes, Students, Requests,  \* ids
    Machines,        \* fingerprints
    UsernameOf,      \* student -> username
    Workers,         \* threads of the HTTP server
    StudentClaims,   \* what "sub" of a student's token may be
    TeacherClaims    \* what "tenant_id" of a teacher's token may be

Tenant    == "tenant"    \* the tenant's id, the inbox of its owner
NoTeacher == "none"      \* NULL
NoMachine == "none"
NoOne     == "none"
NoHash    == "none"      \* there is no row
Accounts  == Teachers \cup Students

\* AuthController::handleLogin issues "username" and the teacher's tenant_id,
\* which is empty for the accounts handleCreateTeacher makes.  Checking more
\* claims than that is sound: they only add behaviours.
ASSUME RequestAssumption ==
    /\ StudentClaims \subseteq {"username", "id"}
    /\ TeacherClaims \subseteq {"", Tenant}
    /\ Teachers \cap Students = {}
    /\ {Tenant, NoOne} \cap Accounts = {}
    /\ {"initial", "set", NoHash} \cap Requests = {}
    /\ NoMachine \notin Machines

VARIABLES
    teacherRow, classRow, studentRow,  \* id -> "new", "present" or "deleted"
    classTeacher,   \* classes.teacher_id
    classOf,        \* students.class_id
    machine,        \* students.machine_id; is_activated says it is not NULL
    password,       \* password_hash: the first one, one set, or a ticket's
    status,         \* pending_requests.status, "new" when there is no row
    fromId, toId,   \* pending_requests.from_id, to_id
    call,           \* worker -> the handler it is in, with what it has read
    outbox,         \* account -> its tickets in the order of submission
    uncancelled,    \* tickets that the last failing cancellation left pending
    boundWith       \* student -> password when the machine was bound

schoolVars  == <<teacherRow, classRow, classTeacher, studentRow, classOf>>
requestVars == <<status, fromId, toId, outbox, uncancelled>>
secretVars  == <<machine, password, boundWith>>
vars == <<schoolVars, requestVars, secretVars, call>>

Idle == [op |-> "idle", who |-> NoOne, arg |-> NoOne]

Init ==
    /\ teacherRow   = [t \in Teachers |-> "new"]
    /\ classRow     = [c \in Classes |-> "new"]
    /\ studentRow   = [s \in Students |-> "new"]
    /\ classTeacher = [c \in Classes |-> NoTeacher]
    /\ classOf      = [s \in Students |-> NoOne]
    /\ machine      = [s \in Students |-> NoMachine]
    /\ password     = [a \in Accounts |-> NoHash]
    /\ status       = [r \in Requests |-> "new"]
    /\ fromId       = [r \in Requests |-> NoOne]
    /\ toId         = [r \in Requests |-> NoOne]
    /\ call         = [w \in Workers |-> Idle]
    /\ outbox       = [a \in Accounts |-> << >>]
    /\ uncancelled  = {}
    /\ boundWith    = [s \in Students |-> NoHash]

Present(x) == IF x \in Students THEN studentRow[x] = "present"
              ELSE teacherRow[x] = "present"

\* A token for the account may be around: it was created once.
HasToken(x) == IF x \in Students THEN studentRow[x] # "new"
               ELSE teacherRow[x] # "new"

----------------------------------------------------------------------------
(* TeacherController, ClassController, StudentController: one statement      *)
(* each.  The queries some make before only choose the error answer; the     *)
(* constraints of the tables decide.                                         *)

CreateTeacher(t) ==
    /\ teacherRow[t] = "new"
    /\ teacherRow' = [teacherRow EXCEPT ![t] = "present"]
    /\ password'   = [password EXCEPT ![t] = "initial"]
    /\ UNCHANGED <<classRow, classTeacher, studentRow, classOf, requestVars,
                   machine, boundWith, call>>

\* Mutant of DeleteTeacher: the classes keep the teacher.
DeleteTeacherKeepsClasses(t) ==
    /\ teacherRow[t] = "present"
    /\ teacherRow' = [teacherRow EXCEPT ![t] = "deleted"]
    /\ password'   = [password EXCEPT ![t] = NoHash]
    /\ UNCHANGED <<classRow, classTeacher, studentRow, classOf, requestVars,
                   machine, boundWith, call>>

\* classes.teacher_id REFERENCES teachers ON DELETE SET NULL; tickets from and
\* to the teacher stay.
DeleteTeacher(t) ==
    /\ teacherRow[t] = "present"
    /\ teacherRow'   = [teacherRow EXCEPT ![t] = "deleted"]
    /\ classTeacher' = [c \in Classes |-> IF classTeacher[c] = t THEN NoTeacher
                                          ELSE classTeacher[c]]
    /\ password'     = [password EXCEPT ![t] = NoHash]
    /\ UNCHANGED <<classRow, studentRow, classOf, requestVars, machine,
                   boundWith, call>>

\* teacher_id is NULL or refers to a row, in an INSERT and in an UPDATE.
IsTeacherRef(t) == t = NoTeacher \/ (t \in Teachers /\ Present(t))

CreateClass(c, t) ==
    /\ classRow[c] = "new"
    /\ IsTeacherRef(t)
    /\ classRow'     = [classRow EXCEPT ![c] = "present"]
    /\ classTeacher' = [classTeacher EXCEPT ![c] = t]
    /\ UNCHANGED <<teacherRow, studentRow, classOf, requestVars, secretVars,
                   call>>

UpdateClass(c, t) ==
    /\ classRow[c] = "present"
    /\ IsTeacherRef(t)
    /\ classTeacher' = [classTeacher EXCEPT ![c] = t]
    /\ UNCHANGED <<teacherRow, classRow, studentRow, classOf, requestVars,
                   secretVars, call>>

\* machine_id = NULL, is_activated = 0 in the rows of some students.
Unbind(S) ==
    /\ machine'   = [s \in Students |-> IF s \in S THEN NoMachine
                                       ELSE machine[s]]
    /\ boundWith' = [s \in Students |-> IF s \in S THEN NoHash
                                       ELSE boundWith[s]]

\* The rows of some students are removed.
RemoveStudents(S) ==
    /\ studentRow' = [s \in Students |-> IF s \in S THEN "deleted"
                                        ELSE studentRow[s]]
    /\ classOf'    = [s \in Students |-> IF s \in S THEN NoOne ELSE classOf[s]]
    /\ Unbind(S)
    /\ password'   = [a \in Accounts |-> IF a \in S THEN NoHash
                                         ELSE password[a]]

\* ON DELETE CASCADE takes the students of the class along.
DeleteClass(c) ==
    /\ classRow[c] = "present"
    /\ classRow'     = [classRow EXCEPT ![c] = "deleted"]
    /\ classTeacher' = [classTeacher EXCEPT ![c] = NoTeacher]
    /\ RemoveStudents({s \in Students : classOf[s] = c})
    /\ UNCHANGED <<teacherRow, requestVars, call>>

\* UNIQUE(tenant_id, username), and class_id refers to a row.
CreateStudent(s, c) ==
    /\ studentRow[s] = "new"
    /\ classRow[c] = "present"
    /\ \A x \in Students : Present(x) => UsernameOf[x] # UsernameOf[s]
    /\ studentRow' = [studentRow EXCEPT ![s] = "present"]
    /\ classOf'    = [classOf EXCEPT ![s] = c]
    /\ password'   = [password EXCEPT ![s] = "initial"]
    /\ UNCHANGED <<teacherRow, classRow, classTeacher, requestVars, machine,
                   boundWith, call>>

DeleteStudent(s) ==
    /\ Present(s)
    /\ RemoveStudents({s})
    /\ UNCHANGED <<teacherRow, classRow, classTeacher, requestVars, call>>

ResetMachine(s) ==
    /\ Present(s)
    /\ Unbind({s})
    /\ UNCHANGED <<schoolVars, requestVars, password, call>>

\* Mutant of UpdatePassword: the machine stays bound.
UpdatePasswordOnly(x, p) ==
    /\ password' = [password EXCEPT ![x] = p]
    /\ Unbind({})

\* The UPDATE of a password; a student's also unbinds the machine.
UpdatePassword(x, p) ==
    /\ password' = [password EXCEPT ![x] = p]
    /\ Unbind({x} \cap Students)

\* handleUpdate with a password: StudentRepository::changePassword.
ChangePassword(s) ==
    /\ Present(s)
    /\ UpdatePassword(s, "set")
    /\ UNCHANGED <<schoolVars, requestVars, call>>

----------------------------------------------------------------------------
(* Handlers of several repository calls *)

Begin(w, c) ==
    /\ call[w] = Idle
    /\ call' = [call EXCEPT ![w] = c]

Proceed(w, op, c) ==
    /\ call[w].op = op
    /\ call' = [call EXCEPT ![w] = c]

\* Any of them may answer with an error: a statement failed, a row it looks
\* for is gone, or the server ends.
HandlerEnds(w) ==
    /\ call[w] # Idle
    /\ call' = [call EXCEPT ![w] = Idle]
    /\ UNCHANGED <<schoolVars, requestVars, secretVars>>

\* handleSubmitChangePassword of a student: findById(subject) ...
HandleSubmitStudent(w, s) ==
    /\ "id" \in StudentClaims
    /\ Present(s)
    /\ Begin(w, [op |-> "class", who |-> s, arg |-> classOf[s]])
    /\ UNCHANGED <<schoolVars, requestVars, secretVars>>

\* ... and findById(classId): its teacher, or else the owner, is asked.
SubmitFindClass(w) ==
    LET c == call[w].arg
        t == classTeacher[c]
    IN /\ call[w].op = "class"
       /\ classRow[c] = "present"
       /\ Proceed(w, "class",
                  [op  |-> "submit", who |-> call[w].who,
                   arg |-> IF t = NoTeacher THEN Tenant ELSE t])
       /\ UNCHANGED <<schoolVars, requestVars, secretVars>>

\* ... of a teacher: the owner is asked, nothing is looked up.
HandleSubmitTeacher(w, t) ==
    /\ Tenant \in TeacherClaims
    /\ HasToken(t)
    /\ Begin(w, [op |-> "submit", who |-> t, arg |-> Tenant])
    /\ UNCHANGED <<schoolVars, requestVars, secretVars>>

\* The tickets of the submitter that submit means to cancel, and all tickets
\* after that.
Open(x) == {r \in Requests : fromId[r] = x /\ status[r] = "pending"}

Cancelled(x) == [r \in Requests |-> IF r \in Open(x) THEN "rejected"
                                    ELSE status[r]]

\* Mutant of Submit: the older ticket is not cancelled.
SubmitKeepsOlder(w, r) ==
    LET x == call[w].who
    IN /\ Proceed(w, "submit", Idle)
       /\ status[r] = "new"
       /\ status' = [status EXCEPT ![r] = "pending"]
       /\ fromId' = [fromId EXCEPT ![r] = x]
       /\ toId'   = [toId EXCEPT ![r] = call[w].arg]
       /\ outbox' = [outbox EXCEPT ![x] = Append(@, r)]
       /\ UNCHANGED <<schoolVars, secretVars, uncancelled>>

\* PendingRequestRepository::submit: the older ticket is cancelled, the new one
\* inserted, without a transaction.  Nobody looks whether the UPDATE failed.
Submit(w, r) ==
    LET x == call[w].who
    IN /\ Proceed(w, "submit", Idle)
       /\ status[r] = "new"
       /\ \/ /\ status' = [Cancelled(x) EXCEPT ![r] = "pending"]
             /\ uncancelled' = uncancelled \ Open(x)
          \/ /\ status' = [status EXCEPT ![r] = "pending"]
             /\ uncancelled' = uncancelled \cup Open(x)
       /\ fromId' = [fromId EXCEPT ![r] = x]
       /\ toId'   = [toId EXCEPT ![r] = call[w].arg]
       /\ outbox' = [outbox EXCEPT ![x] = Append(@, r)]
       /\ UNCHANGED <<schoolVars, secretVars>>

\* The INSERT fails, or the server ends before it: the cancellation stays.
SubmitHalf(w) ==
    /\ Proceed(w, "submit", Idle)
    /\ status' = Cancelled(call[w].who)
    /\ uncancelled' = uncancelled \ Open(call[w].who)
    /\ UNCHANGED <<schoolVars, fromId, toId, outbox, secretVars>>

\* handleAccept and handleReject: findById(id).  The caller's token must be the
\* owner's, or a teacher's of this tenant, and the ticket addressed to it.
HandleDecision(w, op, r) ==
    /\ status[r] = "pending"
    /\ toId[r] \in {Tenant} \cup {t \in Teachers :
                                    Tenant \in TeacherClaims /\ HasToken(t)}
    /\ Begin(w, [op |-> op, who |-> fromId[r], arg |-> r])
    /\ UNCHANGED <<schoolVars, requestVars, secretVars>>

HandleAccept(w, r) == HandleDecision(w, "accept", r)

HandleReject(w, r) == HandleDecision(w, "reject", r)

\* Mutant of AcceptAndApplyPassword: the second UPDATE changing no row does not
\* roll the first one back.
AcceptWithoutRollback(w) ==
    LET r == call[w].arg
        x == call[w].who
    IN /\ Proceed(w, "accept", Idle)
       /\ Present(x)
       /\ UpdatePassword(x, r)
       /\ status' = [status EXCEPT ![r] = IF @ = "pending" THEN "accepted"
                                          ELSE @]
       /\ UNCHANGED <<schoolVars, fromId, toId, outbox, uncancelled>>

\* PendingRequestRepository::acceptAndApplyPassword: one transaction, rolled
\* back when the account is gone or the ticket no longer pending.
AcceptAndApplyPassword(w) ==
    LET r == call[w].arg
        x == call[w].who
    IN /\ Proceed(w, "accept", Idle)
       /\ Present(x)
       /\ status[r] = "pending"
       /\ UpdatePassword(x, r)
       /\ status' = [status EXCEPT ![r] = "accepted"]
       /\ UNCHANGED <<schoolVars, fromId, toId, outbox, uncancelled>>

\* Mutant of Reject: WHERE id=? without AND status='pending'.
RejectAnyStatus(w) ==
    /\ Proceed(w, "reject", Idle)
    /\ status' = [status EXCEPT ![call[w].arg] = "rejected"]
    /\ UNCHANGED <<schoolVars, fromId, toId, outbox, uncancelled,
                      secretVars>>

\* PendingRequestRepository::reject.
Reject(w) ==
    LET r == call[w].arg
    IN /\ Proceed(w, "reject", Idle)
       /\ status[r] = "pending"
       /\ status' = [status EXCEPT ![r] = "rejected"]
       /\ UNCHANGED <<schoolVars, fromId, toId, outbox, uncancelled,
                      secretVars>>

\* handleActivateMachine: findByUsername of the token's subject.  The token may
\* have been issued to an earlier student of that name.
HandleActivateMachine(w, s, m) ==
    /\ "username" \in StudentClaims
    /\ Present(s)
    /\ Begin(w, [op |-> "activate", who |-> s, arg |-> m])
    /\ UNCHANGED <<schoolVars, requestVars, secretVars>>

\* StudentRepository::activate: 409 for a student already bound.
Activate(w) ==
    LET s == call[w].who
    IN /\ Proceed(w, "activate", Idle)
       /\ Present(s)
       /\ machine[s] = NoMachine
       /\ machine'   = [machine EXCEPT ![s] = call[w].arg]
       /\ boundWith' = [boundWith EXCEPT ![s] = password[s]]
       /\ UNCHANGED <<schoolVars, requestVars, password>>

----------------------------------------------------------------------------
Manage ==
    \/ \E t \in Teachers : CreateTeacher(t) \/ DeleteTeacher(t)
    \/ \E c \in Classes :
          \/ \E t \in Teachers \cup {NoTeacher} :
                CreateClass(c, t) \/ UpdateClass(c, t)
          \/ DeleteClass(c)
    \/ \E s \in Students :
          \/ \E c \in Classes : CreateStudent(s, c)
          \/ DeleteStudent(s)
          \/ ResetMachine(s)
          \/ ChangePassword(s)

Handle(w) ==
    \/ \E s \in Students :
          \/ HandleSubmitStudent(w, s)
          \/ \E m \in Machines : HandleActivateMachine(w, s, m)
    \/ \E t \in Teachers : HandleSubmitTeacher(w, t)
    \/ \E r \in Requests :
          HandleAccept(w, r) \/ HandleReject(w, r) \/ Submit(w, r)
    \/ SubmitFindClass(w)
    \/ SubmitHalf(w)
    \/ AcceptAndApplyPassword(w)
    \/ Reject(w)
    \/ Activate(w)
    \/ HandlerEnds(w)

Next == Manage \/ \E w \in Workers : Handle(w)

Spec == Init /\ [][Next]_vars

----------------------------------------------------------------------------
(* Properties *)

RowStates    == {"new", "present", "deleted"}
TicketStates == {"new", "pending", "accepted", "rejected"}
Hashes       == Requests \cup {"initial", "set"}
Calls ==
    {Idle} \cup [op : {"class"}, who : Students, arg : Classes]
           \cup [op : {"submit"}, who : Accounts, arg : Teachers \cup {Tenant}]
           \cup [op : {"accept", "reject"}, who : Accounts, arg : Requests]
           \cup [op : {"activate"}, who : Students, arg : Machines]

\* Rows, columns and handlers hold what their types allow.
TypeOK ==
    /\ teacherRow   \in [Teachers -> RowStates]
    /\ classRow     \in [Classes -> RowStates]
    /\ studentRow   \in [Students -> RowStates]
    /\ classTeacher \in [Classes -> Teachers \cup {NoTeacher}]
    /\ classOf      \in [Students -> Classes \cup {NoOne}]
    /\ machine      \in [Students -> Machines \cup {NoMachine}]
    /\ boundWith    \in [Students -> Hashes \cup {NoHash}]
    /\ password     \in [Accounts -> Hashes \cup {NoHash}]
    /\ status       \in [Requests -> TicketStates]
    /\ fromId       \in [Requests -> Accounts \cup {NoOne}]
    /\ toId         \in [Requests -> Teachers \cup {Tenant, NoOne}]
    /\ outbox       \in [Accounts -> Seq(Requests)]
    /\ uncancelled  \subseteq Requests
    /\ call         \in [Workers -> Calls]

\* A password that came with a ticket is in use only if that ticket was
\* accepted, and only by the account that submitted it: no race of an
\* acceptance with a cancellation, a rejection, another acceptance or the
\* removal of the account applies a password nobody consented to.
PasswordHasConsent ==
    \A a \in Accounts : password[a] \in Requests
       => /\ status[password[a]] = "accepted"
          /\ fromId[password[a]] = a

\* "auto-cancelling any existing pending request" (PendingRequestRepository,
\* line 71): of the tickets of an account only the newest is pending, so an older
\* one can no longer be accepted over it, except one that the UPDATE of the last
\* submission could not cancel.  A cancellation that works takes what earlier ones
\* left behind along; a failing INSERT, a decision under way or a removal of the
\* account leaves no older ticket open.
OlderPendingHasCause ==
    \A a \in Accounts : \A i \in 1..Len(outbox[a]) :
       status[outbox[a][i]] = "pending" =>
          i = Len(outbox[a]) \/ outbox[a][i] \in uncancelled

\* "Resetting the machine binding forces the student to re-activate after a
\* password change" (StudentRepository.cpp:459): a bound machine was bound
\* while the present password was in force, however the password changes.
BoundUnderPassword ==
    \A s \in Students : machine[s] # NoMachine => boundWith[s] = password[s]

\* The references between the tables hold although rows are removed while
\* handlers that have read them are under way.
ReferencesHold ==
    /\ \A c \in Classes :
          classRow[c] = "present" => IsTeacherRef(classTeacher[c])
    /\ \A s \in Students : Present(s) => classRow[classOf[s]] = "present"

\* A decision is final: a ticket that was accepted or rejected keeps its status
\* whatever handlers still work on what they have read of it.
DecisionIsFinal ==
    [][\A r \in Requests : status[r] \in {"accepted", "rejected"}
                           => status'[r] = status[r]]_vars

Consent == INSTANCE ConsentedChange
             WITH ticket <- status, author <- fromId, secret <- password,
                  bound <- machine, None <- NoOne

\* The handlers, each spread over several calls of the repositories, implement
\* the one-step changes of ConsentedChange: a password takes effect together
\* with the decision on its ticket or not at all, decisions are final, and a
\* ticket is closed by its author or a decision only, although accounts, classes
\* and tickets change between what a handler reads and what it writes.
ImplementsConsent == Consent!Spec
=============================================================================
