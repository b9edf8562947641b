----------------------- MODULE PasswordRequestsProofs -----------------------
(***************************************************************************)
(* Proofs about PasswordRequests, for every set of accounts, classes,      *)
(* tickets, machines and worker threads, and for every choice of what the  *)
(* tokens claim.                                                           *)
(***************************************************************************)
EXTENDS PasswordRequests, SequenceTheorems, TLAPS

\* What no single table says.  A ticket that exists has a submitter, and is in
\* nobody else's outbox.
TicketBook ==
    /\ \A r \in Requests : status[r] # "new" => fromId[r] \in Accounts
    /\ \A a \in Accounts : \A i \in 1..Len(outbox[a]) :
          status[outbox[a][i]] # "new" /\ fromId[outbox[a][i]] = a

\* A student without row has no machine, one with row has a class, and exactly
\* the accounts with a row have a password.
AccountBook ==
    /\ \A s \in Students : ~Present(s) => machine[s] = NoMachine
    /\ \A s \in Students : Present(s) => classOf[s] \in Classes
    /\ \A a \in Accounts : password[a] # NoHash <=> Present(a)

\* A handler about to accept a ticket knows its submitter.
CallBook ==
    \A w \in Workers : call[w].op = "accept"
       => status[call[w].arg] # "new" /\ fromId[call[w].arg] = call[w].who

IInv ==
    /\ TypeOK
    /\ TicketBook
    /\ AccountBook
    /\ CallBook
    /\ PasswordHasConsent
    /\ OlderPendingHasCause
    /\ BoundUnderPassword
    /\ ReferencesHold

----------------------------------------------------------------------------
\* The empty database satisfies the invariant.
LEMMA InitInvariant == Init => IInv
<1> SUFFICES ASSUME Init PROVE IInv
  OBVIOUS
<1> USE DEF Init
<1>1. TypeOK
  BY EmptySeq DEF TypeOK, RowStates, TicketStates, Hashes, Idle, Calls
<1>2. TicketBook /\ OlderPendingHasCause
  BY EmptySeq DEF TicketBook, OlderPendingHasCause
<1>3. AccountBook
  BY RequestAssumption DEF AccountBook, Present, Accounts
<1>4. CallBook
  BY DEF CallBook, Idle
<1>5. PasswordHasConsent
  BY RequestAssumption DEF PasswordHasConsent
<1>6. BoundUnderPassword /\ ReferencesHold
  BY DEF BoundUnderPassword, ReferencesHold, Present
<1> QED BY <1>1, <1>2, <1>3, <1>4, <1>5, <1>6 DEF IInv

----------------------------------------------------------------------------
(* What leaves its variables alone leaves a part of the invariant alone. *)

\* The fields of a call have the types its step says.
LEMMA CallFields ==
    ASSUME NEW c \in Calls
    PROVE  /\ c.op = "class" => c.who \in Students /\ c.arg \in Classes
           /\ c.op = "submit" => /\ c.who \in Accounts
                                /\ c.arg \in Teachers \cup {Tenant}
           /\ c.op \in {"accept", "reject"} => /\ c.who \in Accounts
                                              /\ c.arg \in Requests
           /\ c.op = "activate" => c.who \in Students /\ c.arg \in Machines
  BY DEF Calls, Idle

\* A handler that is over is idle.
LEMMA IdleCall == Idle \in Calls /\ Idle.op = "idle"
  BY DEF Calls, Idle

\* Tickets untouched: what is known of them stays known, and handlers that
\* have read one are right about it.
LEMMA TicketFrame ==
    ASSUME TicketBook, OlderPendingHasCause, UNCHANGED requestVars
    PROVE  TicketBook' /\ OlderPendingHasCause'
  BY DEF requestVars, TicketBook, OlderPendingHasCause

\* A handler's knowledge of a ticket depends on the ticket alone.
LEMMA CallFrame ==
    ASSUME CallBook, UNCHANGED <<requestVars, call>>
    PROVE  CallBook'
  BY DEF requestVars, CallBook

\* Rows and their secrets untouched.
LEMMA AccountFrame ==
    ASSUME AccountBook, ReferencesHold, BoundUnderPassword,
           UNCHANGED <<schoolVars, secretVars>>
    PROVE  AccountBook' /\ ReferencesHold' /\ BoundUnderPassword'
<1> USE DEF schoolVars, secretVars
<1>1. AccountBook'
  BY DEF AccountBook, Present
<1>2. ReferencesHold'
  BY DEF ReferencesHold, IsTeacherRef, Present
<1>3. BoundUnderPassword'
  BY DEF BoundUnderPassword
<1> QED BY <1>1, <1>2, <1>3

----------------------------------------------------------------------------
(* The actions, one lemma for each or for a few alike. *)

\* A teacher is created with a password.
LEMMA CreateTeacherStep ==
    ASSUME IInv, NEW t \in Teachers, CreateTeacher(t)
    PROVE  IInv'
<1> USE DEF IInv, CreateTeacher
<1>1. TypeOK'
  BY DEF TypeOK, RowStates, Hashes, requestVars, Accounts
<1>2. AccountBook'
  <2>1. \A s \in Students : Present(s)' <=> Present(s)
    BY DEF Present
  <2>2. \A a \in Accounts : a # t => password'[a] = password[a]
                                     /\ (Present(a)' <=> Present(a))
    BY RequestAssumption DEF TypeOK, Present, Accounts
  <2>3. password'[t] # NoHash /\ Present(t)'
    BY RequestAssumption DEF TypeOK, Present, Accounts, NoHash
  <2> QED BY <2>1, <2>2, <2>3 DEF AccountBook
<1>3. PasswordHasConsent'
  BY RequestAssumption
     DEF TypeOK, PasswordHasConsent, requestVars, Accounts
<1>4. BoundUnderPassword'
  BY RequestAssumption DEF TypeOK, BoundUnderPassword, Accounts
<1>5. ReferencesHold'
  BY RequestAssumption
     DEF TypeOK, ReferencesHold, IsTeacherRef, Present, Accounts, NoTeacher
<1> QED BY <1>1, <1>2, <1>3, <1>4, <1>5, TicketFrame, CallFrame

\* A teacher is removed, and from the classes too.
LEMMA DeleteTeacherStep ==
    ASSUME IInv, NEW t \in Teachers, DeleteTeacher(t)
    PROVE  IInv'
<1> USE DEF IInv, DeleteTeacher
<1>1. TypeOK'
  BY DEF TypeOK, RowStates, Hashes, requestVars, Accounts
<1>2. AccountBook'
  <2>1. \A s \in Students : Present(s)' <=> Present(s)
    BY DEF Present
  <2>2. \A a \in Accounts : a # t => password'[a] = password[a]
                                     /\ (Present(a)' <=> Present(a))
    BY RequestAssumption DEF TypeOK, Present, Accounts
  <2>3. password'[t] = NoHash /\ ~Present(t)'
    BY RequestAssumption DEF TypeOK, Present, Accounts
  <2> QED BY <2>1, <2>2, <2>3 DEF AccountBook
<1>3. PasswordHasConsent'
  BY RequestAssumption
     DEF TypeOK, PasswordHasConsent, requestVars, Accounts
<1>4. BoundUnderPassword'
  BY RequestAssumption DEF TypeOK, BoundUnderPassword, Accounts
<1>5. ReferencesHold'
  <2>1. \A x \in Teachers : Present(x) /\ x # t => Present(x)'
    BY DEF TypeOK, Present
  <2>2. \A c \in Classes : classRow'[c] = "present"
           => \/ classTeacher'[c] = NoTeacher
              \/ /\ classTeacher'[c] \in Teachers \ {t}
                 /\ Present(classTeacher'[c])
    BY DEF TypeOK, ReferencesHold, IsTeacherRef
  <2>3. \A c \in Classes : classRow'[c] = "present"
           => IsTeacherRef(classTeacher[c])'
    BY <2>1, <2>2 DEF IsTeacherRef, Present
  <2>4. \A s \in Students : Present(s)' => classRow'[classOf'[s]] = "present"
    BY DEF ReferencesHold, Present
  <2> QED BY <2>3, <2>4 DEF ReferencesHold
<1> QED BY <1>1, <1>2, <1>3, <1>4, <1>5, TicketFrame, CallFrame

\* The rows of classes.
LEMMA ClassStep ==
    ASSUME IInv, NEW c \in Classes, NEW n \in Teachers \cup {NoTeacher},
           CreateClass(c, n) \/ UpdateClass(c, n)
    PROVE  IInv'
<1> USE DEF IInv, CreateClass, UpdateClass
<1>1. TypeOK'
  BY DEF TypeOK, RowStates, requestVars, secretVars
<1>2. AccountBook'
  BY DEF AccountBook, Present, secretVars
<1>3. PasswordHasConsent' /\ BoundUnderPassword'
  BY DEF PasswordHasConsent, BoundUnderPassword, requestVars, secretVars
<1>4. ReferencesHold'
  <2>1. /\ UNCHANGED <<teacherRow, studentRow, classOf>>
        /\ classRow' = [classRow EXCEPT ![c] = "present"]
        /\ classTeacher' = [classTeacher EXCEPT ![c] = n]
        /\ IsTeacherRef(n)
    BY DEF TypeOK
  <2>2. \A x \in Teachers \cup {NoTeacher} :
           IsTeacherRef(x)' <=> IsTeacherRef(x)
    BY <2>1 DEF IsTeacherRef, Present
  <2>3. \A d \in Classes : classRow'[d] = "present"
           => IsTeacherRef(classTeacher'[d])
    BY <2>1 DEF TypeOK, ReferencesHold
  <2>4. \A d \in Classes : classRow'[d] = "present"
           => IsTeacherRef(classTeacher[d])'
    BY <1>1, <2>2, <2>3 DEF TypeOK
  <2>5. \A s \in Students : Present(s)' => classRow'[classOf'[s]] = "present"
    BY <2>1 DEF TypeOK, AccountBook, ReferencesHold, Present
  <2> QED BY <2>4, <2>5 DEF ReferencesHold
<1> QED BY <1>1, <1>2, <1>3, <1>4, TicketFrame, CallFrame

\* A student is created with a class, a password and no machine.
LEMMA CreateStudentStep ==
    ASSUME IInv, NEW s \in Students, NEW c \in Classes, CreateStudent(s, c)
    PROVE  IInv'
<1> USE DEF IInv, CreateStudent
<1>1. TypeOK'
  BY DEF TypeOK, RowStates, Hashes, requestVars, Accounts
<1>2. AccountBook'
  BY RequestAssumption DEF TypeOK, AccountBook, Present, Accounts, NoHash
<1>3. PasswordHasConsent'
  BY RequestAssumption
     DEF TypeOK, PasswordHasConsent, requestVars, Accounts
<1>4. BoundUnderPassword'
  BY DEF TypeOK, AccountBook, BoundUnderPassword, Present, Accounts
<1>5. ReferencesHold'
  BY RequestAssumption
     DEF TypeOK, ReferencesHold, IsTeacherRef, Present, Accounts, NoTeacher
<1> QED BY <1>1, <1>2, <1>3, <1>4, <1>5, TicketFrame, CallFrame

\* Students go with their machine and their password, one by one ...
LEMMA DeleteStudentStep ==
    ASSUME IInv, NEW s \in Students, DeleteStudent(s)
    PROVE  IInv'
<1> USE DEF IInv, DeleteStudent, RemoveStudents, Unbind
<1>1. TypeOK'
  BY DEF TypeOK, RowStates, Hashes, requestVars, Accounts
<1>2. AccountBook'
  BY RequestAssumption DEF TypeOK, AccountBook, Present, Accounts
<1>3. PasswordHasConsent'
  BY RequestAssumption
     DEF TypeOK, PasswordHasConsent, requestVars, Accounts
<1>4. BoundUnderPassword'
  BY DEF TypeOK, BoundUnderPassword, Accounts
<1>5. ReferencesHold'
  BY RequestAssumption
     DEF TypeOK, ReferencesHold, IsTeacherRef, Present, Accounts, NoTeacher
<1> QED BY <1>1, <1>2, <1>3, <1>4, <1>5, TicketFrame, CallFrame

\* ... or all of a class with it.
LEMMA DeleteClassStep ==
    ASSUME IInv, NEW c \in Classes, DeleteClass(c)
    PROVE  IInv'
<1> USE DEF IInv, DeleteClass, RemoveStudents, Unbind
<1>1. TypeOK'
  BY DEF TypeOK, RowStates, Hashes, requestVars, Accounts
<1>2. AccountBook'
  BY RequestAssumption DEF TypeOK, AccountBook, Present, Accounts
<1>3. PasswordHasConsent'
  BY RequestAssumption
     DEF TypeOK, PasswordHasConsent, requestVars, Accounts
<1>4. BoundUnderPassword'
  BY DEF TypeOK, BoundUnderPassword, Accounts
<1>5. ReferencesHold'
  BY RequestAssumption
     DEF TypeOK, AccountBook, ReferencesHold, IsTeacherRef, Present, Accounts,
         NoTeacher
<1> QED BY <1>1, <1>2, <1>3, <1>4, <1>5, TicketFrame, CallFrame

\* A reset or a new password unbinds the machine.
LEMMA SecretStep ==
    ASSUME IInv, NEW s \in Students, ResetMachine(s) \/ ChangePassword(s)
    PROVE  IInv'
<1> USE DEF IInv, ResetMachine, ChangePassword, UpdatePassword, Unbind
<1>1. TypeOK'
  BY DEF TypeOK, Hashes, schoolVars, requestVars, Accounts
<1>2. AccountBook'
  BY DEF TypeOK, AccountBook, Present, schoolVars, Accounts, NoHash
<1>3. PasswordHasConsent'
  BY RequestAssumption
     DEF TypeOK, PasswordHasConsent, requestVars, Accounts
<1>4. BoundUnderPassword'
  BY DEF TypeOK, BoundUnderPassword, Accounts
<1>5. ReferencesHold'
  BY DEF ReferencesHold, IsTeacherRef, Present, schoolVars
<1> QED BY <1>1, <1>2, <1>3, <1>4, <1>5, TicketFrame, CallFrame

\* A handler reads; no table changes, and it keeps what it has read.
LEMMA ReadFrame ==
    ASSUME IInv, NEW w \in Workers, NEW c \in Calls,
           call' = [call EXCEPT ![w] = c],
           c.op = "accept"
              => status[c.arg] # "new" /\ fromId[c.arg] = c.who,
           UNCHANGED <<schoolVars, requestVars, secretVars>>
    PROVE  IInv'
<1> USE DEF IInv
<1>1. TypeOK'
  BY DEF TypeOK, schoolVars, requestVars, secretVars
<1>2. CallBook'
  BY DEF TypeOK, CallBook, requestVars
<1>3. PasswordHasConsent'
  BY DEF PasswordHasConsent, requestVars, secretVars
<1> QED BY <1>1, <1>2, <1>3, TicketFrame, AccountFrame

\* The reads of the handlers, one by one: what each takes along.
LEMMA SubmitStudentStep ==
    ASSUME IInv, NEW w \in Workers, NEW s \in Students,
           HandleSubmitStudent(w, s)
    PROVE  IInv'
<1> DEFINE c == [op |-> "class", who |-> s, arg |-> classOf[s]]
<1>1. c \in Calls
  BY DEF HandleSubmitStudent, IInv, AccountBook, Calls
<1> QED BY <1>1, ReadFrame DEF HandleSubmitStudent, Begin

\* handleActivateMachine reads the student's row.
LEMMA ActivateReadStep ==
    ASSUME IInv, NEW w \in Workers, NEW s \in Students, NEW m \in Machines,
           HandleActivateMachine(w, s, m)
    PROVE  IInv'
<1> DEFINE c == [op |-> "activate", who |-> s, arg |-> m]
<1>1. c \in Calls
  BY DEF Calls
<1> QED BY <1>1, ReadFrame DEF HandleActivateMachine, Begin

\* A teacher's submission reads the tenant from the token.
LEMMA SubmitTeacherStep ==
    ASSUME IInv, NEW w \in Workers, NEW t \in Teachers,
           HandleSubmitTeacher(w, t)
    PROVE  IInv'
<1> DEFINE c == [op |-> "submit", who |-> t, arg |-> Tenant]
<1>1. c \in Calls
  BY DEF Calls, Accounts
<1> QED BY <1>1, ReadFrame DEF HandleSubmitTeacher, Begin

\* A student's submission reads the class and its teacher.
LEMMA FindClassStep ==
    ASSUME IInv, NEW w \in Workers, SubmitFindClass(w)
    PROVE  IInv'
<1> DEFINE n == classTeacher[call[w].arg]
<1> DEFINE c == [op  |-> "submit", who |-> call[w].who,
                 arg |-> IF n = NoTeacher THEN Tenant ELSE n]
<1>1. call[w] \in Calls
  BY DEF IInv, TypeOK
<1>2. call[w].who \in Students /\ n \in Teachers \cup {NoTeacher}
  BY <1>1, CallFields DEF SubmitFindClass, IInv, TypeOK
<1>3. c \in Calls
  BY <1>2 DEF Calls, Accounts
<1> QED BY <1>3, ReadFrame DEF SubmitFindClass, Proceed

\* handleAccept and handleReject read the ticket.
LEMMA DecisionReadStep ==
    ASSUME IInv, NEW w \in Workers, NEW r \in Requests,
           HandleAccept(w, r) \/ HandleReject(w, r)
    PROVE  IInv'
<1>1. PICK op \in {"accept", "reject"} : HandleDecision(w, op, r)
  BY DEF HandleAccept, HandleReject
<1> DEFINE c == [op |-> op, who |-> fromId[r], arg |-> r]
<1>2. c \in Calls /\ status[r] # "new"
  BY <1>1 DEF HandleDecision, IInv, TicketBook, Calls
<1> QED BY <1>1, <1>2, ReadFrame DEF HandleDecision, Begin

\* A handler that gives up changes no table.
LEMMA HandlerEndsStep ==
    ASSUME IInv, NEW w \in Workers, HandlerEnds(w)
    PROVE  IInv'
  BY IdleCall, ReadFrame DEF HandlerEnds

\* A ticket is submitted, and the older ones of its submitter cancelled, or all
\* of them noted as not cancelled.
LEMMA SubmitStep ==
    ASSUME IInv, NEW w \in Workers, NEW r \in Requests, Submit(w, r)
    PROVE  IInv'
<1> USE DEF IInv
<1>1. PICK x : x = call[w].who
  OBVIOUS
<1>2. x \in Accounts /\ call[w].arg \in Teachers \cup {Tenant}
  BY <1>1, CallFields DEF TypeOK, Submit, Proceed
<1>3. /\ status[r] = "new"
      /\ call' = [call EXCEPT ![w] = Idle]
      /\ \/ /\ status' = [Cancelled(x) EXCEPT ![r] = "pending"]
            /\ uncancelled' = uncancelled \ Open(x)
         \/ /\ status' = [status EXCEPT ![r] = "pending"]
            /\ uncancelled' = uncancelled \cup Open(x)
      /\ fromId' = [fromId EXCEPT ![r] = x]
      /\ toId'   = [toId EXCEPT ![r] = call[w].arg]
      /\ outbox' = [outbox EXCEPT ![x] = Append(outbox[x], r)]
      /\ UNCHANGED <<schoolVars, secretVars>>
  BY <1>1 DEF Submit, Proceed
<1>4. /\ outbox[x] \in Seq(Requests)
      /\ outbox'[x] \in Seq(Requests)
      /\ Len(outbox'[x]) = Len(outbox[x]) + 1
      /\ \A i \in 1..Len(outbox[x]) : outbox'[x][i] = outbox[x][i]
      /\ outbox'[x][Len(outbox[x]) + 1] = r
      /\ Len(outbox[x]) \in Nat
  <2>1. outbox[x] \in Seq(Requests) /\ outbox'[x] = Append(outbox[x], r)
    BY <1>2, <1>3 DEF TypeOK
  <2> QED BY <2>1, AppendProperties, LenProperties
<1>5. \A a \in Accounts : a # x => outbox'[a] = outbox[a]
  BY <1>3 DEF TypeOK
<1>6. \A a \in Accounts : \A i \in 1..Len(outbox[a]) :
         /\ outbox[a][i] \in Requests \ {r}
         /\ status[outbox[a][i]] # "new" /\ fromId[outbox[a][i]] = a
  BY <1>3, ElementOfSeq DEF TypeOK, TicketBook
<1>7. /\ \A q \in Requests \ {r} :
            /\ \/ status'[q] = status[q]
               \/ status'[q] = "rejected" /\ status[q] = "pending"
            /\ fromId'[q] = fromId[q]
            /\ q \in uncancelled /\ fromId[q] # x => q \in uncancelled'
            /\ fromId[q] = x /\ status'[q] = "pending" => q \in uncancelled'
      /\ status'[r] = "pending" /\ fromId'[r] = x
  BY <1>3 DEF TypeOK, Cancelled, Open
<1>8. TypeOK'
  <2>1. outbox' \in [Accounts -> Seq(Requests)]
    BY <1>2, <1>3, <1>4, <1>5 DEF TypeOK
  <2>2. call' \in [Workers -> Calls]
    BY <1>3, IdleCall DEF TypeOK
  <2>3. /\ fromId' \in [Requests -> Accounts \cup {NoOne}]
        /\ toId' \in [Requests -> Teachers \cup {Tenant, NoOne}]
    BY <1>2, <1>3 DEF TypeOK
  <2>4. status' \in [Requests -> TicketStates]
    BY <1>3 DEF TypeOK, TicketStates, Cancelled
  <2>5. uncancelled' \subseteq Requests
    BY <1>3 DEF TypeOK, Open
  <2> QED BY <1>3, <2>1, <2>2, <2>3, <2>4, <2>5 DEF TypeOK, schoolVars, secretVars
<1>9. TicketBook'
  <2>1. \A q \in Requests : status'[q] # "new" => fromId'[q] \in Accounts
    BY <1>2, <1>7 DEF TicketBook
  <2>2. ASSUME NEW a \in Accounts, NEW i \in 1..Len(outbox'[a])
        PROVE  status'[outbox'[a][i]] # "new" /\ fromId'[outbox'[a][i]] = a
    <3>1. CASE a = x /\ i = Len(outbox[x]) + 1
      BY <1>4, <1>7, <3>1
    <3>2. CASE a = x /\ i # Len(outbox[x]) + 1
      <4>1. i \in 1..Len(outbox[a]) /\ outbox'[a][i] = outbox[a][i]
        BY <1>4, <3>2
      <4> QED BY <1>6, <1>7, <4>1
    <3>3. CASE a # x
      BY <1>5, <1>6, <1>7, <3>3
    <3> QED BY <3>1, <3>2, <3>3
  <2> QED BY <2>1, <2>2 DEF TicketBook
<1>10. CallBook'
  <2> SUFFICES ASSUME NEW v \in Workers, call'[v].op = "accept"
               PROVE  /\ status'[call'[v].arg] # "new"
                      /\ fromId'[call'[v].arg] = call'[v].who
    BY DEF CallBook
  <2>1. call'[v] = call[v] /\ call[v] \in Calls
    BY <1>3, IdleCall DEF TypeOK
  <2>2. /\ call[v].arg \in Requests /\ status[call[v].arg] # "new"
        /\ fromId[call[v].arg] = call[v].who
    BY <2>1, CallFields DEF CallBook
  <2>3. call[v].arg # r
    BY <1>3, <2>2
  <2> QED BY <1>7, <2>1, <2>2, <2>3
<1>11. PasswordHasConsent'
  <2> SUFFICES ASSUME NEW a \in Accounts, password'[a] \in Requests
               PROVE  /\ status'[password'[a]] = "accepted"
                      /\ fromId'[password'[a]] = a
    BY DEF PasswordHasConsent
  <2>1. /\ password'[a] = password[a] /\ status[password[a]] = "accepted"
        /\ fromId[password[a]] = a
    BY <1>3 DEF PasswordHasConsent, secretVars
  <2>2. password[a] # r
    BY <1>3, <2>1
  <2> QED BY <1>7, <2>1, <2>2
<1>12. OlderPendingHasCause'
  <2> SUFFICES ASSUME NEW a \in Accounts, NEW i \in 1..Len(outbox'[a]),
                      status'[outbox'[a][i]] = "pending"
               PROVE  i = Len(outbox'[a]) \/ outbox'[a][i] \in uncancelled'
    BY DEF OlderPendingHasCause
  <2>1. CASE a = x
    <3>1. ASSUME i # Len(outbox[x]) + 1
          PROVE  outbox'[a][i] \in uncancelled'
      <4>1. i \in 1..Len(outbox[x]) /\ outbox'[x][i] = outbox[x][i]
        BY <1>4, <2>1, <3>1
      <4> QED BY <1>2, <1>6, <1>7, <2>1, <4>1
    <3> QED BY <1>4, <2>1, <3>1
  <2>2. CASE a # x
    <3>1. outbox'[a] = outbox[a] /\ i \in 1..Len(outbox[a])
      BY <1>5, <2>2
    <3>2. status[outbox[a][i]] = "pending"
      BY <1>6, <1>7, <2>2, <3>1
    <3>3. outbox[a][i] \in uncancelled => outbox[a][i] \in uncancelled'
      BY <1>6, <1>7, <2>2, <3>1
    <3> QED BY <3>1, <3>2, <3>3 DEF OlderPendingHasCause
  <2> QED BY <2>1, <2>2
<1> QED BY <1>3, <1>8, <1>9, <1>10, <1>11, <1>12, AccountFrame

\* Only statuses change, of tickets that were pending, and one handler ends:
\* then tickets, calls and the newest ticket are as before.
LEMMA StatusFrame ==
    ASSUME IInv, NEW w \in Workers,
           call' = [call EXCEPT ![w] = Idle],
           status' \in [Requests -> TicketStates],
           \A q \in Requests : \/ status'[q] = status[q]
                              \/ /\ status[q] = "pending"
                                 /\ status'[q] \in {"accepted", "rejected"},
           \A q \in uncancelled : status'[q] = "pending" => q \in uncancelled',
           UNCHANGED <<fromId, toId, outbox>>
    PROVE  /\ call' \in [Workers -> Calls]
           /\ TicketBook' /\ CallBook' /\ OlderPendingHasCause'
<1> USE DEF IInv
<1>1. call' \in [Workers -> Calls]
  BY IdleCall DEF TypeOK
<1>2. \A a \in Accounts : \A i \in 1..Len(outbox[a]) : outbox[a][i] \in Requests
  BY ElementOfSeq DEF TypeOK
<1>3. TicketBook'
  BY <1>2 DEF TicketBook
<1>4. CallBook'
  <2> SUFFICES ASSUME NEW v \in Workers, call'[v].op = "accept"
               PROVE  /\ status'[call'[v].arg] # "new"
                      /\ fromId'[call'[v].arg] = call'[v].who
    BY DEF CallBook
  <2>1. call'[v] = call[v] /\ call[v] \in Calls
    BY IdleCall DEF TypeOK
  <2> QED BY <2>1, CallFields DEF CallBook
<1>5. OlderPendingHasCause'
  BY <1>2 DEF OlderPendingHasCause
<1> QED BY <1>1, <1>3, <1>4, <1>5

\* Only the cancellation happens.
LEMMA SubmitHalfStep ==
    ASSUME IInv, NEW w \in Workers, SubmitHalf(w)
    PROVE  IInv'
<1> USE DEF IInv
<1>1. /\ call' = [call EXCEPT ![w] = Idle]
      /\ status' = Cancelled(call[w].who)
      /\ uncancelled' = uncancelled \ Open(call[w].who)
      /\ UNCHANGED <<schoolVars, fromId, toId, outbox, secretVars>>
  BY DEF SubmitHalf, Proceed
<1>2. /\ status' \in [Requests -> TicketStates]
      /\ \A q \in Requests :
            status'[q] = status[q]
            \/ (status[q] = "pending" /\ status'[q] = "rejected")
  <2>1. status' \in [Requests -> TicketStates]
    BY <1>1 DEF TypeOK, TicketStates, Cancelled
  <2>2. \A q \in Requests :
           status'[q] = IF fromId[q] = call[w].who /\ status[q] = "pending"
                        THEN "rejected" ELSE status[q]
    BY <1>1 DEF Cancelled, Open
  <2> QED BY <2>1, <2>2
<1>6. /\ uncancelled' \subseteq Requests
      /\ \A q \in uncancelled : status'[q] = "pending" => q \in uncancelled'
  BY <1>1 DEF TypeOK, Cancelled, Open
<1>3. /\ call' \in [Workers -> Calls]
      /\ TicketBook' /\ CallBook' /\ OlderPendingHasCause'
  BY <1>1, <1>2, <1>6, StatusFrame
<1>4. TypeOK'
  BY <1>1, <1>2, <1>3, <1>6 DEF TypeOK, schoolVars, secretVars
<1>5. PasswordHasConsent'
  BY <1>1, <1>2 DEF PasswordHasConsent, secretVars
<1> QED BY <1>1, <1>3, <1>4, <1>5, AccountFrame

\* A ticket is rejected.
LEMMA RejectStep ==
    ASSUME IInv, NEW w \in Workers, Reject(w)
    PROVE  IInv'
<1> USE DEF IInv
<1>1. PICK r : r = call[w].arg
  OBVIOUS
<1>2. r \in Requests
  BY <1>1, CallFields DEF TypeOK, Reject, Proceed
<1>3. /\ call' = [call EXCEPT ![w] = Idle]
      /\ status[r] = "pending"
      /\ status' = [status EXCEPT ![r] = "rejected"]
      /\ UNCHANGED <<schoolVars, fromId, toId, outbox, uncancelled, secretVars>>
  BY <1>1 DEF Reject, Proceed
<1>4. /\ status' \in [Requests -> TicketStates]
      /\ \A q \in Requests :
            status'[q] = status[q]
            \/ (status[q] = "pending" /\ status'[q] = "rejected")
  <2>1. status' \in [Requests -> TicketStates]
    BY <1>3 DEF TypeOK, TicketStates
  <2>2. \A q \in Requests : q # r => status'[q] = status[q]
    BY <1>3 DEF TypeOK
  <2>3. status'[r] = "rejected"
    BY <1>2, <1>3 DEF TypeOK
  <2> QED BY <1>3, <2>1, <2>2, <2>3
<1>5. /\ call' \in [Workers -> Calls]
      /\ TicketBook' /\ CallBook' /\ OlderPendingHasCause'
  BY <1>3, <1>4, StatusFrame
<1>6. TypeOK'
  BY <1>3, <1>4, <1>5 DEF TypeOK, schoolVars, secretVars
<1>7. PasswordHasConsent'
  BY <1>3, <1>4 DEF PasswordHasConsent, secretVars
<1> QED BY <1>3, <1>5, <1>6, <1>7, AccountFrame

\* A ticket is accepted together with its password.
LEMMA AcceptStep ==
    ASSUME IInv, NEW w \in Workers, AcceptAndApplyPassword(w)
    PROVE  IInv'
<1> USE DEF IInv
<1>1. PICK r, x : r = call[w].arg /\ x = call[w].who
  OBVIOUS
<1>2. r \in Requests /\ x \in Accounts /\ fromId[r] = x
  BY <1>1, CallFields DEF TypeOK, CallBook, AcceptAndApplyPassword, Proceed
<1>3. /\ call' = [call EXCEPT ![w] = Idle]
      /\ Present(x)
      /\ status[r] = "pending"
      /\ status' = [status EXCEPT ![r] = "accepted"]
      /\ password' = [password EXCEPT ![x] = r]
      /\ Unbind({x} \cap Students)
      /\ UNCHANGED <<schoolVars, fromId, toId, outbox, uncancelled>>
  BY <1>1 DEF AcceptAndApplyPassword, UpdatePassword, Proceed
<1>4. /\ status' \in [Requests -> TicketStates]
      /\ \A q \in Requests :
            status'[q] = status[q]
            \/ (status[q] = "pending" /\ status'[q] = "accepted")
  <2>1. status' \in [Requests -> TicketStates]
    BY <1>3 DEF TypeOK, TicketStates
  <2>2. \A q \in Requests : q # r => status'[q] = status[q]
    BY <1>3 DEF TypeOK
  <2>3. status'[r] = "accepted"
    BY <1>2, <1>3 DEF TypeOK
  <2> QED BY <1>3, <2>1, <2>2, <2>3
<1>5. /\ call' \in [Workers -> Calls]
      /\ TicketBook' /\ CallBook' /\ OlderPendingHasCause'
  BY <1>3, <1>4, StatusFrame
<1>6. TypeOK'
  <2>1. password' \in [Accounts -> Hashes \cup {NoHash}]
    BY <1>2, <1>3 DEF TypeOK, Hashes
  <2>2. /\ machine' \in [Students -> Machines \cup {NoMachine}]
        /\ boundWith' \in [Students -> Hashes \cup {NoHash}]
    BY <1>3 DEF TypeOK, Unbind
  <2> QED BY <1>3, <1>4, <1>5, <2>1, <2>2 DEF TypeOK, schoolVars
<1>7. AccountBook'
  <2>1. \A a \in Accounts : Present(a)' <=> Present(a)
    BY <1>3 DEF Present, schoolVars
  <2>2. \A a \in Accounts : password'[a] # NoHash <=> Present(a)'
    BY <1>2, <1>3, <2>1, RequestAssumption DEF TypeOK, AccountBook
  <2>3. \A s \in Students : ~Present(s)' => machine'[s] = NoMachine
    BY <1>3 DEF AccountBook, Unbind, Present, schoolVars
  <2>4. \A s \in Students : Present(s)' => classOf'[s] \in Classes
    BY <1>3 DEF AccountBook, Present, schoolVars
  <2> QED BY <2>2, <2>3, <2>4 DEF AccountBook
<1>8. PasswordHasConsent'
  <2> SUFFICES ASSUME NEW a \in Accounts, password'[a] \in Requests
               PROVE  /\ status'[password'[a]] = "accepted"
                      /\ fromId'[password'[a]] = a
    BY DEF PasswordHasConsent
  <2>1. CASE a = x
    BY <1>2, <1>3, <2>1 DEF TypeOK
  <2>2. CASE a # x
    <3>1. password'[a] = password[a]
      BY <1>3, <2>2 DEF TypeOK
    <3>2. status[password[a]] = "accepted" /\ fromId[password[a]] = a
      BY <3>1 DEF PasswordHasConsent
    <3> QED BY <1>3, <1>4, <3>1, <3>2
  <2> QED BY <2>1, <2>2
<1>9. BoundUnderPassword'
  BY <1>2, <1>3 DEF TypeOK, BoundUnderPassword, Unbind, Accounts
<1>10. ReferencesHold'
  BY <1>3 DEF ReferencesHold, IsTeacherRef, Present, schoolVars
<1> QED BY <1>5, <1>6, <1>7, <1>8, <1>9, <1>10

\* A machine is bound under the present password.
LEMMA ActivateStep ==
    ASSUME IInv, NEW w \in Workers, Activate(w)
    PROVE  IInv'
<1> USE DEF IInv
<1>1. PICK s : s = call[w].who
  OBVIOUS
<1>2. s \in Students /\ call[w].arg \in Machines
  BY <1>1, CallFields DEF TypeOK, Activate, Proceed
<1>3. /\ call' = [call EXCEPT ![w] = Idle]
      /\ Present(s)
      /\ machine' = [machine EXCEPT ![s] = call[w].arg]
      /\ boundWith' = [boundWith EXCEPT ![s] = password[s]]
      /\ UNCHANGED <<schoolVars, requestVars, password>>
  BY <1>1 DEF Activate, Proceed
<1>4. TypeOK'
  <2>1. call' \in [Workers -> Calls]
    BY <1>3, IdleCall DEF TypeOK
  <2>2. password[s] \in Hashes \cup {NoHash}
    BY <1>2 DEF TypeOK, Accounts
  <2>3. /\ machine' \in [Students -> Machines \cup {NoMachine}]
        /\ boundWith' \in [Students -> Hashes \cup {NoHash}]
    BY <1>2, <1>3, <2>2 DEF TypeOK
  <2> QED BY <1>3, <2>1, <2>3 DEF TypeOK, schoolVars, requestVars
<1>5. AccountBook'
  BY <1>2, <1>3 DEF TypeOK, AccountBook, Present, schoolVars
<1>6. CallBook'
  BY <1>3, IdleCall DEF TypeOK, CallBook, requestVars
<1>7. PasswordHasConsent'
  BY <1>3 DEF PasswordHasConsent, requestVars
<1>8. BoundUnderPassword'
  BY <1>2, <1>3 DEF TypeOK, BoundUnderPassword
<1>9. ReferencesHold'
  BY <1>3 DEF ReferencesHold, IsTeacherRef, Present, schoolVars
<1> QED BY <1>3, <1>4, <1>5, <1>6, <1>7, <1>8, <1>9, TicketFrame

----------------------------------------------------------------------------
\* Every step keeps the invariant.
LEMMA NextInvariant == IInv /\ [Next]_vars => IInv'
<1> SUFFICES ASSUME IInv, [Next]_vars PROVE IInv'
  OBVIOUS
<1>1. CASE Manage
  BY <1>1, CreateTeacherStep, DeleteTeacherStep, ClassStep, DeleteClassStep,
     CreateStudentStep, DeleteStudentStep, SecretStep DEF Manage
<1>2. ASSUME NEW w \in Workers, Handle(w) PROVE IInv'
  <2>1. CASE \E s \in Students : HandleSubmitStudent(w, s)
    BY <2>1, SubmitStudentStep
  <2>2. CASE \E s \in Students : \E m \in Machines :
                HandleActivateMachine(w, s, m)
    BY <2>2, ActivateReadStep
  <2>3. CASE \E t \in Teachers : HandleSubmitTeacher(w, t)
    BY <2>3, SubmitTeacherStep
  <2>4. CASE \E r \in Requests : HandleAccept(w, r) \/ HandleReject(w, r)
    BY <2>4, DecisionReadStep
  <2>5. CASE \E r \in Requests : Submit(w, r)
    BY <2>5, SubmitStep
  <2>6. CASE SubmitFindClass(w) \/ HandlerEnds(w)
    BY <2>6, FindClassStep, HandlerEndsStep
  <2>7. CASE SubmitHalf(w) \/ AcceptAndApplyPassword(w) \/ Reject(w)
             \/ Activate(w)
    BY <2>7, SubmitHalfStep, AcceptStep, RejectStep, ActivateStep
  <2> QED BY <1>2, <2>1, <2>2, <2>3, <2>4, <2>5, <2>6, <2>7 DEF Handle
<1>3. CASE UNCHANGED vars
  <2> USE <1>3 DEF IInv, vars
  <2>1. TypeOK'
    BY DEF TypeOK, schoolVars, requestVars, secretVars
  <2>2. PasswordHasConsent'
    BY DEF PasswordHasConsent, requestVars, secretVars
  <2> QED BY <2>1, <2>2, TicketFrame, CallFrame, AccountFrame
<1> QED BY <1>1, <1>2, <1>3 DEF Next

\* The invariant holds in every reachable state.
THEOREM Inductive == Spec => []IInv
  BY InitInvariant, NextInvariant, PTL DEF Spec

\* Columns and handlers always hold values of their types.
THEOREM TypeCorrect == Spec => []TypeOK
<1>1. IInv => TypeOK
  BY DEF IInv
<1> QED BY <1>1, Inductive, PTL

\* However handlers interleave, no account has a password from a ticket that
\* was not accepted or was another account's.
THEOREM ConsentedPasswords == Spec => []PasswordHasConsent
<1>1. IInv => PasswordHasConsent
  BY DEF IInv
<1> QED BY <1>1, Inductive, PTL

\* Submitting closes what the account had open: only its newest ticket can
\* still be decided, and those the last cancellation failed on.
THEOREM OlderTicketsClosed == Spec => []OlderPendingHasCause
<1>1. IInv => OlderPendingHasCause
  BY DEF IInv
<1> QED BY <1>1, Inductive, PTL

\* No way of changing a password leaves a machine bound under the old one.
THEOREM BindingFollowsPassword == Spec => []BoundUnderPassword
<1>1. IInv => BoundUnderPassword
  BY DEF IInv
<1> QED BY <1>1, Inductive, PTL

\* Classes refer to teachers that exist, students to classes that exist.
THEOREM ReferentialIntegrity == Spec => []ReferencesHold
<1>1. IInv => ReferencesHold
  BY DEF IInv
<1> QED BY <1>1, Inductive, PTL

\* No step changes the status of a ticket that was decided.
LEMMA DecidedStep ==
    ASSUME IInv, [Next]_vars, NEW r \in Requests,
           status[r] \in {"accepted", "rejected"}
    PROVE  status'[r] = status[r]
<1>1. status \in [Requests -> TicketStates]
  BY DEF IInv, TypeOK
<1>2. CASE Manage
  BY <1>2 DEF Manage, CreateTeacher, DeleteTeacher, CreateClass, UpdateClass,
              DeleteClass, CreateStudent, DeleteStudent, ResetMachine,
              ChangePassword, requestVars
<1>3. ASSUME NEW w \in Workers, Handle(w) PROVE status'[r] = status[r]
  <2>1. CASE UNCHANGED requestVars
    BY <2>1 DEF requestVars
  <2>2. ASSUME NEW q \in Requests, Submit(w, q) PROVE status'[r] = status[r]
    BY <1>1, <2>2 DEF Submit, Cancelled, Open
  <2>3. CASE SubmitHalf(w)
    BY <2>3 DEF SubmitHalf, Cancelled, Open
  <2>4. CASE AcceptAndApplyPassword(w) \/ Reject(w)
    BY <1>1, <2>4 DEF AcceptAndApplyPassword, Reject
  <2> QED BY <1>3, <2>1, <2>2, <2>3, <2>4
          DEF Handle, HandleSubmitStudent, HandleActivateMachine,
              HandleSubmitTeacher, HandleAccept, HandleReject, HandleDecision,
              SubmitFindClass, Activate, HandlerEnds
<1>4. CASE UNCHANGED vars
  BY <1>4 DEF vars, requestVars
<1> QED BY <1>2, <1>3, <1>4 DEF Next

\* A decision stands, whatever handlers still hold of the ticket.
THEOREM DecisionsStand == Spec => DecisionIsFinal
<1>1. IInv /\ [Next]_vars
         => [\A r \in Requests : status[r] \in {"accepted", "rejected"}
                                 => status'[r] = status[r]]_vars
  BY DecidedStep
<1> QED BY <1>1, Inductive, PTL DEF Spec, DecisionIsFinal

----------------------------------------------------------------------------
(* The handlers implement ConsentedChange *)

\* A step that changes no ticket, password or binding is a stuttering step.
LEMMA QuietIsStutter ==
    ASSUME UNCHANGED <<status, fromId, password, machine>>
    PROVE  UNCHANGED Consent!consentVars
  BY DEF Consent!consentVars

\* An assignment to one account, as ConsentedChange has it for sets of them.
LEMMA OneAccount ==
    ASSUME IInv, NEW x \in Accounts, NEW p,
           password' = [password EXCEPT ![x] = p],
           machine' = [s \in Students |-> IF s = x THEN NoMachine
                                          ELSE machine[s]]
    PROVE  Consent!Assign({x}, p)
<1>1. password' = [a \in Accounts |-> IF a \in {x} THEN p ELSE password[a]]
  BY DEF IInv, TypeOK
<1>2. machine' = [s \in Students |-> IF s \in {x} THEN NoOne ELSE machine[s]]
  BY DEF NoMachine, NoOne
<1> QED BY <1>1, <1>2 DEF Consent!Assign

\* Accounts are created, removed and given passwords.
LEMMA ManageIsConsent ==
    ASSUME IInv, Manage
    PROVE  Consent!Next \/ UNCHANGED Consent!consentVars
<1> USE DEF IInv
<1>1. CASE \E t \in Teachers : CreateTeacher(t)
  <2>1. PICK t \in Teachers : CreateTeacher(t)
    BY <1>1
  <2>2. t \in Accounts /\ t \notin Students
    BY RequestAssumption DEF Accounts
  <2>3. password[t] = NoOne
    BY <2>1, <2>2 DEF AccountBook, CreateTeacher, Present, NoHash, NoOne
  <2>4. machine' = [s \in Students |-> IF s = t THEN NoMachine ELSE machine[s]]
    BY <2>1, <2>2 DEF TypeOK, CreateTeacher
  <2>5. Consent!Assign({t}, "initial")
    BY <2>1, <2>2, <2>4, OneAccount DEF CreateTeacher
  <2>6. Consent!Create(t)
    BY <2>1, <2>3, <2>5
       DEF Consent!Create, Consent!Exists, CreateTeacher, requestVars
  <2> QED BY <2>2, <2>6 DEF Consent!Next
<1>2. CASE \E t \in Teachers : DeleteTeacher(t)
  <2>1. PICK t \in Teachers : DeleteTeacher(t)
    BY <1>2
  <2>2. t \in Accounts /\ t \notin Students
    BY RequestAssumption DEF Accounts
  <2>3. machine' = [s \in Students |-> IF s = t THEN NoMachine ELSE machine[s]]
    BY <2>1, <2>2 DEF TypeOK, DeleteTeacher
  <2>4. Consent!Assign({t}, NoOne)
    BY <2>1, <2>2, <2>3, OneAccount DEF DeleteTeacher, NoHash, NoOne
  <2>5. Consent!Remove({t})
    BY <2>1, <2>4 DEF Consent!Remove, DeleteTeacher, requestVars
  <2> QED BY <2>2, <2>5 DEF Consent!Next
<1>3. ASSUME NEW c \in Classes, NEW t, CreateClass(c, t) \/ UpdateClass(c, t)
      PROVE  UNCHANGED Consent!consentVars
  BY <1>3, QuietIsStutter DEF CreateClass, UpdateClass, requestVars, secretVars
<1>4. ASSUME NEW S \in SUBSET Students, RemoveStudents(S), UNCHANGED requestVars
      PROVE  Consent!Next
  <2>1. Consent!Remove(S)
    BY <1>4 DEF Consent!Remove, Consent!Assign, RemoveStudents, Unbind,
                requestVars, NoHash, NoMachine, NoOne
  <2>2. S \in SUBSET Accounts
    BY DEF Accounts
  <2> QED BY <2>1, <2>2 DEF Consent!Next
<1>5. CASE \E c \in Classes : DeleteClass(c)
  BY <1>4, <1>5 DEF DeleteClass
<1>6. CASE \E s \in Students : DeleteStudent(s)
  BY <1>4, <1>6 DEF DeleteStudent
<1>7. CASE \E s \in Students : \E c \in Classes : CreateStudent(s, c)
  <2>1. PICK s \in Students, c \in Classes : CreateStudent(s, c)
    BY <1>7
  <2>2. s \in Accounts /\ ~Present(s)
    BY <2>1 DEF Accounts, CreateStudent, Present
  <2>3. password[s] = NoOne /\ machine[s] = NoMachine
    BY <2>1, <2>2 DEF AccountBook, NoHash, NoOne
  <2>4. machine' = [x \in Students |-> IF x = s THEN NoMachine ELSE machine[x]]
    BY <2>1, <2>3 DEF TypeOK, CreateStudent
  <2>5. Consent!Assign({s}, "initial")
    BY <2>1, <2>2, <2>4, OneAccount DEF CreateStudent
  <2>6. Consent!Create(s)
    BY <2>1, <2>3, <2>5
       DEF Consent!Create, Consent!Exists, CreateStudent, requestVars
  <2> QED BY <2>2, <2>6 DEF Consent!Next
<1>8. CASE \E s \in Students : ResetMachine(s)
  <2>1. PICK s \in Students : ResetMachine(s)
    BY <1>8
  <2>2. machine' = [machine EXCEPT ![s] = NoOne]
    BY <2>1 DEF TypeOK, ResetMachine, Unbind, NoMachine, NoOne
  <2>3. Consent!Release(s)
    BY <2>1, <2>2 DEF Consent!Release, ResetMachine, requestVars
  <2> QED BY <2>3 DEF Consent!Next
<1>9. CASE \E s \in Students : ChangePassword(s)
  <2>1. PICK s \in Students : ChangePassword(s)
    BY <1>9
  <2>2. s \in Accounts /\ password[s] # NoOne
    BY <2>1 DEF Accounts, ChangePassword, AccountBook, NoHash, NoOne
  <2>3. machine' = [x \in Students |-> IF x = s THEN NoMachine ELSE machine[x]]
    BY <2>1 DEF ChangePassword, UpdatePassword, Unbind
  <2>4. Consent!Assign({s}, "set")
    BY <2>1, <2>2, <2>3, OneAccount DEF ChangePassword, UpdatePassword
  <2>5. Consent!Reset(s)
    BY <2>1, <2>2, <2>4
       DEF Consent!Reset, Consent!Exists, ChangePassword, requestVars
  <2> QED BY <2>5 DEF Consent!Next
<1> QED BY <1>1, <1>2, <1>3, <1>5, <1>6, <1>7, <1>8, <1>9 DEF Manage

\* A handler takes effect in one of its steps, and only there.
LEMMA HandleIsConsent ==
    ASSUME IInv, NEW w \in Workers, Handle(w)
    PROVE  Consent!Next \/ UNCHANGED Consent!consentVars
<1> USE DEF IInv
<1>0. call[w] \in Calls
  BY DEF TypeOK
<1>1. CASE UNCHANGED <<requestVars, secretVars>>
  BY <1>1, QuietIsStutter DEF requestVars, secretVars
<1>2. CASE \E r \in Requests : Submit(w, r)
  <2>1. PICK r \in Requests : Submit(w, r)
    BY <1>2
  <2>2. call[w].who \in Accounts
    BY <1>0, <2>1, CallFields DEF Submit, Proceed
  <2>3. Consent!Ask(call[w].who, r)
    BY <2>1 DEF Consent!Ask, Consent!Closed, Submit, Cancelled, Open, secretVars
  <2> QED BY <2>2, <2>3 DEF Consent!Next
<1>3. CASE SubmitHalf(w)
  <2>1. call[w].who \in Accounts
    BY <1>0, <1>3, CallFields DEF SubmitHalf, Proceed
  <2>2. Consent!Withdraw(call[w].who)
    BY <1>3 DEF Consent!Withdraw, Consent!Closed, SubmitHalf, Cancelled, Open,
                secretVars
  <2> QED BY <2>1, <2>2 DEF Consent!Next
<1>4. CASE AcceptAndApplyPassword(w)
  <2>1. PICK r, x : r = call[w].arg /\ x = call[w].who
    OBVIOUS
  <2>2. r \in Requests /\ x \in Accounts /\ fromId[r] = x
    BY <1>0, <1>4, <2>1, CallFields DEF CallBook, AcceptAndApplyPassword, Proceed
  <2>3. password[x] # NoOne
    BY <1>4, <2>1, <2>2 DEF AcceptAndApplyPassword, AccountBook, NoHash, NoOne
  <2>4. machine' = [s \in Students |-> IF s = x THEN NoMachine ELSE machine[s]]
    BY <1>4, <2>1 DEF AcceptAndApplyPassword, UpdatePassword, Unbind
  <2>5. Consent!Assign({x}, r)
    BY <1>4, <2>1, <2>2, <2>4, OneAccount
       DEF AcceptAndApplyPassword, UpdatePassword
  <2>6. Consent!Grant(r)
    BY <1>4, <2>1, <2>2, <2>3, <2>5
       DEF Consent!Grant, Consent!Exists, AcceptAndApplyPassword
  <2> QED BY <2>2, <2>6 DEF Consent!Next
<1>5. CASE Reject(w)
  <2>1. call[w].arg \in Requests
    BY <1>0, <1>5, CallFields DEF Reject, Proceed
  <2>2. Consent!Refuse(call[w].arg)
    BY <1>5 DEF Consent!Refuse, Reject, secretVars
  <2> QED BY <2>1, <2>2 DEF Consent!Next
<1>6. CASE Activate(w)
  <2>1. PICK s, m : s = call[w].who /\ m = call[w].arg
    OBVIOUS
  <2>2. s \in Students /\ m \in Machines
    BY <1>0, <1>6, <2>1, CallFields DEF Activate, Proceed
  <2>3. password[s] # NoOne
    BY <1>6, <2>1, <2>2 DEF Activate, AccountBook, Accounts, NoHash, NoOne
  <2>4. Consent!Bind(s, m)
    BY <1>6, <2>1, <2>3
       DEF Consent!Bind, Consent!Exists, Activate, requestVars, NoMachine, NoOne
  <2> QED BY <2>2, <2>4 DEF Consent!Next
<1> QED BY <1>1, <1>2, <1>3, <1>4, <1>5, <1>6
        DEF Handle, HandleSubmitStudent, HandleActivateMachine,
            HandleSubmitTeacher, HandleAccept, HandleReject, HandleDecision,
            SubmitFindClass, HandlerEnds

\* The handlers of tickets, students, classes and teachers implement the
\* one-step changes of ConsentedChange, for any number of threads in them.
THEOREM Refinement == Spec => ImplementsConsent
<1>1. Init => Consent!Init
  BY DEF Init, Consent!Init, NoHash, NoMachine, NoOne
<1>2. IInv /\ [Next]_vars => [Consent!Next]_Consent!consentVars
  <2> SUFFICES ASSUME IInv, [Next]_vars
               PROVE  [Consent!Next]_Consent!consentVars
    OBVIOUS
  <2>1. CASE UNCHANGED vars
    BY <2>1, QuietIsStutter DEF vars, requestVars, secretVars
  <2> QED BY <2>1, ManageIsConsent, HandleIsConsent DEF Next
<1> QED
  BY <1>1, <1>2, Inductive, PTL DEF Spec, ImplementsConsent, Consent!Spec
=============================================================================
