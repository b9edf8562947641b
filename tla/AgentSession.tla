---------------------------- MODULE AgentSession ---------------------------
(***************************************************************************)
(* src/agent/src/main.cpp (runAgent), AgentClient.cpp and                  *)
(* CommandDispatcher.cpp: the agent process of a machine, composed with    *)
(* the server's AgentController.  One thread: register, then poll, execute *)
(* and report each command, send a heartbeat when one is due, and          *)
(* unregister when asked to stop.                                          *)
(*                                                                         *)
(* An HTTP call either is answered, or the client gives up on it (no       *)
(* connection, a timeout, a lost answer).  A request given up on goes to   *)
(* late: the server may serve it at any later time, or never.  No call is  *)
(* retried, but the registration.                                          *)
(***************************************************************************)
EXTENDS AgentController

CONSTANTS
    AcceptedStatuses,   \* answers registerWithServer accepts: {200}
    MaxLate             \* bound: requests given up on and not served yet

ASSUME SessionAssumption == AcceptedStatuses \subseteq Nat /\ MaxLate \in Nat

VARIABLES
    agentPc,        \* host -> where runAgent is
    m_agentId,      \* host -> the id of the client, NoId when not registered
    registering,    \* host -> the id the pending registration will be given
    batch,          \* host -> commands of the last poll still to be executed
    outcome,        \* host -> status of the command just executed
    heartbeatDue,   \* host -> heartbeatInterval has elapsed
    stopRequested,  \* host -> g_stopRequested
    tokenExpired,   \* host -> the JWT of the client is no longer valid
    late,           \* requests clients have given up on
    runs            \* commandId -> the hosts it was executed on, in order

clientVars  == <<agentPc, m_agentId, registering, batch, outcome,
                 heartbeatDue, stopRequested, tokenExpired>>
sessionVars == <<vars, clientVars, late, runs>>

NoId == "NoId"

\* The registration handler answers 201 (AgentController.cpp:188).
RegisterStatus == 201

Request(op, id, c, status) == [op |-> op, id |-> id, cmd |-> c,
                               status |-> status]
NoCommand == "NoCommand"

SessionInit ==
    /\ Init
    /\ agentPc       = [h \in Hosts |-> "register"]
    /\ m_agentId     = [h \in Hosts |-> NoId]
    /\ registering   = [h \in Hosts |-> NoId]
    /\ batch         = [h \in Hosts |-> << >>]
    /\ outcome       = [h \in Hosts |-> "Pending"]
    /\ heartbeatDue  = [h \in Hosts |-> FALSE]
    /\ stopRequested = [h \in Hosts |-> FALSE]
    /\ tokenExpired  = [h \in Hosts |-> FALSE]
    /\ late = {}
    /\ runs = [c \in CommandIds |-> << >>]

Go(h, pc) == agentPc' = [agentPc EXCEPT ![h] = pc]

\* The loops test g_stopRequested before each poll and each command.
Running(h) == ~stopRequested[h]

\* The handlers of a heartbeat, and of a registration, of agent a are done.
HeartbeatDone(a) == \A step \in HeartbeatSteps : <<a, step>> \notin handlers
RegisterDone(a)  == \A step \in RegisterSteps : <<a, step>> \notin handlers

----------------------------------------------------------------------------
(* registerWithServer, and its retry loop in runAgent *)

SendRegister(h, a) ==
    /\ agentPc[h] = "register" /\ Running(h)
    /\ HostOf[a] = h
    /\ HandleRegister(a)
    /\ registering' = [registering EXCEPT ![h] = a]
    /\ Go(h, "regWait")
    /\ UNCHANGED <<m_agentId, batch, outcome, heartbeatDue, stopRequested,
                   tokenExpired, late, runs>>

\* The answer: its status must be an accepted one, otherwise the loop waits
\* and registers again.  A stop requested meanwhile ends the process at once,
\* registered and without unregistering.
RegisterAnswered(h) ==
    /\ agentPc[h] = "regWait" /\ RegisterDone(registering[h])
    /\ IF RegisterStatus \in AcceptedStatuses
       THEN /\ m_agentId' = [m_agentId EXCEPT ![h] = registering[h]]
            /\ tokenExpired' = [tokenExpired EXCEPT ![h] = FALSE]
            /\ Go(h, IF Running(h) THEN "poll" ELSE "stopped")
       ELSE Go(h, "register") /\ UNCHANGED <<m_agentId, tokenExpired>>
    /\ registering' = [registering EXCEPT ![h] = NoId]
    /\ UNCHANGED <<vars, batch, outcome, heartbeatDue, stopRequested, late,
                   runs>>

----------------------------------------------------------------------------
(* The main loop *)

PollAnswered(h) ==
    /\ agentPc[h] = "poll" /\ Running(h) /\ ~tokenExpired[h]
    /\ batch' = [batch EXCEPT ![h] = DequeuedCommands(m_agentId[h])]
    /\ HandlePollCommands(m_agentId[h])
    /\ Go(h, "dispatch")
    /\ UNCHANGED <<m_agentId, registering, outcome, heartbeatDue,
                   stopRequested, tokenExpired, late, runs>>

\* CommandDispatcher::dispatch: the feature handler runs; an unknown feature
\* or an exception is a failure.
ExecuteCommand(h) ==
    /\ agentPc[h] = "dispatch" /\ Running(h) /\ batch[h] # << >>
    /\ \E status \in {"Success", "Failed"} :
          outcome' = [outcome EXCEPT ![h] = status]
    /\ runs' = [runs EXCEPT ![Head(batch[h])] = Append(@, h)]
    /\ Go(h, "report")
    /\ UNCHANGED <<vars, m_agentId, registering, batch, heartbeatDue,
                   stopRequested, tokenExpired, late>>

\* Mutant of CommandDone: the rest of the batch is dropped.
CommandDoneDropsBatch(h) ==
    /\ batch'   = [batch EXCEPT ![h] = << >>]
    /\ outcome' = [outcome EXCEPT ![h] = "Pending"]
    /\ Go(h, "dispatch")

\* The command is over for the client, however its report fares.
CommandDone(h) ==
    /\ batch'   = [batch EXCEPT ![h] = Tail(@)]
    /\ outcome' = [outcome EXCEPT ![h] = "Pending"]
    /\ Go(h, "dispatch")

ReportAnswered(h) ==
    /\ agentPc[h] = "report" /\ ~tokenExpired[h]
    /\ HandleReportResult(Head(batch[h]), outcome[h])
    /\ CommandDone(h)
    /\ UNCHANGED <<m_agentId, registering, heartbeatDue, stopRequested,
                   tokenExpired, late, runs>>

\* The batch is done, or a stop was requested: a heartbeat if one is due, then
\* the sleep.
EndBatch(h) ==
    /\ agentPc[h] = "dispatch"
    /\ batch[h] = << >> \/ ~Running(h)
    /\ batch' = [batch EXCEPT ![h] = << >>]
    /\ Go(h, IF heartbeatDue[h] THEN "heartbeat" ELSE "poll")
    /\ UNCHANGED <<vars, m_agentId, registering, outcome, heartbeatDue,
                   stopRequested, tokenExpired, late, runs>>

SendHeartbeat(h) ==
    /\ agentPc[h] = "heartbeat" /\ ~tokenExpired[h]
    /\ HandleHeartbeat(m_agentId[h])
    /\ heartbeatDue' = [heartbeatDue EXCEPT ![h] = FALSE]
    /\ Go(h, "hbWait")
    /\ UNCHANGED <<m_agentId, registering, batch, outcome, stopRequested,
                   tokenExpired, late, runs>>

\* sendHeartbeat looks at the status of the answer, not at its body.
HeartbeatAnswered(h) ==
    /\ agentPc[h] = "hbWait" /\ HeartbeatDone(m_agentId[h])
    /\ Go(h, "poll")
    /\ UNCHANGED <<vars, m_agentId, registering, batch, outcome, heartbeatDue,
                   stopRequested, tokenExpired, late, runs>>

HeartbeatIntervalElapses(h) ==
    /\ ~heartbeatDue[h] /\ m_agentId[h] # NoId
    /\ heartbeatDue' = [heartbeatDue EXCEPT ![h] = TRUE]
    /\ UNCHANGED <<vars, agentPc, m_agentId, registering, batch, outcome,
                   stopRequested, tokenExpired, late, runs>>

\* A call with an expired token is answered 401 by the middleware; the client
\* logs it and goes on as after any failure.
Rejected(h) ==
    /\ tokenExpired[h]
    /\ \/ agentPc[h] = "poll" /\ Running(h)
          /\ Go(h, "dispatch") /\ UNCHANGED <<batch, outcome, heartbeatDue>>
       \/ agentPc[h] = "report" /\ CommandDone(h) /\ UNCHANGED heartbeatDue
       \/ agentPc[h] = "heartbeat"
          /\ heartbeatDue' = [heartbeatDue EXCEPT ![h] = FALSE]
          /\ Go(h, "poll") /\ UNCHANGED <<batch, outcome>>
    /\ UNCHANGED <<vars, m_agentId, registering, stopRequested, tokenExpired,
                   late, runs>>

----------------------------------------------------------------------------
(* Shutdown *)

\* A signal or the service manager asks the process to stop.
RequestStop(h) ==
    /\ Running(h) /\ agentPc[h] # "stopped"
    /\ stopRequested' = [stopRequested EXCEPT ![h] = TRUE]
    /\ UNCHANGED <<vars, agentPc, m_agentId, registering, batch, outcome,
                   heartbeatDue, tokenExpired, late, runs>>

LeaveLoop(h) ==
    /\ ~Running(h)
    /\ \/ agentPc[h] = "register" /\ Go(h, "stopped")
       \/ agentPc[h] = "poll" /\ Go(h, "unregister")
    /\ UNCHANGED <<vars, m_agentId, registering, batch, outcome, heartbeatDue,
                   stopRequested, tokenExpired, late, runs>>

\* unregister clears the ids, whatever becomes of the call.
Unregister(h) ==
    /\ agentPc[h] = "unregister"
    /\ \/ ~tokenExpired[h] /\ HandleUnregister(m_agentId[h])
       \/ tokenExpired[h] /\ UNCHANGED vars
    /\ m_agentId' = [m_agentId EXCEPT ![h] = NoId]
    /\ Go(h, "stopped")
    /\ UNCHANGED <<registering, batch, outcome, heartbeatDue, stopRequested,
                   tokenExpired, late, runs>>

----------------------------------------------------------------------------
(* Faults *)

\* The client gives up on the call it makes or waits for.
GiveUp(h) ==
    /\ Cardinality(late) < MaxLate
    /\ \/ /\ agentPc[h] = "regWait"
          /\ registering' = [registering EXCEPT ![h] = NoId]
          /\ Go(h, "register")
          /\ UNCHANGED <<m_agentId, batch, outcome, heartbeatDue, late>>
       \/ /\ agentPc[h] = "poll" /\ Running(h)
          /\ late' = late \cup {Request("poll", m_agentId[h], NoCommand, "")}
          /\ Go(h, "dispatch")
          /\ UNCHANGED <<m_agentId, registering, batch, outcome, heartbeatDue>>
       \/ /\ agentPc[h] = "report"
          /\ late' = late \cup {Request("report", m_agentId[h],
                                        Head(batch[h]), outcome[h])}
          /\ CommandDone(h)
          /\ UNCHANGED <<m_agentId, registering, heartbeatDue>>
       \/ /\ agentPc[h] = "heartbeat"
          /\ late' = late \cup {Request("heartbeat", m_agentId[h], NoCommand,
                                        "")}
          /\ heartbeatDue' = [heartbeatDue EXCEPT ![h] = FALSE]
          /\ Go(h, "poll")
          /\ UNCHANGED <<m_agentId, registering, batch, outcome>>
       \/ /\ agentPc[h] = "hbWait"
          /\ Go(h, "poll")
          /\ UNCHANGED <<m_agentId, registering, batch, outcome, heartbeatDue,
                         late>>
       \/ /\ agentPc[h] = "unregister"
          /\ late' = late \cup {Request("unregister", m_agentId[h], NoCommand,
                                        "")}
          /\ m_agentId' = [m_agentId EXCEPT ![h] = NoId]
          /\ Go(h, "stopped")
          /\ UNCHANGED <<registering, batch, outcome, heartbeatDue>>
    /\ UNCHANGED <<vars, stopRequested, tokenExpired, runs>>

\* The server gets to a request nobody waits for any more.
ServeLate(r) ==
    /\ r \in late
    /\ \/ r.op = "poll"       /\ HandlePollCommands(r.id)
       \/ r.op = "report"     /\ HandleReportResult(r.cmd, r.status)
       \/ r.op = "heartbeat"  /\ HandleHeartbeat(r.id)
       \/ r.op = "unregister" /\ HandleUnregister(r.id)
    /\ late' = late \ {r}
    /\ UNCHANGED <<clientVars, runs>>

\* The agent process dies and the service manager starts it again.
AgentRestart(h) ==
    /\ agentPc[h] # "register"
    /\ agentPc'       = [agentPc EXCEPT ![h] = "register"]
    /\ m_agentId'     = [m_agentId EXCEPT ![h] = NoId]
    /\ registering'   = [registering EXCEPT ![h] = NoId]
    /\ batch'         = [batch EXCEPT ![h] = << >>]
    /\ outcome'       = [outcome EXCEPT ![h] = "Pending"]
    /\ heartbeatDue'  = [heartbeatDue EXCEPT ![h] = FALSE]
    /\ stopRequested' = [stopRequested EXCEPT ![h] = FALSE]
    /\ UNCHANGED <<vars, tokenExpired, late, runs>>

\* The server restarts: calls that wait for an answer fail.
SessionServerRestart ==
    /\ ServerRestart
    /\ agentPc' = [h \in Hosts |-> IF agentPc[h] = "regWait" THEN "register"
                                  ELSE IF agentPc[h] = "hbWait" THEN "poll"
                                  ELSE agentPc[h]]
    /\ registering' = [h \in Hosts |-> NoId]
    /\ UNCHANGED <<m_agentId, batch, outcome, heartbeatDue, stopRequested,
                   tokenExpired, late, runs>>

\* The token was issued with a lifetime of jwtExpirySeconds.
TokenExpires(h) ==
    /\ m_agentId[h] # NoId /\ ~tokenExpired[h]
    /\ tokenExpired' = [tokenExpired EXCEPT ![h] = TRUE]
    /\ UNCHANGED <<vars, agentPc, m_agentId, registering, batch, outcome,
                   heartbeatDue, stopRequested, late, runs>>

----------------------------------------------------------------------------
(* The composition *)

\* A worker thread goes on with a handler, or with a push.
ServerStep(a)   == HandlerStep(a) /\ UNCHANGED <<clientVars, late, runs>>
ServerPush(c)   == PushQueueCommand(c) /\ UNCHANGED <<clientVars, late, runs>>

TeacherStep ==
    /\ \E c \in CommandIds, a \in AgentIds : HandlePushCommand(c, a)
    /\ UNCHANGED <<clientVars, late, runs>>

AgentStep(h) ==
    \/ \E a \in AgentIds : SendRegister(h, a)
    \/ RegisterAnswered(h)
    \/ PollAnswered(h)
    \/ ExecuteCommand(h)
    \/ ReportAnswered(h)
    \/ EndBatch(h)
    \/ SendHeartbeat(h)
    \/ HeartbeatAnswered(h)
    \/ Rejected(h)
    \/ LeaveLoop(h)
    \/ Unregister(h)

SessionNext ==
    \/ \E a \in AgentIds : ServerStep(a)
    \/ \E c \in CommandIds : ServerPush(c)
    \/ TeacherStep
    \/ \E h \in Hosts : AgentStep(h) \/ HeartbeatIntervalElapses(h)

Fault ==
    \/ \E h \in Hosts : GiveUp(h) \/ AgentRestart(h) \/ TokenExpires(h)
                           \/ RequestStop(h)
    \/ \E r \in late : ServeLate(r)
    \/ SessionServerRestart

\* Every fault may happen, at any time and as often as it likes.
FaultySpec == SessionInit /\ [][SessionNext \/ Fault]_sessionVars

\* The agent's thread runs, the interval elapses, and the worker threads run
\* every handler to its end.
Fairness ==
    /\ \A a \in AgentIds : WF_sessionVars(ServerStep(a))
    /\ \A c \in CommandIds : WF_sessionVars(ServerPush(c))
    /\ \A h \in Hosts : /\ WF_sessionVars(AgentStep(h))
                        /\ WF_sessionVars(HeartbeatIntervalElapses(h))

\* No fault happens.
ReliableSpec == SessionInit /\ [][SessionNext]_sessionVars /\ Fairness

----------------------------------------------------------------------------
(* Properties *)

\* A command is executed at most once, on the machine of the agent it was
\* addressed to, whatever is lost, delayed or restarted.
ExecutedAtMostOnce ==
    \A c \in CommandIds :
       /\ Len(runs[c]) <= 1
       /\ \A i \in 1..Len(runs[c]) : runs[c][i] = HostOf[target[c]]

\* The history says Success or Failed only of a command that was executed, and
\* never replaces such a status by another: dequeuing, late, lost and repeated
\* reports neither finish a command early nor take a finished one back.
FinalStatusIsTrue ==
    [][\A c \in CommandIds :
          /\ m_commandHistory'[c] \in FinalStatus => runs'[c] # << >>
          /\ m_commandHistory[c] \in FinalStatus
                => m_commandHistory'[c] \in {m_commandHistory[c], NoEntry}
      ]_sessionVars

\* Without faults every command that waits is polled by its agent, unless the
\* handler of a heartbeat takes it first: it puts the command into an answer
\* whose body sendHeartbeat does not read.  Nothing else takes a command from a
\* queue, and no agent stops polling.
Waits(c)  == target[c] # NoTarget /\ c \in UNION {Queued(a) : a \in AgentIds}
Polled(c) == \E h \in Hosts : c \in Elements(batch[h])
InUnreadAnswer(c) == c \in handed /\ ~Polled(c) /\ runs[c] = << >>


\* Without faults a command an agent has polled gets its final status, unless
\* pruning removes it from the history.
PolledIsReported ==
    \A c \in CommandIds :
       Polled(c) ~> m_commandHistory[c] \in FinalStatus \cup {NoEntry}

\* "On a 200 response, stores the agentId and authToken" (AgentClient.cpp:94):
\* without faults an answered registration leaves the client registered.
RegistrationSucceeds ==
    [][\A h \in Hosts : agentPc[h] = "regWait" /\ agentPc'[h] # "regWait"
                           => m_agentId'[h] # NoId]_sessionVars

============================================================================
