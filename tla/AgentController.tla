-------------------------- MODULE AgentController --------------------------
(***************************************************************************)
(* src/src/api/v1/controllers/AgentController.cpp: the HTTP handlers of    *)
(* /api/v1/agents, run by the worker threads of the HTTP server, over the  *)
(* AgentRegistry and the computers table of the database.                  *)
(*                                                                         *)
(* A handler is split where it leaves one mutex and takes the next one:    *)
(* between two such steps any other handler, and the heartbeat monitor,    *)
(* may run.  What a handler still has to do is kept in handlers (a pair of *)
(* the agent and the next step) and in pushing.  Requests are answered for *)
(* any id, at any time: the environment is every client the server may     *)
(* have.  Paths that change nothing (400, 401, 404 and 503 answers, the    *)
(* list and status queries) are stuttering steps.                          *)
(***************************************************************************)
EXTENDS AgentRegistry

CONSTANTS
    Hosts,          \* hostnames of the machines agents run on
    HostOf,         \* AgentInfo.hostname of the agent that is given an id
    ReportStatuses, \* statuses clients report, out of CommandStatus
    WorkerThreads   \* size of the HTTP server's thread pool

ASSUME ControllerAssumption ==
    /\ HostOf \in [AgentIds -> Hosts]
    /\ ReportStatuses \subseteq CommandStatus
    /\ WorkerThreads \in Nat \ {0}
    /\ "NoTarget" \notin AgentIds

VARIABLES
    agentUuids, \* agent ids generated so far (a UUID is never given twice)
    target,     \* commandId -> cmd.agentId, NoTarget while not generated
    pushing,    \* commands whose handlePushCommand is about to queue them
    acked,      \* commands handlePushCommand answered 201 "pending" for
    handed,     \* commands put into the body of a poll or heartbeat answer
    handlers,   \* <<agentId, next step>> of the other handlers under way
    computers   \* hostname -> states of its rows in table computers, by rowid

controllerVars == <<agentUuids, target, pushing, acked, handed, handlers,
                    computers>>
vars == <<registryVars, controllerVars>>

NoTarget == "NoTarget"

RegisterSteps  == {"regFind", "regHeartbeat", "regOnline", "regCreate"}
HeartbeatSteps == {"hbFind", "hbUpdate", "hbDequeue"}

Init ==
    /\ RegistryInit
    /\ agentUuids = {}
    /\ target     = [c \in CommandIds |-> NoTarget]
    /\ pushing    = {}
    /\ acked      = {}
    /\ handed     = {}
    /\ handlers   = {}
    /\ computers  = [h \in Hosts |-> << >>]

\* A request is taken from the server's queue by a thread that runs no other.
WorkerFree == Cardinality(handlers) + Cardinality(pushing) < WorkerThreads

\* An agent learns its id from the answer to its registration.
IdKnown(a) == a \in agentUuids /\ \A step \in RegisterSteps :
                                     <<a, step>> \notin handlers

\* The handler of agent a at step from goes on to step to.
Goto(a, from, to) == handlers' = (handlers \ {<<a, from>>}) \cup {<<a, to>>}
Done(a, from)     == handlers' = handlers \ {<<a, from>>}

\* ComputerRepository::findByHostname finds the first row of the hostname;
\* updateHeartbeat and updateState write that row's state.
HasRow(a) == computers[HostOf[a]] # << >>

SetRow(a, state) ==
    computers' = IF HasRow(a)
                 THEN [computers EXCEPT ![HostOf[a]][1] = state]
                 ELSE computers

\* ComputerRepository::create inserts a row; hostname is not unique.
InsertRow(a) ==
    computers' = [computers EXCEPT ![HostOf[a]] = Append(@, "offline")]

----------------------------------------------------------------------------
(* handleRegister *)

\* The key was verified: a new UUID, and registerAgent.
HandleRegister(a) ==
    /\ WorkerFree
    /\ a \notin agentUuids
    /\ agentUuids' = agentUuids \cup {a}
    /\ RegisterAgent(a)
    /\ handlers' = handlers \cup {<<a, "regFind">>}
    /\ UNCHANGED <<target, pushing, acked, handed, computers>>

\* findByHostname decides between an update and an insertion.
RegisterFindComputer(a) ==
    /\ <<a, "regFind">> \in handlers
    /\ Goto(a, "regFind", IF HasRow(a) THEN "regHeartbeat" ELSE "regCreate")
    /\ UNCHANGED <<registryVars, agentUuids, target, pushing, acked, handed,
                   computers>>

\* updateHeartbeat: the row is "online".
RegisterUpdateHeartbeat(a) ==
    /\ <<a, "regHeartbeat">> \in handlers
    /\ SetRow(a, "online")
    /\ Goto(a, "regHeartbeat", "regOnline")
    /\ UNCHANGED <<registryVars, agentUuids, target, pushing, acked, handed>>

\* updateState(.., "online"), then the answer.
RegisterUpdateState(a) ==
    /\ <<a, "regOnline">> \in handlers
    /\ SetRow(a, "online")
    /\ Done(a, "regOnline")
    /\ UNCHANGED <<registryVars, agentUuids, target, pushing, acked, handed>>

\* createUnassigned: a row in state "offline", then the answer.
RegisterCreateComputer(a) ==
    /\ <<a, "regCreate">> \in handlers
    /\ InsertRow(a)
    /\ Done(a, "regCreate")
    /\ UNCHANGED <<registryVars, agentUuids, target, pushing, acked, handed>>

----------------------------------------------------------------------------
(* handleUnregister: only the registry; the computers row is left alone. *)

HandleUnregister(a) ==
    /\ WorkerFree
    /\ UnregisterAgent(a)
    /\ UNCHANGED controllerVars

----------------------------------------------------------------------------
(* handlePushCommand *)

\* findAgent succeeds (404 otherwise); the command gets its UUID.
HandlePushCommand(c, a) ==
    /\ WorkerFree
    /\ target[c] = NoTarget
    /\ Registered(a)
    /\ target'  = [target EXCEPT ![c] = a]
    /\ pushing' = pushing \cup {c}
    /\ UNCHANGED <<registryVars, agentUuids, acked, handed, handlers,
                   computers>>

\* queueCommand, which returns nothing, then 201 "pending" in any case.
PushQueueCommand(c) ==
    /\ c \in pushing
    /\ QueueCommand(c, target[c])
    /\ pushing' = pushing \ {c}
    /\ acked'   = acked \cup {c}
    /\ UNCHANGED <<agentUuids, target, handed, handlers, computers>>

----------------------------------------------------------------------------
(* handlePollCommands and handleReportResult *)

HandlePollCommands(a) ==
    /\ WorkerFree /\ IdKnown(a)
    /\ DequeuePendingCommands(a)
    /\ handed' = handed \cup Elements(DequeuedCommands(a))
    /\ UNCHANGED <<agentUuids, target, pushing, acked, handlers, computers>>

\* The status is whatever command_status_from_string makes of the body.
HandleReportResult(c, status) ==
    /\ WorkerFree
    /\ target[c] # NoTarget
    /\ ReportCommandResult(c, status)
    /\ UNCHANGED controllerVars

----------------------------------------------------------------------------
(* handleHeartbeat *)

\* registry.heartbeat, a no-op for an unknown id.
HandleHeartbeat(a) ==
    /\ WorkerFree /\ IdKnown(a)
    /\ Heartbeat(a)
    /\ handlers' = handlers \cup {<<a, "hbFind">>}
    /\ UNCHANGED <<agentUuids, target, pushing, acked, handed, computers>>

\* findAgent: an unknown agent's computer is left alone.
HeartbeatFindAgent(a) ==
    /\ <<a, "hbFind">> \in handlers
    /\ Goto(a, "hbFind", IF Registered(a) THEN "hbUpdate" ELSE "hbDequeue")
    /\ UNCHANGED <<registryVars, agentUuids, target, pushing, acked, handed,
                   computers>>

\* findByHostname, then updateHeartbeat: the row is "online".
HeartbeatUpdateComputer(a) ==
    /\ <<a, "hbUpdate">> \in handlers
    /\ SetRow(a, "online")
    /\ Goto(a, "hbUpdate", "hbDequeue")
    /\ UNCHANGED <<registryVars, agentUuids, target, pushing, acked, handed>>

\* dequeuePendingCommands; the commands go into the answer.
HeartbeatDequeue(a) ==
    /\ <<a, "hbDequeue">> \in handlers
    /\ DequeuePendingCommands(a)
    /\ handed' = handed \cup Elements(DequeuedCommands(a))
    /\ Done(a, "hbDequeue")
    /\ UNCHANGED <<agentUuids, target, pushing, acked, computers>>

----------------------------------------------------------------------------
(* The server process ends and is started again: the registry and the      *)
(* handlers under way are gone, the database stays.                        *)

ServerRestart ==
    /\ LoseRegistry
    /\ pushing'  = {}
    /\ handlers' = {}
    /\ UNCHANGED <<agentUuids, target, acked, handed, computers>>

\* The later steps of the handlers: what a worker thread goes on to do.
HandlerStep(a) ==
    \/ RegisterFindComputer(a)
    \/ RegisterUpdateHeartbeat(a)
    \/ RegisterUpdateState(a)
    \/ RegisterCreateComputer(a)
    \/ HeartbeatFindAgent(a)
    \/ HeartbeatUpdateComputer(a)
    \/ HeartbeatDequeue(a)

Next ==
    \/ \E a \in AgentIds :
          \/ HandleRegister(a)
          \/ HandleUnregister(a)
          \/ HandlePollCommands(a)
          \/ HandleHeartbeat(a)
          \/ HandlerStep(a)
    \/ \E c \in CommandIds :
          \/ \E a \in AgentIds : HandlePushCommand(c, a)
          \/ PushQueueCommand(c)
          \/ \E status \in ReportStatuses : HandleReportResult(c, status)
    \/ ServerRestart

Spec == Init /\ [][Next]_vars

----------------------------------------------------------------------------
(* Properties *)

\* The types of the registry's maps, of the handlers' local state and of the
\* computers table.
TypeOK ==
    /\ RegistryTypeOK
    /\ agentUuids \subseteq AgentIds
    /\ target \in [CommandIds -> AgentIds \cup {NoTarget}]
    /\ pushing \subseteq CommandIds
    /\ acked \subseteq CommandIds
    /\ handed \subseteq CommandIds
    /\ handlers \subseteq AgentIds \X (RegisterSteps \cup HeartbeatSteps)
    /\ computers \in [Hosts -> Seq({"offline", "online"})]

\* unregisterAgent erases the queue with the agent and queueCommand refuses an
\* unknown agent, so no command waits for an agent that does not exist, however
\* pushes, unregistrations and restarts interleave.
QueuedOnlyForRegistered ==
    \A a \in AgentIds : m_commandQueues[a] # << >> => Registered(a)

\* A command waits in at most one place, the queue of its own target, once, and
\* is gone from there when a poll or a heartbeat has put it into an answer: no
\* command is handed out twice or to another agent.
NoRedelivery ==
    /\ \A a \in AgentIds : \A i \in 1..Len(m_commandQueues[a]) :
          LET c == m_commandQueues[a][i] IN
          /\ target[c] = a
          /\ c \notin handed
          /\ c \notin pushing
          /\ \A j \in 1..Len(m_commandQueues[a]) :
                m_commandQueues[a][j] = c => j = i
    /\ pushing \cap handed = {}

\* What became of a command the server acknowledged with 201 "pending": it
\* still waits, or it was handed out, or its agent is no longer registered
\* (the only way handlePushCommand loses an acknowledged command).
AckedFate ==
    \A c \in acked :
       \/ c \in handed
       \/ c \in Queued(target[c])
       \/ ~Registered(target[c])

\* The handlers implement the abstract command delivery: a command they have
\* acknowledged is waiting while it is in a queue, handed when a poll or a
\* heartbeat has put it into an answer, and lost otherwise.
Fate == [c \in CommandIds |->
           IF c \in handed THEN "handed"
           ELSE IF c \notin acked THEN "new"
           ELSE IF c \in Queued(target[c]) THEN "waiting"
           ELSE "lost"]
Delivery == INSTANCE CommandDelivery WITH addressee <- target, fate <- Fate
ImplementsDelivery == Delivery!Spec

\* Agent ids are UUIDs: once unregistered (or lost in a restart) an id stays
\* unknown; no late heartbeat, poll or state update brings it back.
UnregisteredIsForever ==
    [][\A a \in agentUuids : ~Registered(a) => ~Registered(a)']_vars
============================================================================
