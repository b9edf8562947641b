-------------------------- MODULE HeartbeatMonitor -------------------------
(***************************************************************************)
(* src/src/agent/HeartbeatMonitor.cpp, composed with the HTTP handlers of  *)
(* AgentController and with the callback src/src/server/HttpServer.cpp     *)
(* gives it.                                                               *)
(*                                                                         *)
(* The monitor thread takes a snapshot of all agents, then goes through    *)
(* it; the registry's and the database's mutexes are free between any two  *)
(* of its steps.  A snapshot is the set of agents the pass will mark: the  *)
(* ones that were not Offline and whose lastHeartbeat was out of date when *)
(* it was taken.                                                           *)
(***************************************************************************)
EXTENDS AgentController

VARIABLES
    m_running,  \* the monitor's stop flag
    monitorPc,  \* where monitorLoop is
    snapshot,   \* agents of the snapshot still to be marked in this pass
    current,    \* the agent the callback runs for
    overdue     \* agents that missed the timeout since they registered

monitorVars == <<m_running, monitorPc, snapshot, current, overdue>>
allVars     == <<vars, monitorVars>>

NoAgent == "NoAgent"

MonitorInit ==
    /\ Init
    /\ m_running = TRUE
    /\ monitorPc = "waiting"
    /\ snapshot  = {}
    /\ current   = NoAgent
    /\ overdue   = {}

\* Mutants of ListAgents: the elapsed time is not looked at; the test of the
\* state is the wrong way round; the stop flag is not looked at.
ListAgentsIgnoresTime ==
    /\ monitorPc = "waiting" /\ m_running
    /\ snapshot'  = {a \in AgentIds : m_agents[a] \notin {Absent, "Offline"}}
    /\ monitorPc' = "marking"
    /\ UNCHANGED <<vars, m_running, current, overdue>>

ListAgentsWrongState ==
    /\ monitorPc = "waiting" /\ m_running
    /\ snapshot'  = {a \in AgentIds : m_agents[a] = "Offline" /\ expired[a]}
    /\ monitorPc' = "marking"
    /\ UNCHANGED <<vars, m_running, current, overdue>>

ListAgentsIgnoresStop ==
    /\ monitorPc = "waiting"
    /\ snapshot' = {a \in AgentIds : /\ m_agents[a] \notin {Absent, "Offline"}
                                     /\ expired[a]}
    /\ monitorPc' = "marking"
    /\ UNCHANGED <<vars, m_running, current, overdue>>

\* wait_for returns, by timeout or by stop(); listAgents and now.
ListAgents ==
    /\ monitorPc = "waiting" /\ m_running
    /\ snapshot' = {a \in AgentIds : /\ m_agents[a] \notin {Absent, "Offline"}
                                     /\ expired[a]}
    /\ monitorPc' = "marking"
    /\ UNCHANGED <<vars, m_running, current, overdue>>

\* updateState(agentId, Offline) for one agent of the snapshot; the iteration
\* order is that of an unordered_map.
MarkOffline(a) ==
    /\ monitorPc = "marking" /\ a \in snapshot
    /\ UpdateState(a, "Offline")
    /\ snapshot'  = snapshot \ {a}
    /\ current'   = a
    /\ monitorPc' = "cbFind"
    /\ UNCHANGED <<controllerVars, m_running, overdue>>

\* The callback: findAgent ...
CallbackFindAgent ==
    /\ monitorPc = "cbFind"
    /\ monitorPc' = IF Registered(current) THEN "cbComputer" ELSE "cbState"
    /\ UNCHANGED <<vars, m_running, snapshot, current, overdue>>

\* ... findByHostname and updateState(.., "offline") on the computers row ...
CallbackComputer ==
    /\ monitorPc = "cbComputer"
    /\ SetRow(current, "offline")
    /\ monitorPc' = "cbState"
    /\ UNCHANGED <<registryVars, agentUuids, target, pushing, acked, handed,
                   handlers, m_running, snapshot, current, overdue>>

\* ... and updateState(agentId, Offline) once more.
CallbackUpdateState ==
    /\ monitorPc = "cbState"
    /\ UpdateState(current, "Offline")
    /\ current'   = NoAgent
    /\ monitorPc' = "marking"
    /\ UNCHANGED <<controllerVars, m_running, snapshot, overdue>>

\* The pass is over: back to the wait.
EndPass ==
    /\ monitorPc = "marking" /\ snapshot = {}
    /\ monitorPc' = "waiting"
    /\ UNCHANGED <<vars, m_running, snapshot, current, overdue>>

\* The loop sees the stop flag; stop() can join the thread.
Exit ==
    /\ monitorPc = "waiting" /\ ~m_running
    /\ monitorPc' = "exited"
    /\ UNCHANGED <<vars, m_running, snapshot, current, overdue>>

\* stop(), called by ~HttpServer.
Stop ==
    /\ m_running
    /\ m_running' = FALSE
    /\ UNCHANGED <<vars, monitorPc, snapshot, current, overdue>>

\* lastHeartbeat of agent a gets older than the timeout.
Tick(a) ==
    /\ HeartbeatExpires(a)
    /\ overdue' = overdue \cup {a}
    /\ UNCHANGED <<controllerVars, m_running, monitorPc, snapshot, current>>

MonitorStep ==
    \/ ListAgents
    \/ \E a \in AgentIds : MarkOffline(a)
    \/ CallbackFindAgent
    \/ CallbackComputer
    \/ CallbackUpdateState
    \/ EndPass
    \/ Exit

\* The requests agents make of their presence; commands are AgentSession's.
PresenceRequest(a) ==
    HandleRegister(a) \/ HandleUnregister(a) \/ HandleHeartbeat(a)

MonitorNext ==
    \/ MonitorStep
    \/ Stop
    \/ \E a \in AgentIds :
          \/ Tick(a)
          \/ PresenceRequest(a) /\ UNCHANGED monitorVars
          \/ HandlerStep(a) /\ UNCHANGED monitorVars

\* The monitor thread's wait is timed and the worker threads run a handler to
\* its end; nothing is assumed of the agents.
MonitorSpec ==
    /\ MonitorInit /\ [][MonitorNext]_allVars
    /\ WF_allVars(MonitorStep)
    /\ \A a \in AgentIds : WF_allVars(HandlerStep(a) /\ UNCHANGED monitorVars)

----------------------------------------------------------------------------
(* Properties *)

\* An agent is Offline only after its heartbeat was overdue at some time: a
\* stale snapshot may mark an agent late, never one that was always on time.
OfflineHasCause == \A a \in AgentIds : m_agents[a] = "Offline" => a \in overdue

\* An agent whose heartbeats stop for good is Offline for good in the end,
\* while the monitor runs.
SilentAgentGoesOffline ==
    \A a \in AgentIds :
       <>[](Registered(a) /\ expired[a] /\ m_running)
          => <>[](m_agents[a] = "Offline")

\* stop() returns: the thread always comes to its end, whatever pass it is in.
StopCompletes == ~m_running ~> monitorPc = "exited"

============================================================================
