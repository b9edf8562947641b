----------------------------- MODULE MCSessions -----------------------------
(***************************************************************************)
(* What must come about in the end, model-checked part by part: the        *)
(* monitor thread beside the requests agents make of their presence, and   *)
(* two agents that run without faults.  Both are made of the handlers and  *)
(* tables of AgentController.  An instance runs one part: the variables of *)
(* the other stay as they start, and so does its fairness, which asks for  *)
(* a step only in the part it belongs to.                                  *)
(***************************************************************************)
EXTENDS HeartbeatMonitor, AgentSession

CONSTANTS a1, a2, c1, c2, h1, h2

VARIABLE part

\* Two machines, one agent each.
MCTwoHosts == [a \in AgentIds |-> IF a = a1 THEN h1 ELSE h2]

sessionOnly == <<clientVars, late, runs>>
partVars    == <<part, vars, monitorVars, sessionOnly>>

Monitor(A) == part = "monitor" /\ A /\ UNCHANGED <<part, sessionOnly>>
Session(A) == part = "session" /\ A /\ UNCHANGED <<part, monitorVars>>

MCInit == part \in {"monitor", "session"} /\ MonitorInit /\ SessionInit

MCNext == Monitor(MonitorNext) \/ Session(SessionNext)

MCSpec ==
    /\ MCInit /\ [][MCNext]_partVars
    /\ WF_partVars(Monitor(MonitorStep))
    /\ \A a \in AgentIds :
          /\ WF_partVars(Monitor(HandlerStep(a) /\ UNCHANGED monitorVars))
          /\ WF_partVars(Session(ServerStep(a)))
    /\ \A c \in CommandIds : WF_partVars(Session(ServerPush(c)))
    /\ \A h \in Hosts : /\ WF_partVars(Session(AgentStep(h)))
                        /\ WF_partVars(Session(HeartbeatIntervalElapses(h)))
=============================================================================
