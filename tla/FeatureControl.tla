--------------------------- MODULE FeatureControl --------------------------
(***************************************************************************)
(* src/src/plugins/feature/FeaturePlugin.cpp with the handlers that call   *)
(* it, FeatureController::handleControl and                                *)
(* BatchController::handleBatchFeature, composed with the registry: the    *)
(* plugin is the second writer of command queues and keeps a table of its  *)
(* own of the features it holds for active.                                *)
(*                                                                         *)
(* The plugin's (recursive) mutex is held over a whole batch, so one batch *)
(* is under way at a time; the registry's mutex is taken and released      *)
(* twice for each of its computers, and any other method of the registry   *)
(* may be called in between: by the handlers of AgentController, by the    *)
(* heartbeat monitor.  Those callers are modelled in modules of their own; *)
(* here they are the calls they make, at any time.  A control of one       *)
(* computer is a batch of one.  A command is a start or a stop of one      *)
(* feature; its arguments are left out.                                    *)
(*                                                                         *)
(* The table is keyed by the feature uid the client sent; an agent is told *)
(* the uid of its own handler.  Both "feat-lock-screen" and "lock-screen"  *)
(* are sent as "lock-screen", and no request is refused for its uid: the   *)
(* table may hold two entries for one feature of an agent.                 *)
(***************************************************************************)
EXTENDS AgentRegistry

CONSTANTS
    LocalComputers, \* computer uids that are no agent's id
    Features,       \* feature uids clients name, agent handlers' among them
    agentFeatureUid \* the agent's uid of each

ASSUME FeatureAssumption ==
    /\ LocalComputers \cap AgentIds = {}
    /\ agentFeatureUid \in [Features -> Features]
    /\ {"none", "past plugin"} \cap Features = {}

VARIABLES
    m_activeFeatures,   \* <<computer uid, feature>> held for active
    batch,              \* the controlFeatureBatch that holds the mutex
    uuids,              \* agent and command ids generated so far
    (* history *)
    told,               \* <<agent, its feature>> -> the newest command queued
                        \* for it by the plugin, the operation and the
                        \* client's uid; "past plugin" when a newer one came
                        \* from elsewhere
    unsent,             \* <<computer uid, feature>> last entered in the table
                        \* with no agent to send a command to
    dropped             \* <<agent, feature>> whose command queueCommand
                        \* dropped, for it was unregistered meanwhile

toldVars    == <<told, unsent, dropped>>
pluginVars  == <<m_activeFeatures, batch, toldVars>>
featureVars == <<registryVars, pluginVars, uuids>>

Computers  == AgentIds \cup LocalComputers
Operations == {"start", "stop"}
Handled    == {agentFeatureUid[f] : f \in Features}
NoBatch ==
    [feature |-> "none", op |-> "none", todo |-> {}, done |-> {},
     agent |-> "none"]

\* The plugin's mutex is free; the batch is between two computers.
PluginFree  == batch.op = "none"
BatchGoesOn == ~PluginFree /\ batch.agent = "none"

FeatureInit ==
    /\ RegistryInit
    /\ m_activeFeatures = {}
    /\ batch = NoBatch
    /\ uuids = {}
    /\ told  = [p \in AgentIds \X Handled |-> [op |-> "stop", uid |-> "none"]]
    /\ unsent = {} /\ dropped = {}

----------------------------------------------------------------------------
(* Wrong versions, one slip each. *)

\* A stop leaves the entry in the table.
UpdateTrackingKeepsStopped(u) ==
    m_activeFeatures' =
       IF batch.op = "start" THEN m_activeFeatures \cup {<<u, batch.feature>>}
       ELSE m_activeFeatures

\* The mutex is taken for each computer, not for the batch: a control of one
\* computer comes between.
ControlQueueCommandUnlocked ==
    /\ ~PluginFree /\ batch.agent # "none"
    /\ \E c \in CommandIds \ uuids, op \in Operations :
          /\ QueueCommand(c, batch.agent)
          /\ uuids' = uuids \cup {c}
          /\ m_activeFeatures' =
                IF op = "start"
                THEN m_activeFeatures \cup {<<batch.agent, batch.feature>>}
                ELSE m_activeFeatures \ {<<batch.agent, batch.feature>>}
    /\ UNCHANGED toldVars
    /\ batch' = [batch EXCEPT !.todo = @ \ {batch.agent},
                              !.done = @ \cup {batch.agent}, !.agent = "none"]

----------------------------------------------------------------------------
(* controlFeature and controlFeatureBatch *)

\* The operation is entered in the table.
UpdateTracking(u) ==
    m_activeFeatures' =
       IF batch.op = "start" THEN m_activeFeatures \cup {<<u, batch.feature>>}
       ELSE m_activeFeatures \ {<<u, batch.feature>>}

\* handleControl (one computer) or handleBatchFeature: the body was accepted,
\* controlFeatureBatch takes the mutex.
ControlFeatureBatch(uids, f, op) ==
    /\ PluginFree
    /\ batch' = [feature |-> f, op |-> op, todo |-> uids, done |-> {},
                 agent |-> "none"]
    /\ UNCHANGED <<registryVars, m_activeFeatures, uuids, toldVars>>

\* The state of the agent, if the computer is one, decides the route.
Reachable(u) == u \in AgentIds /\ m_agents[u] \in {"Online", "Busy"}

\* findAgent finds an Online or Busy agent: a command will go to it.
ControlFindAgent(a) ==
    /\ BatchGoesOn /\ a \in batch.todo
    /\ Reachable(a)
    /\ batch' = [batch EXCEPT !.agent = a]
    /\ UNCHANGED <<registryVars, m_activeFeatures, uuids, toldVars>>

\* The command reaches the agent's queue, or is dropped.
Tell(a, f, op) ==
    /\ IF Registered(a)
       THEN /\ told' = [told EXCEPT ![<<a, agentFeatureUid[f]>>] =
                           [op |-> op, uid |-> f]]
            /\ UNCHANGED dropped
       ELSE /\ dropped' = dropped \cup {<<a, f>>}
            /\ UNCHANGED told
    /\ unsent' = unsent \ {<<a, f>>}

\* queueCommand, which drops the command when the agent is gone by now; the
\* table is updated and the computer counts as done in either case.
ControlQueueCommand ==
    /\ ~PluginFree /\ batch.agent # "none"
    /\ \E c \in CommandIds \ uuids :
          QueueCommand(c, batch.agent) /\ uuids' = uuids \cup {c}
    /\ UpdateTracking(batch.agent)
    /\ Tell(batch.agent, batch.feature, batch.op)
    /\ batch' = [batch EXCEPT !.todo = @ \ {batch.agent},
                              !.done = @ \cup {batch.agent}, !.agent = "none"]

\* generateUuid fails: the computer is left out of the list of successes.
ControlFails ==
    /\ ~PluginFree /\ batch.agent # "none"
    /\ batch' = [batch EXCEPT !.todo = @ \ {batch.agent}, !.agent = "none"]
    /\ UNCHANGED <<registryVars, m_activeFeatures, uuids, toldVars>>

\* No agent, or one that is Offline or in Error: only the table is changed.
ControlLocally(u) ==
    /\ BatchGoesOn /\ u \in batch.todo
    /\ ~Reachable(u)
    /\ UpdateTracking(u)
    /\ unsent' = unsent \cup {<<u, batch.feature>>}
    /\ batch' = [batch EXCEPT !.todo = @ \ {u}, !.done = @ \cup {u}]
    /\ UNCHANGED <<registryVars, uuids, told, dropped>>

\* The loop is over: the mutex is released, 200 with the list of successes.
BatchEnds ==
    /\ ~PluginFree /\ batch.todo = {}
    /\ batch' = NoBatch
    /\ UNCHANGED <<registryVars, m_activeFeatures, uuids, toldVars>>

----------------------------------------------------------------------------
(* The registry's other callers *)

\* handleRegister gives out a new id.
RegisterNew(a) ==
    /\ a \notin uuids
    /\ RegisterAgent(a)
    /\ uuids' = uuids \cup {a}
    /\ UNCHANGED pluginVars

\* handlePushCommand's queueCommand: a command about something else than the
\* table's features, or about one of them, past the plugin and its table.
PushPastPlugin(c, a) ==
    /\ c \notin uuids /\ a \in uuids
    /\ QueueCommand(c, a)
    /\ uuids' = uuids \cup {c}
    /\ \/ UNCHANGED told
       \/ /\ Registered(a)
          /\ \E h \in Handled :
                told' = [told EXCEPT ![<<a, h>>].uid = "past plugin"]
    /\ UNCHANGED <<m_activeFeatures, batch, unsent, dropped>>

\* handleUnregister, handleHeartbeat, handlePollCommands and the monitor.
OtherCalls(a) ==
    /\ \/ UnregisterAgent(a)
       \/ Heartbeat(a)
       \/ DequeuePendingCommands(a)
       \/ UpdateState(a, "Offline")
    /\ UNCHANGED <<pluginVars, uuids>>

\* The server is started again: table and registry are in memory only.
LoseFeatures ==
    /\ LoseRegistry
    /\ m_activeFeatures' = {}
    /\ batch' = NoBatch
    /\ unsent' = {}
    /\ UNCHANGED <<uuids, told, dropped>>

FeatureNext ==
    \/ \E uids \in SUBSET Computers \ {{}}, f \in Features, op \in Operations :
          ControlFeatureBatch(uids, f, op)
    \/ \E u \in Computers : ControlFindAgent(u) \/ ControlLocally(u)
    \/ ControlQueueCommand
    \/ ControlFails
    \/ BatchEnds
    \/ \E a \in AgentIds :
          \/ RegisterNew(a)
          \/ OtherCalls(a)
          \/ \E c \in CommandIds : PushPastPlugin(c, a)
    \/ LoseFeatures

FeatureSpec == FeatureInit /\ [][FeatureNext]_featureVars

----------------------------------------------------------------------------
(* Properties *)

\* The table of active features and the command queues are written under two
\* mutexes.  For an agent that is registered no command of the plugin was ever
\* dropped between its look-up and its queueing; and where the newest command
\* the agent was sent about a feature came from the plugin, the table says
\* active for the uid the client used exactly when that command is a start,
\* unless that uid was entered since while the agent was not reachable.  An
\* agent that was sent nothing about a feature is active under none of its uids
\* but by such an entry.
ActiveIsTold ==
    \A a \in AgentIds, f \in Features :
       LET newest == told[<<a, agentFeatureUid[f]>>] IN
       Registered(a) =>
          /\ <<a, f>> \notin dropped
          /\ newest.uid \in {f, "none"} /\ <<a, f>> \notin unsent =>
                (<<a, f>> \in m_activeFeatures <=> newest.op = "start")

\* A batch is one operation to everybody else: until it ends, the table keeps
\* its operation for every computer it is going to report as done.
BatchIsWhole ==
    \A u \in batch.done :
       <<u, batch.feature>> \in m_activeFeatures <=> batch.op = "start"
============================================================================
