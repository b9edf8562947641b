--------------------------- MODULE AgentRegistry ---------------------------
(***************************************************************************)
(* src/src/agent/AgentRegistry.cpp: the server's in-memory registry of     *)
(* agents, their command queues and the command history.                   *)
(*                                                                         *)
(* Every public method runs under m_mutex from its first read to its last  *)
(* write, so every method is one action formula over the registry's        *)
(* variables.  The modules that extend this one (AgentController,          *)
(* HeartbeatMonitor, AgentSession) say who calls them and when.            *)
(*                                                                         *)
(* Data.  An AgentInfo is its state and whether its lastHeartbeat is older *)
(* than the monitor's timeout (expired); an AgentCommand is its commandId, *)
(* its agentId (target) and its status.  An id that is no key of a map has *)
(* the value Absent (m_agents) or NoEntry (m_commandHistory); a queue that *)
(* is no key of m_commandQueues is the empty sequence, which every method  *)
(* treats alike.                                                           *)
(***************************************************************************)
EXTENDS Naturals, Sequences, FiniteSets

CONSTANTS
    AgentIds,                   \* UUIDs generateUuid() can give to agents
    CommandIds,                 \* UUIDs generateUuid() can give to commands
    MaxCommandHistory,          \* k_maxCommandHistory, 10000 in the source
    CommandHistoryPruneCount    \* k_commandHistoryPruneCount, 1000

ASSUME RegistryAssumption ==
    /\ IsFiniteSet(CommandIds)
    /\ MaxCommandHistory \in Nat
    /\ CommandHistoryPruneCount \in Nat \ {0}

VARIABLES
    m_agents,           \* agentId -> AgentState, Absent when not registered
    expired,            \* agentId -> (now - lastHeartbeat > timeout)
    m_commandQueues,    \* agentId -> commands waiting to be dequeued
    m_commandHistory    \* commandId -> CommandStatus, NoEntry when not kept

registryVars == <<m_agents, expired, m_commandQueues, m_commandHistory>>

AgentState    == {"Offline", "Online", "Busy", "Error"}
CommandStatus == {"Pending", "Dispatched", "Running", "Success", "Failed",
                  "Timeout"}
FinalStatus   == {"Success", "Failed", "Timeout"}
Absent        == "Absent"
NoEntry       == "NoEntry"

Registered(a) == m_agents[a] # Absent

\* The commands of a sequence, and the commands waiting for agent a.
Elements(s) == {s[i] : i \in 1..Len(s)}
Queued(a)   == Elements(m_commandQueues[a])

\* The keys of a command history.
Entries(history) == {c \in CommandIds : history[c] # NoEntry}

RegistryInit ==
    /\ m_agents         = [a \in AgentIds |-> Absent]
    /\ expired          = [a \in AgentIds |-> FALSE]
    /\ m_commandQueues  = [a \in AgentIds |-> << >>]
    /\ m_commandHistory = [c \in CommandIds |-> NoEntry]

----------------------------------------------------------------------------
(* Wrong versions of the methods below, one plausible slip each, which the *)
(* properties are shown to reject.                                         *)

\* m_agents[agentId] instead of find: an unknown agent gets an entry.
HeartbeatCreatesEntry(a) ==
    /\ expired'  = [expired EXCEPT ![a] = FALSE]
    /\ m_agents' = [m_agents EXCEPT ![a] = "Online"]
    /\ UNCHANGED <<m_commandQueues, m_commandHistory>>

\* The queue is assigned, not appended to.
QueueCommandOverwrites(c, a) ==
    /\ m_commandQueues'  = [m_commandQueues EXCEPT ![a] = <<c>>]
    /\ m_commandHistory' = [m_commandHistory EXCEPT ![c] = "Pending"]
    /\ UNCHANGED <<m_agents, expired>>

\* Only the first waiting command is returned; the queue is cleared.
DequeuedCommandsFirst(a) ==
    IF m_commandQueues[a] = << >> THEN << >> ELSE <<Head(m_commandQueues[a])>>

\* The queue is copied, not moved from.
DequeueKeepsQueue(a) ==
    /\ m_commandHistory' = [c \in CommandIds |->
                              IF c \in Queued(a) THEN "Dispatched"
                              ELSE m_commandHistory[c]]
    /\ UNCHANGED <<m_agents, expired, m_commandQueues>>

\* A command counts as done when it is handed out.
DequeueMarksSuccess(a) ==
    /\ m_commandQueues'  = [m_commandQueues EXCEPT ![a] = << >>]
    /\ m_commandHistory' = [c \in CommandIds |->
                              IF c \in Queued(a) THEN "Success"
                              ELSE m_commandHistory[c]]
    /\ UNCHANGED <<m_agents, expired>>

----------------------------------------------------------------------------
(* The methods. *)

\* registerAgent: upserts the entry, Online and just heard from.
RegisterAgent(a) ==
    /\ m_agents' = [m_agents EXCEPT ![a] = "Online"]
    /\ expired'  = [expired EXCEPT ![a] = FALSE]
    /\ UNCHANGED <<m_commandQueues, m_commandHistory>>

\* unregisterAgent: erases the entry and its queue; the history stays.
UnregisterAgent(a) ==
    /\ m_agents'        = [m_agents EXCEPT ![a] = Absent]
    /\ expired'         = [expired EXCEPT ![a] = FALSE]
    /\ m_commandQueues' = [m_commandQueues EXCEPT ![a] = << >>]
    /\ UNCHANGED m_commandHistory

\* heartbeat: nothing for an unknown agent; otherwise lastHeartbeat = now, and
\* an Offline or Error agent is Online again.
Heartbeat(a) ==
    /\ expired'  = [expired EXCEPT ![a] = FALSE]
    /\ m_agents' = IF m_agents[a] \in {"Offline", "Error"}
                   THEN [m_agents EXCEPT ![a] = "Online"]
                   ELSE m_agents
    /\ UNCHANGED <<m_commandQueues, m_commandHistory>>

\* updateState: nothing for an unknown agent.
UpdateState(a, state) ==
    /\ m_agents' = IF Registered(a)
                   THEN [m_agents EXCEPT ![a] = state]
                   ELSE m_agents
    /\ UNCHANGED <<expired, m_commandQueues, m_commandHistory>>

\* The sets of entries queueCommand may erase: none while the history is
\* within its limit, otherwise the first CommandHistoryPruneCount entries in
\* the iteration order of an unordered_map, which is any order.
PrunedSets(history) ==
    LET size == Cardinality(Entries(history)) IN
    IF size <= MaxCommandHistory
    THEN {{}}
    ELSE {P \in SUBSET Entries(history) :
             Cardinality(P) = IF CommandHistoryPruneCount < size
                              THEN CommandHistoryPruneCount
                              ELSE size}

\* queueCommand: a command for an unknown agent is dropped with a warning;
\* otherwise it is appended to the queue and entered in the history, which is
\* then pruned.
QueueCommand(c, a) ==
    IF Registered(a)
    THEN LET history == [m_commandHistory EXCEPT ![c] = "Pending"] IN
         /\ m_commandQueues' = [m_commandQueues EXCEPT ![a] = Append(@, c)]
         /\ \E pruned \in PrunedSets(history) :
               m_commandHistory' =
                  [d \in CommandIds |->
                     IF d \in pruned THEN NoEntry ELSE history[d]]
         /\ UNCHANGED <<m_agents, expired>>
    ELSE UNCHANGED registryVars

\* The commands dequeuePendingCommands returns.
DequeuedCommands(a) == m_commandQueues[a]

\* dequeuePendingCommands: empties the queue; every command taken becomes
\* Dispatched and its history entry is overwritten with the queue's copy, also
\* when it had been pruned or reported meanwhile.
DequeuePendingCommands(a) ==
    /\ m_commandQueues'  = [m_commandQueues EXCEPT ![a] = << >>]
    /\ m_commandHistory' = [c \in CommandIds |->
                              IF c \in Elements(DequeuedCommands(a))
                              THEN "Dispatched"
                              ELSE m_commandHistory[c]]
    /\ UNCHANGED <<m_agents, expired>>

\* reportCommandResult: nothing for a command the history does not hold;
\* otherwise the reported status replaces whatever status there was.
ReportCommandResult(c, status) ==
    /\ m_commandHistory' = IF m_commandHistory[c] = NoEntry
                           THEN m_commandHistory
                           ELSE [m_commandHistory EXCEPT ![c] = status]
    /\ UNCHANGED <<m_agents, expired, m_commandQueues>>

\* The registry lives in the server process: a restart empties it.
LoseRegistry ==
    /\ m_agents'         = [a \in AgentIds |-> Absent]
    /\ expired'          = [a \in AgentIds |-> FALSE]
    /\ m_commandQueues'  = [a \in AgentIds |-> << >>]
    /\ m_commandHistory' = [c \in CommandIds |-> NoEntry]

\* Time passes: a registered agent's lastHeartbeat becomes older than the
\* monitor's timeout.
HeartbeatExpires(a) ==
    /\ Registered(a) /\ ~expired[a]
    /\ expired' = [expired EXCEPT ![a] = TRUE]
    /\ UNCHANGED <<m_agents, m_commandQueues, m_commandHistory>>

RegistryTypeOK ==
    /\ m_agents         \in [AgentIds -> AgentState \cup {Absent}]
    /\ expired          \in [AgentIds -> BOOLEAN]
    /\ m_commandQueues  \in [AgentIds -> Seq(CommandIds)]
    /\ m_commandHistory \in [CommandIds -> CommandStatus \cup {NoEntry}]
============================================================================
