----------------------- MODULE AgentControllerProofs -----------------------
(***************************************************************************)
(* Proofs about AgentController, about the heartbeat monitor and about the *)
(* agents' sessions composed with it, for every set of agents, commands    *)
(* and hosts, every history limit, every number of worker threads and      *)
(* every number of faults.                                                 *)
(***************************************************************************)
EXTENDS AgentSession, HeartbeatMonitor, SequenceTheorems, TLAPS

RowStates == {"offline", "online"}

\* What the handlers keep track of without a variable for it: which ids exist,
\* that a command under way has its target, and that the way of a command goes
\* from pushing over acked to a queue.  The invariants are not inductive
\* without it.
Bookkeeping ==
    /\ \A a \in AgentIds : Registered(a) => a \in agentUuids
    /\ \A c \in CommandIds : target[c] # NoTarget => target[c] \in agentUuids
    /\ \A c \in pushing \cup acked \cup handed : target[c] # NoTarget
    /\ pushing \cap acked = {}
    /\ \A a \in AgentIds : Queued(a) \subseteq acked

IInv ==
    /\ TypeOK
    /\ Bookkeeping
    /\ QueuedOnlyForRegistered
    /\ NoRedelivery
    /\ AckedFate

----------------------------------------------------------------------------
(* Facts about sequences and about the methods of the registry. *)

\* Appending a command adds it to the commands of a queue, and nothing else.
LEMMA ElementsAppend ==
    ASSUME NEW s \in Seq(CommandIds), NEW c \in CommandIds
    PROVE  Elements(Append(s, c)) = Elements(s) \cup {c}
<1>1. /\ Len(Append(s, c)) = Len(s) + 1
      /\ \A i \in 1..Len(s) : Append(s, c)[i] = s[i]
      /\ Append(s, c)[Len(s) + 1] = c
      /\ Len(s) \in Nat
  BY AppendProperties, LenProperties
<1>2. 1..(Len(s) + 1) = (1..Len(s)) \cup {Len(s) + 1}
  BY <1>1
<1> QED BY <1>1, <1>2 DEF Elements

\* The empty queue holds no command; the commands of a queue are commands.
LEMMA ElementsEmpty == Elements(<< >>) = {}
  BY DEF Elements

\* The commands of a sequence of commands are commands.
LEMMA ElementsType ==
    ASSUME NEW s \in Seq(CommandIds)
    PROVE  Elements(s) \subseteq CommandIds
  BY DEF Elements

\* Every method of the registry keeps the registry's types: the methods on
\* agents, queueCommand and reportCommandResult.
LEMMA AgentMethodsKeepType ==
    ASSUME RegistryTypeOK, NEW a \in AgentIds,
           \/ RegisterAgent(a) \/ UnregisterAgent(a) \/ Heartbeat(a)
           \/ DequeuePendingCommands(a)
    PROVE  RegistryTypeOK'
<1> USE DEF RegistryTypeOK, AgentState, CommandStatus, Absent, NoEntry
<1>1. CASE RegisterAgent(a)
  BY <1>1 DEF RegisterAgent
<1>2. CASE UnregisterAgent(a)
  BY <1>2, EmptySeq DEF UnregisterAgent
<1>3. CASE Heartbeat(a)
  BY <1>3 DEF Heartbeat
<1>4. CASE DequeuePendingCommands(a)
  BY <1>4, EmptySeq DEF DequeuePendingCommands
<1> QED BY <1>1, <1>2, <1>3, <1>4

\* queueCommand keeps the types, whatever it prunes.
LEMMA QueueCommandKeepsType ==
    ASSUME RegistryTypeOK, NEW a \in AgentIds, NEW c \in CommandIds,
           QueueCommand(c, a)
    PROVE  RegistryTypeOK'
<1> USE DEF RegistryTypeOK, AgentState, CommandStatus, Absent, NoEntry
<1>1. CASE Registered(a)
  <2> DEFINE history == [m_commandHistory EXCEPT ![c] = "Pending"]
  <2>1. PICK pruned \in PrunedSets(history) :
           m_commandHistory' = [d \in CommandIds |->
              IF d \in pruned THEN NoEntry ELSE history[d]]
    BY <1>1 DEF QueueCommand
  <2>2. m_commandQueues' = [m_commandQueues EXCEPT ![a] = Append(@, c)]
    BY <1>1 DEF QueueCommand
  <2>3. m_commandQueues' \in [AgentIds -> Seq(CommandIds)]
    BY <2>2, AppendProperties
  <2>4. m_commandHistory' \in [CommandIds -> CommandStatus \cup {NoEntry}]
    BY <2>1
  <2> QED BY <1>1, <2>3, <2>4 DEF QueueCommand
<1>2. CASE ~Registered(a)
  BY <1>2 DEF QueueCommand, registryVars
<1> QED BY <1>1, <1>2

\* reportCommandResult keeps the types.
LEMMA ReportKeepsType ==
    ASSUME RegistryTypeOK, NEW c \in CommandIds, NEW status \in CommandStatus,
           ReportCommandResult(c, status)
    PROVE  RegistryTypeOK'
  BY DEF ReportCommandResult, RegistryTypeOK, AgentState, CommandStatus, NoEntry

\* The writes to table computers keep its type.
LEMMA RowsKeepType ==
    ASSUME ControllerAssumption, computers \in [Hosts -> Seq(RowStates)],
           NEW a \in AgentIds, NEW state \in RowStates,
           SetRow(a, state) \/ InsertRow(a)
    PROVE  computers' \in [Hosts -> Seq(RowStates)]
<1> DEFINE h == HostOf[a]
<1>0. h \in Hosts /\ computers[h] \in Seq(RowStates) /\ "offline" \in RowStates
  BY DEF ControllerAssumption, RowStates
<1> HIDE DEF h
<1>1. CASE SetRow(a, state)
  <2>1. CASE HasRow(a)
    <3>1. computers' = [computers EXCEPT ![h] = [computers[h] EXCEPT ![1] = state]]
      BY <1>1, <2>1, Zenon DEF SetRow, h
    <3>2. 1 \in 1..Len(computers[h])
      BY <1>0, <2>1, EmptySeq, LenProperties DEF HasRow, h
    <3>3. [computers[h] EXCEPT ![1] = state] \in Seq(RowStates)
      BY <1>0, <3>2, ExceptSeq
    <3> QED BY <3>1, <3>3, <1>0
  <2>2. CASE ~HasRow(a)
    BY <1>1, <2>2 DEF SetRow
  <2> QED BY <2>1, <2>2
<1>2. CASE InsertRow(a)
  <2>1. computers' = [computers EXCEPT ![h] = Append(computers[h], "offline")]
    BY <1>2, Zenon DEF InsertRow, h
  <2>2. Append(computers[h], "offline") \in Seq(RowStates)
    BY <1>0, AppendProperties
  <2> QED BY <2>1, <2>2, <1>0
<1> QED BY <1>1, <1>2

----------------------------------------------------------------------------
(* Types *)

\* The handlers' moves keep the type of the set of handlers under way.
LEMMA StepsKeepType ==
    ASSUME handlers \subseteq AgentIds \X (RegisterSteps \cup HeartbeatSteps),
           NEW a \in AgentIds, NEW from,
           NEW to \in RegisterSteps \cup HeartbeatSteps,
           \/ Goto(a, from, to) \/ Done(a, from)
           \/ handlers' = handlers \cup {<<a, to>>}
    PROVE  handlers' \subseteq AgentIds \X (RegisterSteps \cup HeartbeatSteps)
  BY DEF Goto, Done

\* Every step of the handlers keeps the types.
LEMMA TypeStep ==
    ASSUME ControllerAssumption, TypeOK, Bookkeeping, [Next]_vars
    PROVE  TypeOK'
<1> DEFINE Steps == RegisterSteps \cup HeartbeatSteps
<1>S. /\ {"regFind", "regHeartbeat", "regOnline", "regCreate"} \subseteq Steps
      /\ {"hbFind", "hbUpdate", "hbDequeue"} \subseteq Steps
  BY DEF RegisterSteps, HeartbeatSteps
<1>R. RowStates = {"offline", "online"}
  BY DEF RowStates
<1>Q. ASSUME NEW a \in AgentIds
      PROVE  Elements(DequeuedCommands(a)) \subseteq CommandIds
  BY ElementsType DEF TypeOK, RegistryTypeOK, DequeuedCommands
<1>1. ASSUME NEW a \in AgentIds, HandleRegister(a) PROVE TypeOK'
  BY <1>1, <1>S, AgentMethodsKeepType, StepsKeepType DEF HandleRegister, TypeOK
<1>2. ASSUME NEW a \in AgentIds, HandleUnregister(a) PROVE TypeOK'
  BY <1>2, AgentMethodsKeepType DEF HandleUnregister, TypeOK, controllerVars
<1>3. ASSUME NEW a \in AgentIds, HandlePollCommands(a) PROVE TypeOK'
  BY <1>3, <1>Q, AgentMethodsKeepType DEF HandlePollCommands, TypeOK
<1>4. ASSUME NEW a \in AgentIds, HandleHeartbeat(a) PROVE TypeOK'
  BY <1>4, <1>S, AgentMethodsKeepType, StepsKeepType DEF HandleHeartbeat, TypeOK
<1>5. ASSUME NEW a \in AgentIds, HandlerStep(a) PROVE TypeOK'
  <2>0. registryVars' = registryVars => RegistryTypeOK'
    BY DEF TypeOK, RegistryTypeOK, registryVars
  <2>1. CASE RegisterFindComputer(a)
    BY <2>0, <2>1, <1>S, StepsKeepType DEF RegisterFindComputer, TypeOK
  <2>2. CASE RegisterUpdateHeartbeat(a)
    BY <2>0, <2>2, <1>S, <1>R, StepsKeepType, RowsKeepType
       DEF RegisterUpdateHeartbeat, TypeOK
  <2>3. CASE RegisterUpdateState(a)
    BY <2>0, <2>3, <1>S, <1>R, StepsKeepType, RowsKeepType
       DEF RegisterUpdateState, TypeOK
  <2>4. CASE RegisterCreateComputer(a)
    BY <2>0, <2>4, <1>S, <1>R, StepsKeepType, RowsKeepType
       DEF RegisterCreateComputer, TypeOK
  <2>5. CASE HeartbeatFindAgent(a)
    BY <2>0, <2>5, <1>S, StepsKeepType DEF HeartbeatFindAgent, TypeOK
  <2>6. CASE HeartbeatUpdateComputer(a)
    BY <2>0, <2>6, <1>S, <1>R, StepsKeepType, RowsKeepType
       DEF HeartbeatUpdateComputer, TypeOK
  <2>7. CASE HeartbeatDequeue(a)
    BY <2>7, <1>S, <1>Q, StepsKeepType, AgentMethodsKeepType
       DEF HeartbeatDequeue, TypeOK
  <2> QED BY <1>5, <2>1, <2>2, <2>3, <2>4, <2>5, <2>6, <2>7 DEF HandlerStep
<1>6. ASSUME NEW c \in CommandIds, NEW a \in AgentIds, HandlePushCommand(c, a)
      PROVE  TypeOK'
  BY <1>6 DEF HandlePushCommand, TypeOK, RegistryTypeOK, registryVars
<1>7. ASSUME NEW c \in CommandIds, PushQueueCommand(c) PROVE TypeOK'
  <2>1. target[c] \in AgentIds
    BY <1>7 DEF PushQueueCommand, TypeOK, Bookkeeping
  <2> QED BY <1>7, <2>1, QueueCommandKeepsType DEF PushQueueCommand, TypeOK
<1>8. ASSUME NEW c \in CommandIds, NEW status \in ReportStatuses,
             HandleReportResult(c, status)
      PROVE  TypeOK'
  BY <1>8, ReportKeepsType
     DEF HandleReportResult, TypeOK, controllerVars, ControllerAssumption
<1>9. CASE ServerRestart
  BY <1>9, EmptySeq
     DEF ServerRestart, LoseRegistry, TypeOK, RegistryTypeOK
<1>10. CASE UNCHANGED vars
  BY <1>10 DEF vars, registryVars, controllerVars, TypeOK, RegistryTypeOK
<1> QED BY <1>1, <1>2, <1>3, <1>4, <1>5, <1>6, <1>7, <1>8, <1>9, <1>10 DEF Next

----------------------------------------------------------------------------
(* The way of a command *)

commandVars == <<m_commandQueues, agentUuids, target, pushing, acked, handed>>

\* A step that registers and unregisters nobody and leaves the commands alone
\* keeps the invariants.
LEMMA QuietStep ==
    ASSUME IInv, TypeOK', UNCHANGED commandVars,
           \A a \in AgentIds : Registered(a)' <=> Registered(a)
    PROVE  IInv'
<1> USE DEF IInv, commandVars, Queued, Elements
<1>1. Bookkeeping' BY DEF Bookkeeping
<1>2. QueuedOnlyForRegistered' BY DEF QueuedOnlyForRegistered
<1>3. NoRedelivery' BY DEF NoRedelivery
<1>4. AckedFate' BY DEF AckedFate, Bookkeeping, TypeOK
<1> QED BY <1>1, <1>2, <1>3, <1>4

\* dequeuePendingCommands, with what it returns handed out, keeps them.
LEMMA DequeueStep ==
    ASSUME ControllerAssumption, IInv, TypeOK', NEW a \in AgentIds,
           DequeuePendingCommands(a),
           handed' = handed \cup Elements(DequeuedCommands(a)),
           UNCHANGED <<agentUuids, target, pushing, acked>>
    PROVE  IInv'
<1>1. /\ m_commandQueues' = [m_commandQueues EXCEPT ![a] = << >>]
      /\ m_commandQueues \in [AgentIds -> Seq(CommandIds)]
      /\ m_agents' = m_agents
      /\ handed' = handed \cup Queued(a)
  BY DEF DequeuePendingCommands, DequeuedCommands, Queued, IInv, TypeOK,
         RegistryTypeOK
<1>2. /\ m_commandQueues'[a] = << >>
      /\ \A b \in AgentIds \ {a} : m_commandQueues'[b] = m_commandQueues[b]
  BY <1>1
<1>3. /\ Queued(a)' = {}
      /\ \A b \in AgentIds \ {a} : Queued(b)' = Queued(b)
  BY <1>2, ElementsEmpty DEF Queued, Elements
<1>4. \A b \in AgentIds : Registered(b)' <=> Registered(b)
  BY <1>1 DEF Registered
<1>5. \A c \in Queued(a) : target[c] = a /\ c \notin pushing
  BY DEF IInv, NoRedelivery, Queued, Elements
<1>6. Queued(a) \subseteq acked
  BY DEF IInv, Bookkeeping
<1>7. Bookkeeping'
  BY <1>1, <1>3, <1>4, <1>6 DEF IInv, Bookkeeping, TypeOK, Queued, Registered
<1>8. QueuedOnlyForRegistered'
  BY <1>2, <1>4 DEF IInv, QueuedOnlyForRegistered
<1>9. NoRedelivery'
  <2>1. pushing' \cap handed' = {}
    BY <1>1, <1>5 DEF IInv, NoRedelivery
  <2>2. ASSUME NEW b \in AgentIds, NEW i \in 1..Len(m_commandQueues'[b])
        PROVE  /\ target'[m_commandQueues'[b][i]] = b
               /\ m_commandQueues'[b][i] \notin handed'
               /\ m_commandQueues'[b][i] \notin pushing'
               /\ \A j \in 1..Len(m_commandQueues'[b]) :
                     m_commandQueues'[b][j] = m_commandQueues'[b][i] => j = i
    <3>1. b # a
      BY <1>2, <2>2
    <3>2. m_commandQueues'[b] = m_commandQueues[b]
      BY <1>2, <3>1
    <3> QED BY <1>1, <1>5, <2>2, <3>1, <3>2 DEF IInv, NoRedelivery
  <2> QED BY <2>1, <2>2 DEF NoRedelivery
<1>10. AckedFate'
  BY <1>1, <1>3, <1>4 DEF IInv, AckedFate, Bookkeeping, TypeOK
<1> QED BY <1>7, <1>8, <1>9, <1>10 DEF IInv

\* queueCommand followed by the answer 201 keeps them.
LEMMA PushStep ==
    ASSUME ControllerAssumption, IInv, TypeOK', NEW c \in CommandIds,
           PushQueueCommand(c)
    PROVE  IInv'
<1>a. PICK a \in AgentIds : a = target[c]
  BY DEF PushQueueCommand, IInv, TypeOK, Bookkeeping
<1>0. /\ c \in pushing /\ c \notin handed /\ c \notin acked
      /\ m_commandQueues \in [AgentIds -> Seq(CommandIds)]
      /\ m_commandQueues[a] \in Seq(CommandIds)
  BY DEF PushQueueCommand, IInv, TypeOK, RegistryTypeOK, Bookkeeping,
         NoRedelivery
<1>1. /\ pushing' = pushing \ {c} /\ acked' = acked \cup {c}
      /\ agentUuids' = agentUuids /\ target' = target /\ handed' = handed
      /\ m_agents' = m_agents
      /\ QueueCommand(c, a)
  BY <1>a DEF PushQueueCommand, QueueCommand, registryVars
<1>2. \A b \in AgentIds : Registered(b)' <=> Registered(b)
  BY <1>1 DEF Registered
<1>3. CASE Registered(a)
  <2>1. m_commandQueues' = [m_commandQueues EXCEPT ![a] = Append(@, c)]
    BY <1>1, <1>3 DEF QueueCommand
  <2>2. /\ m_commandQueues'[a] = Append(m_commandQueues[a], c)
        /\ \A b \in AgentIds \ {a} : m_commandQueues'[b] = m_commandQueues[b]
    BY <1>0, <2>1
  <2>3. /\ Queued(a)' = Queued(a) \cup {c}
        /\ \A b \in AgentIds \ {a} : Queued(b)' = Queued(b)
    BY <1>0, <2>2, ElementsAppend DEF Queued
  <2>4. Bookkeeping'
    BY <1>0, <1>1, <2>3
       DEF IInv, Bookkeeping, TypeOK, Queued, Registered
  <2>5. QueuedOnlyForRegistered'
    BY <1>2, <1>3, <2>2 DEF IInv, QueuedOnlyForRegistered
  <2>6. NoRedelivery'
    <3>1. pushing' \cap handed' = {}
      BY <1>1 DEF IInv, NoRedelivery
    <3>2. ASSUME NEW b \in AgentIds, NEW i \in 1..Len(m_commandQueues'[b])
          PROVE  /\ target'[m_commandQueues'[b][i]] = b
                 /\ m_commandQueues'[b][i] \notin handed'
                 /\ m_commandQueues'[b][i] \notin pushing'
                 /\ \A j \in 1..Len(m_commandQueues'[b]) :
                      m_commandQueues'[b][j] = m_commandQueues'[b][i] => j = i
      <4>1. CASE b = a
        <5> DEFINE q == m_commandQueues[a]
        <5>1. /\ Len(m_commandQueues'[a]) = Len(q) + 1
              /\ \A k \in 1..Len(q) : m_commandQueues'[a][k] = q[k]
              /\ m_commandQueues'[a][Len(q) + 1] = c
              /\ Len(q) \in Nat
          BY <1>0, <2>2, AppendProperties, LenProperties
        <5>2. \A k \in 1..Len(q) : q[k] # c
          BY <1>0 DEF IInv, NoRedelivery
        <5>3. CASE i \in 1..Len(q)
          BY <1>0, <1>1, <4>1, <5>1, <5>2, <5>3 DEF IInv, NoRedelivery
        <5>4. CASE i = Len(q) + 1
          BY <1>0, <1>1, <4>1, <5>1, <5>2, <5>4, <1>a
        <5> QED BY <4>1, <5>1, <5>3, <5>4
      <4>2. CASE b # a
        BY <1>1, <2>2, <3>2, <4>2 DEF IInv, NoRedelivery
      <4> QED BY <4>1, <4>2
    <3> QED BY <3>1, <3>2 DEF NoRedelivery
  <2>7. AckedFate'
    BY <1>a, <1>0, <1>1, <1>2, <2>3 DEF IInv, AckedFate, Bookkeeping, TypeOK
  <2> QED BY <2>4, <2>5, <2>6, <2>7 DEF IInv
<1>4. CASE ~Registered(a)
  <2>1. m_commandQueues' = m_commandQueues
    BY <1>1, <1>4 DEF QueueCommand, registryVars
  <2>2. \A b \in AgentIds : Queued(b)' = Queued(b)
    BY <2>1 DEF Queued, Elements
  <2>3. Bookkeeping'
    BY <1>0, <1>1, <1>2, <2>2 DEF IInv, Bookkeeping, TypeOK
  <2>4. QueuedOnlyForRegistered'
    BY <1>2, <2>1 DEF IInv, QueuedOnlyForRegistered
  <2>5. NoRedelivery'
    BY <1>1, <2>1 DEF IInv, NoRedelivery
  <2>6. AckedFate'
    BY <1>a, <1>0, <1>1, <1>2, <1>4, <2>2
       DEF IInv, AckedFate, Bookkeeping, TypeOK
  <2> QED BY <2>3, <2>4, <2>5, <2>6 DEF IInv
<1> QED BY <1>3, <1>4

\* A new UUID addresses no command: registerAgent keeps them.
LEMMA RegisterStep ==
    ASSUME ControllerAssumption, IInv, TypeOK', NEW a \in AgentIds,
           HandleRegister(a)
    PROVE  IInv'
<1>1. /\ a \notin agentUuids /\ agentUuids' = agentUuids \cup {a}
      /\ m_commandQueues' = m_commandQueues
      /\ target' = target /\ pushing' = pushing
      /\ acked' = acked /\ handed' = handed
      /\ m_agents' = [m_agents EXCEPT ![a] = "Online"]
  BY DEF HandleRegister, RegisterAgent
<1>2. /\ Registered(a)'
      /\ \A b \in AgentIds \ {a} : Registered(b)' <=> Registered(b)
  BY <1>1 DEF IInv, TypeOK, RegistryTypeOK, Registered, Absent
<1>3. Bookkeeping'
  BY <1>1, <1>2 DEF IInv, Bookkeeping, TypeOK, Registered, Queued
<1>4. QueuedOnlyForRegistered'
  BY <1>1, <1>2 DEF IInv, QueuedOnlyForRegistered, Registered
<1>5. NoRedelivery'
  BY <1>1 DEF IInv, NoRedelivery
<1>6. AckedFate'
  <2>1. \A c \in acked : target[c] \in AgentIds \ {a}
    BY <1>1 DEF IInv, Bookkeeping, TypeOK
  <2> QED BY <1>1, <1>2, <2>1 DEF IInv, AckedFate, Registered, Queued
<1> QED BY <1>3, <1>4, <1>5, <1>6 DEF IInv

\* unregisterAgent erases the queue with the agent and keeps them.
LEMMA UnregisterStep ==
    ASSUME ControllerAssumption, IInv, TypeOK', NEW a \in AgentIds,
           HandleUnregister(a)
    PROVE  IInv'
<1>1. /\ m_agents' = [m_agents EXCEPT ![a] = Absent]
      /\ m_commandQueues' = [m_commandQueues EXCEPT ![a] = << >>]
      /\ agentUuids' = agentUuids /\ target' = target /\ pushing' = pushing
      /\ acked' = acked /\ handed' = handed
  BY DEF HandleUnregister, UnregisterAgent, controllerVars
<1>2. /\ m_commandQueues'[a] = << >> /\ ~Registered(a)'
      /\ \A b \in AgentIds \ {a} : /\ m_commandQueues'[b] = m_commandQueues[b]
                                   /\ Registered(b)' <=> Registered(b)
  BY <1>1 DEF IInv, TypeOK, RegistryTypeOK, Registered
<1>3. /\ Elements(m_commandQueues'[a]) = {}
      /\ \A b \in AgentIds \ {a} :
            Elements(m_commandQueues'[b]) = Elements(m_commandQueues[b])
  BY <1>2, ElementsEmpty
<1>4. Bookkeeping'
  BY <1>1, <1>2, <1>3 DEF IInv, Bookkeeping, TypeOK, Registered, Queued
<1>5. QueuedOnlyForRegistered'
  BY <1>2 DEF IInv, QueuedOnlyForRegistered, Registered
<1>6. NoRedelivery'
  BY <1>1, <1>2 DEF IInv, NoRedelivery
<1>7. AckedFate'
  <2>1. \A c \in acked : target[c] \in AgentIds
    BY DEF IInv, Bookkeeping, TypeOK
  <2> QED BY <1>1, <1>2, <1>3, <2>1 DEF IInv, AckedFate, Registered, Queued
<1> QED BY <1>4, <1>5, <1>6, <1>7 DEF IInv

\* handlePushCommand's new command is nowhere yet: addressing it keeps them.
LEMMA AddressStep ==
    ASSUME ControllerAssumption, IInv, TypeOK', NEW c \in CommandIds,
           NEW a \in AgentIds, HandlePushCommand(c, a)
    PROVE  IInv'
<1>1. /\ target[c] = NoTarget /\ Registered(a)
      /\ target' = [target EXCEPT ![c] = a]
      /\ pushing' = pushing \cup {c}
      /\ m_agents' = m_agents /\ m_commandQueues' = m_commandQueues
      /\ agentUuids' = agentUuids /\ acked' = acked /\ handed' = handed
  BY DEF HandlePushCommand, registryVars
<1>2. target'[c] = a /\ \A d \in CommandIds \ {c} : target'[d] = target[d]
  BY <1>1 DEF IInv, TypeOK
<1>3. c \notin acked /\ c \notin handed /\ a # NoTarget
  BY <1>1 DEF IInv, Bookkeeping, ControllerAssumption, NoTarget
<1>4. \A b \in AgentIds : \A i \in 1..Len(m_commandQueues[b]) :
         /\ m_commandQueues[b][i] # c
         /\ m_commandQueues[b][i] \in CommandIds
  BY <1>1 DEF IInv, TypeOK, RegistryTypeOK, NoRedelivery, ControllerAssumption,
              NoTarget
<1>5. Bookkeeping'
  BY <1>1, <1>2, <1>3 DEF IInv, Bookkeeping, TypeOK, Registered, Queued
<1>6. QueuedOnlyForRegistered'
  BY <1>1 DEF IInv, QueuedOnlyForRegistered, Registered
<1>7. NoRedelivery'
  BY <1>1, <1>2, <1>3, <1>4 DEF IInv, NoRedelivery
<1>8. AckedFate'
  BY <1>1, <1>2, <1>3 DEF IInv, AckedFate, TypeOK, Registered, Queued
<1> QED BY <1>5, <1>6, <1>7, <1>8 DEF IInv

\* A restart empties the registry and ends the handlers: they hold of nothing.
LEMMA RestartStep ==
    ASSUME IInv, TypeOK', ServerRestart
    PROVE  IInv'
<1>1. /\ \A a \in AgentIds : ~Registered(a)' /\ m_commandQueues'[a] = << >>
      /\ \A a \in AgentIds : Elements(m_commandQueues'[a]) = {}
      /\ pushing' = {} /\ UNCHANGED <<agentUuids, target, acked, handed>>
  BY ElementsEmpty DEF ServerRestart, LoseRegistry, Registered
<1>2. Bookkeeping'
  BY <1>1 DEF IInv, Bookkeeping, Registered, Queued
<1>3. QueuedOnlyForRegistered'
  BY <1>1 DEF QueuedOnlyForRegistered
<1>4. NoRedelivery'
  BY <1>1 DEF NoRedelivery
<1>5. AckedFate'
  BY <1>1 DEF IInv, AckedFate, Bookkeeping, TypeOK, Registered
<1> QED BY <1>2, <1>3, <1>4, <1>5 DEF IInv

\* The invariants hold at the start and every step keeps them.
LEMMA InitIInv ==
    ASSUME Init
    PROVE  IInv
<1>1. TypeOK
  BY EmptySeq DEF Init, RegistryInit, TypeOK, RegistryTypeOK
<1>2. \A a \in AgentIds : m_commandQueues[a] = << >> /\ ~Registered(a)
  BY DEF Init, RegistryInit, Registered
<1>3. \A a \in AgentIds : Queued(a) = {}
  BY <1>2, ElementsEmpty DEF Queued
<1> QED BY <1>1, <1>2, <1>3
  DEF Init, IInv, Bookkeeping, QueuedOnlyForRegistered, NoRedelivery, AckedFate

\* Every step of a handler, and a restart, keeps the invariant.
LEMMA NextIInv ==
    ASSUME ControllerAssumption, IInv, [Next]_vars
    PROVE  IInv'
<1>0. TypeOK'
  BY TypeStep DEF IInv
<1>1. ASSUME NEW a \in AgentIds, HandleRegister(a) PROVE IInv'
  BY <1>0, <1>1, RegisterStep
<1>2. ASSUME NEW a \in AgentIds, HandleUnregister(a) PROVE IInv'
  BY <1>0, <1>2, UnregisterStep
<1>3. ASSUME NEW a \in AgentIds, HandlePollCommands(a) PROVE IInv'
  BY <1>0, <1>3, DequeueStep DEF HandlePollCommands
<1>4. ASSUME NEW a \in AgentIds, HandleHeartbeat(a) PROVE IInv'
  <2>1. \A b \in AgentIds : Registered(b)' <=> Registered(b)
    BY <1>4 DEF HandleHeartbeat, Heartbeat, Registered, IInv, TypeOK,
                RegistryTypeOK, Absent
  <2> QED BY <1>0, <1>4, <2>1, QuietStep
    DEF HandleHeartbeat, Heartbeat, commandVars
<1>5. ASSUME NEW a \in AgentIds, HandlerStep(a) PROVE IInv'
  <2>1. CASE HeartbeatDequeue(a)
    BY <1>0, <2>1, DequeueStep DEF HeartbeatDequeue
  <2>2. CASE ~HeartbeatDequeue(a)
    <3>1. UNCHANGED <<registryVars, agentUuids, target, pushing, acked, handed>>
      BY <1>5, <2>2
         DEF HandlerStep, RegisterFindComputer, RegisterUpdateHeartbeat,
             RegisterUpdateState, RegisterCreateComputer, HeartbeatFindAgent,
             HeartbeatUpdateComputer
    <3> QED BY <1>0, <3>1, QuietStep DEF registryVars, commandVars, Registered
  <2> QED BY <2>1, <2>2
<1>6. ASSUME NEW c \in CommandIds, NEW a \in AgentIds, HandlePushCommand(c, a)
      PROVE  IInv'
  BY <1>0, <1>6, AddressStep
<1>7. ASSUME NEW c \in CommandIds, PushQueueCommand(c) PROVE IInv'
  BY <1>0, <1>7, PushStep
<1>8. ASSUME NEW c \in CommandIds, NEW status \in ReportStatuses,
             HandleReportResult(c, status)
      PROVE  IInv'
  BY <1>0, <1>8, QuietStep
     DEF HandleReportResult, ReportCommandResult, controllerVars, commandVars,
         Registered
<1>9. CASE ServerRestart
  BY <1>0, <1>9, RestartStep
<1>10. CASE UNCHANGED vars
  BY <1>0, <1>10, QuietStep
     DEF vars, registryVars, controllerVars, commandVars, Registered
<1> QED BY <1>1, <1>2, <1>3, <1>4, <1>5, <1>6, <1>7, <1>8, <1>9, <1>10 DEF Next

\* The inductive invariant holds in every state the handlers can reach.
THEOREM Inductive == Spec => []IInv
<1>1. Init => IInv
  BY InitIInv
<1>2. IInv /\ [Next]_vars => IInv'
  BY NextIInv, ControllerAssumption
<1> QED BY <1>1, <1>2, PTL DEF Spec

----------------------------------------------------------------------------
(* The theorems *)

\* The registry's maps, the handlers' state and the computers table keep their
\* types.
THEOREM TypeCorrect == Spec => []TypeOK
<1>1. IInv => TypeOK BY DEF IInv
<1> QED BY <1>1, Inductive, PTL

\* No command waits for an agent that is not registered.
THEOREM NoOrphanQueue == Spec => []QueuedOnlyForRegistered
<1>1. IInv => QueuedOnlyForRegistered BY DEF IInv
<1> QED BY <1>1, Inductive, PTL

\* No command is handed out twice, or to an agent it is not addressed to.
THEOREM DeliveredAtMostOnce == Spec => []NoRedelivery
<1>1. IInv => NoRedelivery BY DEF IInv
<1> QED BY <1>1, Inductive, PTL

\* A command acknowledged with 201 waits, was handed out, or its agent is gone.
THEOREM AcknowledgedIsAccountedFor == Spec => []AckedFate
<1>1. IInv => AckedFate BY DEF IInv
<1> QED BY <1>1, Inductive, PTL

\* No step of a handler brings back an id that was given out and is not registered.
LEMMA GoneStaysGone ==
    ASSUME IInv, [Next]_vars
    PROVE  [\A a \in agentUuids : ~Registered(a) => ~Registered(a)']_vars
<1> SUFFICES ASSUME Next, NEW b \in agentUuids, ~Registered(b)
             PROVE  ~Registered(b)'
  OBVIOUS
<1>0. b \in AgentIds /\ m_agents \in [AgentIds -> AgentState \cup {Absent}]
  BY DEF IInv, TypeOK, RegistryTypeOK
<1>1. CASE \E a \in AgentIds : HandleRegister(a)
  BY <1>0, <1>1 DEF HandleRegister, RegisterAgent, Registered
<1>2. CASE \E a \in AgentIds : HandleUnregister(a)
  BY <1>0, <1>2 DEF HandleUnregister, UnregisterAgent, Registered
<1>3. CASE \E a \in AgentIds : HandlePollCommands(a)
  BY <1>3 DEF HandlePollCommands, DequeuePendingCommands, Registered
<1>4. CASE \E a \in AgentIds : HandleHeartbeat(a)
  BY <1>0, <1>4 DEF HandleHeartbeat, Heartbeat, Registered, Absent
<1>5. CASE \E a \in AgentIds : HandlerStep(a)
  BY <1>5
     DEF HandlerStep, RegisterFindComputer, RegisterUpdateHeartbeat,
         RegisterUpdateState, RegisterCreateComputer, HeartbeatFindAgent,
         HeartbeatUpdateComputer, HeartbeatDequeue, DequeuePendingCommands,
         registryVars, Registered
<1>6. CASE \E c \in CommandIds : \E a \in AgentIds : HandlePushCommand(c, a)
  BY <1>6 DEF HandlePushCommand, registryVars, Registered
<1>7. CASE \E c \in CommandIds : PushQueueCommand(c)
  BY <1>7 DEF PushQueueCommand, QueueCommand, registryVars, Registered
<1>8. CASE \E c \in CommandIds : \E status \in ReportStatuses :
              HandleReportResult(c, status)
  BY <1>8 DEF HandleReportResult, ReportCommandResult, Registered
<1>9. CASE ServerRestart
  BY <1>0, <1>9 DEF ServerRestart, LoseRegistry, Registered
<1> QED BY <1>1, <1>2, <1>3, <1>4, <1>5, <1>6, <1>7, <1>8, <1>9 DEF Next

\* No handler, late heartbeat or poll registers an id again.
THEOREM NoResurrection == Spec => UnregisteredIsForever
  BY GoneStaysGone, Inductive, PTL DEF Spec, UnregisteredIsForever

----------------------------------------------------------------------------
(* The handlers implement CommandDelivery *)

\* A step that changes neither a queue nor what is acknowledged or handed out,
\* nor a target, is a stuttering step of CommandDelivery.
LEMMA QuietIsStutter ==
    ASSUME UNCHANGED <<m_commandQueues, target, acked, handed>>
    PROVE  UNCHANGED Delivery!deliveryVars
  BY DEF Delivery!deliveryVars, Fate, Queued, Elements

\* dequeuePendingCommands hands out exactly what waits for the agent.
LEMMA DequeueIsHandOut ==
    ASSUME IInv, NEW a \in AgentIds, DequeuePendingCommands(a),
           handed' = handed \cup Elements(DequeuedCommands(a)),
           UNCHANGED <<target, acked>>
    PROVE  Delivery!HandOut(a)
<1>1. /\ handed' = handed \cup Queued(a)
      /\ Queued(a) \subseteq acked
      /\ \A c \in Queued(a) : target[c] = a /\ c \notin handed
  BY DEF DequeuedCommands, Queued, Elements, IInv, Bookkeeping, NoRedelivery
<1>2. /\ Elements(m_commandQueues'[a]) = {}
      /\ \A b \in AgentIds \ {a} :
            Elements(m_commandQueues'[b]) = Elements(m_commandQueues[b])
  BY ElementsEmpty DEF DequeuePendingCommands, IInv, TypeOK, RegistryTypeOK
<1>3. \A c \in acked : target[c] \in AgentIds
  BY DEF IInv, TypeOK, Bookkeeping
<1>4. Delivery!WaitingFor(a) = Queued(a)
  BY <1>1 DEF Delivery!WaitingFor, Fate, IInv, TypeOK
<1>5. Fate' = [c \in CommandIds |->
                 IF c \in Delivery!WaitingFor(a) THEN "handed" ELSE Fate[c]]
  BY <1>1, <1>2, <1>3, <1>4 DEF Fate, Queued
<1> QED BY <1>5 DEF Delivery!HandOut

\* Emptying the queues of the agents of A loses exactly what waits for them.
LEMMA EmptyingIsLosing ==
    ASSUME IInv, NEW A \in SUBSET AgentIds,
           \A a \in A : m_commandQueues'[a] = << >>,
           \A a \in AgentIds \ A : m_commandQueues'[a] = m_commandQueues[a],
           UNCHANGED <<target, acked, handed>>
    PROVE  Delivery!Lose(A)
<1>1. /\ \A a \in A : Elements(m_commandQueues'[a]) = {}
      /\ \A a \in AgentIds \ A :
            Elements(m_commandQueues'[a]) = Elements(m_commandQueues[a])
  BY ElementsEmpty
<1>2. \A c \in acked : target[c] \in AgentIds
  BY DEF IInv, TypeOK, Bookkeeping
<1>3. ASSUME NEW c \in CommandIds
      PROVE  c \in UNION {Delivery!WaitingFor(a) : a \in A}
             <=> Fate[c] = "waiting" /\ target[c] \in A
  BY DEF Delivery!WaitingFor
<1>4. Fate' = [c \in CommandIds |->
                 IF c \in UNION {Delivery!WaitingFor(a) : a \in A} THEN "lost"
                 ELSE Fate[c]]
  <2>1. ASSUME NEW c \in CommandIds
        PROVE  Fate'[c] = IF Fate[c] = "waiting" /\ target[c] \in A
                          THEN "lost" ELSE Fate[c]
    BY <1>1, <1>2 DEF Fate, Queued
  <2> QED BY <1>3, <2>1 DEF Fate
<1> QED BY <1>4 DEF Delivery!Lose

\* Every step of the handlers is a step of CommandDelivery or stutters.
LEMMA DeliveryStep ==
    ASSUME ControllerAssumption, IInv, [Next]_vars
    PROVE  [Delivery!Next]_Delivery!deliveryVars
<1>1. ASSUME NEW a \in AgentIds,
             HandleRegister(a) \/ HandleHeartbeat(a)
      PROVE  UNCHANGED Delivery!deliveryVars
  BY <1>1, QuietIsStutter
     DEF HandleRegister, RegisterAgent, HandleHeartbeat, Heartbeat
<1>2. ASSUME NEW a \in AgentIds, HandleUnregister(a)
      PROVE  Delivery!Next
  <2>1. /\ m_commandQueues'[a] = << >>
        /\ \A b \in AgentIds \ {a} : m_commandQueues'[b] = m_commandQueues[b]
        /\ UNCHANGED <<target, acked, handed>>
    BY <1>2
       DEF HandleUnregister, UnregisterAgent, controllerVars, IInv, TypeOK,
           RegistryTypeOK
  <2>2. {a} \in SUBSET AgentIds /\ \A b \in {a} : m_commandQueues'[b] = << >>
    BY <2>1
  <2>3. Delivery!Lose({a})
    BY <2>1, <2>2, EmptyingIsLosing
  <2> QED BY <2>2, <2>3 DEF Delivery!Next
<1>3. ASSUME NEW a \in AgentIds, HandlePollCommands(a)
      PROVE  Delivery!Next
  <2>1. Delivery!HandOut(a)
    BY <1>3, DequeueIsHandOut DEF HandlePollCommands
  <2> QED BY <2>1 DEF Delivery!Next
<1>4. ASSUME NEW a \in AgentIds, HandlerStep(a)
      PROVE  [Delivery!Next]_Delivery!deliveryVars
  <2>1. CASE HeartbeatDequeue(a)
    <3>1. Delivery!HandOut(a)
      BY <2>1, DequeueIsHandOut DEF HeartbeatDequeue
    <3> QED BY <3>1 DEF Delivery!Next
  <2>2. CASE ~HeartbeatDequeue(a)
    <3>1. UNCHANGED <<m_commandQueues, target, acked, handed>>
      BY <1>4, <2>2
         DEF HandlerStep, RegisterFindComputer, RegisterUpdateHeartbeat,
             RegisterUpdateState, RegisterCreateComputer, HeartbeatFindAgent,
             HeartbeatUpdateComputer, registryVars
    <3> QED BY <3>1, QuietIsStutter
  <2> QED BY <2>1, <2>2
<1>5. ASSUME NEW c \in CommandIds, NEW a \in AgentIds, HandlePushCommand(c, a)
      PROVE  Delivery!Next
  <2>1. target[c] = NoTarget /\ c \notin acked /\ c \notin handed
    BY <1>5 DEF HandlePushCommand, IInv, Bookkeeping
  <2>2. Fate' = Fate
    <3>1. \A d \in CommandIds \ {c} : target'[d] = target[d]
      BY <1>5 DEF HandlePushCommand, IInv, TypeOK
    <3> QED BY <1>5, <2>1, <3>1
      DEF HandlePushCommand, Fate, Queued, registryVars
  <2>3. Delivery!Address(c, a)
    BY <1>5, <2>1, <2>2 DEF HandlePushCommand, Delivery!Address
  <2> QED BY <2>3 DEF Delivery!Next
<1>6. ASSUME NEW c \in CommandIds, PushQueueCommand(c)
      PROVE  Delivery!Next
  <2>1. /\ c \notin acked /\ c \notin handed
        /\ target[c] \in AgentIds /\ target[c] # NoTarget
    BY <1>6 DEF PushQueueCommand, IInv, TypeOK, Bookkeeping, NoRedelivery
  <2>2. \A b \in AgentIds : Elements(m_commandQueues'[b]) \ {c}
                            = Elements(m_commandQueues[b]) \ {c}
    <3>1. CASE Registered(target[c])
      <4>1. m_commandQueues' = [m_commandQueues EXCEPT
                                  ![target[c]] = Append(@, c)]
        BY <1>6, <3>1 DEF PushQueueCommand, QueueCommand
      <4>2. /\ m_commandQueues \in [AgentIds -> Seq(CommandIds)]
            /\ m_commandQueues[target[c]] \in Seq(CommandIds)
        BY <2>1 DEF IInv, TypeOK, RegistryTypeOK
      <4>3. Elements(Append(m_commandQueues[target[c]], c))
            = Elements(m_commandQueues[target[c]]) \cup {c}
        BY <4>2, ElementsAppend
      <4> QED BY <2>1, <4>1, <4>2, <4>3
    <3>2. CASE ~Registered(target[c])
      BY <1>6, <3>2 DEF PushQueueCommand, QueueCommand, registryVars
    <3> QED BY <3>1, <3>2
  <2>3. \A d \in acked : target[d] \in AgentIds
    BY DEF IInv, TypeOK, Bookkeeping
  <2>4. Fate[c] = "new" /\ Fate'[c] \in {"waiting", "lost"}
    BY <1>6, <2>1 DEF PushQueueCommand, Fate
  <2>5. Fate' = [Fate EXCEPT ![c] = Fate'[c]]
    <3>1. ASSUME NEW d \in CommandIds, d # c
          PROVE  Fate'[d] = Fate[d]
      BY <1>6, <2>2, <2>3, <3>1 DEF PushQueueCommand, Fate, Queued
    <3> QED BY <3>1 DEF Fate
  <2>6. Delivery!Accept(c)
    <3>1. \E f \in {"waiting", "lost"} : Fate' = [Fate EXCEPT ![c] = f]
      BY <2>4, <2>5
    <3>2. target' = target
      BY <1>6 DEF PushQueueCommand
    <3> QED BY <2>1, <2>4, <3>1, <3>2 DEF Delivery!Accept
  <2> QED BY <2>6 DEF Delivery!Next
<1>7. ASSUME NEW c \in CommandIds, NEW status \in ReportStatuses,
             HandleReportResult(c, status)
      PROVE  UNCHANGED Delivery!deliveryVars
  BY <1>7, QuietIsStutter
     DEF HandleReportResult, ReportCommandResult, controllerVars
<1>8. CASE ServerRestart
  <2>1. Delivery!Lose(AgentIds)
    BY <1>8, EmptyingIsLosing DEF ServerRestart, LoseRegistry
  <2> QED BY <2>1 DEF Delivery!Next
<1>9. CASE UNCHANGED vars
  BY <1>9, QuietIsStutter DEF vars, registryVars, controllerVars
<1> QED BY <1>1, <1>2, <1>3, <1>4, <1>5, <1>6, <1>7, <1>8, <1>9 DEF Next

\* The handlers and the registry implement the abstract command delivery.
THEOREM Refinement == Spec => ImplementsDelivery
<1>1. Init => Delivery!Init
  BY DEF Init, Delivery!Init, Fate
<1>2. IInv /\ [Next]_vars => [Delivery!Next]_Delivery!deliveryVars
  BY DeliveryStep, ControllerAssumption
<1> QED BY <1>1, <1>2, Inductive, PTL DEF Spec, ImplementsDelivery, Delivery!Spec

----------------------------------------------------------------------------
(* The heartbeat monitor *)

CallbackPlaces == {"cbFind", "cbComputer", "cbState"}

\* Whom a pass has in hand was overdue when its snapshot was taken, and an
\* agent that was overdue once remains one that was.
PassBook ==
    /\ m_agents \in [AgentIds -> AgentState \cup {Absent}]
    /\ expired \in [AgentIds -> BOOLEAN]
    /\ snapshot \subseteq overdue
    /\ monitorPc \in CallbackPlaces => current \in overdue
    /\ \A a \in AgentIds : expired[a] => a \in overdue

MonitorIInv == PassBook /\ OfflineHasCause

\* Marking an agent that was overdue leaves the other agents as they are.
LEMMA MarkingHasCause ==
    ASSUME MonitorIInv, NEW a \in overdue, UpdateState(a, "Offline"),
           overdue' = overdue, snapshot' \subseteq snapshot,
           monitorPc' \in CallbackPlaces => current' \in overdue
    PROVE  MonitorIInv'
<1>1. m_agents' \in [AgentIds -> AgentState \cup {Absent}]
  BY DEF UpdateState, MonitorIInv, PassBook, AgentState
<1>2. \A b \in AgentIds : m_agents'[b] = "Offline"
                             => b = a \/ m_agents[b] = "Offline"
  BY DEF UpdateState, MonitorIInv, PassBook
<1> QED
  BY <1>1, <1>2 DEF UpdateState, MonitorIInv, PassBook, OfflineHasCause

\* A request about the presence of an agent, or a step of its handler, makes no
\* agent Offline and nobody overdue.
LEMMA RequestHasCause ==
    ASSUME MonitorIInv, NEW a \in AgentIds,
           PresenceRequest(a) \/ HandlerStep(a), UNCHANGED monitorVars
    PROVE  MonitorIInv'
<1>1. /\ m_agents' \in [AgentIds -> AgentState \cup {Absent}]
      /\ expired' \in [AgentIds -> BOOLEAN]
      /\ \A b \in AgentIds : m_agents'[b] = "Offline" => m_agents[b] = "Offline"
      /\ \A b \in AgentIds : expired'[b] => expired[b]
  <2> USE DEF MonitorIInv, PassBook
  <2>1. CASE HandleRegister(a)
    BY <2>1 DEF HandleRegister, RegisterAgent, AgentState
  <2>2. CASE HandleUnregister(a)
    BY <2>2 DEF HandleUnregister, UnregisterAgent, Absent
  <2>3. CASE HandleHeartbeat(a)
    BY <2>3 DEF HandleHeartbeat, Heartbeat, AgentState
  <2>4. CASE HandlerStep(a)
    BY <2>4
       DEF HandlerStep, RegisterFindComputer, RegisterUpdateHeartbeat,
           RegisterUpdateState, RegisterCreateComputer, HeartbeatFindAgent,
           HeartbeatUpdateComputer, HeartbeatDequeue, DequeuePendingCommands,
           registryVars
  <2> QED BY <2>1, <2>2, <2>3, <2>4 DEF PresenceRequest
<1> QED
  BY <1>1 DEF MonitorIInv, PassBook, OfflineHasCause, monitorVars

\* Every step of the monitor, of a handler and of time keeps the book.
LEMMA MonitorStepHolds ==
    MonitorIInv /\ [MonitorNext]_allVars => MonitorIInv'
<1> SUFFICES ASSUME MonitorIInv, [MonitorNext]_allVars
             PROVE  MonitorIInv'
  OBVIOUS
<1>u. UNCHANGED <<m_agents, expired, snapshot, current, overdue>>
      /\ (monitorPc' \in CallbackPlaces => monitorPc \in CallbackPlaces)
      => MonitorIInv'
  BY DEF MonitorIInv, PassBook, OfflineHasCause
<1>1. CASE ListAgents
  BY <1>1 DEF ListAgents, MonitorIInv, PassBook, OfflineHasCause,
       CallbackPlaces, vars, registryVars
<1>2. ASSUME NEW a \in AgentIds, MarkOffline(a)
      PROVE  MonitorIInv'
  <2>1. /\ a \in overdue /\ overdue' = overdue /\ snapshot' \subseteq snapshot
        /\ current' \in overdue /\ UpdateState(a, "Offline")
    BY <1>2 DEF MarkOffline, MonitorIInv, PassBook
  <2> QED BY <2>1, MarkingHasCause
<1>3. CASE CallbackFindAgent \/ CallbackComputer
  BY <1>3, <1>u DEF CallbackFindAgent, CallbackComputer, CallbackPlaces, vars,
       registryVars
<1>4. CASE CallbackUpdateState
  <2>1. /\ current \in overdue /\ overdue' = overdue /\ snapshot' \subseteq snapshot
        /\ monitorPc' \notin CallbackPlaces /\ UpdateState(current, "Offline")
    BY <1>4 DEF CallbackUpdateState, MonitorIInv, PassBook, CallbackPlaces
  <2> QED BY <2>1, MarkingHasCause
<1>5. CASE EndPass \/ Exit \/ Stop
  BY <1>5, <1>u DEF EndPass, Exit, Stop, CallbackPlaces, vars, registryVars
<1>6. ASSUME NEW a \in AgentIds, Tick(a)
      PROVE  MonitorIInv'
  BY <1>6 DEF Tick, HeartbeatExpires, MonitorIInv, PassBook, OfflineHasCause
<1>7. ASSUME NEW a \in AgentIds, PresenceRequest(a) \/ HandlerStep(a),
             UNCHANGED monitorVars
      PROVE  MonitorIInv'
  BY <1>7, RequestHasCause
<1>8. CASE UNCHANGED allVars
  BY <1>8, <1>u DEF allVars, vars, registryVars, monitorVars
<1> QED
  BY <1>1, <1>2, <1>3, <1>4, <1>5, <1>6, <1>7, <1>8
     DEF MonitorNext, MonitorStep

\* However stale its snapshot is when the monitor gets to an agent, it marks no
\* agent that was always on time.
THEOREM OnlyOverdueGoOffline == MonitorSpec => []OfflineHasCause
<1>1. MonitorInit => MonitorIInv
  BY DEF MonitorInit, Init, RegistryInit, MonitorIInv, PassBook,
       OfflineHasCause, CallbackPlaces, Absent
<1> QED
  BY <1>1, MonitorStepHolds, PTL DEF MonitorSpec, MonitorIInv

----------------------------------------------------------------------------
(* The agents' sessions *)

\* The places of runAgent at which the client has its id.
OnlinePlaces == {"poll", "dispatch", "report", "heartbeat", "hbWait", "unregister"}
Places       == {"register", "regWait", "stopped"} \cup OnlinePlaces
Outcomes     == {"Success", "Failed"}

SessionTypeOK ==
    /\ agentPc     \in [Hosts -> Places]
    /\ m_agentId   \in [Hosts -> AgentIds \cup {NoId}]
    /\ registering \in [Hosts -> AgentIds \cup {NoId}]
    /\ batch       \in [Hosts -> Seq(CommandIds)]
    /\ outcome     \in [Hosts -> Outcomes \cup {"Pending"}]
    /\ runs        \in [CommandIds -> Seq(Hosts)]

\* A client's id is one that was given to its host.
IdBook(h) ==
    /\ agentPc[h] \in OnlinePlaces =>
          m_agentId[h] \in AgentIds /\ HostOf[m_agentId[h]] = h
    /\ agentPc[h] = "regWait" =>
          registering[h] \in AgentIds /\ HostOf[registering[h]] = h

\* A batch holds commands that were handed to its host, each once, without a
\* final status and not executed, but for the one that is being reported.
BatchBook(h) ==
    \A i \in 1..Len(batch[h]) :
       /\ batch[h][i] \in handed /\ HostOf[target[batch[h][i]]] = h
       /\ runs[batch[h][i]] = << >> \/ (i = 1 /\ agentPc[h] = "report")
       /\ m_commandHistory[batch[h][i]] \notin FinalStatus
       /\ \A j \in 1..Len(batch[h]) : batch[h][j] = batch[h][i] => j = i

\* Where a client reports, there is a command it has executed.
ReportBook(h) ==
    agentPc[h] = "report" =>
       /\ batch[h] # << >> /\ outcome[h] \in Outcomes
       /\ runs[batch[h][1]] # << >>

\* A late report is the only one there will be of its command.
LateBook(r) ==
    /\ r.op = "unregister" => r.id \in AgentIds
    /\ r.op = "report" =>
          /\ r.cmd \in CommandIds /\ r.status \in Outcomes
          /\ runs[r.cmd] # << >>
          /\ m_commandHistory[r.cmd] \notin FinalStatus
          /\ \A h \in Hosts : \A i \in 1..Len(batch[h]) : batch[h][i] # r.cmd
          /\ \A q \in late : q.op = "report" /\ q.cmd = r.cmd => q = r

\* Only a command that was handed out is executed, and only one that was
\* executed has a final status.
RunBook ==
    \A c \in CommandIds :
       /\ runs[c] # << >> => c \in handed
       /\ m_commandHistory[c] \in FinalStatus => runs[c] # << >>

SessionBook ==
    /\ SessionTypeOK
    /\ \A h \in Hosts : IdBook(h) /\ BatchBook(h) /\ ReportBook(h)
    /\ \A r \in late : LateBook(r)
    /\ RunBook
    /\ ExecutedAtMostOnce

SessionIInv == IInv /\ SessionBook

\* The server serves a report of whatever status; the other steps of the server.
AnyReport == \E c \in CommandIds, status \in CommandStatus :
                HandleReportResult(c, status)
OtherStep ==
    \/ \E a \in AgentIds :
          \/ HandleRegister(a) \/ HandleUnregister(a) \/ HandlePollCommands(a)
          \/ HandleHeartbeat(a) \/ HandlerStep(a)
    \/ \E c \in CommandIds :
          \/ \E a \in AgentIds : HandlePushCommand(c, a)
          \/ PushQueueCommand(c)
    \/ ServerRestart
    \/ UNCHANGED vars

\* What a step of the server does to commands outside D: what was handed out
\* stays so, targets stay, and no status becomes final or is one that was.
Advance(D) ==
    /\ handed \subseteq handed'
    /\ \A c \in handed : target'[c] = target[c]
    /\ \A c \in CommandIds \ D :
          /\ m_commandHistory'[c] \in FinalStatus
                => m_commandHistory'[c] = m_commandHistory[c]
          /\ m_commandHistory[c] \in FinalStatus
                => m_commandHistory'[c] \in {m_commandHistory[c], NoEntry}

\* A report, whatever its status, keeps the invariant of the handlers.
LEMMA ReportIInv ==
    ASSUME IInv, AnyReport
    PROVE  IInv'
<1>1. PICK c \in CommandIds, status \in CommandStatus :
         HandleReportResult(c, status)
  BY DEF AnyReport
<1>2. RegistryTypeOK'
  BY <1>1, ReportKeepsType DEF HandleReportResult, IInv, TypeOK
<1>3. TypeOK'
  BY <1>1, <1>2 DEF HandleReportResult, controllerVars, IInv, TypeOK
<1> QED
  BY <1>1, <1>3, QuietStep
     DEF HandleReportResult, ReportCommandResult, controllerVars, commandVars,
         Registered

\* Dequeuing and queueing touch commands that were not handed out, which have no
\* final status; pruning and restarts remove entries.
LEMMA OtherStepAdvances ==
    ASSUME IInv, RunBook, OtherStep
    PROVE  Advance({})
<1>t. /\ m_commandHistory \in [CommandIds -> CommandStatus \cup {NoEntry}]
      /\ target \in [CommandIds -> AgentIds \cup {NoTarget}]
      /\ handed \subseteq CommandIds /\ pushing \subseteq CommandIds
  BY DEF IInv, TypeOK, RegistryTypeOK
<1>n. \A c \in CommandIds : m_commandHistory[c] \in FinalStatus => c \in handed
  BY DEF RunBook
<1>u. UNCHANGED <<m_commandHistory, target, handed>> => Advance({})
  BY DEF Advance
<1>d. ASSUME NEW a \in AgentIds, DequeuePendingCommands(a),
             handed' = handed \cup Elements(DequeuedCommands(a)),
             UNCHANGED target
      PROVE  Advance({})
  <2>1. \A c \in Elements(m_commandQueues[a]) : c \notin handed
    BY DEF IInv, NoRedelivery, Elements
  <2>2. \A c \in CommandIds :
           m_commandHistory'[c] = IF c \in Elements(m_commandQueues[a])
                                  THEN "Dispatched" ELSE m_commandHistory[c]
    BY <1>d DEF DequeuePendingCommands, DequeuedCommands
  <2> QED
    BY <1>d, <1>n, <2>1, <2>2 DEF Advance, FinalStatus
<1>1. ASSUME NEW a \in AgentIds,
             HandleRegister(a) \/ HandleUnregister(a) \/ HandleHeartbeat(a)
      PROVE  Advance({})
  BY <1>1, <1>u DEF HandleRegister, RegisterAgent, HandleUnregister,
       UnregisterAgent, HandleHeartbeat, Heartbeat, controllerVars
<1>2. ASSUME NEW a \in AgentIds, HandlePollCommands(a)
      PROVE  Advance({})
  BY <1>2, <1>d DEF HandlePollCommands
<1>3. ASSUME NEW a \in AgentIds, HandlerStep(a)
      PROVE  Advance({})
  <2>1. CASE HeartbeatDequeue(a)
    BY <2>1, <1>d DEF HeartbeatDequeue
  <2>2. CASE ~HeartbeatDequeue(a)
    BY <1>3, <2>2, <1>u
       DEF HandlerStep, RegisterFindComputer, RegisterUpdateHeartbeat,
           RegisterUpdateState, RegisterCreateComputer, HeartbeatFindAgent,
           HeartbeatUpdateComputer, registryVars
  <2> QED BY <2>1, <2>2
<1>4. ASSUME NEW c \in CommandIds, NEW a \in AgentIds, HandlePushCommand(c, a)
      PROVE  Advance({})
  <2>1. c \notin handed
    BY <1>4 DEF HandlePushCommand, IInv, Bookkeeping
  <2> QED
    BY <1>4, <1>t, <2>1 DEF HandlePushCommand, Advance, registryVars
<1>5. ASSUME NEW c \in CommandIds, PushQueueCommand(c)
      PROVE  Advance({})
  <2>1. c \notin handed /\ UNCHANGED <<target, handed>>
    BY <1>5 DEF PushQueueCommand, IInv, NoRedelivery
  <2>2. CASE Registered(target[c])
    <3> DEFINE history == [m_commandHistory EXCEPT ![c] = "Pending"]
    <3>1. PICK pruned \in PrunedSets(history) :
             m_commandHistory' = [d \in CommandIds |->
                IF d \in pruned THEN NoEntry ELSE history[d]]
      BY <1>5, <2>2 DEF PushQueueCommand, QueueCommand
    <3>2. \A d \in CommandIds :
             \/ m_commandHistory'[d] \in {m_commandHistory[d], NoEntry}
             \/ d = c /\ m_commandHistory'[d] = "Pending"
      BY <3>1, <1>t
    <3> QED BY <2>1, <3>2, <1>n DEF Advance, FinalStatus, NoEntry
  <2>3. CASE ~Registered(target[c])
    BY <1>5, <2>1, <2>3, <1>u DEF PushQueueCommand, QueueCommand, registryVars
  <2> QED BY <2>2, <2>3
<1>6. CASE ServerRestart
  BY <1>6 DEF ServerRestart, LoseRegistry, Advance, FinalStatus, NoEntry
<1>7. CASE UNCHANGED vars
  BY <1>7, <1>u DEF vars, registryVars, controllerVars
<1> QED
  BY <1>1, <1>2, <1>3, <1>4, <1>5, <1>6, <1>7 DEF OtherStep

\* A report touches the status of its command only.
LEMMA ReportAdvances ==
    ASSUME IInv, NEW c \in CommandIds, NEW status, HandleReportResult(c, status)
    PROVE  /\ Advance({c})
           /\ \A d \in CommandIds \ {c} : m_commandHistory'[d] = m_commandHistory[d]
           /\ UNCHANGED <<handed, target>>
  BY DEF HandleReportResult, ReportCommandResult, controllerVars, Advance, IInv,
       TypeOK, RegistryTypeOK

\* A step that executes nothing leaves what was executed where it belonged.
LEMMA ExecutedKept ==
    ASSUME SessionIInv, NEW D, Advance(D), UNCHANGED runs
    PROVE  ExecutedAtMostOnce'
<1> SUFFICES ASSUME NEW c \in CommandIds
             PROVE  /\ Len(runs[c]) <= 1
                    /\ \A i \in 1..Len(runs[c]) : runs[c][i] = HostOf[target'[c]]
  BY DEF ExecutedAtMostOnce
<1>1. CASE runs[c] = << >>
  BY <1>1
<1>2. CASE runs[c] # << >>
  <2>1. c \in handed /\ target'[c] = target[c]
    BY <1>2 DEF SessionIInv, SessionBook, RunBook, Advance
  <2> QED BY <2>1 DEF SessionIInv, SessionBook, ExecutedAtMostOnce
<1> QED BY <1>1, <1>2

\* The client of another host does not notice a step on commands that are not
\* its own.
LEMMA HostKept ==
    ASSUME SessionIInv, NEW D, Advance(D), NEW g \in Hosts,
           agentPc'[g] = agentPc[g], m_agentId'[g] = m_agentId[g],
           registering'[g] = registering[g], batch'[g] = batch[g],
           outcome'[g] = outcome[g],
           \A i \in 1..Len(batch[g]) :
              batch[g][i] \notin D /\ runs'[batch[g][i]] = runs[batch[g][i]]
    PROVE  IdBook(g)' /\ BatchBook(g)' /\ ReportBook(g)'
<1>0. batch[g] \in Seq(CommandIds) /\ IdBook(g) /\ BatchBook(g) /\ ReportBook(g)
  BY DEF SessionIInv, SessionBook, SessionTypeOK
<1>1. IdBook(g)'
  BY <1>0 DEF IdBook
<1>2. ReportBook(g)'
  <2>1. batch[g] # << >> => 1 \in 1..Len(batch[g])
    BY <1>0
  <2> QED BY <1>0, <2>1 DEF ReportBook
<1>3. \A i \in 1..Len(batch[g]) : batch[g][i] \in CommandIds \ D
  BY <1>0
<1>4. BatchBook(g)'
  BY <1>0, <1>3 DEF BatchBook, Advance
<1> QED BY <1>1, <1>2, <1>4

\* Only the client of host h takes a step.
OnlyHost(h) ==
    \A g \in Hosts \ {h} :
       /\ agentPc'[g] = agentPc[g] /\ m_agentId'[g] = m_agentId[g]
       /\ registering'[g] = registering[g] /\ batch'[g] = batch[g]
       /\ outcome'[g] = outcome[g]

\* The books of the hosts and of the late requests through a step that executes
\* nothing, takes no new command and leaves every batch to which a report may
\* yet come: only commands of D, executed and in no batch, get a new status.
LEMMA BatchesKept ==
    ASSUME SessionIInv, SessionTypeOK', NEW D \in SUBSET CommandIds, Advance(D),
           UNCHANGED runs,
           \A h \in Hosts : IdBook(h)',
           \A h \in Hosts :
              \/ /\ batch'[h] = batch[h] /\ outcome'[h] = outcome[h]
                 /\ agentPc'[h] = "report" <=> agentPc[h] = "report"
              \/ batch'[h] = << >> /\ agentPc'[h] # "report",
           \A r \in late' :
              \/ r \in late /\ (r.op = "report" => r.cmd \notin D)
              \/ r.op \in {"poll", "heartbeat"}
              \/ r.op = "unregister" /\ r.id \in AgentIds,
           \A c \in D : /\ runs[c] # << >>
                        /\ \A h \in Hosts : \A i \in 1..Len(batch[h]) :
                              batch[h][i] # c
    PROVE  SessionBook'
<1> USE DEF SessionIInv, SessionBook
<1>1. \A h \in Hosts : batch[h] \in Seq(CommandIds)
  BY DEF SessionTypeOK
<1>2. ASSUME NEW h \in Hosts
      PROVE  BatchBook(h)' /\ ReportBook(h)'
  <2>1. CASE batch'[h] = << >> /\ agentPc'[h] # "report"
    BY <2>1 DEF BatchBook, ReportBook
  <2>2. CASE /\ batch'[h] = batch[h] /\ outcome'[h] = outcome[h]
             /\ agentPc'[h] = "report" <=> agentPc[h] = "report"
    <3>1. ReportBook(h)'
      BY <2>2 DEF ReportBook
    <3>2. \A i \in 1..Len(batch[h]) :
             batch[h][i] \in CommandIds \ D
      BY <1>1
    <3>3. BatchBook(h)'
      BY <2>2, <3>2 DEF BatchBook, Advance
    <3> QED BY <3>1, <3>3
  <2> QED BY <2>1, <2>2
<1>3. ASSUME NEW r \in late'
      PROVE  LateBook(r)'
  <2>1. CASE r.op # "report"
    BY <2>1 DEF LateBook
  <2>2. CASE r.op = "report"
    <3>1. r \in late /\ r.cmd \notin D
      BY <2>2
    <3>2. LateBook(r)
      BY <3>1
    <3>3. r.cmd \in CommandIds /\ m_commandHistory'[r.cmd] \notin FinalStatus
      BY <2>2, <3>1, <3>2 DEF LateBook, Advance
    <3>4. \A h \in Hosts : \A i \in 1..Len(batch'[h]) : batch'[h][i] # r.cmd
      BY <2>2, <3>2 DEF LateBook
    <3>5. \A q \in late' : q.op = "report" /\ q.cmd = r.cmd => q = r
      BY <2>2, <3>2 DEF LateBook
    <3> QED BY <2>2, <3>2, <3>3, <3>4, <3>5 DEF LateBook
  <2> QED BY <2>1, <2>2
<1>4. RunBook'
  BY DEF RunBook, Advance
<1>5. ExecutedAtMostOnce'
  BY ExecutedKept
<1> QED BY <1>2, <1>3, <1>4, <1>5

\* The commands of a poll's answer were handed to nobody before.
LEMMA PollHolds ==
    ASSUME SessionIInv, NEW h \in Hosts, PollAnswered(h), Advance({})
    PROVE  SessionBook'
<1> DEFINE a == m_agentId[h]
           q == m_commandQueues[a]
<1>0. SessionTypeOK /\ IdBook(h) /\ RunBook /\ IInv
  BY DEF SessionIInv, SessionBook
<1>1. /\ a \in AgentIds /\ HostOf[a] = h /\ q \in Seq(CommandIds)
  BY <1>0 DEF PollAnswered, IdBook, OnlinePlaces, IInv, TypeOK, RegistryTypeOK
<1>2. /\ agentPc' = [agentPc EXCEPT ![h] = "dispatch"]
      /\ batch' = [batch EXCEPT ![h] = q]
      /\ handed' = handed \cup Elements(q)
      /\ UNCHANGED <<m_agentId, registering, outcome, late, runs, target>>
  BY DEF PollAnswered, Go, HandlePollCommands, DequeuedCommands
<1>3. SessionTypeOK' /\ OnlyHost(h) /\ batch'[h] = q /\ agentPc'[h] = "dispatch"
  BY <1>0, <1>1, <1>2 DEF SessionTypeOK, OnlyHost, Places, OnlinePlaces
<1>4. \A i \in 1..Len(q) :
         /\ q[i] \in CommandIds /\ q[i] \in Elements(q) /\ q[i] \notin handed
         /\ target[q[i]] = a
         /\ \A j \in 1..Len(q) : q[j] = q[i] => j = i
  BY <1>0, <1>1 DEF IInv, NoRedelivery, Elements
<1>5. \A i \in 1..Len(q) :
         runs[q[i]] = << >> /\ m_commandHistory'[q[i]] \notin FinalStatus
  BY <1>0, <1>4 DEF RunBook, Advance
<1> HIDE DEF a, q
<1>6. IdBook(h)' /\ ReportBook(h)'
  BY <1>0, <1>2, <1>3, <1>1 DEF IdBook, ReportBook, OnlinePlaces, a
<1>7. BatchBook(h)'
  BY <1>1, <1>2, <1>3, <1>4, <1>5 DEF BatchBook
<1>8. \A g \in Hosts \ {h} : IdBook(g)' /\ BatchBook(g)' /\ ReportBook(g)'
  BY <1>2, <1>3, HostKept DEF OnlyHost
<1>9. \A r \in late' : LateBook(r)'
  <2> SUFFICES ASSUME NEW r \in late, r.op = "report"
               PROVE  LateBook(r)'
    BY <1>2 DEF SessionIInv, SessionBook, LateBook
  <2>1. LateBook(r)
    BY DEF SessionIInv, SessionBook
  <2>2. m_commandHistory'[r.cmd] \notin FinalStatus
    BY <2>1 DEF LateBook, Advance
  <2>3. \A i \in 1..Len(q) : q[i] # r.cmd
    BY <1>5, <2>1 DEF LateBook
  <2>4. \A g \in Hosts : \A i \in 1..Len(batch'[g]) : batch'[g][i] # r.cmd
    BY <1>3, <2>1, <2>3 DEF LateBook, OnlyHost
  <2> QED BY <1>2, <2>1, <2>2, <2>4 DEF LateBook
<1>10. RunBook'
  BY <1>0, <1>2 DEF RunBook, Advance
<1>11. ExecutedAtMostOnce'
  BY <1>2, ExecutedKept
<1> QED
  BY <1>3, <1>6, <1>7, <1>8, <1>9, <1>10, <1>11 DEF SessionBook

\* The command an agent executes is the first of its batch, which no agent has
\* executed and no other agent will.
LEMMA ExecuteHolds ==
    ASSUME SessionIInv, NEW h \in Hosts, ExecuteCommand(h), Advance({})
    PROVE  SessionBook'
<1> DEFINE c == batch[h][1]
<1>0. /\ SessionTypeOK /\ BatchBook(h) /\ RunBook /\ ExecutedAtMostOnce
      /\ IdBook(h) /\ \A g \in Hosts : BatchBook(g)
  BY DEF SessionIInv, SessionBook
<1>1. batch[h] \in Seq(CommandIds) /\ 1 \in 1..Len(batch[h]) /\ c \in CommandIds
      /\ Head(batch[h]) = c
  BY <1>0 DEF ExecuteCommand, SessionTypeOK
<1>2. /\ agentPc[h] = "dispatch" /\ agentPc' = [agentPc EXCEPT ![h] = "report"]
      /\ \E status \in Outcomes : outcome' = [outcome EXCEPT ![h] = status]
      /\ UNCHANGED <<m_agentId, registering, batch, late, handed, target,
                     m_commandHistory>>
      /\ runs' = [runs EXCEPT ![c] = Append(runs[c], h)]
  BY <1>1 DEF ExecuteCommand, Go, Outcomes, vars, registryVars, controllerVars
<1>3. /\ c \in handed /\ HostOf[target[c]] = h /\ runs[c] = << >>
      /\ m_commandHistory[c] \notin FinalStatus
      /\ \A j \in 1..Len(batch[h]) : batch[h][j] = c => j = 1
  BY <1>0, <1>1, <1>2 DEF BatchBook
<1>4. \A g \in Hosts \ {h} : \A i \in 1..Len(batch[g]) : batch[g][i] # c
  BY <1>0, <1>3 DEF BatchBook
<1> HIDE DEF c
<1>5. /\ runs'[c] = << h >> /\ runs' \in [CommandIds -> Seq(Hosts)]
      /\ \A d \in CommandIds : d # c => runs'[d] = runs[d]
  BY <1>0, <1>1, <1>2, <1>3 DEF SessionTypeOK
<1>s. Len(runs'[c]) = 1 /\ runs'[c][1] = h /\ runs'[c] # << >>
  BY <1>5
<1>6. /\ SessionTypeOK' /\ OnlyHost(h) /\ agentPc'[h] = "report"
      /\ outcome'[h] \in Outcomes
  BY <1>0, <1>2, <1>5 DEF SessionTypeOK, OnlyHost, Places, OnlinePlaces
<1>7. IdBook(h)'
  BY <1>0, <1>2, <1>6 DEF IdBook, OnlinePlaces
<1>8. ReportBook(h)'
  <2>1. batch'[h] # << >> /\ runs'[batch'[h][1]] # << >>
    BY <1>1, <1>2, <1>s DEF c
  <2> QED BY <1>6, <2>1 DEF ReportBook
<1>9. BatchBook(h)'
  <2> SUFFICES ASSUME NEW i \in 1..Len(batch[h])
               PROVE  \/ runs'[batch[h][i]] = << >>
                      \/ i = 1 /\ agentPc'[h] = "report"
    BY <1>0, <1>2 DEF BatchBook
  <2>1. CASE i # 1
    <3>1. batch[h][i] # c /\ batch[h][i] \in CommandIds
      BY <1>1, <1>3, <2>1
    <3>2. runs[batch[h][i]] = << >>
      BY <1>0, <1>2, <2>1 DEF BatchBook
    <3> QED BY <3>1, <3>2, <1>5
  <2> QED BY <1>6, <2>1
<1>10. ASSUME NEW g \in Hosts \ {h}
       PROVE  IdBook(g)' /\ BatchBook(g)' /\ ReportBook(g)'
  <2>1. \A i \in 1..Len(batch[g]) : runs'[batch[g][i]] = runs[batch[g][i]]
    BY <1>0, <1>4, <1>5 DEF SessionTypeOK
  <2> QED BY <1>6, <2>1, HostKept DEF OnlyHost
<1>11. ASSUME NEW r \in late'
       PROVE  LateBook(r)'
  <2>1. LateBook(r) /\ r \in late
    BY <1>2 DEF SessionIInv, SessionBook
  <2>2. r.op = "report" => runs'[r.cmd] # << >>
    BY <2>1, <1>3, <1>5 DEF LateBook
  <2> QED BY <1>2, <2>1, <2>2 DEF LateBook
<1>12. RunBook'
  BY <1>0, <1>2, <1>3, <1>5 DEF RunBook
<1>13. ExecutedAtMostOnce'
  <2> SUFFICES ASSUME NEW d \in CommandIds
               PROVE  /\ Len(runs'[d]) <= 1
                      /\ \A i \in 1..Len(runs'[d]) : runs'[d][i] = HostOf[target[d]]
    BY <1>2 DEF ExecutedAtMostOnce
  <2>1. CASE d = c
    <3>1. \A i \in 1..Len(runs'[c]) : i = 1
      BY <1>s
    <3>2. Len(runs'[c]) <= 1
      BY <1>s
    <3> QED BY ONLY <1>3, <1>s, <2>1, <3>1, <3>2
  <2>2. CASE d # c
    BY <1>0, <1>5, <2>2 DEF ExecutedAtMostOnce
  <2> QED BY <2>1, <2>2
<1> QED
  BY <1>6, <1>7, <1>8, <1>9, <1>10, <1>11, <1>12, <1>13 DEF SessionBook

\* However the report of a command fares, served, refused or given up on, it is
\* the last the client has to do with the command.
LEMMA ReportOver ==
    ASSUME SessionIInv, NEW h \in Hosts, agentPc[h] = "report", CommandDone(h),
           UNCHANGED <<m_agentId, registering, runs>>,
           NEW D \in SUBSET {batch[h][1]}, Advance(D),
           \/ late' = late
           \/ D = {} /\ late' = late \cup {Request("report", m_agentId[h],
                                                   batch[h][1], outcome[h])}
    PROVE  SessionBook'
<1> DEFINE c == batch[h][1]
           q == Request("report", m_agentId[h], c, outcome[h])
<1>0. /\ SessionTypeOK /\ BatchBook(h) /\ RunBook /\ ReportBook(h)
      /\ IdBook(h) /\ \A g \in Hosts : BatchBook(g)
      /\ \A r \in late : LateBook(r)
  BY DEF SessionIInv, SessionBook
<1>1. /\ batch[h] \in Seq(CommandIds) /\ batch[h] # << >>
      /\ 1 \in 1..Len(batch[h]) /\ c \in CommandIds /\ Len(batch[h]) \in Nat
  BY <1>0 DEF ReportBook, SessionTypeOK
<1>2. /\ agentPc' = [agentPc EXCEPT ![h] = "dispatch"]
      /\ outcome' = [outcome EXCEPT ![h] = "Pending"]
      /\ batch' = [batch EXCEPT ![h] = Tail(batch[h])]
  BY <1>0 DEF CommandDone, Go, SessionTypeOK
<1>3. /\ Tail(batch[h]) \in Seq(CommandIds)
      /\ Len(Tail(batch[h])) = Len(batch[h]) - 1
      /\ \A i \in 1..Len(Tail(batch[h])) :
            Tail(batch[h])[i] = batch[h][i + 1] /\ i + 1 \in 1..Len(batch[h])
  BY <1>1
<1>4. SessionTypeOK' /\ OnlyHost(h) /\ agentPc'[h] = "dispatch"
      /\ batch'[h] = Tail(batch[h])
  BY <1>0, <1>2, <1>3 DEF SessionTypeOK, OnlyHost, Places, OnlinePlaces
<1>5. /\ c \in handed /\ HostOf[target[c]] = h /\ runs[c] # << >>
      /\ m_commandHistory[c] \notin FinalStatus
      /\ \A j \in 1..Len(batch[h]) : batch[h][j] = c => j = 1
      /\ outcome[h] \in Outcomes
  BY <1>0, <1>1 DEF BatchBook, ReportBook
<1>6. \A g \in Hosts \ {h} : \A i \in 1..Len(batch[g]) : batch[g][i] # c
  BY <1>0, <1>5 DEF BatchBook
<1>7. \A i \in 1..Len(Tail(batch[h])) : Tail(batch[h])[i] # c
  BY <1>3, <1>5
<1>8. IdBook(h)' /\ ReportBook(h)'
  BY <1>0, <1>4 DEF IdBook, ReportBook, OnlinePlaces
<1>9. BatchBook(h)'
  <2> DEFINE t == Tail(batch[h])
  <2>1. \A i \in 1..Len(t) :
           /\ t[i] \in CommandIds \ D /\ t[i] \in handed
           /\ HostOf[target[t[i]]] = h /\ runs[t[i]] = << >>
           /\ m_commandHistory[t[i]] \notin FinalStatus
    BY <1>0, <1>3, <1>7 DEF BatchBook
  <2>2. \A i, j \in 1..Len(t) : t[j] = t[i] => j = i
    <3> SUFFICES ASSUME NEW i \in 1..Len(t), NEW j \in 1..Len(t), t[j] = t[i]
                 PROVE  j = i
      OBVIOUS
    <3>1. batch[h][j + 1] = batch[h][i + 1]
      BY <1>3
    <3>2. j + 1 = i + 1
      BY <1>0, <1>3, <3>1 DEF BatchBook
    <3> QED BY <3>2, <1>1, <1>3
  <2> HIDE DEF t
  <2>3. batch'[h] = t
    BY <1>4 DEF t
  <2> QED BY <2>1, <2>2, <2>3 DEF BatchBook, Advance
<1>10. ASSUME NEW g \in Hosts \ {h}
       PROVE  IdBook(g)' /\ BatchBook(g)' /\ ReportBook(g)'
  BY <1>4, <1>6, HostKept DEF OnlyHost
<1>t. ASSUME NEW x, \A i \in 1..Len(Tail(batch[h])) : Tail(batch[h])[i] # x,
             \A g \in Hosts \ {h} : \A i \in 1..Len(batch[g]) : batch[g][i] # x,
             NEW g \in Hosts
      PROVE  \A i \in 1..Len(batch'[g]) : batch'[g][i] # x
  <2>1. CASE g = h
    BY ONLY <1>4, <1>t, <2>1
  <2>2. CASE g # h
    BY ONLY <1>4, <1>t, <2>2 DEF OnlyHost
  <2> QED BY <2>1, <2>2
<1>11. \A g \in Hosts : \A i \in 1..Len(batch'[g]) : batch'[g][i] # c
  BY <1>t, <1>6, <1>7
<1>12. ASSUME NEW r \in late, r.op = "report"
       PROVE  /\ r.cmd \in CommandIds \ D /\ r.cmd # c
              /\ \A g \in Hosts : \A i \in 1..Len(batch'[g]) : batch'[g][i] # r.cmd
              /\ m_commandHistory'[r.cmd] \notin FinalStatus
  <2>1. /\ r.cmd \in CommandIds /\ r.cmd # c
        /\ \A g \in Hosts : \A i \in 1..Len(batch[g]) : batch[g][i] # r.cmd
        /\ m_commandHistory[r.cmd] \notin FinalStatus
    BY <1>0, <1>1, <1>12 DEF LateBook
  <2>2. \A i \in 1..Len(Tail(batch[h])) : Tail(batch[h])[i] # r.cmd
    BY <1>3, <2>1
  <2>3. \A g \in Hosts : \A i \in 1..Len(batch'[g]) : batch'[g][i] # r.cmd
    BY <1>t, <2>1, <2>2
  <2> QED BY <2>1, <2>3 DEF Advance
<1> HIDE DEF c
<1>13. q.op = "report" /\ q.cmd = c /\ q.status = outcome[h]
  BY DEF Request
<1> HIDE DEF q
<1>14. ASSUME NEW r \in late'
       PROVE  LateBook(r)'
  <2>1. CASE r.op # "report"
    BY <1>0, <1>13, <1>14, <2>1 DEF LateBook, q, c
  <2>2. CASE r.op = "report" /\ r \in late
    <3>1. \A x \in late' : x.op = "report" /\ x.cmd = r.cmd => x = r
      BY <1>0, <1>12, <1>13, <2>2 DEF LateBook, q, c
    <3>2. LateBook(r)
      BY <1>0, <2>2
    <3> QED BY <1>12, <2>2, <3>1, <3>2 DEF LateBook
  <2>3. CASE r \notin late
    <3>1. r = q /\ D = {} /\ late' = late \cup {q}
      BY <1>14, <2>3 DEF q, c
    <3>2. m_commandHistory'[c] \notin FinalStatus
      BY <1>1, <1>5, <3>1 DEF Advance, c
    <3>3. \A x \in late' : x.op = "report" /\ x.cmd = c => x = q
      BY <1>12, <3>1
    <3> QED
      BY <1>1, <1>5, <1>11, <1>13, <3>1, <3>2, <3>3 DEF LateBook, c
  <2> QED BY <2>1, <2>2, <2>3
<1>15. RunBook'
  BY <1>0, <1>5 DEF RunBook, Advance, c
<1>16. ExecutedAtMostOnce'
  BY ExecutedKept
<1> QED
  BY <1>4, <1>8, <1>9, <1>10, <1>14, <1>15, <1>16 DEF SessionBook

\* No final status is replaced by another.
FinalKept ==
    \A c \in CommandIds :
       m_commandHistory[c] \in FinalStatus
          => m_commandHistory'[c] \in {m_commandHistory[c], NoEntry}

\* No report is given up on in this step.
NoLateReport ==
    \A r \in late' : \/ r \in late
                     \/ r.op \in {"poll", "heartbeat"}
                     \/ r.op = "unregister" /\ r.id \in AgentIds

\* The client of host h goes to pc, with this id, registration and batch.
Moves(h, pc, id, reg, b) ==
    /\ agentPc'     = [agentPc EXCEPT ![h] = pc]
    /\ m_agentId'   = [m_agentId EXCEPT ![h] = id]
    /\ registering' = [registering EXCEPT ![h] = reg]
    /\ batch'       = [batch EXCEPT ![h] = b]

\* The books through a step of a client that is about no command, or drops its
\* batch.
LEMMA ClientMoves ==
    ASSUME SessionIInv, OtherStep, UNCHANGED runs, NoLateReport,
           NEW h \in Hosts, NEW pc \in Places, NEW id \in AgentIds \cup {NoId},
           NEW reg \in AgentIds \cup {NoId}, NEW b, Moves(h, pc, id, reg, b),
           pc \in OnlinePlaces => id \in AgentIds /\ HostOf[id] = h,
           pc = "regWait" => reg \in AgentIds /\ HostOf[reg] = h,
           \/ /\ b = batch[h] /\ UNCHANGED outcome
              /\ pc = "report" <=> agentPc[h] = "report"
           \/ /\ b = << >> /\ pc # "report"
              /\ outcome' = outcome \/ outcome' = [outcome EXCEPT ![h] = "Pending"]
    PROVE  SessionBook' /\ FinalKept
<1>0. SessionTypeOK /\ IInv /\ RunBook /\ \A g \in Hosts : IdBook(g)
  BY DEF SessionIInv, SessionBook
<1>1. Advance({})
  BY <1>0, OtherStepAdvances
<1>2. b \in Seq(CommandIds)
  <2>1. << >> \in Seq(CommandIds) /\ batch[h] \in Seq(CommandIds)
    BY <1>0 DEF SessionTypeOK
  <2>2. b = batch[h] \/ b = << >>
    OBVIOUS
  <2> QED BY ONLY <2>1, <2>2
<1>3. SessionTypeOK'
  <2>1. outcome' \in [Hosts -> Outcomes \cup {"Pending"}]
    BY <1>0 DEF SessionTypeOK
  <2> QED BY <1>0, <1>2, <2>1 DEF SessionTypeOK, Moves
<1>4. /\ agentPc'[h] = pc /\ m_agentId'[h] = id /\ registering'[h] = reg
      /\ batch'[h] = b
      /\ \A g \in Hosts \ {h} :
            /\ agentPc'[g] = agentPc[g] /\ m_agentId'[g] = m_agentId[g]
            /\ registering'[g] = registering[g] /\ batch'[g] = batch[g]
            /\ outcome'[g] = outcome[g]
  BY <1>0 DEF SessionTypeOK, Moves
<1>5. \A g \in Hosts : IdBook(g)'
  <2>1. IdBook(h)'
    BY <1>4 DEF IdBook
  <2>2. \A g \in Hosts \ {h} : IdBook(g)'
    BY <1>0, <1>4 DEF IdBook
  <2> QED BY <2>1, <2>2
<1>6. \A g \in Hosts :
         \/ /\ batch'[g] = batch[g] /\ outcome'[g] = outcome[g]
            /\ agentPc'[g] = "report" <=> agentPc[g] = "report"
         \/ batch'[g] = << >> /\ agentPc'[g] # "report"
  <2>1. \A g \in Hosts \ {h} :
           /\ batch'[g] = batch[g] /\ outcome'[g] = outcome[g]
           /\ agentPc'[g] = "report" <=> agentPc[g] = "report"
    BY <1>4
  <2>2. \/ /\ batch'[h] = batch[h] /\ outcome'[h] = outcome[h]
           /\ agentPc'[h] = "report" <=> agentPc[h] = "report"
        \/ batch'[h] = << >> /\ agentPc'[h] # "report"
    BY <1>4
  <2> QED BY <2>1, <2>2
<1>7. SessionBook'
  BY <1>1, <1>3, <1>5, <1>6, BatchesKept DEF NoLateReport
<1> QED BY <1>1, <1>7 DEF Advance, FinalKept

\* The books through a step the clients have no part in.
LEMMA ClientsIdle ==
    ASSUME SessionIInv, OtherStep, NoLateReport,
           UNCHANGED <<agentPc, m_agentId, registering, batch, outcome, runs>>
    PROVE  SessionBook' /\ FinalKept
<1>0. SessionTypeOK /\ IInv /\ RunBook /\ \A g \in Hosts : IdBook(g)
  BY DEF SessionIInv, SessionBook
<1>1. Advance({})
  BY <1>0, OtherStepAdvances
<1>2. SessionTypeOK' /\ \A g \in Hosts : IdBook(g)'
  BY <1>0 DEF SessionTypeOK, IdBook
<1>3. SessionBook'
  BY <1>1, <1>2, BatchesKept DEF NoLateReport
<1> QED BY <1>1, <1>3 DEF Advance, FinalKept

\* The steps of a client that nothing goes wrong with.
LEMMA AgentStepHolds ==
    ASSUME SessionIInv, NEW h \in Hosts, AgentStep(h)
    PROVE  SessionBook' /\ FinalKept /\ (OtherStep \/ AnyReport)
<1>0. /\ SessionTypeOK /\ IInv /\ RunBook /\ IdBook(h) /\ ReportBook(h)
      /\ BatchBook(h)
  BY DEF SessionIInv, SessionBook
<1>t. /\ agentPc[h] \in Places /\ m_agentId[h] \in AgentIds \cup {NoId}
      /\ registering[h] \in AgentIds \cup {NoId}
      /\ batch[h] \in Seq(CommandIds)
      /\ agentPc = [agentPc EXCEPT ![h] = agentPc[h]]
      /\ m_agentId = [m_agentId EXCEPT ![h] = m_agentId[h]]
      /\ registering = [registering EXCEPT ![h] = registering[h]]
      /\ batch = [batch EXCEPT ![h] = batch[h]]
  BY <1>0 DEF SessionTypeOK
<1>p. /\ {"register", "regWait", "stopped", "poll", "dispatch", "report",
          "heartbeat", "hbWait", "unregister"} \subseteq Places
      /\ "register" \notin OnlinePlaces /\ "regWait" \notin OnlinePlaces
      /\ "stopped" \notin OnlinePlaces
  BY DEF Places, OnlinePlaces
<1>i. agentPc[h] \in OnlinePlaces =>
         m_agentId[h] \in AgentIds /\ HostOf[m_agentId[h]] = h
  BY <1>0 DEF IdBook
<1>1. ASSUME NEW a \in AgentIds, SendRegister(h, a)
      PROVE  SessionBook' /\ FinalKept /\ OtherStep
  <2>1. Moves(h, "regWait", m_agentId[h], a, batch[h]) /\ HostOf[a] = h
    BY <1>1, <1>t DEF SendRegister, Moves, Go
  <2>2. OtherStep /\ NoLateReport /\ UNCHANGED <<outcome, runs>>
    BY <1>1 DEF SendRegister, OtherStep, NoLateReport
  <2>3. agentPc[h] # "report"
    BY <1>1 DEF SendRegister
  <2> QED BY <1>t, <1>p, <2>1, <2>2, <2>3, ClientMoves
<1>2. CASE RegisterAnswered(h)
  <2>1. OtherStep /\ NoLateReport /\ UNCHANGED <<outcome, runs>>
    BY <1>2 DEF RegisterAnswered, OtherStep, NoLateReport
  <2>2. /\ agentPc[h] = "regWait" /\ registering[h] \in AgentIds
        /\ HostOf[registering[h]] = h
    BY <1>0, <1>2 DEF RegisterAnswered, IdBook
  <2>3. CASE RegisterStatus \in AcceptedStatuses
    <3>1. \E pc \in {"poll", "stopped"} :
             Moves(h, pc, registering[h], NoId, batch[h])
      BY <1>2, <1>t, <2>3 DEF RegisterAnswered, Moves, Go
    <3> QED BY <1>t, <1>p, <2>1, <2>2, <3>1, ClientMoves
  <2>4. CASE RegisterStatus \notin AcceptedStatuses
    <3>1. Moves(h, "register", m_agentId[h], NoId, batch[h])
      BY <1>2, <1>t, <2>4 DEF RegisterAnswered, Moves, Go
    <3> QED BY <1>t, <1>p, <2>1, <2>2, <3>1, ClientMoves
  <2> QED BY <2>3, <2>4
<1>3. CASE PollAnswered(h)
  <2>1. m_agentId[h] \in AgentIds /\ OtherStep
    BY <1>3, <1>i DEF PollAnswered, OnlinePlaces, OtherStep
  <2>2. Advance({})
    BY <1>0, <2>1, OtherStepAdvances
  <2> QED BY <1>3, <2>1, <2>2, PollHolds DEF Advance, FinalKept
<1>4. CASE ExecuteCommand(h)
  <2>1. OtherStep
    BY <1>4 DEF ExecuteCommand, OtherStep
  <2>2. Advance({})
    BY <1>0, <2>1, OtherStepAdvances
  <2> QED BY <1>4, <2>1, <2>2, ExecuteHolds DEF Advance, FinalKept
<1>5. CASE ReportAnswered(h)
  <2> DEFINE c == batch[h][1]
  <2>1. /\ agentPc[h] = "report" /\ CommandDone(h)
        /\ UNCHANGED <<m_agentId, registering, late, runs>>
        /\ HandleReportResult(Head(batch[h]), outcome[h])
    BY <1>5 DEF ReportAnswered
  <2>2. /\ Head(batch[h]) = c /\ c \in CommandIds /\ outcome[h] \in CommandStatus
        /\ m_commandHistory[c] \notin FinalStatus
    BY <1>0, <1>t, <2>1 DEF ReportBook, BatchBook, Outcomes, CommandStatus
  <2>3. HandleReportResult(c, outcome[h])
    BY <2>1, <2>2
  <2>4. Advance({c}) /\ AnyReport
    BY <1>0, <2>2, <2>3, ReportAdvances DEF AnyReport
  <2>5. SessionBook'
    BY <2>1, <2>4, ReportOver
  <2> QED BY <2>2, <2>4, <2>5 DEF Advance, FinalKept
<1>6. CASE EndBatch(h)
  <2>1. OtherStep /\ NoLateReport /\ UNCHANGED <<outcome, runs>>
    BY <1>6 DEF EndBatch, OtherStep, NoLateReport
  <2>2. \E pc \in {"heartbeat", "poll"} :
           Moves(h, pc, m_agentId[h], registering[h], << >>)
    BY <1>6, <1>t DEF EndBatch, Moves, Go
  <2>3. m_agentId[h] \in AgentIds /\ HostOf[m_agentId[h]] = h
    BY <1>6, <1>i DEF EndBatch, OnlinePlaces
  <2> QED BY <1>t, <1>p, <2>1, <2>2, <2>3, ClientMoves
<1>7. CASE SendHeartbeat(h) \/ HeartbeatAnswered(h)
  <2>1. NoLateReport /\ UNCHANGED <<outcome, runs>>
    BY <1>7 DEF SendHeartbeat, HeartbeatAnswered, NoLateReport
  <2>2. \E pc \in {"hbWait", "poll"} :
           Moves(h, pc, m_agentId[h], registering[h], batch[h])
    BY <1>7, <1>t DEF SendHeartbeat, HeartbeatAnswered, Moves, Go
  <2>3. /\ m_agentId[h] \in AgentIds /\ HostOf[m_agentId[h]] = h
        /\ agentPc[h] # "report"
    BY <1>7, <1>i DEF SendHeartbeat, HeartbeatAnswered, OnlinePlaces
  <2>4. OtherStep
    BY <1>7, <2>3 DEF SendHeartbeat, HeartbeatAnswered, OtherStep
  <2> QED BY <1>t, <1>p, <2>1, <2>2, <2>3, <2>4, ClientMoves
<1>8. CASE Rejected(h)
  <2>1. OtherStep /\ NoLateReport /\ UNCHANGED <<m_agentId, registering, late, runs>>
    BY <1>8 DEF Rejected, OtherStep, NoLateReport
  <2>2. CASE agentPc[h] = "report"
    <3>1. CommandDone(h)
      BY <1>8, <2>2 DEF Rejected
    <3>2. Advance({})
      BY <1>0, <2>1, OtherStepAdvances
    <3>3. SessionBook'
      BY <2>1, <2>2, <3>1, <3>2, ReportOver
    <3> QED BY <2>1, <3>2, <3>3 DEF Advance, FinalKept
  <2>3. CASE agentPc[h] # "report"
    <3>1. UNCHANGED <<batch, outcome>> /\ agentPc[h] \in OnlinePlaces
      BY <1>8, <2>3 DEF Rejected, OnlinePlaces
    <3>2. \E pc \in {"dispatch", "poll"} :
             Moves(h, pc, m_agentId[h], registering[h], batch[h])
      BY <1>8, <1>t, <2>1, <2>3, <3>1 DEF Rejected, Moves, Go
    <3> QED BY <1>t, <1>p, <1>i, <2>1, <2>3, <3>1, <3>2, ClientMoves
  <2> QED BY <2>2, <2>3
<1>9. CASE LeaveLoop(h)
  <2>1. OtherStep /\ NoLateReport /\ UNCHANGED <<outcome, runs>>
    BY <1>9 DEF LeaveLoop, OtherStep, NoLateReport
  <2>2. \E pc \in {"stopped", "unregister"} :
           /\ Moves(h, pc, m_agentId[h], registering[h], batch[h])
           /\ pc = "unregister" => agentPc[h] = "poll"
    BY <1>9, <1>t DEF LeaveLoop, Moves, Go
  <2>3. agentPc[h] # "report"
    BY <1>9 DEF LeaveLoop
  <2>4. agentPc[h] = "poll" =>
           m_agentId[h] \in AgentIds /\ HostOf[m_agentId[h]] = h
    BY <1>i DEF OnlinePlaces
  <2> QED BY <1>t, <1>p, <2>1, <2>2, <2>3, <2>4, ClientMoves
<1>10. CASE Unregister(h)
  <2>1. m_agentId[h] \in AgentIds /\ agentPc[h] # "report"
    BY <1>10, <1>i DEF Unregister, OnlinePlaces
  <2>2. OtherStep /\ NoLateReport /\ UNCHANGED <<outcome, runs>>
    BY <1>10, <2>1 DEF Unregister, OtherStep, NoLateReport
  <2>3. Moves(h, "stopped", NoId, registering[h], batch[h])
    BY <1>10, <1>t DEF Unregister, Moves, Go
  <2> QED BY <1>t, <1>p, <2>1, <2>2, <2>3, ClientMoves
<1> QED
  BY <1>1, <1>2, <1>3, <1>4, <1>5, <1>6, <1>7, <1>8, <1>9, <1>10 DEF AgentStep

\* Giving up on a call, wherever the client is.
LEMMA GiveUpHolds ==
    ASSUME SessionIInv, NEW h \in Hosts, GiveUp(h)
    PROVE  SessionBook' /\ FinalKept /\ OtherStep
<1>0. SessionTypeOK /\ IInv /\ RunBook /\ IdBook(h) /\ ReportBook(h)
  BY DEF SessionIInv, SessionBook
<1>t. /\ m_agentId[h] \in AgentIds \cup {NoId}
      /\ registering[h] \in AgentIds \cup {NoId}
      /\ batch[h] \in Seq(CommandIds)
      /\ agentPc = [agentPc EXCEPT ![h] = agentPc[h]]
      /\ m_agentId = [m_agentId EXCEPT ![h] = m_agentId[h]]
      /\ registering = [registering EXCEPT ![h] = registering[h]]
      /\ batch = [batch EXCEPT ![h] = batch[h]]
  BY <1>0 DEF SessionTypeOK
<1>p. /\ {"register", "stopped", "poll", "dispatch"} \subseteq Places
      /\ "register" \notin OnlinePlaces /\ "stopped" \notin OnlinePlaces
  BY DEF Places, OnlinePlaces
<1>i. agentPc[h] \in OnlinePlaces =>
         m_agentId[h] \in AgentIds /\ HostOf[m_agentId[h]] = h
  BY <1>0 DEF IdBook
<1>1. OtherStep /\ UNCHANGED runs
  BY DEF GiveUp, OtherStep
<1>2. CASE agentPc[h] = "report"
  <2>1. /\ CommandDone(h) /\ UNCHANGED <<m_agentId, registering>>
        /\ late' = late \cup {Request("report", m_agentId[h], Head(batch[h]),
                                      outcome[h])}
    BY <1>2 DEF GiveUp
  <2>2. Head(batch[h]) = batch[h][1]
    BY <1>0, <1>t, <1>2 DEF ReportBook
  <2>3. Advance({})
    BY <1>0, <1>1, OtherStepAdvances
  <2>4. late' = late \cup {Request("report", m_agentId[h], batch[h][1],
                                   outcome[h])}
    BY <2>1, <2>2
  <2>5. SessionBook'
    BY <1>1, <1>2, <2>1, <2>3, <2>4, ReportOver
  <2> QED BY <1>1, <2>3, <2>5 DEF Advance, FinalKept
<1>3. CASE agentPc[h] # "report"
  <2>1. UNCHANGED <<outcome, batch>>
    BY <1>3 DEF GiveUp
  <2>2. CASE agentPc[h] = "regWait"
    <3>1. Moves(h, "register", m_agentId[h], NoId, batch[h]) /\ NoLateReport
      BY <1>t, <2>1, <2>2 DEF GiveUp, Moves, Go, NoLateReport
    <3> QED BY <1>1, <1>3, <1>t, <1>p, <2>1, <3>1, ClientMoves
  <2>3. CASE agentPc[h] \in {"poll", "heartbeat", "hbWait"}
    <3>1. \E pc \in {"dispatch", "poll"} :
             Moves(h, pc, m_agentId[h], registering[h], batch[h])
      BY <1>t, <2>1, <2>3 DEF GiveUp, Moves, Go
    <3>2. NoLateReport
      <4> DEFINE Lost(op) == Request(op, m_agentId[h], NoCommand, "")
      <4>1. \/ late' = late \/ late' = late \cup {Lost("poll")}
            \/ late' = late \cup {Lost("heartbeat")}
        BY <2>3 DEF GiveUp
      <4>2. Lost("poll").op = "poll" /\ Lost("heartbeat").op = "heartbeat"
        BY DEF Request
      <4> HIDE DEF Lost
      <4> QED BY <4>1, <4>2 DEF NoLateReport
    <3>3. m_agentId[h] \in AgentIds /\ HostOf[m_agentId[h]] = h
      BY <1>i, <2>3 DEF OnlinePlaces
    <3> QED BY <1>1, <1>3, <1>t, <1>p, <2>1, <3>1, <3>2, <3>3, ClientMoves
  <2>4. CASE agentPc[h] = "unregister"
    <3>1. Moves(h, "stopped", NoId, registering[h], batch[h])
      BY <1>t, <2>1, <2>4 DEF GiveUp, Moves, Go
    <3>2. m_agentId[h] \in AgentIds
      BY <1>i, <2>4 DEF OnlinePlaces
    <3>3. NoLateReport
      <4> DEFINE lost == Request("unregister", m_agentId[h], NoCommand, "")
      <4>1. late' = late \cup {lost}
        BY <2>4 DEF GiveUp
      <4>2. lost.op = "unregister" /\ lost.id = m_agentId[h]
        BY DEF Request
      <4> HIDE DEF lost
      <4> QED BY <3>2, <4>1, <4>2 DEF NoLateReport
    <3> QED BY <1>1, <1>3, <1>t, <1>p, <2>1, <3>1, <3>3, ClientMoves
  <2> QED BY <1>3, <2>2, <2>3, <2>4 DEF GiveUp
<1> QED BY <1>2, <1>3

\* A request nobody waits for any more is served.
LEMMA ServeLateHolds ==
    ASSUME SessionIInv, NEW r \in late, ServeLate(r)
    PROVE  SessionBook' /\ FinalKept /\ (OtherStep \/ AnyReport)
<1>0. /\ SessionTypeOK /\ IInv /\ RunBook /\ LateBook(r)
      /\ \A h \in Hosts : IdBook(h)
      /\ \A q \in late : LateBook(q)
  BY DEF SessionIInv, SessionBook
<1>1. /\ UNCHANGED <<agentPc, m_agentId, registering, batch, outcome, runs>>
      /\ late' = late \ {r}
  BY DEF ServeLate, clientVars
<1>2. CASE r.op = "report"
  <2>1. HandleReportResult(r.cmd, r.status)
    BY <1>2 DEF ServeLate
  <2>2. /\ r.cmd \in CommandIds /\ r.status \in CommandStatus
        /\ runs[r.cmd] # << >> /\ m_commandHistory[r.cmd] \notin FinalStatus
        /\ \A h \in Hosts : \A i \in 1..Len(batch[h]) : batch[h][i] # r.cmd
        /\ \A q \in late : q.op = "report" /\ q.cmd = r.cmd => q = r
    BY <1>0, <1>2 DEF LateBook, Outcomes, CommandStatus
  <2>3. Advance({r.cmd}) /\ AnyReport
    BY <1>0, <2>1, <2>2, ReportAdvances DEF AnyReport
  <2>4. SessionTypeOK' /\ \A h \in Hosts : IdBook(h)'
    BY <1>0, <1>1 DEF SessionTypeOK, IdBook
  <2>5. \A q \in late' : q \in late /\ (q.op = "report" => q.cmd \notin {r.cmd})
    BY <1>1, <2>2
  <2>6. \A c \in {r.cmd} : /\ runs[c] # << >>
                           /\ \A h \in Hosts : \A i \in 1..Len(batch[h]) :
                                 batch[h][i] # c
    BY <2>2
  <2>7. {r.cmd} \in SUBSET CommandIds
    BY <2>2
  <2>8. SessionBook'
    BY <1>1, <2>3, <2>4, <2>5, <2>6, <2>7, BatchesKept
  <2> QED BY <2>2, <2>3, <2>8 DEF Advance, FinalKept
<1>3. CASE r.op # "report"
  <2>1. \/ HandlePollCommands(r.id) \/ HandleHeartbeat(r.id)
        \/ r.id \in AgentIds /\ HandleUnregister(r.id)
    BY <1>0, <1>3 DEF ServeLate, LateBook
  <2>2. r.id \in AgentIds
    BY <1>0, <2>1 DEF HandlePollCommands, HandleHeartbeat, IdKnown, IInv, TypeOK
  <2>3. OtherStep
    BY <2>1, <2>2 DEF OtherStep
  <2>4. NoLateReport
    BY <1>1 DEF NoLateReport
  <2> QED BY <1>1, <2>3, <2>4, ClientsIdle
<1> QED BY <1>2, <1>3

\* The server's restart ends the calls that wait for it.
LEMMA SessionRestartHolds ==
    ASSUME SessionIInv, SessionServerRestart
    PROVE  SessionBook' /\ FinalKept /\ OtherStep
<1>0. SessionTypeOK /\ IInv /\ RunBook /\ \A h \in Hosts : IdBook(h)
  BY DEF SessionIInv, SessionBook
<1>1. OtherStep /\ UNCHANGED <<m_agentId, batch, outcome, late, runs>>
  BY DEF SessionServerRestart, OtherStep
<1>2. Advance({})
  BY <1>0, <1>1, OtherStepAdvances
<1>3. \A h \in Hosts :
         /\ agentPc'[h] \in Places /\ agentPc'[h] # "regWait"
         /\ agentPc'[h] \in OnlinePlaces => agentPc[h] \in OnlinePlaces
         /\ agentPc'[h] = "report" <=> agentPc[h] = "report"
  BY <1>0 DEF SessionServerRestart, SessionTypeOK, Places, OnlinePlaces
<1>4. SessionTypeOK'
  BY <1>0, <1>1, <1>3 DEF SessionServerRestart, SessionTypeOK
<1>5. \A h \in Hosts : IdBook(h)'
  BY <1>0, <1>1, <1>3 DEF IdBook
<1>6. SessionBook'
  BY <1>1, <1>2, <1>3, <1>4, <1>5, BatchesKept
<1> QED BY <1>1, <1>2, <1>6 DEF Advance, FinalKept

\* Every step of the composition, faults included, keeps the books and is a step
\* of the server.
LEMMA SessionStepHolds ==
    ASSUME SessionIInv, [SessionNext \/ Fault]_sessionVars
    PROVE  SessionBook' /\ FinalKept /\ (OtherStep \/ AnyReport)
<1>t. SessionTypeOK
  BY DEF SessionIInv, SessionBook
<1>1. ASSUME OtherStep, UNCHANGED <<clientVars, late, runs>>
      PROVE  SessionBook' /\ FinalKept
  BY <1>1, ClientsIdle DEF clientVars, NoLateReport
<1>2. ASSUME NEW a \in AgentIds, ServerStep(a)
      PROVE  SessionBook' /\ FinalKept /\ OtherStep
  BY <1>1, <1>2 DEF ServerStep, OtherStep
<1>3. ASSUME NEW c \in CommandIds, ServerPush(c)
      PROVE  SessionBook' /\ FinalKept /\ OtherStep
  BY <1>1, <1>3 DEF ServerPush, OtherStep
<1>4. CASE TeacherStep
  BY <1>1, <1>4 DEF TeacherStep, OtherStep
<1>5. ASSUME NEW h \in Hosts, AgentStep(h)
      PROVE  SessionBook' /\ FinalKept /\ (OtherStep \/ AnyReport)
  BY <1>5, AgentStepHolds
<1>6. ASSUME NEW h \in Hosts,
             HeartbeatIntervalElapses(h) \/ TokenExpires(h) \/ RequestStop(h)
      PROVE  SessionBook' /\ FinalKept /\ OtherStep
  <2>1. /\ UNCHANGED <<agentPc, m_agentId, registering, batch, outcome, runs>>
        /\ OtherStep /\ NoLateReport
    BY <1>6 DEF HeartbeatIntervalElapses, TokenExpires, RequestStop, OtherStep,
         NoLateReport
  <2> QED BY <2>1, ClientsIdle
<1>7. ASSUME NEW h \in Hosts, GiveUp(h)
      PROVE  SessionBook' /\ FinalKept /\ OtherStep
  BY <1>7, GiveUpHolds
<1>8. ASSUME NEW h \in Hosts, AgentRestart(h)
      PROVE  SessionBook' /\ FinalKept /\ OtherStep
  <2>1. /\ OtherStep /\ NoLateReport /\ UNCHANGED runs
        /\ Moves(h, "register", NoId, NoId, << >>)
        /\ outcome' = [outcome EXCEPT ![h] = "Pending"]
    BY <1>8 DEF AgentRestart, OtherStep, NoLateReport, Moves
  <2>2. "register" \in Places /\ "register" \notin OnlinePlaces
    BY DEF Places, OnlinePlaces
  <2> QED BY <2>1, <2>2, ClientMoves
<1>9. ASSUME NEW r \in late, ServeLate(r)
      PROVE  SessionBook' /\ FinalKept /\ (OtherStep \/ AnyReport)
  BY <1>9, ServeLateHolds
<1>10. CASE SessionServerRestart
  BY <1>10, SessionRestartHolds
<1>11. CASE UNCHANGED sessionVars
  <2>1. OtherStep /\ UNCHANGED <<clientVars, late, runs>>
    BY <1>11 DEF sessionVars, OtherStep
  <2> QED BY <1>1, <2>1
<1> QED
  BY <1>2, <1>3, <1>4, <1>5, <1>6, <1>7, <1>8, <1>9, <1>10, <1>11
     DEF SessionNext, Fault

\* A step of the server, reports of any status included, keeps the invariant of
\* the handlers.
LEMMA ServerStepIInv ==
    ASSUME ControllerAssumption, IInv, OtherStep \/ AnyReport
    PROVE  IInv'
<1>1. OtherStep => [Next]_vars
  BY DEF OtherStep, Next
<1> QED BY <1>1, NextIInv, ReportIInv

\* The invariant of handlers and clients together, in every state that any
\* faults can lead to.
THEOREM SessionInductive == FaultySpec => []SessionIInv
<1>1. SessionInit => SessionIInv
  <2> SUFFICES ASSUME SessionInit PROVE SessionIInv
    OBVIOUS
  <2>1. IInv
    BY InitIInv DEF SessionInit
  <2>2. SessionTypeOK
    <3>1. \A S : << >> \in Seq(S)
      OBVIOUS
    <3> QED BY <3>1 DEF SessionInit, SessionTypeOK, Places
  <2>3. \A h \in Hosts : batch[h] = << >> /\ agentPc[h] = "register"
    BY DEF SessionInit
  <2>4. \A h \in Hosts : IdBook(h) /\ BatchBook(h) /\ ReportBook(h)
    BY <2>3 DEF IdBook, BatchBook, ReportBook, OnlinePlaces
  <2>5. \A c \in CommandIds : runs[c] = << >> /\ m_commandHistory[c] = NoEntry
    BY DEF SessionInit, Init, RegistryInit
  <2>6. RunBook /\ ExecutedAtMostOnce
    BY <2>5 DEF RunBook, ExecutedAtMostOnce, NoEntry, FinalStatus
  <2>7. late = {}
    BY DEF SessionInit
  <2> QED BY <2>1, <2>2, <2>4, <2>6, <2>7 DEF SessionIInv, SessionBook
<1>2. SessionIInv /\ [SessionNext \/ Fault]_sessionVars => SessionIInv'
  BY SessionStepHolds, ServerStepIInv, ControllerAssumption
     DEF SessionIInv
<1> QED BY <1>1, <1>2, PTL DEF FaultySpec

\* However requests and answers are lost or late and processes restarted, no
\* command is executed twice, or on another machine than its agent's.
THEOREM NoDoubleExecution == FaultySpec => []ExecutedAtMostOnce
<1>1. SessionIInv => ExecutedAtMostOnce
  BY DEF SessionIInv, SessionBook
<1> QED BY <1>1, SessionInductive, PTL

\* Under the same faults a final status is that of a command that was executed,
\* and it is final.
THEOREM FinalIsFinal == FaultySpec => FinalStatusIsTrue
<1>1. SessionIInv /\ SessionIInv' /\ [SessionNext \/ Fault]_sessionVars
      => [\A c \in CommandIds :
             /\ m_commandHistory'[c] \in FinalStatus => runs'[c] # << >>
             /\ m_commandHistory[c] \in FinalStatus
                   => m_commandHistory'[c] \in {m_commandHistory[c], NoEntry}
         ]_sessionVars
  BY SessionStepHolds DEF SessionIInv, SessionBook, RunBook, FinalKept
<1> QED
  BY <1>1, SessionInductive, PTL DEF FaultySpec, FinalStatusIsTrue

\* The composition with faulty agents shows the handlers nothing they were not
\* ready for: what holds of their commands holds under all faults.
THEOREM FaultsKeepDelivery ==
    FaultySpec => [](NoRedelivery /\ AckedFate) /\ ImplementsDelivery
<1>1. SessionIInv => NoRedelivery /\ AckedFate
  BY DEF SessionIInv, IInv
<1>2. SessionInit => Delivery!Init
  BY DEF SessionInit, Init, Delivery!Init, Fate
<1>3. SessionIInv /\ [SessionNext \/ Fault]_sessionVars
      => [Delivery!Next]_Delivery!deliveryVars
  <2> SUFFICES ASSUME SessionIInv, [SessionNext \/ Fault]_sessionVars
               PROVE  [Delivery!Next]_Delivery!deliveryVars
    OBVIOUS
  <2>1. OtherStep \/ AnyReport
    BY SessionStepHolds
  <2>2. CASE OtherStep
    <3>1. [Next]_vars
      BY <2>2 DEF OtherStep, Next
    <3> QED BY <3>1, DeliveryStep, ControllerAssumption DEF SessionIInv
  <2>3. CASE AnyReport
    BY <2>3, QuietIsStutter
       DEF AnyReport, HandleReportResult, ReportCommandResult, controllerVars
  <2> QED BY <2>1, <2>2, <2>3
<1> QED
  BY <1>1, <1>2, <1>3, SessionInductive, PTL
     DEF FaultySpec, ImplementsDelivery, Delivery!Spec

\* Nor does any fault bring an unregistered id back: not a late registration,
\* heartbeat or poll, and not a restart.
THEOREM FaultsDoNotResurrect == FaultySpec => UnregisteredIsForever
<1>1. SessionIInv /\ [SessionNext \/ Fault]_sessionVars
      => [\A a \in agentUuids : ~Registered(a) => ~Registered(a)']_vars
  <2> SUFFICES ASSUME SessionIInv, [SessionNext \/ Fault]_sessionVars
               PROVE  [\A a \in agentUuids : ~Registered(a) => ~Registered(a)']_vars
    OBVIOUS
  <2>1. OtherStep \/ AnyReport
    BY SessionStepHolds
  <2>2. CASE OtherStep
    <3>1. [Next]_vars
      BY <2>2 DEF OtherStep, Next
    <3> QED BY <3>1, GoneStaysGone DEF SessionIInv
  <2>3. CASE AnyReport
    BY <2>3 DEF AnyReport, HandleReportResult, ReportCommandResult, Registered
  <2> QED BY <2>1, <2>2, <2>3
<1> QED BY <1>1, SessionInductive, PTL DEF FaultySpec, UnregisteredIsForever
============================================================================
