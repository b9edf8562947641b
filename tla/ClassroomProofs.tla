-------------------------- MODULE ClassroomProofs --------------------------
(***************************************************************************)
(* Proofs about SchoolStructure and FeatureControl, for any number of      *)
(* schools, locations, classes, teachers and handlers, and of agents,      *)
(* computers, features and commands.                                       *)
(*                                                                         *)
(* StructureHolds is not inductive alone: a removed location must not take *)
(* a class away, nor a class a location that a teacher has access to,      *)
(* although both tables share schoolOf.  RowKinds says which ids a table   *)
(* can hold.  ActiveIsTold needs what is known of an agent that has not    *)
(* registered yet (NotYetTold), and that an id is registered once only, so *)
(* that an agent whose command was dropped is gone for good                *)
(* (DroppedAreGone).                                                       *)
(***************************************************************************)
EXTENDS FeatureControl, SchoolStructure, TLAPS

\* Only class ids have a teacher column, and access is to locations; a
\* handler that is to assign a location has a location in hand.
RowKinds ==
    /\ DOMAIN teacherOf \subseteq ClassIds
    /\ \A p \in teacher_locations : p[2] \in Locations
    /\ \A h \in Handlers :
          handler[h].op \in {"findLocation", "assign"}
             => handler[h].ref \in Locations
    /\ DOMAIN handler = Handlers

SchoolsHold  == \A r \in DOMAIN schoolOf : schoolOf[r] \in schools
ClassesHold  == \A c \in DOMAIN teacherOf :
                   c \in DOMAIN schoolOf /\ IsTeacherOrNull(teacherOf[c])
AccessHolds  == \A p \in teacher_locations :
                   p[1] \in DOMAIN usernameOf /\ p[2] \in DOMAIN schoolOf
NamesUnique  == \A t, u \in DOMAIN usernameOf :
                   usernameOf[t] = usernameOf[u] => t = u

StructureIInv ==
    RowKinds /\ SchoolsHold /\ ClassesHold /\ AccessHolds /\ NamesUnique

----------------------------------------------------------------------------

\* What Without returns.
LEMMA WithoutFacts ==
    ASSUME NEW f, NEW S
    PROVE  /\ DOMAIN Without(f, S) = DOMAIN f \ S
           /\ \A y \in DOMAIN f \ S : Without(f, S)[y] = f[y]
BY DEF Without

\* The tables are empty at first.
LEMMA InitHolds == StructureInit => StructureIInv
BY DEF StructureInit, StructureIInv, RowKinds, SchoolsHold, ClassesHold,
       AccessHolds, NamesUnique, AtRest, IsTeacherOrNull

\* Every statement keeps the keys, whatever was removed since its handler's
\* look-ups.
LEMMA StepHolds ==
    ASSUME StructureAssumption, StructureIInv, [StructureNext]_structureVars
    PROVE  StructureIInv'
<1> USE DEF StructureIInv, StructureAssumption
<1>1. ASSUME NEW h \in Handlers, NEW u \in TeacherNames, HandleCreateTeacher(h, u)
      PROVE  StructureIInv'
  BY <1>1 DEF HandleCreateTeacher, Goes, structureRows, AtRest, RowKinds,
       SchoolsHold, ClassesHold, AccessHolds, NamesUnique, IsTeacherOrNull
<1>2. ASSUME NEW h \in Handlers, NEW t \in TeacherIds, CreateTeacherRow(h, t)
      PROVE  StructureIInv'
  <2>1. RowKinds' /\ SchoolsHold'
    BY <1>2 DEF CreateTeacherRow, Ends, AtRest, RowKinds, SchoolsHold
  <2>2. CASE NameTaken(handler[h].ref)
    BY <1>2, <2>1, <2>2 DEF CreateTeacherRow, ClassesHold, AccessHolds,
         NamesUnique, IsTeacherOrNull
  <2>3. CASE ~NameTaken(handler[h].ref)
    <3>1. usernameOf' = With(usernameOf, t, handler[h].ref)
      BY <1>2, <2>3 DEF CreateTeacherRow
    <3>2. /\ DOMAIN usernameOf' = DOMAIN usernameOf \cup {t}
          /\ usernameOf'[t] = handler[h].ref
          /\ \A y \in DOMAIN usernameOf : y # t => usernameOf'[y] = usernameOf[y]
      BY <3>1 DEF With
    <3>3. ClassesHold' /\ AccessHolds'
      BY <1>2, <3>2 DEF CreateTeacherRow, ClassesHold, AccessHolds, IsTeacherOrNull
    <3>4. NamesUnique'
      BY <2>3, <3>2 DEF NamesUnique, NameTaken
    <3> QED BY <2>1, <3>3, <3>4
  <2> QED BY <2>2, <2>3
<1>3. ASSUME NEW h \in Handlers, NEW t \in TeacherIds, NEW l \in Locations,
             HandleAssignLocation(h, t, l)
      PROVE  StructureIInv'
  BY <1>3 DEF HandleAssignLocation, Goes, structureRows, AtRest, RowKinds,
       SchoolsHold, ClassesHold, AccessHolds, NamesUnique, IsTeacherOrNull
<1>4. ASSUME NEW h \in Handlers, AssignFindLocation(h)
      PROVE  StructureIInv'
  <2>1. RowKinds'
    BY <1>4 DEF AssignFindLocation, Goes, Ends, structureRows, AtRest, RowKinds
  <2> QED
    BY <1>4, <2>1 DEF AssignFindLocation, structureRows, SchoolsHold,
         ClassesHold, AccessHolds, NamesUnique, IsTeacherOrNull
<1>5. ASSUME NEW h \in Handlers, Assign(h)
      PROVE  StructureIInv'
  <2>1. RowKinds'
    BY <1>5 DEF Assign, Ends, AtRest, RowKinds
  <2>2. AccessHolds'
    BY <1>5 DEF Assign, AccessHolds
  <2> QED
    BY <1>5, <2>1, <2>2 DEF Assign, SchoolsHold, ClassesHold, NamesUnique,
         IsTeacherOrNull
<1>6. ASSUME NEW s \in Schools, HandleCreateSchool(s)
      PROVE  StructureIInv'
  BY <1>6 DEF HandleCreateSchool, RowKinds, SchoolsHold, ClassesHold,
       AccessHolds, NamesUnique, IsTeacherOrNull
<1>7. ASSUME NEW s \in Schools, NEW l \in Locations, HandleCreateLocation(l, s)
      PROVE  StructureIInv'
  <2>1. /\ DOMAIN schoolOf' = DOMAIN schoolOf \cup {l}
        /\ schoolOf'[l] = s
        /\ \A y \in DOMAIN schoolOf : y # l => schoolOf'[y] = schoolOf[y]
    BY <1>7 DEF With, HandleCreateLocation
  <2> QED
    BY <1>7, <2>1 DEF HandleCreateLocation, RowKinds, SchoolsHold, ClassesHold,
         AccessHolds, NamesUnique, IsTeacherOrNull
<1>8. ASSUME NEW s \in Schools, NEW c \in ClassIds, NEW t \in TeacherIds \cup {Null},
             HandleCreateClass(c, s, t)
      PROVE  StructureIInv'
  <2>1. /\ DOMAIN schoolOf' = DOMAIN schoolOf \cup {c}
        /\ schoolOf'[c] = s
        /\ \A y \in DOMAIN schoolOf : y # c => schoolOf'[y] = schoolOf[y]
    BY <1>8 DEF With, HandleCreateClass
  <2>2. /\ DOMAIN teacherOf' = DOMAIN teacherOf \cup {c}
        /\ teacherOf'[c] = t
        /\ \A y \in DOMAIN teacherOf : y # c => teacherOf'[y] = teacherOf[y]
    BY <1>8 DEF With, HandleCreateClass
  <2> QED
    BY <1>8, <2>1, <2>2 DEF HandleCreateClass, RowKinds, SchoolsHold, ClassesHold,
         AccessHolds, NamesUnique, IsTeacherOrNull
<1>9. ASSUME NEW c \in ClassIds, NEW t \in TeacherIds \cup {Null},
             HandleUpdateClass(c, t)
      PROVE  StructureIInv'
  <2>1. /\ DOMAIN teacherOf' = DOMAIN teacherOf
        /\ teacherOf'[c] = t
        /\ \A y \in DOMAIN teacherOf : y # c => teacherOf'[y] = teacherOf[y]
    BY <1>9 DEF With, HandleUpdateClass
  <2> QED
    BY <1>9, <2>1 DEF HandleUpdateClass, RowKinds, SchoolsHold, ClassesHold,
         AccessHolds, NamesUnique, IsTeacherOrNull
<1>10. ASSUME NEW s \in Schools, HandleDeleteSchool(s)
       PROVE  StructureIInv'
  <2> DEFINE gone == {r \in DOMAIN schoolOf : schoolOf[r] = s}
  <2>1. /\ DOMAIN schoolOf' = DOMAIN schoolOf \ gone
        /\ \A y \in DOMAIN schoolOf \ gone : schoolOf'[y] = schoolOf[y]
    BY <1>10, WithoutFacts DEF HandleDeleteSchool
  <2>2. /\ DOMAIN teacherOf' = DOMAIN teacherOf \ gone
        /\ \A y \in DOMAIN teacherOf \ gone : teacherOf'[y] = teacherOf[y]
    BY <1>10, WithoutFacts DEF HandleDeleteSchool
  <2>3. /\ teacher_locations' = {p \in teacher_locations : p[2] \notin gone}
        /\ schools' = schools \ {s}
        /\ UNCHANGED <<usernameOf, handler>>
    BY <1>10 DEF HandleDeleteSchool
  <2> QED
    BY <2>1, <2>2, <2>3 DEF RowKinds, SchoolsHold, ClassesHold,
         AccessHolds, NamesUnique, IsTeacherOrNull
<1>11. ASSUME NEW l \in Locations, HandleDeleteLocation(l)
       PROVE  StructureIInv'
  <2>1. /\ DOMAIN schoolOf' = DOMAIN schoolOf \ {l}
        /\ \A y \in DOMAIN schoolOf \ {l} : schoolOf'[y] = schoolOf[y]
    BY <1>11, WithoutFacts DEF HandleDeleteLocation
  <2> QED
    BY <1>11, <2>1 DEF HandleDeleteLocation, RowKinds, SchoolsHold, ClassesHold,
         AccessHolds, NamesUnique, IsTeacherOrNull
<1>12. ASSUME NEW c \in ClassIds, HandleDeleteClass(c)
       PROVE  StructureIInv'
  <2>1. /\ DOMAIN schoolOf' = DOMAIN schoolOf \ {c}
        /\ \A y \in DOMAIN schoolOf \ {c} : schoolOf'[y] = schoolOf[y]
    BY <1>12, WithoutFacts DEF HandleDeleteClass
  <2>2. /\ DOMAIN teacherOf' = DOMAIN teacherOf \ {c}
        /\ \A y \in DOMAIN teacherOf \ {c} : teacherOf'[y] = teacherOf[y]
    BY <1>12, WithoutFacts DEF HandleDeleteClass
  <2>3. UNCHANGED <<schools, usernameOf, teacher_locations, handler>>
    BY <1>12 DEF HandleDeleteClass
  <2>4. RowKinds' /\ SchoolsHold' /\ NamesUnique'
    BY <2>1, <2>2, <2>3 DEF RowKinds, SchoolsHold, NamesUnique
  <2>5. ClassesHold'
    BY <2>1, <2>2, <2>3 DEF ClassesHold, IsTeacherOrNull
  <2>6. AccessHolds'
    <3>1. \A p \in teacher_locations : p[2] # c
      BY StructureAssumption DEF RowKinds
    <3> QED BY <2>1, <2>3, <3>1 DEF AccessHolds
  <2> QED BY <2>4, <2>5, <2>6
<1>13. ASSUME NEW t \in TeacherIds, HandleDeleteTeacher(t)
       PROVE  StructureIInv'
  <2>1. /\ DOMAIN usernameOf' = DOMAIN usernameOf \ {t}
        /\ \A y \in DOMAIN usernameOf \ {t} : usernameOf'[y] = usernameOf[y]
    BY <1>13, WithoutFacts DEF HandleDeleteTeacher
  <2>2. /\ DOMAIN teacherOf' = DOMAIN teacherOf
        /\ \A c \in DOMAIN teacherOf : teacherOf'[c] =
              IF teacherOf[c] = t THEN Null ELSE teacherOf[c]
    BY <1>13 DEF HandleDeleteTeacher
  <2> QED
    BY <1>13, <2>1, <2>2 DEF HandleDeleteTeacher, RowKinds, SchoolsHold,
         ClassesHold, AccessHolds, NamesUnique, IsTeacherOrNull
<1>14. ASSUME NEW t \in TeacherIds, NEW l \in Locations, HandleRevokeLocation(t, l)
       PROVE  StructureIInv'
  BY <1>14 DEF HandleRevokeLocation, RowKinds, SchoolsHold, ClassesHold,
       AccessHolds, NamesUnique, IsTeacherOrNull
<1>15. CASE UNCHANGED structureVars
  BY <1>15 DEF structureVars, structureRows, RowKinds, SchoolsHold, ClassesHold,
       AccessHolds, NamesUnique, IsTeacherOrNull
<1> QED
  BY <1>1, <1>2, <1>3, <1>4, <1>5, <1>6, <1>7, <1>8, <1>9, <1>10, <1>11, <1>12,
     <1>13, <1>14, <1>15 DEF StructureNext

\* In every behaviour of the handlers, for any number of rows and handlers:
\* every reference of the schools' tables has its row, and every username one
\* teacher, although handlers look rows up before they write.
THEOREM StructureIntegrity == StructureSpec => []StructureHolds
<1>1. StructureIInv => StructureHolds
  BY DEF StructureIInv, SchoolsHold, ClassesHold, AccessHolds, NamesUnique,
         StructureHolds
<1> QED
  BY InitHolds, StepHolds, StructureAssumption, <1>1, PTL DEF StructureSpec

----------------------------------------------------------------------------
(* The features of the computers *)

\* What the plugin's mutex protects is one batch of one feature.
Sent    == [op : Operations, uid : Features \cup {"none", "past plugin"}]
Batches == [feature : Features \cup {"none"}, op : Operations \cup {"none"},
            todo : SUBSET Computers, done : SUBSET Computers,
            agent : AgentIds \cup {"none"}]

FeatureTypeOK ==
    /\ m_agents \in [AgentIds -> AgentState \cup {Absent}]
    /\ told \in [AgentIds \X Handled -> Sent]
    /\ batch \in Batches
    /\ PluginFree \/ batch.feature \in Features

\* A registered agent has an id that was given out; one that was not was sent
\* nothing, and is in the table only if its newest operation was on the table
\* alone.
NotYetTold ==
    \A a \in AgentIds :
       a \notin uuids =>
          /\ ~Registered(a)
          /\ \A f \in Features :
                /\ told[<<a, agentFeatureUid[f]>>] = [op |-> "stop", uid |-> "none"]
                /\ <<a, f>> \in m_activeFeatures => <<a, f>> \in unsent

\* An agent that a batch has found, and one whose command was dropped, have
\* ids that were given out; the second is not registered and never will be.
DroppedAreGone ==
    /\ batch.agent # "none" => batch.agent \in uuids
    /\ \A a \in AgentIds, f \in Features :
          <<a, f>> \in dropped => a \in uuids /\ ~Registered(a)

FeatureIInv ==
    FeatureTypeOK /\ NotYetTold /\ DroppedAreGone /\ ActiveIsTold /\ BatchIsWhole

\* Nothing is active, and no batch runs at first.
LEMMA FeatureInitHolds ==
    ASSUME FeatureAssumption, FeatureInit
    PROVE  FeatureIInv
<1>1. FeatureTypeOK
  BY DEF FeatureInit, RegistryInit, FeatureTypeOK, NoBatch, PluginFree, Absent,
         Operations, Sent, Batches
<1>2. \A a \in AgentIds, f \in Features :
         told[<<a, agentFeatureUid[f]>>] = [op |-> "stop", uid |-> "none"]
  BY DEF FeatureInit, Handled
<1> QED
  BY <1>1, <1>2 DEF FeatureInit, RegistryInit, FeatureIInv, NotYetTold,
       DroppedAreGone, ActiveIsTold, BatchIsWhole, NoBatch, Registered, Absent

\* queueCommand leaves the agents alone.
LEMMA QueueCommandKeepsAgents ==
    ASSUME NEW c, NEW a, QueueCommand(c, a)
    PROVE  UNCHANGED m_agents
  BY DEF QueueCommand, registryVars

\* What is kept when neither the table nor what agents were told changes, and
\* agents may go.
LEMMA QuietHolds ==
    ASSUME FeatureIInv, UNCHANGED <<m_activeFeatures, toldVars>>,
           uuids \subseteq uuids',
           m_agents' \in [AgentIds -> AgentState \cup {Absent}],
           \A b \in AgentIds : Registered(b)' => Registered(b),
           batch' \in Batches, PluginFree' \/ batch'.feature \in Features,
           batch'.agent # "none" => batch'.agent \in uuids',
           BatchIsWhole'
    PROVE  FeatureIInv'
<1> USE DEF FeatureIInv, toldVars
<1>1. FeatureTypeOK'
  BY DEF FeatureTypeOK
<1>2. NotYetTold' /\ DroppedAreGone'
  BY DEF NotYetTold, DroppedAreGone
<1>3. ActiveIsTold'
  BY DEF ActiveIsTold
<1> QED BY <1>1, <1>2, <1>3

\* What an operation on computer u does: it changes the entry of u and the
\* batch's feature in the table.  Either the agent is told, and the aliases of
\* the feature are no longer those of the newest command; or the agent is gone
\* and the command is dropped; or there was nobody to tell.
LEMMA OperationHolds ==
    ASSUME FeatureAssumption, FeatureIInv, ~PluginFree, NEW u \in Computers,
           UpdateTracking(u),
           \/ u \in AgentIds /\ u \in uuids /\ Tell(u, batch.feature, batch.op)
           \/ /\ unsent' = unsent \cup {<<u, batch.feature>>}
              /\ UNCHANGED <<told, dropped>>,
           batch'.agent = "none", batch'.op = batch.op,
           batch'.feature = batch.feature, batch'.done = batch.done \cup {u},
           batch' \in Batches, UNCHANGED m_agents, uuids \subseteq uuids'
    PROVE  FeatureIInv'
<1> USE DEF FeatureIInv
<1>0. batch.op \in Operations /\ batch.feature \in Features
  BY DEF FeatureTypeOK, PluginFree, Batches
<1>a. agentFeatureUid[batch.feature] \in Handled
  BY <1>0 DEF Handled
<1>n. "none" \notin Features
  BY DEF FeatureAssumption
<1>b. /\ told \in [AgentIds \X Handled -> Sent]
      /\ \A f \in Features : agentFeatureUid[f] \in Handled
  BY DEF FeatureTypeOK, Handled
<1>2. ASSUME NEW v, NEW f \in Features
      PROVE  /\ v # u \/ f # batch.feature =>
                   (<<v, f>> \in m_activeFeatures' <=> <<v, f>> \in m_activeFeatures)
             /\ v = u /\ f = batch.feature =>
                   (<<v, f>> \in m_activeFeatures' <=> batch.op = "start")
  BY <1>0 DEF UpdateTracking, Operations
<1>3. BatchIsWhole'
  BY <1>0, <1>2 DEF BatchIsWhole
<1>t. \/ /\ u \in AgentIds /\ u \in uuids /\ Registered(u)
         /\ told' = [told EXCEPT ![<<u, agentFeatureUid[batch.feature]>>] =
                       [op |-> batch.op, uid |-> batch.feature]]
         /\ dropped' = dropped
         /\ unsent' = unsent \ {<<u, batch.feature>>}
      \/ /\ u \in AgentIds /\ u \in uuids /\ ~Registered(u)
         /\ told' = told
         /\ dropped' = dropped \cup {<<u, batch.feature>>}
         /\ unsent' = unsent \ {<<u, batch.feature>>}
      \/ /\ told' = told
         /\ dropped' = dropped
         /\ unsent' = unsent \cup {<<u, batch.feature>>}
  BY DEF Tell
<1>4. FeatureTypeOK'
  <2>1. [op |-> batch.op, uid |-> batch.feature] \in Sent
    BY <1>0 DEF Sent
  <2>2. told' \in [AgentIds \X Handled -> Sent]
    BY <1>t, <1>a, <1>b, <2>1
  <2> QED BY <1>0, <2>2 DEF FeatureTypeOK, PluginFree
<1>5. ASSUME NEW a \in AgentIds, NEW f \in Features
      PROVE  /\ a # u \/ agentFeatureUid[f] # agentFeatureUid[batch.feature] =>
                   told'[<<a, agentFeatureUid[f]>>] = told[<<a, agentFeatureUid[f]>>]
             /\ a = u /\ agentFeatureUid[f] = agentFeatureUid[batch.feature] =>
                   \/ told'[<<a, agentFeatureUid[f]>>] =
                         [op |-> batch.op, uid |-> batch.feature]
                   \/ told'[<<a, agentFeatureUid[f]>>] =
                         told[<<a, agentFeatureUid[f]>>]
  BY <1>t, <1>a, <1>b
<1>6. DroppedAreGone'
  BY <1>t DEF DroppedAreGone, Registered
<1>7. ASSUME NEW a \in AgentIds, a \notin uuids', NEW f \in Features
      PROVE  /\ ~Registered(a)'
             /\ told'[<<a, agentFeatureUid[f]>>] = [op |-> "stop", uid |-> "none"]
             /\ <<a, f>> \in m_activeFeatures' => <<a, f>> \in unsent'
  <2>1. a \notin uuids
    BY <1>7
  <2>2. /\ ~Registered(a)
        /\ told[<<a, agentFeatureUid[f]>>] = [op |-> "stop", uid |-> "none"]
        /\ <<a, f>> \in m_activeFeatures => <<a, f>> \in unsent
    BY <2>1 DEF NotYetTold
  <2>3. ~Registered(a)'
    BY <2>2 DEF Registered
  <2>4. CASE a # u
    BY <2>2, <2>3, <2>4, <1>2, <1>5, <1>t
  <2>5. CASE a = u
    BY <2>1, <2>2, <2>3, <2>5, <1>2, <1>t
  <2> QED BY <2>4, <2>5
<1>8. NotYetTold'
  <2>1. \A a \in AgentIds : a \notin uuids' => ~Registered(a)'
    BY DEF NotYetTold, Registered
  <2> QED BY <1>7, <2>1 DEF NotYetTold
<1>9. ASSUME NEW a \in AgentIds, NEW f \in Features, Registered(a)'
      PROVE  /\ <<a, f>> \notin dropped'
             /\ told'[<<a, agentFeatureUid[f]>>].uid \in {f, "none"}
                   /\ <<a, f>> \notin unsent' =>
                   (<<a, f>> \in m_activeFeatures'
                      <=> told'[<<a, agentFeatureUid[f]>>].op = "start")
  <2>0. Registered(a)
    BY <1>9 DEF Registered
  <2>1. <<a, f>> \notin dropped'
    BY <1>6, <1>9 DEF DroppedAreGone
  <2>2. told[<<a, agentFeatureUid[f]>>].uid \in {f, "none"}
            /\ <<a, f>> \notin unsent =>
            (<<a, f>> \in m_activeFeatures
               <=> told[<<a, agentFeatureUid[f]>>].op = "start")
    BY <2>0 DEF ActiveIsTold
  <2>3. CASE a # u
    BY <2>1, <2>2, <2>3, <1>2, <1>5, <1>t
  <2>4. CASE a = u /\ f = batch.feature
    <3>1. <<a, f>> \in m_activeFeatures' <=> batch.op = "start"
      BY <2>4, <1>2
    <3> DEFINE newest == told'[<<a, agentFeatureUid[f]>>]
               op     == batch.op
               uid    == batch.feature
    <3>2. CASE told' = [told EXCEPT ![<<u, agentFeatureUid[batch.feature]>>] =
                          [op |-> batch.op, uid |-> batch.feature]]
      <4>1. newest = [op |-> op, uid |-> uid]
        BY <3>2, <2>4, <1>a, <1>b
      <4>2. newest.op = op /\ newest.uid = uid
        <5> HIDE DEF newest, op, uid
        <5> QED BY ONLY <4>1
      <4> QED BY <4>2, <3>1, <2>1
    <3>3. CASE unsent' = unsent \cup {<<u, batch.feature>>}
      BY <3>3, <2>1, <2>4
    <3> QED BY <3>2, <3>3, <2>0, <2>4, <1>t
  <2>5. CASE a = u /\ f # batch.feature
    <3>1. CASE told'[<<a, agentFeatureUid[f]>>] = [op |-> batch.op, uid |-> batch.feature]
      <4> DEFINE newest == told'[<<a, agentFeatureUid[f]>>]
                 op     == batch.op
                 uid    == batch.feature
      <4>0. newest = [op |-> op, uid |-> uid]
        BY <3>1
      <4>1. newest.uid = uid
        <5> HIDE DEF newest, op, uid
        <5> QED BY ONLY <4>0
      <4>2. batch.feature # f /\ batch.feature # "none"
        BY <2>5, <1>0, <1>n
      <4> QED BY <4>1, <4>2, <2>1
    <3>2. CASE told'[<<a, agentFeatureUid[f]>>] = told[<<a, agentFeatureUid[f]>>]
      BY <3>2, <2>1, <2>2, <2>5, <1>2, <1>t
    <3> QED BY <3>1, <3>2, <2>5, <1>5
  <2> QED BY <2>3, <2>4, <2>5
<1>10. ActiveIsTold'
  BY <1>9 DEF ActiveIsTold
<1> QED BY <1>3, <1>4, <1>6, <1>8, <1>10

\* Every step of the plugin and of the registry's other callers.
LEMMA FeatureStepHolds ==
    ASSUME FeatureAssumption, FeatureIInv, [FeatureNext]_featureVars
    PROVE  FeatureIInv'
<1>t. /\ batch \in Batches /\ (PluginFree \/ batch.feature \in Features)
      /\ m_agents \in [AgentIds -> AgentState \cup {Absent}]
      /\ batch.agent # "none" => batch.agent \in uuids
      /\ BatchIsWhole
  BY DEF FeatureIInv, FeatureTypeOK, DroppedAreGone
<1>1. ASSUME NEW uids \in SUBSET Computers \ {{}}, NEW f \in Features,
             NEW op \in Operations, ControlFeatureBatch(uids, f, op)
      PROVE  FeatureIInv'
  <2>1. /\ UNCHANGED <<m_activeFeatures, toldVars, uuids, m_agents>>
        /\ batch' = [feature |-> f, op |-> op, todo |-> uids, done |-> {},
                     agent |-> "none"]
    BY <1>1 DEF ControlFeatureBatch, registryVars
  <2>2. batch' \in Batches /\ batch'.feature \in Features /\ BatchIsWhole'
    BY <2>1 DEF Batches, BatchIsWhole
  <2> QED BY <1>t, <2>1, <2>2, QuietHolds DEF Registered
<1>2. ASSUME NEW a \in Computers, ControlFindAgent(a)
      PROVE  FeatureIInv'
  <2>1. /\ UNCHANGED <<m_activeFeatures, toldVars, uuids, m_agents>>
        /\ batch' = [batch EXCEPT !.agent = a]
        /\ ~PluginFree /\ a \in AgentIds /\ Registered(a)
    BY <1>2 DEF ControlFindAgent, BatchGoesOn, Reachable, registryVars,
         Registered, Absent
  <2>2. /\ batch' \in Batches /\ batch'.feature \in Features
        /\ batch'.agent = a
    BY <1>t, <2>1 DEF Batches
  <2>3. a \in uuids
    BY <2>1 DEF FeatureIInv, NotYetTold
  <2>4. BatchIsWhole'
    <3>1. /\ batch'.done = batch.done /\ batch'.feature = batch.feature
          /\ batch'.op = batch.op
      BY <1>t, <2>1 DEF Batches
    <3>2. m_activeFeatures' = m_activeFeatures
      BY <2>1
    <3> QED BY <1>t, <3>1, <3>2 DEF BatchIsWhole
  <2>5. /\ UNCHANGED <<m_activeFeatures, toldVars>> /\ uuids \subseteq uuids'
        /\ m_agents' \in [AgentIds -> AgentState \cup {Absent}]
        /\ \A b \in AgentIds : Registered(b)' => Registered(b)
    BY <1>t, <2>1 DEF Registered
  <2>6. batch'.agent \in uuids'
    <3>1. uuids' = uuids
      BY <2>1
    <3>2. batch'.agent = a
      BY <2>2
    <3> QED BY <2>3, <3>1, <3>2
  <2> QED BY <2>2, <2>4, <2>5, <2>6, QuietHolds
<1>3. ASSUME NEW u \in Computers, ControlLocally(u)
      PROVE  FeatureIInv'
  <2>1. /\ ~PluginFree /\ UpdateTracking(u) /\ UNCHANGED <<m_agents, uuids>>
        /\ batch.agent = "none"
        /\ unsent' = unsent \cup {<<u, batch.feature>>}
        /\ UNCHANGED <<told, dropped>>
        /\ batch' = [batch EXCEPT !.todo = @ \ {u}, !.done = @ \cup {u}]
    BY <1>3 DEF ControlLocally, BatchGoesOn, registryVars
  <2>3. /\ batch'.agent = "none" /\ batch'.op = batch.op
        /\ batch'.feature = batch.feature /\ batch'.done = batch.done \cup {u}
        /\ batch' \in Batches
    BY <1>t, <2>1 DEF Batches
  <2> QED BY <2>1, <2>3, OperationHolds
<1>4. CASE ControlQueueCommand
  <2> DEFINE a == batch.agent
  <2>1. /\ ~PluginFree /\ UpdateTracking(a) /\ uuids \subseteq uuids'
        /\ a \in AgentIds /\ a \in uuids /\ Tell(a, batch.feature, batch.op)
        /\ batch' = [batch EXCEPT !.todo = @ \ {a}, !.done = @ \cup {a},
                                  !.agent = "none"]
    BY <1>4, <1>t DEF ControlQueueCommand, Batches
  <2>2. UNCHANGED m_agents
    BY <1>4, QueueCommandKeepsAgents DEF ControlQueueCommand
  <2>4. /\ batch'.agent = "none" /\ batch'.op = batch.op
        /\ batch'.feature = batch.feature /\ batch'.done = batch.done \cup {a}
        /\ batch' \in Batches
    BY <1>t, <2>1 DEF Computers, Batches
  <2>5. a \in Computers
    BY <2>1 DEF Computers
  <2> QED BY <2>1, <2>2, <2>4, <2>5, OperationHolds
<1>5. CASE ControlFails
  <2>1. /\ UNCHANGED <<m_activeFeatures, toldVars, uuids, m_agents>>
        /\ batch' = [batch EXCEPT !.todo = @ \ {batch.agent}, !.agent = "none"]
        /\ ~PluginFree
    BY <1>5 DEF ControlFails, registryVars
  <2>2. /\ batch' \in Batches /\ batch'.feature \in Features
        /\ batch'.agent = "none" /\ BatchIsWhole'
    BY <1>t, <2>1 DEF Batches, BatchIsWhole
  <2> QED BY <1>t, <2>1, <2>2, QuietHolds DEF Registered
<1>6. CASE BatchEnds
  <2>1. /\ UNCHANGED <<m_activeFeatures, toldVars, uuids, m_agents>>
        /\ batch' = NoBatch
    BY <1>6 DEF BatchEnds, registryVars
  <2>2. batch' \in Batches /\ PluginFree' /\ batch'.agent = "none" /\ BatchIsWhole'
    BY <2>1 DEF Batches, BatchIsWhole, NoBatch, PluginFree
  <2> QED BY <1>t, <2>1, <2>2, QuietHolds DEF Registered
<1>7. ASSUME NEW a \in AgentIds, RegisterNew(a)
      PROVE  FeatureIInv'
  <2>0. /\ a \notin uuids /\ uuids' = uuids \cup {a}
        /\ UNCHANGED <<m_activeFeatures, batch, told, unsent, dropped>>
        /\ m_agents' = [m_agents EXCEPT ![a] = "Online"]
    BY <1>7 DEF RegisterNew, RegisterAgent, pluginVars, toldVars
  <2>1. FeatureTypeOK' /\ BatchIsWhole'
    BY <2>0 DEF FeatureIInv, FeatureTypeOK, BatchIsWhole, PluginFree, AgentState
  <2>2. \A b \in AgentIds : b # a => (Registered(b)' <=> Registered(b))
    BY <2>0, <1>t DEF Registered
  <2>3. NotYetTold' /\ DroppedAreGone'
    BY <2>0, <2>2 DEF FeatureIInv, NotYetTold, DroppedAreGone
  <2>4. ASSUME NEW b \in AgentIds, NEW f \in Features, Registered(b)'
        PROVE  /\ <<b, f>> \notin dropped
               /\ told[<<b, agentFeatureUid[f]>>].uid \in {f, "none"}
                     /\ <<b, f>> \notin unsent =>
                     (<<b, f>> \in m_activeFeatures
                        <=> told[<<b, agentFeatureUid[f]>>].op = "start")
    <3>1. CASE b = a
      <4>1. /\ told[<<b, agentFeatureUid[f]>>] = [op |-> "stop", uid |-> "none"]
            /\ <<b, f>> \in m_activeFeatures => <<b, f>> \in unsent
            /\ <<b, f>> \notin dropped
        <5>1. b \notin uuids
          BY <2>0, <3>1
        <5>2. <<b, f>> \notin dropped
          BY <5>1 DEF FeatureIInv, DroppedAreGone
        <5> QED BY <5>1, <5>2 DEF FeatureIInv, NotYetTold
      <4> DEFINE newest == told[<<b, agentFeatureUid[f]>>]
      <4>2. newest.op = "stop" /\ "stop" # "start"
        <5>1. newest = [op |-> "stop", uid |-> "none"]
          BY <4>1
        <5> HIDE DEF newest
        <5> QED BY ONLY <5>1
      <4> QED BY <4>1, <4>2
    <3>2. CASE b # a
      BY <2>2, <2>4, <3>2 DEF FeatureIInv, ActiveIsTold
    <3> QED BY <3>1, <3>2
  <2>5. ActiveIsTold'
    BY <2>0, <2>4 DEF ActiveIsTold
  <2> QED BY <2>1, <2>3, <2>5 DEF FeatureIInv
<1>8. ASSUME NEW a \in AgentIds, OtherCalls(a)
      PROVE  FeatureIInv'
  <2>b. \/ UNCHANGED m_agents
        \/ \E s \in AgentState \cup {Absent} :
              /\ s # Absent => m_agents[a] # Absent
              /\ m_agents' = [m_agents EXCEPT ![a] = s]
    <3>1. CASE UnregisterAgent(a)
      BY <3>1 DEF UnregisterAgent
    <3>2. CASE Heartbeat(a)
      BY <3>2 DEF Heartbeat, AgentState, Absent
    <3>3. CASE DequeuePendingCommands(a)
      BY <3>3 DEF DequeuePendingCommands
    <3>4. CASE UpdateState(a, "Offline")
      BY <3>4 DEF UpdateState, AgentState, Registered
    <3> QED BY <1>8, <3>1, <3>2, <3>3, <3>4 DEF OtherCalls
  <2>1. /\ m_agents' \in [AgentIds -> AgentState \cup {Absent}]
        /\ \A b \in AgentIds : Registered(b)' => Registered(b)
    BY <1>t, <2>b DEF Registered
  <2>2. UNCHANGED <<m_activeFeatures, batch, toldVars, uuids>>
    BY <1>8 DEF OtherCalls, pluginVars
  <2>3. (PluginFree' \/ batch'.feature \in Features) /\ BatchIsWhole'
    BY <1>t, <2>2 DEF PluginFree, BatchIsWhole
  <2> QED BY <1>t, <2>1, <2>2, <2>3, QuietHolds
<1>9. ASSUME NEW a \in AgentIds, NEW c \in CommandIds, PushPastPlugin(c, a)
      PROVE  FeatureIInv'
  <2>1. /\ UNCHANGED <<m_agents, m_activeFeatures, batch, unsent, dropped>>
        /\ uuids \subseteq uuids'
    BY <1>9, QueueCommandKeepsAgents DEF PushPastPlugin
  <2>2. /\ (PluginFree' \/ batch'.feature \in Features) /\ BatchIsWhole'
        /\ \A b \in AgentIds : Registered(b)' => Registered(b)
    BY <1>t, <2>1 DEF PluginFree, BatchIsWhole, Registered
  <2>3. CASE UNCHANGED told
    BY <1>t, <2>1, <2>2, <2>3, QuietHolds DEF toldVars
  <2>4. ASSUME NEW h \in Handled,
               told' = [told EXCEPT ![<<a, h>>].uid = "past plugin"],
               a \in uuids
        PROVE  FeatureIInv'
    <3>0. told \in [AgentIds \X Handled -> Sent]
      BY DEF FeatureIInv, FeatureTypeOK
    <3>1. told' \in [AgentIds \X Handled -> Sent]
      BY <2>4, <3>0 DEF Sent
    <3>2. FeatureTypeOK'
      BY <1>t, <2>1, <2>2, <3>1 DEF FeatureTypeOK
    <3>3. ASSUME NEW b \in AgentIds, NEW f \in Features
          PROVE  \/ /\ b = a
                    /\ told'[<<b, agentFeatureUid[f]>>].uid = "past plugin"
                 \/ told'[<<b, agentFeatureUid[f]>>] = told[<<b, agentFeatureUid[f]>>]
      <4>1. <<b, agentFeatureUid[f]>> \in AgentIds \X Handled
        BY DEF Handled
      <4> QED BY <2>4, <3>0, <4>1 DEF Sent
    <3>n. ASSUME NEW b \in AgentIds, b \notin uuids', NEW f \in Features
          PROVE  /\ told'[<<b, agentFeatureUid[f]>>] = [op |-> "stop", uid |-> "none"]
                 /\ <<b, f>> \in m_activeFeatures' => <<b, f>> \in unsent'
      <4>1. b # a /\ b \notin uuids
        BY <3>n, <2>1, <2>4
      <4>2. told'[<<b, agentFeatureUid[f]>>] = told[<<b, agentFeatureUid[f]>>]
        <5>1. <<b, agentFeatureUid[f]>> \in AgentIds \X Handled
          BY DEF Handled
        <5> QED BY <2>4, <3>0, <4>1, <5>1
      <4> QED BY <2>1, <4>1, <4>2 DEF FeatureIInv, NotYetTold
    <3>r. \A b \in AgentIds : Registered(b)' <=> Registered(b)
      BY <2>1 DEF Registered
    <3>4. NotYetTold' /\ DroppedAreGone'
      <4>1. NotYetTold'
        BY <2>1, <3>n, <3>r DEF FeatureIInv, NotYetTold
      <4>2. DroppedAreGone'
        BY <2>1, <3>r DEF FeatureIInv, DroppedAreGone
      <4> QED BY <4>1, <4>2
    <3>5. ActiveIsTold'
      BY <2>1, <2>2, <3>3, FeatureAssumption
         DEF FeatureIInv, ActiveIsTold, FeatureAssumption
    <3> QED BY <2>2, <3>2, <3>4, <3>5 DEF FeatureIInv
  <2> QED BY <1>9, <2>3, <2>4 DEF PushPastPlugin
<1>10. CASE LoseFeatures
  <2>1. /\ m_agents' = [b \in AgentIds |-> Absent]
        /\ m_activeFeatures' = {} /\ unsent' = {}
        /\ batch' = NoBatch
        /\ UNCHANGED <<uuids, told, dropped>>
    BY <1>10 DEF LoseFeatures, LoseRegistry
  <2>2. FeatureTypeOK' /\ BatchIsWhole'
    BY <2>1 DEF FeatureIInv, FeatureTypeOK, BatchIsWhole, NoBatch, Batches,
         PluginFree
  <2>3. \A b \in AgentIds : ~Registered(b)'
    BY <2>1 DEF Registered
  <2>4. NotYetTold' /\ DroppedAreGone' /\ ActiveIsTold'
    BY <2>1, <2>3 DEF FeatureIInv, NotYetTold, DroppedAreGone, ActiveIsTold,
         NoBatch
  <2> QED BY <2>2, <2>4 DEF FeatureIInv
<1>11. CASE UNCHANGED featureVars
  <2>1. UNCHANGED <<m_agents, m_activeFeatures, batch, toldVars, uuids>>
    BY <1>11 DEF featureVars, registryVars, pluginVars
  <2>2. (PluginFree' \/ batch'.feature \in Features) /\ BatchIsWhole'
    BY <1>t, <2>1 DEF PluginFree, BatchIsWhole
  <2> QED BY <1>t, <2>1, <2>2, QuietHolds DEF Registered
<1> QED
  BY <1>1, <1>2, <1>3, <1>4, <1>5, <1>6, <1>7, <1>8, <1>9, <1>10, <1>11
     DEF FeatureNext

\* For any agents, features and aliases among them: no command for an agent
\* that is registered was ever dropped between its look-up and its queueing, and
\* the table of active features says of the uid of the newest command what the
\* command says, through unregistrations, restarts and other callers of the
\* registry, unless the uid was entered since with nobody to tell.
THEOREM ActiveFollowsCommands == FeatureSpec => []ActiveIsTold
  BY FeatureInitHolds, FeatureStepHolds, FeatureAssumption, PTL
     DEF FeatureSpec, FeatureIInv

\* Until a batch ends, the table keeps its operation for every computer it will
\* report as done.
THEOREM BatchesAreWhole == FeatureSpec => []BatchIsWhole
  BY FeatureInitHolds, FeatureStepHolds, FeatureAssumption, PTL
     DEF FeatureSpec, FeatureIInv
=============================================================================
