-------------------------- MODULE AgentPartsProofs -------------------------
(***************************************************************************)
(* Proofs about the parts inside an agent: its feature handlers            *)
(* (AgentFeatures), the threads of its stream (StreamPipeline), the        *)
(* connection the stream goes out on (WebRtcProducer) and the packets it   *)
(* goes out in (RtpPacketizer).  The parts share no variable.  The first   *)
(* three have inductive invariants in named parts that say where the       *)
(* threads can be and what each place means for the data they share.  The  *)
(* packets are built by loops: what a loop does follows by induction over  *)
(* its turns, which rests on the well-foundedness of the natural numbers.  *)
(***************************************************************************)
EXTENDS AgentFeatures, StreamPipeline, WebRtcProducer, RtpPacketizer,
        SequenceTheorems, WellFoundedInduction, TLAPS

----------------------------------------------------------------------------
(* The feature handlers *)

FeaturesTypeOK ==
    /\ main \in {"loop", "lockWait", "failJoin", "unlockJoin", "boxJoin", "ended"}
    /\ lockThread \in {"none", "creating", "shown", "ended"}
    /\ boxThread \in {"none", "opening", "open", "ended"}
    /\ stopping \in BOOLEAN /\ m_locked \in BOOLEAN /\ m_lockHwnd \in BOOLEAN
    /\ m_inputBlocked \in BOOLEAN /\ inputLocked \in BOOLEAN
    /\ m_active \in BOOLEAN /\ blocked \in BOOLEAN
    /\ handlers \subseteq {"screen", "input", "message"}

\* The thread of the overlay exists while ScreenLock is locked, or is being
\* locked; the handle can be that of another window than the one it stands for
\* only after the user closed an overlay; WM_CLOSE is on its way to an overlay
\* only while the command that posted it waits for its end.
ScreenBook ==
    /\ main \in {"lockWait", "failJoin"} => ~m_locked /\ lockThread # "none"
    /\ main = "unlockJoin" => m_locked
    /\ m_locked => lockThread # "none"
    /\ ~m_locked /\ main \notin {"lockWait", "failJoin"} => lockThread = "none"
    /\ "overlay" \in closing => main = "unlockJoin" /\ lockThread = "shown"
    /\ m_inputBlocked => m_locked /\ main # "unlockJoin"
    /\ "overlay" \notin interfered =>
          /\ m_lockHwnd => lockThread = "shown" /\ main # "unlockJoin"
          /\ m_locked /\ main # "unlockJoin" => lockThread = "shown"
          /\ main = "unlockJoin" => lockThread \in {"shown", "ended"}

\* A box that is active has a thread, and a joining command an active box.
MessageBook ==
    /\ m_active <=> boxThread # "none"
    /\ main = "boxJoin" => m_active

\* A destructor runs after the last command and leaves its handler's lock, or
\* its box, only to the join it is waiting in.
EndBook ==
    /\ handlers # {"screen", "input", "message"} => stopping
    /\ stopping => main \notin {"lockWait", "failJoin"}
    /\ "screen" \notin handlers => ~m_locked \/ main = "unlockJoin"
    /\ "input" \notin handlers => ~inputLocked
    /\ "message" \notin handlers => ~m_active \/ main = "boxJoin"
    /\ stopping /\ main = "boxJoin" => then = "return"
    /\ main = "ended" => stopping /\ handlers = {}

FeaturesIInv ==
    /\ FeaturesTypeOK /\ ScreenBook /\ MessageBook /\ EndBook
    /\ InputFollowsFlags

LEMMA FeaturesInitHolds == FeaturesInit => FeaturesIInv
  BY DEF FeaturesInit, FeaturesIInv, FeaturesTypeOK, ScreenBook, MessageBook,
       EndBook, InputFollowsFlags

\* The books say what the property says of them.
LEMMA FeaturesIInvSuffices == FeaturesIInv => LocksAreHeld
  BY DEF FeaturesIInv, FeaturesTypeOK, ScreenBook, MessageBook, EndBook,
       InputFollowsFlags, LocksAreHeld, ScreenFollowsLock

\* Every thread, and the user, keeps the books.
LEMMA FeaturesStepHolds ==
    FeaturesIInv /\ [FeaturesNext]_featureHandlerVars => FeaturesIInv'
<1> SUFFICES ASSUME FeaturesIInv, [FeaturesNext]_featureHandlerVars
             PROVE  FeaturesIInv'
  OBVIOUS
<1> USE DEF FeaturesIInv, FeaturesTypeOK, ScreenBook, MessageBook, EndBook,
          InputFollowsFlags, screenVars, messageVars
<1>1. CASE LockStart
  BY <1>1 DEF LockStart, Ready
<1>2. CASE LockStop
  BY <1>2 DEF LockStop, DestroyLock, Ready
<1>3. CASE InputStart
  BY <1>3 DEF InputStart, Ready
<1>4. CASE InputStop
  BY <1>4 DEF InputStop, Unblock, Ready
<1>5. ASSUME NEW next \in {"show", "showUntitled", "fail", "return"},
             DisplayCommand(next)
      PROVE  FeaturesIInv'
  <2>1. CASE m_active
    BY <1>5, <2>1 DEF DisplayCommand, CloseMessageBox, Ready
  <2>2. CASE ~m_active
    <3>1. /\ main = "loop" /\ ~stopping /\ UNCHANGED <<main, stopping, handlers>>
          /\ UNCHANGED <<lockThread, screenVars, inputLocked, closing, blocked,
                         interfered>>
          /\ m_active' = TRUE /\ boxThread' = "opening"
      BY <1>5, <2>2 DEF DisplayCommand, Ready, Show
    <3> QED BY <2>2, <3>1
  <2> QED BY <2>1, <2>2
<1>6. CASE StopAgent
  BY <1>6 DEF StopAgent, Ready
<1>7. CASE LockWaitEnds
  BY <1>7 DEF LockWaitEnds
<1>8. CASE FailJoin
  BY <1>8 DEF FailJoin
<1>9. CASE UnlockJoin
  BY <1>9 DEF UnlockJoin
<1>10. CASE BoxJoin
  BY <1>10 DEF BoxJoin, Show
<1>11. CASE AgentEnds
  BY <1>11 DEF AgentEnds
<1>12. ASSUME NEW h \in handlers, DestroyHandler(h)
       PROVE  FeaturesIInv'
  <2>1. CASE Holds(h) /\ h = "screen"
    BY <1>12, <2>1 DEF DestroyHandler, DestroyLock, Holds
  <2>2. CASE Holds(h) /\ h = "input"
    BY <1>12, <2>2 DEF DestroyHandler, Unblock, Holds
  <2>3. CASE Holds(h) /\ h = "message"
    BY <1>12, <2>3 DEF DestroyHandler, CloseMessageBox, Holds
  <2>4. CASE ~Holds(h)
    BY <1>12, <2>4 DEF DestroyHandler, Holds
  <2> QED BY <2>1, <2>2, <2>3, <2>4 DEF Holds
<1>13. CASE WindowCreated
  BY <1>13 DEF WindowCreated
<1>14. CASE WindowFails
  BY <1>14 DEF WindowFails
<1>15. CASE OverlayClosed
  BY <1>15 DEF OverlayClosed
<1>16. CASE BoxOpens
  BY <1>16 DEF BoxOpens
<1>17. CASE BoxEnds
  BY <1>17 DEF BoxEnds
<1>18. CASE UserClosesOverlay
  BY <1>18 DEF UserClosesOverlay
<1>19. CASE CtrlAltDel
  BY <1>19, ZenonT(60) DEF CtrlAltDel
<1>20. CASE UNCHANGED featureHandlerVars
  BY <1>20 DEF featureHandlerVars
<1> QED
  BY <1>1, <1>2, <1>3, <1>4, <1>5, <1>6, <1>7, <1>8, <1>9, <1>10, <1>11,
     <1>12, <1>13, <1>14, <1>15, <1>16, <1>17, <1>18, <1>19, <1>20
     DEF FeaturesNext, MainThread, LockThread, BoxThread, Destructors,
         BoxClosed, UserDismissesBox

\* What the handlers hold of the machine is what they believe to hold, and an
\* agent that has ended leaves nothing behind: for every order of commands,
\* windows, timeouts and what the user does to them.
THEOREM HandlersHoldTheirLocks == FeaturesSpec => []LocksAreHeld
  BY FeaturesInitHolds, FeaturesStepHolds, FeaturesIInvSuffices, PTL
     DEF FeaturesSpec

----------------------------------------------------------------------------
(* The connection of the stream *)

Stages ==
    {"idle", "none", "newPc", "createTransport", "connectTransport", "produce",
     "closeTrack", "closeTransport", "clearFlags", "sleep", "finish"}

ProducerTypeOK ==
    /\ at \in [Threads -> Stages]
    /\ finals \in Nat
    /\ m_reconnecting \in BOOLEAN

ProducerIInv == ProducerTypeOK /\ GuardHasThread

LEMMA ProducerInitHolds == ProducerInit => ProducerIInv
<1> SUFFICES ASSUME ProducerInit PROVE ProducerIInv
  OBVIOUS
<1>1. ProducerTypeOK
  BY DEF ProducerInit, ProducerTypeOK, Stages
<1>2. GuardHasThread
  <2>1. m_reconnecting = FALSE
    BY DEF ProducerInit
  <2> QED BY <2>1 DEF GuardHasThread
<1> QED BY <1>1, <1>2 DEF ProducerIInv

\* A step of one thread leaves the places of the others.
LEMMA MoveToFacts ==
    ASSUME ProducerTypeOK, NEW t \in Threads, NEW stage \in Stages,
           MoveTo(t, stage)
    PROVE  /\ at' \in [Threads -> Stages]
           /\ at'[t] = stage
           /\ \A u \in Threads : u # t => at'[u] = at[u]
  BY DEF MoveTo, ProducerTypeOK

\* What is kept by a step that ends no reconnect thread and sets no guard.
LEMMA GuardStays ==
    ASSUME GuardHasThread, finals \in Nat, finals' \in Nat, finals' >= finals,
           m_reconnecting' => m_reconnecting,
           \A t \in ReconnectThreads : at[t] # "none" => at'[t] # "none"
    PROVE  GuardHasThread'
<1>1. Alive' => Alive
  BY DEF Alive
<1>2. SUFFICES ASSUME Alive', m_reconnecting'
               PROVE  \E t \in ReconnectThreads : at'[t] # "none"
  BY DEF GuardHasThread
<1>3. PICK t \in ReconnectThreads : at[t] # "none"
  BY <1>1, <1>2 DEF GuardHasThread
<1> QED BY <1>3

\* The same for one thread that goes on to another place.
LEMMA ThreadGoesOn ==
    ASSUME ProducerIInv, NEW t \in Threads, NEW stage \in Stages \ {"none"},
           MoveTo(t, stage), finals' \in {finals, finals + 1},
           m_reconnecting' \in BOOLEAN, m_reconnecting' => m_reconnecting
    PROVE  ProducerIInv'
<1>1. /\ at' \in [Threads -> Stages]
      /\ at'[t] = stage
      /\ \A u \in Threads : u # t => at'[u] = at[u]
  BY MoveToFacts DEF ProducerIInv
<1>2. finals \in Nat /\ finals' \in Nat /\ finals' >= finals
  BY DEF ProducerIInv, ProducerTypeOK
<1>3. \A u \in ReconnectThreads : at[u] # "none" => at'[u] # "none"
  BY <1>1 DEF Threads
<1>4. GuardHasThread'
  BY <1>2, <1>3, GuardStays DEF ProducerIInv
<1> QED BY <1>1, <1>2, <1>4 DEF ProducerIInv, ProducerTypeOK

\* The same for a step that moves no thread.
LEMMA ThreadsStay ==
    ASSUME ProducerIInv, UNCHANGED <<at, finals, m_reconnecting>>
    PROVE  ProducerIInv'
  BY DEF ProducerIInv, ProducerTypeOK, GuardHasThread, Alive

\* Every thread and every callback keeps the guard.
LEMMA ProducerStepHolds ==
    ProducerAssumption /\ ProducerIInv /\ [ProducerNext]_producerVars
      => ProducerIInv'
<1> SUFFICES ASSUME ProducerAssumption, ProducerIInv,
                    [ProducerNext]_producerVars
             PROVE  ProducerIInv'
  OBVIOUS
<1>m. "main" \in Threads /\ "main" \notin ReconnectThreads
      /\ ReconnectThreads \subseteq Threads
  BY DEF Threads, ProducerAssumption
<1>t. at \in [Threads -> Stages] /\ finals \in Nat /\ m_reconnecting \in BOOLEAN
  BY DEF ProducerIInv, ProducerTypeOK
<1>1. CASE CallConnect
  BY <1>1, <1>m, <1>t, ThreadGoesOn DEF CallConnect, flagVars, endVars, Stages
<1>2. CASE CallDisconnect
  BY <1>2, <1>m, <1>t, ThreadGoesOn DEF CallDisconnect, flagVars, Stages
<1>3. ASSUME NEW state, OnStateChange(state)
      PROVE  ProducerIInv'
  BY <1>3, ThreadsStay DEF OnStateChange, flagVars, endVars
<1>4. ASSUME NEW p, OnConnected(p) \/ OnLost(p)
      PROVE  ProducerIInv'
  BY <1>4, ThreadsStay DEF OnConnected, OnLost, endVars
<1>5. ASSUME NEW p, AttemptReconnect(p)
      PROVE  ProducerIInv'
  <2>0. finals' = finals
    BY <1>5 DEF AttemptReconnect, endVars
  <2>1. CASE m_reconnectAttempts >= maxReconnectAttempts
    BY <1>5, <2>0, <2>1, ThreadsStay DEF AttemptReconnect
  <2>2. CASE ~(m_reconnectAttempts >= maxReconnectAttempts) /\ m_reconnecting
    <3>1. at' = at /\ m_reconnecting' = TRUE
      BY <1>5, <2>2 DEF AttemptReconnect
    <3>2. m_reconnecting' = m_reconnecting
      BY <1>t, <2>2, <3>1
    <3> QED BY <2>0, <3>1, <3>2, ThreadsStay
  <2>3. CASE ~(m_reconnectAttempts >= maxReconnectAttempts) /\ ~m_reconnecting
    <3>1. /\ NotStarted # {} /\ m_reconnecting' = TRUE
          /\ MoveTo(CHOOSE t \in NotStarted : TRUE, "sleep")
      BY <1>5, <2>3 DEF AttemptReconnect
    <3>2. PICK t \in ReconnectThreads : MoveTo(t, "sleep")
      BY <3>1 DEF NotStarted
    <3>3. at' \in [Threads -> Stages] /\ at'[t] = "sleep"
      BY <1>m, <3>2, MoveToFacts DEF Stages, ProducerIInv
    <3> QED
      BY <1>t, <2>0, <3>1, <3>3 DEF ProducerIInv, ProducerTypeOK, GuardHasThread
  <2> QED BY <2>1, <2>2, <2>3
<1>6. ASSUME NEW t \in Threads, NewPc(t)
      PROVE  ProducerIInv'
  BY <1>6, <1>t, ThreadGoesOn DEF NewPc, flagVars, endVars, Stages
<1>7. ASSUME NEW t \in Threads,
             CreateTransport(t) \/ ConnectTransport(t) \/ Produce(t)
      PROVE  ProducerIInv'
  <2>1. \E stage \in {"connectTransport", "produce", "idle", "finish"} :
           MoveTo(t, stage)
    BY <1>7 DEF CreateTransport, ConnectTransport, Produce, AfterConnect
  <2>2. UNCHANGED <<finals, m_reconnecting>>
    BY <1>7 DEF CreateTransport, ConnectTransport, Produce, flagVars, endVars
  <2> QED BY <1>t, <2>1, <2>2, ThreadGoesOn DEF Stages
<1>8. ASSUME NEW t \in Threads, CloseTrack(t) \/ CloseTransport(t)
      PROVE  ProducerIInv'
  <2>1. \E stage \in {"closeTransport", "clearFlags"} : MoveTo(t, stage)
    BY <1>8 DEF CloseTrack, CloseTransport
  <2>2. UNCHANGED <<finals, m_reconnecting>>
    BY <1>8 DEF CloseTrack, CloseTransport, flagVars, endVars
  <2> QED BY <1>t, <2>1, <2>2, ThreadGoesOn DEF Stages
<1>9. ASSUME NEW t \in Threads, ClearFlags(t)
      PROVE  ProducerIInv'
  <2>1. \E stage \in {"idle", "newPc"} : MoveTo(t, stage)
    BY <1>9 DEF ClearFlags
  <2>2. m_reconnecting' = FALSE /\ finals' \in {finals, finals + 1}
    BY <1>9 DEF ClearFlags
  <2> QED BY <1>t, <2>1, <2>2, ThreadGoesOn DEF Stages
<1>10. ASSUME NEW t \in ReconnectThreads, Wake(t)
       PROVE  ProducerIInv'
  <2>1. UNCHANGED <<finals, m_reconnecting>>
    BY <1>10 DEF Wake, flagVars
  <2>2. PICK guard \in BOOLEAN :
           /\ Alive => guard = m_reconnecting
           /\ IF guard THEN MoveTo(t, "closeTrack") ELSE MoveTo(t, "none")
    BY <1>10 DEF Wake
  <2>3. CASE guard
    <3>1. MoveTo(t, "closeTrack")
      BY <2>2, <2>3
    <3> QED BY <1>m, <1>t, <2>1, <3>1, ThreadGoesOn DEF Stages
  <2>4. CASE ~guard
    <3>1. at' \in [Threads -> Stages]
      BY <1>m, <2>2, <2>4, MoveToFacts DEF Stages, ProducerIInv
    <3>2. ~(Alive /\ m_reconnecting)
      BY <2>2, <2>4
    <3>3. GuardHasThread'
      BY <2>1, <3>2 DEF GuardHasThread, Alive
    <3> QED BY <1>t, <2>1, <3>1, <3>3 DEF ProducerIInv, ProducerTypeOK
  <2> QED BY <2>3, <2>4
<1>11. ASSUME NEW t \in ReconnectThreads, FinishReconnect(t)
       PROVE  ProducerIInv'
  <2>1. at' \in [Threads -> Stages]
    BY <1>11, <1>m, MoveToFacts DEF FinishReconnect, Stages, ProducerIInv
  <2>2. m_reconnecting' = FALSE /\ finals' = finals
    BY <1>11 DEF FinishReconnect, endVars
  <2> QED BY <1>t, <2>1, <2>2 DEF ProducerIInv, ProducerTypeOK, GuardHasThread
<1>12. CASE UNCHANGED producerVars
  BY <1>12, ThreadsStay DEF producerVars, flagVars, endVars
<1> QED
  BY <1>1, <1>2, <1>3, <1>4, <1>5, <1>6, <1>7, <1>8, <1>9, <1>10, <1>11,
     <1>12 DEF ProducerNext

\* For any number of reconnect threads, attempts and connections: as long as
\* the producer exists, a reconnect guard that is set has a thread to clear it,
\* whatever disconnects, lost connections and limits came between.
THEOREM GuardIsNotLeft == ProducerSpec => []GuardHasThread
<1>1. ProducerIInv => GuardHasThread
  BY DEF ProducerIInv
<1> QED
  BY <1>1, ProducerInitHolds, ProducerStepHolds, ProducerAssumption, PTL
     DEF ProducerSpec

----------------------------------------------------------------------------
(* The threads of the stream *)

Frames == Nat \X Nat

PipelineTypeOK ==
    /\ m_q \in Seq(Frames)
    /\ session \in Nat /\ pts \in Nat
    /\ inHand \in Frames /\ sent \in Frames

\* The queue holds the newest frames of the session, in every state and not
\* only while the stream runs, and no frame handed on is newer than these or
\* of a session to come.
QueueBook ==
    /\ Len(m_q) <= Capacity /\ Len(m_q) <= pts
    /\ \A i \in 1..Len(m_q) : m_q[i] = <<session, pts - Len(m_q) + i>>
    /\ \A f \in {inHand, sent} :
          /\ f[1] <= session
          /\ f[1] = session => f[2] <= pts - Len(m_q)

LEMMA PipelineInitHolds ==
    StreamPipelineAssumption /\ PipelineInit => PipelineTypeOK /\ QueueBook
<1> SUFFICES ASSUME StreamPipelineAssumption, PipelineInit
             PROVE  PipelineTypeOK /\ QueueBook
  OBVIOUS
<1>1. Len(m_q) = 0 /\ m_q \in Seq(Frames) /\ m_q = << >>
  BY DEF PipelineInit
<1>2. inHand = <<0, 0>> /\ sent = <<0, 0>> /\ session = 0 /\ pts = 0
  BY DEF PipelineInit, NoFrame
<1> QED
  BY <1>1, <1>2 DEF PipelineTypeOK, QueueBook, Frames, StreamPipelineAssumption

\* A push to a queue of the newest frames leaves the newest frames.
LEMMA PushKeepsNewest ==
    ASSUME StreamPipelineAssumption, PipelineTypeOK, QueueBook,
           Push(<<session, pts + 1>>), pts' = pts + 1,
           UNCHANGED <<session, inHand, sent>>
    PROVE  PipelineTypeOK' /\ QueueBook'
<1> DEFINE kept == IF Len(m_q) >= Capacity THEN Tail(m_q) ELSE m_q
<1>0. Capacity \in Nat \ {0} /\ pts \in Nat /\ session \in Nat
  BY DEF StreamPipelineAssumption, PipelineTypeOK
<1>1. /\ kept \in Seq(Frames) /\ Len(kept) \in Nat
      /\ Len(kept) <= Len(m_q) /\ Len(kept) < Capacity
      /\ \A i \in 1..Len(kept) : kept[i] = <<session, pts - Len(kept) + i>>
  <2>0. m_q \in Seq(Frames) /\ Len(m_q) \in Nat /\ Len(m_q) <= Capacity
    BY DEF PipelineTypeOK, QueueBook
  <2>1. CASE Len(m_q) >= Capacity
    <3>1. kept = Tail(m_q) /\ m_q # << >>
      BY <2>1, <1>0, <2>0
    <3>2. /\ kept \in Seq(Frames) /\ Len(kept) = Len(m_q) - 1
          /\ \A i \in 1..Len(kept) : kept[i] = m_q[i + 1]
      BY <3>1, <2>0
    <3>3. \A i \in 1..Len(kept) : kept[i] = <<session, pts - Len(m_q) + (i + 1)>>
      BY <3>2, <2>0 DEF QueueBook
    <3> QED BY <3>2, <3>3, <2>0, <2>1, <1>0
  <2>2. CASE ~(Len(m_q) >= Capacity)
    BY <2>2, <2>0, <1>0 DEF QueueBook
  <2> QED BY <2>1, <2>2
<1> HIDE DEF kept
<1>2. m_q' = Append(kept, <<session, pts + 1>>)
  BY DEF Push, kept
<1>3. <<session, pts + 1>> \in Frames
  BY <1>0 DEF Frames
<1>4. /\ m_q' \in Seq(Frames) /\ Len(m_q') = Len(kept) + 1
      /\ \A i \in 1..Len(kept) : m_q'[i] = kept[i]
      /\ m_q'[Len(kept) + 1] = <<session, pts + 1>>
  BY <1>1, <1>2, <1>3
<1>5. PipelineTypeOK'
  BY <1>0, <1>4 DEF PipelineTypeOK
<1>6. \A i \in 1..Len(m_q') : m_q'[i] = <<session', pts' - Len(m_q') + i>>
  <2> TAKE i \in 1..Len(m_q')
  <2>1. i \in 1..Len(kept) \/ i = Len(kept) + 1
    BY <1>1, <1>4
  <2>2. pts' - Len(m_q') = pts - Len(kept)
    BY <1>0, <1>1, <1>4
  <2>3. CASE i \in 1..Len(kept)
    BY <2>2, <2>3, <1>1, <1>4
  <2>4. CASE i = Len(kept) + 1
    <3>1. pts + 1 = pts' - Len(m_q') + i
      BY <2>2, <2>4, <1>0, <1>1
    <3> QED BY <2>4, <3>1, <1>4
  <2> QED BY <2>1, <2>3, <2>4
<1>7. \A f \in {inHand, sent} : f[1] = session => f[2] <= pts' - Len(m_q')
  <2>1. pts' - Len(m_q') >= pts - Len(m_q)
    BY <1>0, <1>1, <1>4 DEF PipelineTypeOK
  <2>2. \A f \in {inHand, sent} : f[2] \in Nat
    BY DEF PipelineTypeOK, Frames
  <2>3. Len(m_q) \in Nat /\ Len(m_q') \in Nat
    BY <1>1, <1>4 DEF PipelineTypeOK
  <2> QED BY <2>1, <2>2, <2>3, <1>0 DEF QueueBook
<1>8. Len(m_q') <= Capacity /\ Len(m_q') <= pts'
  BY <1>0, <1>1, <1>4 DEF PipelineTypeOK, QueueBook
<1> QED BY <1>5, <1>6, <1>7, <1>8 DEF QueueBook

\* A pop takes the oldest of the newest frames.
LEMMA PopKeepsNewest ==
    ASSUME StreamPipelineAssumption, PipelineTypeOK, QueueBook, m_q # << >>,
           inHand' = Head(m_q), m_q' = Tail(m_q),
           UNCHANGED <<session, pts, sent>>
    PROVE  PipelineTypeOK' /\ QueueBook'
<1>0. m_q \in Seq(Frames) /\ Len(m_q) \in Nat /\ pts \in Nat /\ session \in Nat
  BY DEF PipelineTypeOK
<1>1. /\ m_q' \in Seq(Frames) /\ Len(m_q') = Len(m_q) - 1 /\ Len(m_q) > 0
      /\ \A i \in 1..Len(m_q') : m_q'[i] = m_q[i + 1]
      /\ inHand' = m_q[1] /\ inHand' \in Frames
  BY <1>0
<1>2. inHand' = <<session, pts - Len(m_q) + 1>>
  BY <1>0, <1>1 DEF QueueBook
<1>3. \A i \in 1..Len(m_q') : m_q'[i] = <<session, pts - Len(m_q) + (i + 1)>>
  BY <1>0, <1>1 DEF QueueBook
<1>4. pts' - Len(m_q') = pts - Len(m_q) + 1
  BY <1>0, <1>1
<1>5. \A i \in 1..Len(m_q') : m_q'[i] = <<session', pts' - Len(m_q') + i>>
  BY <1>0, <1>1, <1>3, <1>4
<1>6. inHand'[1] = session /\ inHand'[2] = pts' - Len(m_q')
  BY <1>2, <1>4
<1>7. sent[1] <= session /\ (sent[1] = session => sent[2] <= pts' - Len(m_q'))
  <2>1. sent[2] \in Nat
    BY DEF PipelineTypeOK, Frames
  <2> QED BY <1>0, <1>4, <2>1 DEF QueueBook
<1>8. Len(m_q') <= Capacity /\ Len(m_q') <= pts'
  BY <1>0, <1>1 DEF QueueBook, StreamPipelineAssumption
<1>9. PipelineTypeOK'
  BY <1>0, <1>1 DEF PipelineTypeOK
<1>10. \A f \in {inHand', sent'} :
          f[1] <= session' /\ (f[1] = session' => f[2] <= pts' - Len(m_q'))
  <2>1. inHand'[1] <= session' /\ inHand'[2] <= pts' - Len(m_q')
    BY <1>0, <1>1, <1>6
  <2>2. session' = session /\ sent' = sent
    OBVIOUS
  <2> QED BY ONLY <1>7, <2>1, <2>2
<1> QED BY <1>5, <1>8, <1>9, <1>10 DEF QueueBook

\* Every thread keeps the book of the queue.
LEMMA QueueStepHolds ==
    /\ StreamPipelineAssumption /\ PipelineTypeOK /\ QueueBook
    /\ [PipelineNext]_pipelineVars
    => PipelineTypeOK' /\ QueueBook'
<1> SUFFICES ASSUME StreamPipelineAssumption, PipelineTypeOK, QueueBook,
                    [PipelineNext]_pipelineVars
             PROVE  PipelineTypeOK' /\ QueueBook'
  OBVIOUS
<1>u. UNCHANGED <<m_q, frameVars>> => PipelineTypeOK' /\ QueueBook'
  BY DEF frameVars, PipelineTypeOK, QueueBook
<1>1. ASSUME NEW nvenc \in BOOLEAN, NEW encoder \in BOOLEAN,
             NEW converter \in {"d3d11", "cpu", "none"},
             StartPipeline(nvenc, encoder, converter)
      PROVE  PipelineTypeOK' /\ QueueBook'
  <2>1. CASE UNCHANGED <<m_q, frameVars>>
    BY <1>u, <2>1
  <2>2. CASE /\ m_q' = << >> /\ session' = session + 1 /\ pts' = 0
             /\ UNCHANGED <<inHand, sent>>
    <3>1. m_q' \in Seq(Frames) /\ Len(m_q') = 0 /\ session \in Nat
      BY <2>2 DEF PipelineTypeOK
    <3>2. \A f \in {inHand, sent} : f[1] \in Nat /\ f[1] <= session
      BY DEF PipelineTypeOK, QueueBook, Frames
    <3>3. PipelineTypeOK'
      BY <2>2, <3>1 DEF PipelineTypeOK
    <3> QED
      BY <2>2, <3>1, <3>2, <3>3 DEF QueueBook, StreamPipelineAssumption
  <2> QED
    BY <1>1, <2>1, <2>2 DEF StartPipeline, ResetQueue, queueVars, frameVars
<1>2. CASE StopSignal \/ StopThread
  BY <1>2, <1>u DEF StopSignal, StopThread, StopFrameQueue, StopQueue,
       JoinCapture, JoinEncode, JoinQuality, Release, queueVars
<1>3. CASE CaptureFrame \/ CaptureExit
  BY <1>3, <1>u DEF CaptureFrame, CaptureExit, StopQueue, queueVars
<1>4. CASE CapturePush
  BY <1>4, PushKeepsNewest DEF CapturePush
<1>5. CASE Pop
  <2>1. CASE m_q = << >>
    BY <1>5, <2>1, <1>u DEF Pop, frameVars
  <2>2. CASE m_q # << >>
    BY <1>5, <2>2, PopKeepsNewest DEF Pop
  <2> QED BY <2>1, <2>2
<1>6. CASE EncodeBegin
  BY <1>6, <1>u DEF EncodeBegin, queueVars
<1>7. CASE EncodeEnd
  <2>1. UNCHANGED <<m_q, session, pts, inHand>> /\ sent' \in {sent, inHand}
    BY <1>7 DEF EncodeEnd, queueVars
  <2> QED BY <2>1 DEF PipelineTypeOK, QueueBook
<1>8. CASE QualityThread
  BY <1>8, <1>u DEF QualityThread, QualityWake, CheckAdaptiveQuality, queueVars
<1>9. CASE UNCHANGED pipelineVars
  BY <1>9, <1>u DEF pipelineVars, queueVars
<1> QED
  BY <1>1, <1>2, <1>3, <1>4, <1>5, <1>6, <1>7, <1>8, <1>9
     DEF PipelineNext, CaptureThread, EncodeThread

\* For every capacity, number of frames and of sessions, and however far the
\* encode thread is behind: what waits is the newest of this session and newer
\* than what the producer was handed.
THEOREM QueueKeepsFreshest == PipelineSpec => []FreshestKept
<1>1. PipelineTypeOK /\ QueueBook => FreshestKept
  BY DEF QueueBook, FreshestKept
<1> QED
  BY <1>1, PipelineInitHolds, QueueStepHolds, StreamPipelineAssumption, PTL
     DEF PipelineSpec

ControlPlaces ==
    {"idle", "stopQueue", "joinCapture", "joinEncode", "joinQuality", "release"}

\* The encoder is there from the start to the release, the threads from the
\* start to their join.
EncoderBook ==
    /\ control \in ControlPlaces
    /\ m_running \in BOOLEAN /\ m_encoder \in BOOLEAN
    /\ m_running => control = "idle" /\ m_encoder
    /\ control # "idle" => m_encoder
    /\ control \in {"joinQuality", "release"} \/ (control = "idle" /\ ~m_running)
          => encode = "none"
    /\ control = "release" \/ (control = "idle" /\ ~m_running)
          => quality = "none"

LEMMA EncoderStepHolds ==
    EncoderBook /\ [PipelineNext]_pipelineVars => EncoderBook'
<1> SUFFICES ASSUME EncoderBook, [PipelineNext]_pipelineVars
             PROVE  EncoderBook'
  OBVIOUS
<1> USE DEF EncoderBook, ControlPlaces, streamVars
<1>1. ASSUME NEW nvenc \in BOOLEAN, NEW encoder \in BOOLEAN,
             NEW converter \in {"d3d11", "cpu", "none"},
             StartPipeline(nvenc, encoder, converter)
      PROVE  EncoderBook'
  BY <1>1 DEF StartPipeline, threadVars
<1>2. CASE StopSignal
  BY <1>2 DEF StopSignal
<1>3. CASE StopThread
  <2>1. CASE StopFrameQueue \/ JoinCapture
    BY <2>1 DEF StopFrameQueue, JoinCapture
  <2>2. CASE JoinEncode
    BY <2>2 DEF JoinEncode
  <2>3. CASE JoinQuality
    BY <2>3 DEF JoinQuality
  <2>4. CASE Release
    BY <2>4 DEF Release
  <2> QED BY <1>3, <2>1, <2>2, <2>3, <2>4 DEF StopThread
<1>4. CASE CaptureThread
  BY <1>4 DEF CaptureThread, CaptureFrame, CapturePush, CaptureExit
<1>5. CASE EncodeThread
  BY <1>5 DEF EncodeThread, Pop, EncodeBegin, EncodeEnd
<1>6. CASE QualityThread
  BY <1>6 DEF QualityThread, QualityWake, CheckAdaptiveQuality
<1>7. CASE UNCHANGED pipelineVars
  BY <1>7 DEF pipelineVars, threadVars
<1> QED
  BY <1>1, <1>2, <1>3, <1>4, <1>5, <1>6, <1>7 DEF PipelineNext

\* Wherever a stop finds the threads, encoder and converter are there as long as
\* one of them may be using them.
THEOREM EncoderIsThere == PipelineSpec => []EncoderOutlivesUsers
<1>1. PipelineInit => EncoderBook
  BY DEF PipelineInit, EncoderBook, ControlPlaces
<1>2. EncoderBook => EncoderOutlivesUsers
  BY DEF EncoderBook, EncoderOutlivesUsers
<1> QED
  BY <1>1, <1>2, EncoderStepHolds, PTL DEF PipelineSpec

LadderTypeOK == highFor \in Nat /\ lowFor \in Nat

\* The ladder is climbed down and up one step at a time, whatever the load.
LEMMA LadderStepHolds ==
    /\ StreamPipelineAssumption /\ LadderTypeOK /\ QualityLadder
    /\ [PipelineNext]_pipelineVars
    => LadderTypeOK' /\ QualityLadder'
<1> SUFFICES ASSUME StreamPipelineAssumption, LadderTypeOK, QualityLadder,
                    [PipelineNext]_pipelineVars
             PROVE  LadderTypeOK' /\ QualityLadder'
  OBVIOUS
<1>0. LastStep \in Nat /\ ThresholdChecks \in Nat \ {0}
  BY DEF StreamPipelineAssumption
<1>u. UNCHANGED qualityVars => LadderTypeOK' /\ QualityLadder'
  BY DEF qualityVars, LadderTypeOK, QualityLadder
<1>1. ASSUME NEW load \in {"high", "normal", "low"}, CheckAdaptiveQuality(load)
      PROVE  LadderTypeOK' /\ QualityLadder'
  <2>1. Longer(highFor) \in Nat /\ Longer(lowFor) \in Nat
    BY DEF Longer, LadderTypeOK
  <2>2. CASE load = "high"
    <3>1. lowFor' = 0 /\ highFor' \in Nat
      BY <1>1, <2>1, <2>2 DEF CheckAdaptiveQuality
    <3>2. \/ UNCHANGED <<fpsIdx, resolutionIdx>>
          \/ CanReduce /\ ReduceQuality
      BY <1>1, <2>2 DEF CheckAdaptiveQuality
    <3> QED
      BY <1>0, <3>1, <3>2 DEF CanReduce, ReduceQuality, QualityLadder,
           LadderTypeOK
  <2>3. CASE load = "low"
    <3>1. highFor' = 0 /\ lowFor' \in Nat
      BY <1>1, <2>1, <2>3 DEF CheckAdaptiveQuality
    <3>2. \/ UNCHANGED <<fpsIdx, resolutionIdx>>
          \/ CanRestore /\ RestoreQuality
      BY <1>1, <2>3 DEF CheckAdaptiveQuality
    <3> QED
      BY <1>0, <3>1, <3>2 DEF CanRestore, RestoreQuality, QualityLadder,
           LadderTypeOK
  <2>4. CASE load = "normal"
    BY <1>1, <2>4 DEF CheckAdaptiveQuality, QualityLadder, LadderTypeOK
  <2> QED BY <2>2, <2>3, <2>4
<1>2. ASSUME NEW nvenc \in BOOLEAN, NEW encoder \in BOOLEAN,
             NEW converter \in {"d3d11", "cpu", "none"},
             StartPipeline(nvenc, encoder, converter)
      PROVE  LadderTypeOK' /\ QualityLadder'
  <2>1. \/ UNCHANGED qualityVars
        \/ fpsIdx' = 0 /\ resolutionIdx' = 0 /\ highFor' = 0 /\ lowFor' = 0
    BY <1>2 DEF StartPipeline
  <2> QED BY <1>0, <1>u, <2>1 DEF QualityLadder, LadderTypeOK
<1>3. CASE StopSignal \/ StopThread \/ CaptureThread \/ EncodeThread \/ QualityWake
  BY <1>3, <1>u DEF StopSignal, StopThread, StopFrameQueue, JoinCapture,
       JoinEncode, JoinQuality, Release, CaptureThread, CaptureFrame,
       CapturePush, CaptureExit, EncodeThread, Pop, EncodeBegin, EncodeEnd,
       QualityWake
<1>4. CASE UNCHANGED pipelineVars
  BY <1>4, <1>u DEF pipelineVars
<1> QED
  BY <1>1, <1>2, <1>3, <1>4 DEF PipelineNext, QualityThread

\* For every ladder and every threshold, resolution and frame rate stay on it,
\* the resolution falls only below the last frame rate, and never do both timers
\* run.
THEOREM QualityOnLadder == PipelineSpec => []QualityLadder
<1>1. StreamPipelineAssumption /\ PipelineInit => LadderTypeOK /\ QualityLadder
  BY DEF StreamPipelineAssumption, PipelineInit, LadderTypeOK, QualityLadder
<1> QED
  BY <1>1, LadderStepHolds, StreamPipelineAssumption, PTL DEF PipelineSpec

----------------------------------------------------------------------------
(* The packets: what a loop does *)

\* Every set of natural numbers that has a member has a least one.
LEMMA LeastNumber ==
    ASSUME NEW T, T \subseteq Nat, T # {}
    PROVE  \E x \in T : \A y \in T : x <= y
<1> DEFINE R == OpToRel(<, Nat)
<1>1. IsWellFoundedOn(R, Nat)
  BY NatLessThanWellFounded
<1>2. \A x, y \in Nat : x < y => <<x, y>> \in R
  BY DEF OpToRel
<1> HIDE DEF R
<1>3. PICK x \in T : \A y \in T : ~ (<<y, x>> \in R)
  BY <1>1, WFMin
<1>4. ASSUME NEW y \in T PROVE x <= y
  <2>1. x \in Nat /\ y \in Nat
    OBVIOUS
  <2>2. ~(y < x)
    BY <1>2, <1>3, <2>1
  <2> QED BY <2>1, <2>2
<1> QED BY <1>4

\* Induction over the natural numbers, for a set instead of an operator.
LEMMA InductionOverNat ==
    ASSUME NEW S, 0 \in S, \A n \in Nat : n \in S => n + 1 \in S
    PROVE  \A n \in Nat : n \in S
<1> SUFFICES ASSUME Nat \ S # {} PROVE FALSE
  OBVIOUS
<1>1. PICK x \in Nat \ S : \A y \in Nat \ S : x <= y
  BY LeastNumber
<1>2. x - 1 \in Nat /\ x - 1 \notin Nat \ S
  BY <1>1
<1> QED BY <1>1, <1>2

\* The turns of a loop up to the n-th: g has the state after each.
Run(turn, first, V, n, g) ==
    /\ g \in [0..n -> V]
    /\ g[0] = first
    /\ \A i \in 1..n : g[i] = turn[g[i - 1]]

\* There is a run of every length.
LEMMA RunExists ==
    ASSUME NEW V, NEW first \in V, NEW turn, \A v \in V : turn[v] \in V
    PROVE  \A n \in Nat : \E g : Run(turn, first, V, n, g)
<1> DEFINE S == {n \in Nat : \E g : Run(turn, first, V, n, g)}
<1>1. 0 \in S
  <2>1. Run(turn, first, V, 0, [i \in 0..0 |-> first])
    BY DEF Run
  <2> QED BY <2>1
<1>2. ASSUME NEW n \in Nat, n \in S PROVE n + 1 \in S
  <2>1. PICK g : Run(turn, first, V, n, g)
    BY <1>2
  <2> DEFINE h == [i \in 0..(n + 1) |-> IF i = n + 1 THEN turn[g[n]] ELSE g[i]]
  <2>2. h \in [0..(n + 1) -> V]
    BY <2>1 DEF Run
  <2>3. h[0] = first
    BY <2>1 DEF Run
  <2>4. \A i \in 1..(n + 1) : h[i] = turn[h[i - 1]]
    BY <2>1 DEF Run
  <2>5. Run(turn, first, V, n + 1, h)
    BY <2>2, <2>3, <2>4 DEF Run
  <2> QED BY <2>5
<1> HIDE DEF S
<1>3. \A n \in Nat : n \in S
  BY <1>1, <1>2, InductionOverNat
<1> QED BY <1>3 DEF S

\* Two runs of a loop agree as far as both go.
LEMMA RunUnique ==
    ASSUME NEW V, NEW first, NEW turn, NEW m \in Nat, NEW n \in Nat, NEW g, NEW h,
           Run(turn, first, V, m, g), Run(turn, first, V, n, h)
    PROVE  \A i \in Nat : i <= m /\ i <= n => g[i] = h[i]
<1> DEFINE S == {i \in Nat : i <= m /\ i <= n => g[i] = h[i]}
<1>1. 0 \in S
  BY DEF Run
<1>2. ASSUME NEW i \in Nat, i \in S PROVE i + 1 \in S
  BY <1>2 DEF Run
<1> HIDE DEF S
<1>3. \A i \in Nat : i \in S
  BY <1>1, <1>2, InductionOverNat
<1> QED BY <1>3 DEF S

\* What a loop does: it begins with its first state, goes on turn by turn, and
\* keeps every invariant V of its turns.
LEMMA LoopTurns ==
    ASSUME NEW V, NEW first \in V, NEW turn, \A v \in V : turn[v] \in V
    PROVE  /\ Loop(turn, first) \in [Nat -> V]
           /\ Loop(turn, first)[0] = first
           /\ \A n \in Nat : Loop(turn, first)[n + 1] = turn[Loop(turn, first)[n]]
<1> DEFINE G(n) == CHOOSE g : Run(turn, first, V, n, g)
           f == [n \in Nat |-> G(n)[n]]
<1>1. \A n \in Nat : Run(turn, first, V, n, G(n))
  BY RunExists
<1>3. f[0] = first
  BY <1>1 DEF Run
<1>4. ASSUME NEW n \in Nat PROVE f[n + 1] = turn[f[n]]
  <2>1. Run(turn, first, V, n, G(n)) /\ Run(turn, first, V, n + 1, G(n + 1))
    BY <1>1
  <2>2. G(n)[n] = G(n + 1)[n]
    <3> HIDE DEF G
    <3> QED BY <2>1, RunUnique
  <2>3. G(n + 1)[n + 1] = turn[G(n + 1)[n]]
    <3> HIDE DEF G
    <3> QED BY <2>1 DEF Run
  <2> QED BY <2>2, <2>3
<1> HIDE DEF G
<1>5. f = [n \in Nat |-> IF n = 0 THEN first ELSE turn[f[n - 1]]]
  <2> HIDE DEF f
  <2>1. \A n \in Nat : f[n] = IF n = 0 THEN first ELSE turn[f[n - 1]]
    <3> SUFFICES ASSUME NEW n \in Nat
                 PROVE  f[n] = IF n = 0 THEN first ELSE turn[f[n - 1]]
      OBVIOUS
    <3>1. CASE n = 0
      BY <1>3, <3>1
    <3>2. CASE n # 0
      BY <1>4, <3>2
    <3> QED BY <3>1, <3>2
  <2>2. f = [n \in Nat |-> f[n]]
    BY DEF f
  <2> QED BY <2>1, <2>2
<1> HIDE DEF f
<1>6. Loop(turn, first)
        = CHOOSE g : g = [n \in Nat |-> IF n = 0 THEN first ELSE turn[g[n - 1]]]
  BY DEF Loop
<1>7. Loop(turn, first)
        = [n \in Nat |-> IF n = 0 THEN first ELSE turn[Loop(turn, first)[n - 1]]]
  BY <1>5, <1>6
<1>8. /\ Loop(turn, first)[0] = first
      /\ \A n \in Nat : Loop(turn, first)[n + 1] = turn[Loop(turn, first)[n]]
  BY <1>7
<1> DEFINE S == {n \in Nat : Loop(turn, first)[n] \in V}
<1>9. \A n \in Nat : n \in S
  <2>1. 0 \in S
    BY <1>8
  <2>2. ASSUME NEW n \in Nat, n \in S PROVE n + 1 \in S
    BY <1>8, <2>2
  <2> HIDE DEF S
  <2> QED BY <2>1, <2>2, InductionOverNat
<1>10. Loop(turn, first) \in [Nat -> V]
  BY <1>7, <1>9
<1> QED BY <1>8, <1>10

\* A loop whose states are known one by one ends in the last.
Course(turn, st, N) ==
    /\ \A t \in 0..(N - 1) : turn[st[t]] = st[t + 1]
    /\ turn[st[N]] = st[N]

\* After at least as many turns the loop is in the last of those states.
LEMMA LoopReaches ==
    ASSUME NEW N \in Nat, NEW turn, NEW st, Course(turn, st, N),
           NEW n \in Nat, N <= n
    PROVE  Loop(turn, st[0])[n] = st[N]
<1> USE DEF Course
<1> DEFINE V == {st[t] : t \in 0..N}
           run == Loop(turn, st[0])
           S == {k \in Nat : run[k] = IF k <= N THEN st[k] ELSE st[N]}
<1>1. st[0] \in V
  OBVIOUS
<1>2. ASSUME NEW v \in V PROVE turn[v] \in V
  <2>1. PICK t \in 0..N : v = st[t]
    OBVIOUS
  <2>2. CASE t = N
    BY <2>1, <2>2
  <2>3. CASE t # N
    <3>1. t \in 0..(N - 1) /\ t + 1 \in 0..N
      BY <2>3
    <3> QED BY <2>1, <3>1
  <2> QED BY <2>2, <2>3
<1> HIDE DEF V
<1>3. run[0] = st[0] /\ \A k \in Nat : run[k + 1] = turn[run[k]]
  BY <1>1, <1>2, LoopTurns
<1> HIDE DEF run
<1>4. 0 \in S
  BY <1>3
<1>5. ASSUME NEW k \in Nat, k \in S PROVE k + 1 \in S
  <2>1. CASE k + 1 <= N
    <3>1. run[k] = st[k] /\ k \in 0..(N - 1)
      BY <1>5, <2>1
    <3> QED BY <1>3, <2>1, <3>1
  <2>2. CASE ~(k + 1 <= N)
    <3>1. run[k] = st[N]
      BY <1>5, <2>2
    <3> QED BY <1>3, <2>2, <3>1
  <2> QED BY <2>1, <2>2
<1> HIDE DEF S
<1>6. n \in S
  BY <1>4, <1>5, InductionOverNat
<1> QED BY <1>6 DEF S, run

\* A loop that goes down in a measure with every turn has ended after as many
\* turns.
GoesDown(turn, V, measure) ==
    \A v \in V : /\ turn[v] \in V /\ measure[v] \in Nat
                 /\ turn[v] = v \/ measure[turn[v]] < measure[v]

\* A loop that goes down keeps its invariant, and has ended after as many turns
\* as its measure was at first.
LEMMA LoopEnds ==
    ASSUME NEW V, NEW first \in V, NEW turn, NEW measure, GoesDown(turn, V, measure),
           NEW n \in Nat, measure[first] <= n
    PROVE  Loop(turn, first)[n] \in V /\ turn[Loop(turn, first)[n]] = Loop(turn, first)[n]
<1> DEFINE run == Loop(turn, first)
           S == {k \in Nat : \/ turn[run[k]] = run[k]
                             \/ measure[run[k]] + k <= measure[first]}
<1> USE DEF GoesDown
<1>1. run[0] = first /\ \A k \in Nat : run[k + 1] = turn[run[k]]
  BY LoopTurns
<1>2. run \in [Nat -> V]
  BY LoopTurns
<1> HIDE DEF run
<1>3. 0 \in S
  BY <1>1
<1>4. ASSUME NEW k \in Nat, k \in S PROVE k + 1 \in S
  <2> DEFINE v == run[k]
             w == run[k + 1]
  <2>1. v \in V /\ w \in V
    BY <1>2
  <2>2. w = turn[v]
    BY <1>1
  <2>3. turn[v] = v \/ measure[v] + k <= measure[first]
    BY <1>4
  <2> HIDE DEF v, w
  <2>4. measure[v] \in Nat /\ measure[w] \in Nat
    BY <2>1
  <2>5. turn[v] = v \/ measure[w] < measure[v]
    BY <2>1, <2>2
  <2>6. turn[w] = w \/ measure[w] + (k + 1) <= measure[first]
    BY <2>2, <2>3, <2>4, <2>5
  <2> QED BY <2>6 DEF w
<1> HIDE DEF S
<1>5. n \in S
  BY <1>3, <1>4, InductionOverNat
<1>6. run[n] \in V
  BY <1>2
<1>7. turn[run[n]] = run[n]
  <2>1. turn[run[n]] = run[n] \/ measure[run[n]] + n <= measure[first]
    BY <1>5 DEF S
  <2>2. measure[run[n]] \in Nat /\ measure[first] \in Nat /\ measure[turn[run[n]]] \in Nat
    BY <1>6
  <2> QED BY <1>6, <2>1, <2>2
<1> QED BY <1>6, <1>7 DEF run

----------------------------------------------------------------------------
(* What the encoder writes, and find_nal_units reads *)

\* Where the bytes of two sequences are, one after the other.
LEMMA ConcatTwo ==
    ASSUME NEW S, NEW a \in Seq(S), NEW b \in Seq(S)
    PROVE  /\ a \o b \in Seq(S) /\ Len(a \o b) = Len(a) + Len(b)
           /\ \A j \in 1..Len(a) : (a \o b)[j] = a[j]
           /\ \A j \in 1..Len(b) : (a \o b)[Len(a) + j] = b[j]
<1>1. Len(a) \in Nat /\ Len(b) \in Nat
  OBVIOUS
<1> QED BY <1>1

\* Where the bytes of three sequences are, one after the other.
LEMMA ConcatThree ==
    ASSUME NEW S, NEW a \in Seq(S), NEW b \in Seq(S), NEW c \in Seq(S)
    PROVE  /\ (a \o b) \o c \in Seq(S)
           /\ Len((a \o b) \o c) = Len(a) + Len(b) + Len(c)
           /\ \A j \in 1..Len(a) : ((a \o b) \o c)[j] = a[j]
           /\ \A j \in 1..Len(b) : ((a \o b) \o c)[Len(a) + j] = b[j]
           /\ \A j \in 1..Len(c) : ((a \o b) \o c)[Len(a) + Len(b) + j] = c[j]
<1> DEFINE d == a \o b
<1>0. Len(a) \in Nat /\ Len(b) \in Nat /\ Len(c) \in Nat
  OBVIOUS
<1>d. d \in Seq(S)
  BY ConcatTwo
<1>1. /\ Len(d) = Len(a) + Len(b)
      /\ \A j \in 1..Len(a) : d[j] = a[j]
      /\ \A j \in 1..Len(b) : d[Len(a) + j] = b[j]
  BY ConcatTwo
<1> HIDE DEF d
<1>2. /\ d \o c \in Seq(S) /\ Len(d \o c) = Len(d) + Len(c)
      /\ \A j \in 1..Len(d) : (d \o c)[j] = d[j]
      /\ \A j \in 1..Len(c) : (d \o c)[Len(d) + j] = c[j]
  BY <1>d, ConcatTwo
<1>3. /\ \A j \in 1..Len(a) : (d \o c)[j] = a[j]
      /\ \A j \in 1..Len(b) : (d \o c)[Len(a) + j] = b[j]
  BY <1>0, <1>1, <1>2
<1>4. /\ d \o c \in Seq(S)
      /\ Len(d \o c) = Len(a) + Len(b) + Len(c)
      /\ \A j \in 1..Len(c) : (d \o c)[Len(a) + Len(b) + j] = c[j]
  BY <1>1, <1>2
<1> QED BY <1>3, <1>4 DEF d

\* What a was, the longer b still begins with.
Extends(b, a) == Len(a) <= Len(b) /\ \A j \in 1..Len(a) : b[j] = a[j]

\* Extending is transitive.
LEMMA ExtendsIsTransitive ==
    ASSUME NEW S, NEW a \in Seq(S), NEW b \in Seq(S), NEW c \in Seq(S),
           Extends(b, a), Extends(c, b)
    PROVE  Extends(c, a)
<1>1. Len(a) \in Nat /\ Len(b) \in Nat /\ Len(c) \in Nat
  OBVIOUS
<1> QED BY <1>1 DEF Extends

\* A sequence extends itself.
LEMMA ExtendsItself ==
    ASSUME NEW S, NEW a \in Seq(S)
    PROVE  Extends(a, a)
<1>1. Len(a) \in Nat
  OBVIOUS
<1> QED BY <1>1 DEF Extends

\* What is written stays where it is when more is written behind it.
LEMMA PrefixStays ==
    ASSUME NEW S, NEW N \in Nat, NEW buf,
           \A n \in 0..N : buf[n] \in Seq(S),
           \A n \in 0..(N - 1) : Extends(buf[n + 1], buf[n])
    PROVE  \A m \in 0..N : \A n \in 0..m : Extends(buf[m], buf[n])
<1> DEFINE T == {m \in Nat : m <= N => \A n \in 0..m : Extends(buf[m], buf[n])}
<1>1. 0 \in T
  <2>1. Extends(buf[0], buf[0])
    BY ExtendsItself
  <2> QED BY <2>1
<1>2. ASSUME NEW m \in Nat, m \in T PROVE m + 1 \in T
  <2> SUFFICES ASSUME m + 1 <= N, NEW n \in 0..(m + 1)
               PROVE  Extends(buf[m + 1], buf[n])
    OBVIOUS
  <2>0. buf[m + 1] \in Seq(S)
    OBVIOUS
  <2>1. CASE n = m + 1
    BY <2>0, <2>1, ExtendsItself
  <2>2. CASE n # m + 1
    <3>1. n \in 0..m /\ m \in 0..(N - 1) /\ n \in 0..N /\ m \in 0..N
      BY <2>2
    <3>2. Extends(buf[m], buf[n])
      BY <1>2, <3>1
    <3>3. Extends(buf[m + 1], buf[m])
      BY <3>1
    <3>4. buf[m] \in Seq(S)
      BY <3>1
    <3>5. buf[n] \in Seq(S)
      BY <3>1
    <3> QED BY <2>0, <3>2, <3>3, <3>4, <3>5, ExtendsIsTransitive
  <2> QED BY <2>1, <2>2
<1> HIDE DEF T
<1>3. \A m \in Nat : m \in T
  BY <1>1, <1>2, InductionOverNat
<1> QED BY <1>3 DEF T

\* A start code of either length: zeros, then a one.
LEMMA CodeBytesProperties ==
    ASSUME NEW c \in {3, 4}
    PROVE  /\ CodeBytes(c) \in Seq(Bytes) /\ Len(CodeBytes(c)) = c
           /\ CodeBytes(c)[1] = 0 /\ CodeBytes(c)[2] = 0
           /\ CodeBytes(c)[3] = IF c = 4 THEN 0 ELSE 1
           /\ c = 4 => CodeBytes(c)[4] = 1
<1>1. CASE c = 4
  BY <1>1 DEF CodeBytes, Bytes
<1>2. CASE c = 3
  BY <1>2 DEF CodeBytes, Bytes
<1> QED BY <1>1, <1>2

\* more is b with a unit written behind it, after its start code.
Written(more, b, c, nal) ==
    /\ more \in Seq(Bytes)
    /\ Len(more) = Len(b) + c + Len(nal)
    /\ Len(more) \in Nat /\ Len(b) \in Nat /\ Len(nal) \in Nat
    /\ Extends(more, b)
    /\ \A j \in 1..c : more[Len(b) + j] = CodeBytes(c)[j]
    /\ \A j \in 1..Len(nal) : more[Len(b) + c + j] = nal[j]

\* Write puts a unit behind what is there.
LEMMA UnitWritten ==
    ASSUME NEW b \in Seq(Bytes), NEW nal \in Seq(Bytes), NEW c \in {3, 4}
    PROVE  Written(Write(b, c, nal), b, c, nal)
<1> DEFINE more == Write(b, c, nal)
<1> DEFINE code == CodeBytes(c)
<1>1. code \in Seq(Bytes)
  BY CodeBytesProperties
<1>2. Len(code) = c
  BY CodeBytesProperties
<1> HIDE DEF code
<1>3. /\ Len((b \o code) \o nal) = Len(b) + Len(code) + Len(nal)
      /\ \A j \in 1..Len(b) : ((b \o code) \o nal)[j] = b[j]
      /\ \A j \in 1..Len(code) : ((b \o code) \o nal)[Len(b) + j] = code[j]
      /\ \A j \in 1..Len(nal) : ((b \o code) \o nal)[Len(b) + Len(code) + j] = nal[j]
  BY <1>1, ConcatThree
<1>4. Len(b) \in Nat /\ Len(nal) \in Nat
  OBVIOUS
<1>5. more = (b \o code) \o nal
  BY DEF code, Write
<1>8. more \in Seq(Bytes)
  BY <1>1, <1>5, ConcatThree
<1>6. /\ Len(more) = Len(b) + c + Len(nal)
      /\ \A j \in 1..Len(b) : more[j] = b[j]
      /\ \A j \in 1..c : more[Len(b) + j] = code[j]
      /\ \A j \in 1..Len(nal) : more[Len(b) + c + j] = nal[j]
  BY <1>2, <1>3, <1>5
<1>7. Len(more) \in Nat /\ Len(b) <= Len(more)
  BY <1>4, <1>6
<1>9. Extends(more, b)
  BY <1>6, <1>7 DEF Extends
<1> HIDE DEF more
<1> QED BY <1>4, <1>6, <1>7, <1>8, <1>9 DEF code, Written, more

\* The encoder's buffer after each of its turns.
LEMMA EncoderBuffers ==
    ASSUME NEW nals \in Seq(Seq(Bytes)), NEW codes \in [1..Len(nals) -> {3, 4}]
    PROVE  \E buf \in [0..Len(nals) -> Seq(Bytes)] :
              /\ buf[0] = << >> /\ buf[Len(nals)] = AnnexB(nals, codes)
              /\ \A n \in 0..(Len(nals) - 1) :
                    buf[n + 1] = Write(buf[n], codes[n + 1], nals[n + 1])
<1> DEFINE N == Len(nals)
           turn == EncoderTurn(nals, codes)
           first == [i |-> 1, buf |-> << >>]
           V == [i : Nat \ {0}, buf : Seq(Bytes)]
           run == Loop(turn, first)
           Done(s) == s.i > N
           Next(s) == [i |-> s.i + 1,
                       buf |-> Write(s.buf, codes[s.i], nals[s.i])]
<1>0. N \in Nat
  OBVIOUS
<1>1. first \in V
  OBVIOUS
<1>2. \A s \in V : turn[s] = IF Done(s) THEN s ELSE Next(s)
  BY DEF EncoderTurn
<1>3. ASSUME NEW s \in V, ~Done(s) PROVE Next(s) \in V
  <2>1. s.i \in 1..N /\ s.buf \in Seq(Bytes)
    BY <1>0, <1>3
  <2>2. codes[s.i] \in {3, 4} /\ nals[s.i] \in Seq(Bytes)
    BY <2>1
  <2>3. Write(s.buf, codes[s.i], nals[s.i]) \in Seq(Bytes)
    BY <2>1, <2>2, UnitWritten DEF Written
  <2> QED BY <2>1, <2>3
<1> HIDE DEF turn, first, Done, Next
<1>4. \A s \in V : turn[s] \in V
  BY <1>2, <1>3
<1> HIDE DEF V
<1>5. /\ run \in [Nat -> V] /\ run[0] = first
      /\ \A n \in Nat : run[n + 1] = turn[run[n]]
  BY <1>1, <1>4, LoopTurns
<1> HIDE DEF run
<1> DEFINE S == {n \in Nat : n <= N => run[n].i = n + 1}
<1>6. \A n \in Nat : n \in S
  <2>1. 0 \in S
    BY <1>5 DEF first
  <2>2. ASSUME NEW n \in Nat, n \in S PROVE n + 1 \in S
    <3> SUFFICES ASSUME n + 1 <= N PROVE run[n + 1].i = n + 2
      BY <1>0
    <3>1. run[n].i = n + 1
      BY <1>0, <2>2
    <3>2. run[n] \in V
      BY <1>5
    <3>3. ~Done(run[n])
      BY <1>0, <3>1 DEF Done
    <3>4. run[n + 1] = Next(run[n])
      BY <1>2, <1>5, <3>2, <3>3
    <3> QED BY <3>1, <3>4 DEF Next
  <2> HIDE DEF S
  <2> QED BY <2>1, <2>2, InductionOverNat
<1> DEFINE buf == [n \in 0..N |-> run[n].buf]
<1>7. buf \in [0..N -> Seq(Bytes)]
  BY <1>0, <1>5 DEF V
<1>8. buf[0] = << >>
  BY <1>0, <1>5 DEF first
<1>9. buf[N] = AnnexB(nals, codes)
  BY <1>0 DEF AnnexB, run, turn, first
<1>10. ASSUME NEW n \in 0..(N - 1)
       PROVE  buf[n + 1] = Write(buf[n], codes[n + 1], nals[n + 1])
  <2>1. n \in Nat /\ n \in 0..N /\ n + 1 \in 0..N /\ n + 1 <= N
    BY <1>0
  <2>2. run[n].i = n + 1
    BY <1>6, <2>1
  <2>3. run[n] \in V
    BY <1>5, <2>1
  <2>4. ~Done(run[n])
    BY <1>0, <2>1, <2>2 DEF Done
  <2>5. run[n + 1] = Next(run[n])
    BY <1>2, <1>5, <2>1, <2>3, <2>4
  <2>6. run[n + 1].buf = Write(run[n].buf, codes[run[n].i], nals[run[n].i])
    BY <2>5 DEF Next
  <2>7. run[n + 1].buf = Write(run[n].buf, codes[n + 1], nals[n + 1])
    BY <2>2, <2>6
  <2> QED BY <2>1, <2>7
<1> QED BY <1>7, <1>8, <1>9, <1>10

\* The units lie in buf one after the other; the start code of the k-th is at
\* pos[k].
Layout(buf, nals, codes, pos) ==
    /\ pos \in [1..(Len(nals) + 1) -> Nat \ {0}]
    /\ pos[1] = 1 /\ pos[Len(nals) + 1] = Len(buf) + 1
    /\ \A k \in 1..Len(nals) :
          /\ pos[k + 1] = pos[k] + codes[k] + Len(nals[k])
          /\ pos[k + 1] <= Len(buf) + 1
          /\ \A j \in 1..codes[k] : buf[pos[k] + j - 1] = CodeBytes(codes[k])[j]
          /\ \A j \in 1..Len(nals[k]) : buf[pos[k] + codes[k] + j - 1] = nals[k][j]

\* In the encoder's buffer the units lie one behind the other, each after its
\* start code.
LEMMA EncoderLaysOut ==
    ASSUME NEW nals \in Seq(Seq(Bytes)), NEW codes \in [1..Len(nals) -> {3, 4}]
    PROVE  /\ AnnexB(nals, codes) \in Seq(Bytes)
           /\ \E pos : Layout(AnnexB(nals, codes), nals, codes, pos)
<1> DEFINE N == Len(nals)
           all == AnnexB(nals, codes)
<1>0. N \in Nat
  OBVIOUS
<1>1. PICK buf \in [0..N -> Seq(Bytes)] :
         /\ buf[0] = << >> /\ buf[N] = all
         /\ \A n \in 0..(N - 1) :
               buf[n + 1] = Write(buf[n], codes[n + 1], nals[n + 1])
  BY EncoderBuffers
<1> DEFINE B(n) == buf[n]
           C(k) == codes[k]
           U(k) == nals[k]
           pos == [k \in 1..(N + 1) |-> Len(buf[k - 1]) + 1]
<1>2. \A n \in 0..N : B(n) \in Seq(Bytes)
  OBVIOUS
<1>3. \A k \in 1..N : U(k) \in Seq(Bytes)
  OBVIOUS
<1>4. \A k \in 1..N : C(k) \in {3, 4}
  OBVIOUS
<1>5. \A n \in 0..(N - 1) : B(n + 1) = Write(B(n), C(n + 1), U(n + 1))
  BY <1>1
<1>6. \A k \in 1..(N + 1) : pos[k] = Len(B(k - 1)) + 1
  BY <1>0
<1>7. all = B(N)
  BY <1>1
<1> HIDE DEF N, all, B, C, U, pos
<1>8. ASSUME NEW n \in 0..(N - 1)
      PROVE  C(n + 1) \in {3, 4} /\ Written(B(n + 1), B(n), C(n + 1), U(n + 1))
  <2>1. B(n) \in Seq(Bytes)
    BY <1>0, <1>2
  <2>2. U(n + 1) \in Seq(Bytes)
    BY <1>0, <1>3
  <2>3. C(n + 1) \in {3, 4}
    BY <1>0, <1>4
  <2>4. Written(Write(B(n), C(n + 1), U(n + 1)), B(n), C(n + 1), U(n + 1))
    BY <2>1, <2>2, <2>3, UnitWritten
  <2> QED BY <1>5, <2>3, <2>4
<1>9. \A n \in 0..N : Extends(all, B(n))
  <2>1. \A n \in 0..(N - 1) : Extends(buf[n + 1], buf[n])
    BY <1>8 DEF B, Written
  <2>2. \A n \in 0..N : buf[n] \in Seq(Bytes)
    BY <1>2 DEF B
  <2>3. \A m \in 0..N : \A n \in 0..m : Extends(buf[m], buf[n])
    BY <1>0, <2>1, <2>2, PrefixStays
  <2>4. N \in 0..N
    BY <1>0
  <2> QED BY <1>7, <2>3, <2>4 DEF B
<1>10. all \in Seq(Bytes)
  BY <1>0, <1>2, <1>7
<1>11. ASSUME NEW k \in 1..N
       PROVE  /\ pos[k + 1] = pos[k] + C(k) + Len(U(k))
              /\ pos[k + 1] <= Len(all) + 1
              /\ \A j \in 1..C(k) : all[pos[k] + j - 1] = CodeBytes(C(k))[j]
              /\ \A j \in 1..Len(U(k)) : all[pos[k] + C(k) + j - 1] = U(k)[j]
  <2> DEFINE p == Len(B(k - 1))
             c == C(k)
             l == Len(U(k))
             more == B(k)
             code == CodeBytes(C(k))
             nal == U(k)
             a == pos[k]
             L == Len(all)
  <2>1. k - 1 \in 0..(N - 1) /\ (k - 1) + 1 = k /\ k \in 0..N
    BY <1>0
  <2>w. Written(more, B(k - 1), C(k), U(k))
    BY <1>8, <2>1
  <2>2. Len(more) = p + c + l /\ p \in Nat /\ l \in Nat /\ c \in {3, 4}
    BY <1>4, <2>w DEF Written
  <2>3. /\ \A j \in 1..c : more[p + j] = code[j]
        /\ \A j \in 1..l : more[p + c + j] = nal[j]
    BY <2>w DEF Written
  <2>4. a = p + 1 /\ pos[k + 1] = Len(more) + 1
    BY <1>0, <1>6, <2>1
  <2>5. Len(more) <= L /\ \A j \in 1..Len(more) : all[j] = more[j]
    BY <1>9, <2>1 DEF Extends
  <2>L. L \in Nat
    BY <1>10
  <2> HIDE DEF p, c, l, more, code, nal, a, L
  <2>6. \A j \in 1..c : all[a + j - 1] = code[j]
    <3> SUFFICES ASSUME NEW j \in 1..c PROVE all[a + j - 1] = code[j]
      OBVIOUS
    <3>1. a + j - 1 = p + j
      BY <2>2, <2>4
    <3>2. p + j \in 1..Len(more)
      BY <2>2
    <3> QED BY <2>3, <2>5, <3>1, <3>2
  <2>7. \A j \in 1..l : all[a + c + j - 1] = nal[j]
    <3> SUFFICES ASSUME NEW j \in 1..l PROVE all[a + c + j - 1] = nal[j]
      OBVIOUS
    <3>1. a + c + j - 1 = p + c + j
      BY <2>2, <2>4
    <3>2. p + c + j \in 1..Len(more)
      BY <2>2
    <3> QED BY <2>3, <2>5, <3>1, <3>2
  <2>8. pos[k + 1] = a + c + l /\ pos[k + 1] <= L + 1
    BY <2>2, <2>4, <2>5, <2>L
  <2> QED BY <2>6, <2>7, <2>8 DEF p, c, l, more, code, nal, a, L
<1>12. pos \in [1..(N + 1) -> Nat \ {0}]
  <2>1. \A k \in 1..(N + 1) : Len(B(k - 1)) + 1 \in Nat \ {0}
    BY <1>0, <1>2
  <2> QED BY <2>1 DEF pos, B
<1>13. pos[1] = 1 /\ pos[N + 1] = Len(all) + 1
  <2>1. B(0) = << >>
    BY <1>1 DEF B
  <2> QED BY <1>0, <1>6, <1>7, <2>1
<1>14. Layout(all, nals, codes, pos)
  BY <1>11, <1>12, <1>13 DEF Layout, C, U, N
<1> QED BY <1>10, <1>14 DEF all

----------------------------------------------------------------------------
(* find_nal_units *)

\* A start code is found where it was written.
LEMMA CodeIsFound ==
    ASSUME NEW buf \in Seq(Bytes), NEW i \in Nat \ {0}, NEW c \in {3, 4},
           i + c - 1 <= Len(buf),
           \A j \in 1..c : buf[i + j - 1] = CodeBytes(c)[j]
    PROVE  StartCode(buf, i) = c
<1>0. Len(buf) \in Nat
  OBVIOUS
<1>1. CASE c = 4
  <2>1. /\ buf[i + 1 - 1] = 0 /\ buf[i + 2 - 1] = 0
        /\ buf[i + 3 - 1] = 0 /\ buf[i + 4 - 1] = 1
    BY <1>1, CodeBytesProperties
  <2>2. buf[i] = 0 /\ buf[i + 1] = 0 /\ buf[i + 2] = 0 /\ buf[i + 3] = 1
    BY <2>1
  <2> QED BY <1>0, <1>1, <2>2 DEF StartCode
<1>2. CASE c = 3
  <2>1. buf[i + 1 - 1] = 0 /\ buf[i + 2 - 1] = 0 /\ buf[i + 3 - 1] = 1
    BY <1>2, CodeBytesProperties
  <2>2. buf[i] = 0 /\ buf[i + 1] = 0 /\ buf[i + 2] = 1
    BY <2>1
  <2> QED BY <1>0, <1>2, <2>2 DEF StartCode
<1> QED BY <1>1, <1>2

\* The unit nal lies in buf from start on.
LiesAt(buf, start, nal) ==
    \A j \in 1..Len(nal) : buf[start + j - 1] = nal[j]

\* No start code begins inside a unit, not even with its last bytes.
LEMMA NoCodeInside ==
    ASSUME NEW buf \in Seq(Bytes), NEW start \in Nat \ {0}, NEW nal,
           IsNalUnit(nal), LiesAt(buf, start, nal),
           NEW q \in start..(start + Len(nal) - 1)
    PROVE  StartCode(buf, q) = 0
<1> DEFINE l == Len(nal)
           i == q - start + 1
<1>0. l \in Nat
  BY DEF IsNalUnit
<1>1. nal[l] # 0
  BY DEF IsNalUnit
<1>2. \A k \in 1..(l - 2) : ~(nal[k] = 0 /\ nal[k + 1] = 0 /\ nal[k + 2] = 1)
  BY DEF IsNalUnit
<1>3. \A j \in 1..l : buf[start + j - 1] = nal[j]
  BY DEF LiesAt
<1> HIDE DEF l
<1>4. i \in 1..l
  BY <1>0 DEF l
<1>5. q = start + i - 1 /\ q + 1 = start + (i + 1) - 1
      /\ q + 2 = start + (i + 2) - 1 /\ q + 3 = start + (i + 3) - 1
  BY <1>0
<1> HIDE DEF i
<1>6. buf[q] = nal[i]
  BY <1>3, <1>4, <1>5
<1>7. i + 1 <= l => buf[q + 1] = nal[i + 1]
  BY <1>0, <1>3, <1>4, <1>5
<1>8. i + 2 <= l => buf[q + 2] = nal[i + 2]
  BY <1>0, <1>3, <1>4, <1>5
<1>9. i + 3 <= l => buf[q + 3] = nal[i + 3]
  BY <1>0, <1>3, <1>4, <1>5
<1> DEFINE Three == buf[q] = 0 /\ buf[q + 1] = 0 /\ buf[q + 2] = 1
           Four  == buf[q] = 0 /\ buf[q + 1] = 0 /\ buf[q + 2] = 0 /\ buf[q + 3] = 1
<1>10. ~Three
  <2>1. CASE i = l
    BY <1>1, <1>6, <2>1
  <2>2. CASE i + 1 = l
    BY <1>0, <1>1, <1>4, <1>7, <2>2
  <2>3. CASE i + 2 <= l
    <3>1. i \in 1..(l - 2) /\ i + 1 <= l
      BY <1>0, <1>4, <2>3
    <3> QED BY <1>2, <1>6, <1>7, <1>8, <2>3, <3>1
  <2> QED BY <1>0, <1>4, <2>1, <2>2, <2>3
<1>11. ~Four
  <2>1. CASE i = l
    BY <1>1, <1>6, <2>1
  <2>2. CASE i + 1 = l
    BY <1>0, <1>1, <1>4, <1>7, <2>2
  <2>3. CASE i + 2 = l
    BY <1>0, <1>1, <1>4, <1>8, <2>3
  <2>4. CASE i + 3 <= l
    <3>1. i + 1 \in 1..(l - 2) /\ i + 1 <= l /\ i + 2 <= l
      BY <1>0, <1>4, <2>4
    <3>2. ~(nal[i + 1] = 0 /\ nal[(i + 1) + 1] = 0 /\ nal[(i + 1) + 2] = 1)
      BY <1>2, <3>1
    <3>3. (i + 1) + 1 = i + 2 /\ (i + 1) + 2 = i + 3
      BY <1>4
    <3> QED BY <1>7, <1>8, <1>9, <2>4, <3>1, <3>2, <3>3
  <2> QED BY <1>0, <1>4, <2>1, <2>2, <2>3, <2>4
<1> QED BY <1>10, <1>11 DEF StartCode

\* So a unit ends where the next start code begins, or with the buffer.
LEMMA UnitEnds ==
    ASSUME NEW buf \in Seq(Bytes), NEW start \in Nat \ {0}, NEW end \in Nat,
           start < end, end <= Len(buf) + 1,
           \A q \in start..(end - 1) : StartCode(buf, q) = 0,
           end = Len(buf) + 1 \/ StartCode(buf, end) > 0
    PROVE  NalEnd(buf, start) = end
<1> DEFINE later == {j \in (start + 1)..Len(buf) : StartCode(buf, j) > 0}
<1>0. Len(buf) \in Nat
  OBVIOUS
<1>1. NalEnd(buf, start) = IF later = {} THEN Len(buf) + 1
                           ELSE CHOOSE j \in later : \A k \in later : j <= k
  BY DEF NalEnd
<1>2. \A j \in later : j >= end /\ j \in Nat /\ j <= Len(buf)
  BY <1>0
<1>3. CASE end = Len(buf) + 1
  <2>1. later = {}
    BY <1>0, <1>2, <1>3
  <2> HIDE DEF later
  <2> QED BY <1>1, <1>3, <2>1
<1>4. CASE end # Len(buf) + 1
  <2>1. end \in later
    BY <1>0, <1>4
  <2> HIDE DEF later
  <2>2. \A j \in later : (\A k \in later : j <= k) => j = end
    BY <1>2, <2>1
  <2>3. \A k \in later : end <= k
    BY <1>2
  <2>4. (CHOOSE j \in later : \A k \in later : j <= k) = end
    BY <2>1, <2>2, <2>3
  <2> QED BY <1>1, <2>1, <2>4
<1> QED BY <1>3, <1>4

\* The first t members of s.
First(s, t) == SubSeq(s, 1, t)

\* The first t members are a sequence of length t, the same as in s.
LEMMA FirstProperties ==
    ASSUME NEW S, NEW s \in Seq(S)
    PROVE  /\ First(s, 0) = << >> /\ First(s, Len(s)) = s
           /\ \A t \in 0..Len(s) : First(s, t) \in Seq(S) /\ Len(First(s, t)) = t
           /\ \A t \in 0..Len(s) : \A j \in 1..t : First(s, t)[j] = s[j]
<1>0. Len(s) \in Nat
  OBVIOUS
<1>1. First(s, 0) = << >>
  BY SubSeqEmpty DEF First
<1>2. First(s, Len(s)) = s
  BY SubSeqFull DEF First
<1>3. ASSUME NEW t \in 0..Len(s)
      PROVE  /\ First(s, t) \in Seq(S) /\ Len(First(s, t)) = t
             /\ \A j \in 1..t : First(s, t)[j] = s[j]
  <2>1. \A i \in 1..t : s[i] \in S
    BY <1>0
  <2>2. t \in Int /\ 1 \in Int
    BY <1>0
  <2>3. /\ SubSeq(s, 1, t) \in Seq(S)
        /\ Len(SubSeq(s, 1, t)) = IF 1 <= t THEN t - 1 + 1 ELSE 0
        /\ \A i \in 1..(t - 1 + 1) : SubSeq(s, 1, t)[i] = s[1 + i - 1]
    BY <2>1, <2>2, SubSeqProperties
  <2> QED BY <1>0, <2>3 DEF First
<1> QED BY <1>1, <1>2, <1>3

\* The first t + 1 members are the first t and one more.
LEMMA FirstGrows ==
    ASSUME NEW S, NEW s \in Seq(S), NEW t \in 0..(Len(s) - 1)
    PROVE  First(s, t + 1) = Append(First(s, t), s[t + 1])
<1>0. Len(s) \in Nat
  OBVIOUS
<1>1. t + 1 \in 1..Len(s) /\ 1 \in 1..Len(s) /\ (t + 1) - 1 = t
  BY <1>0
<1>2. First(s, t) \in Seq(S)
  BY <1>0, FirstProperties
<1>3. s[t + 1] \in S
  BY <1>1
<1>4. SubSeq(s, 1, t + 1) = SubSeq(s, 1, (t + 1) - 1) \o <<s[t + 1]>>
  BY <1>1, SubSeqRecursiveSecond
<1>5. Append(First(s, t), s[t + 1]) = First(s, t) \o <<s[t + 1]>>
  BY <1>2, <1>3, AppendIsConcat
<1> QED BY <1>1, <1>4, <1>5 DEF First

\* What find_nal_units makes of a buffer in which the units lie.
UnitAt(buf, i, c, end) ==
    /\ i \in Nat \ {0} /\ c \in {3, 4} /\ end \in Nat
    /\ i + c < end /\ end <= Len(buf) + 1
    /\ StartCode(buf, i) = c /\ NalEnd(buf, i + c) = end

TurnsTo(buf, i, c, end, found) ==
    FindTurn(buf)[[i |-> i, nals |-> found]]
      = [i |-> end, nals |-> Append(found, SubSeq(buf, i + c, end - 1))]

\* Where a unit begins, a turn of find_nal_units takes it and goes on at its end.
LEMMA TurnAtUnit ==
    ASSUME NEW buf \in Seq(Bytes), NEW i, NEW c, NEW end, UnitAt(buf, i, c, end),
           NEW found \in Seq(Seq(Bytes))
    PROVE  TurnsTo(buf, i, c, end, found)
<1> DEFINE s == [i |-> i, nals |-> found]
<1>0. Len(buf) \in Nat
  OBVIOUS
<1>1. s \in [i : Nat, nals : Seq(Seq(Bytes))]
  BY DEF UnitAt
<1>2. s.i = i /\ s.nals = found
  OBVIOUS
<1>3. ~(i > Len(buf)) /\ i + c # i /\ ~(i + c > Len(buf))
  BY <1>0 DEF UnitAt
<1> HIDE DEF s
<1>4. FindTurn(buf)[s]
        = IF s.i > Len(buf) THEN s
          ELSE IF s.i + StartCode(buf, s.i) = s.i THEN [i |-> s.i + 1, nals |-> s.nals]
          ELSE IF s.i + StartCode(buf, s.i) > Len(buf)
               THEN [i |-> Len(buf) + 1, nals |-> s.nals]
          ELSE [i |-> NalEnd(buf, s.i + StartCode(buf, s.i)),
                nals |-> Append(s.nals,
                          SubSeq(buf, s.i + StartCode(buf, s.i),
                                 NalEnd(buf, s.i + StartCode(buf, s.i)) - 1))]
  BY <1>1, Zenon DEF FindTurn
<1>5. StartCode(buf, i) = c /\ NalEnd(buf, i + c) = end
  BY DEF UnitAt
<1> QED BY <1>2, <1>3, <1>4, <1>5, Zenon DEF s, TurnsTo

\* The bytes of a unit that lies in the buffer.
LEMMA UnitIsCut ==
    ASSUME NEW buf \in Seq(Bytes), NEW start \in Nat \ {0}, NEW nal \in Seq(Bytes),
           LiesAt(buf, start, nal), start + Len(nal) <= Len(buf) + 1,
           NEW end, end = start + Len(nal)
    PROVE  SubSeq(buf, start, end - 1) = nal
<1> DEFINE cut == SubSeq(buf, start, end - 1)
<1>0. Len(buf) \in Nat /\ Len(nal) \in Nat
  OBVIOUS
<1>1. start \in Int /\ end - 1 \in Int /\ (end - 1) - start + 1 = Len(nal)
  BY <1>0
<1>2. \A i \in start..(end - 1) : buf[i] \in Bytes
  BY <1>0
<1>3. /\ cut \in Seq(Bytes)
      /\ Len(cut) = IF start <= end - 1 THEN (end - 1) - start + 1 ELSE 0
      /\ \A i \in 1..((end - 1) - start + 1) : cut[i] = buf[start + i - 1]
  BY <1>1, <1>2, SubSeqProperties
<1> HIDE DEF cut
<1>4. cut \in Seq(Bytes)
  BY <1>3
<1>5. Len(cut) = Len(nal)
  BY <1>0, <1>1, <1>3
<1>6. \A i \in 1..Len(cut) : cut[i] = nal[i]
  BY <1>1, <1>3, <1>5 DEF LiesAt
<1>7. cut = nal
  BY <1>4, <1>5, <1>6, SeqEqual
<1> QED BY <1>7 DEF cut

\* find_nal_units finds in an encoder's buffer the units it has written, byte for
\* byte and in order, whatever their bytes and the lengths of the start codes.
LEMMA UnitsAreFound ==
    ASSUME NEW nals \in Seq(Seq(Bytes)), \A k \in 1..Len(nals) : IsNalUnit(nals[k]),
           NEW codes \in [1..Len(nals) -> {3, 4}]
    PROVE  FindNalUnits(AnnexB(nals, codes)) = nals
<1> DEFINE N == Len(nals)
           buf == AnnexB(nals, codes)
<1>0. N \in Nat
  OBVIOUS
<1>1. buf \in Seq(Bytes)
  BY EncoderLaysOut
<1>2. PICK pos : Layout(buf, nals, codes, pos)
  BY EncoderLaysOut
<1> DEFINE A(k) == pos[k]
           C(k) == codes[k]
           U(k) == nals[k]
           L == Len(buf)
<1> HIDE DEF buf
<1>3. \A k \in 1..(N + 1) : A(k) \in Nat \ {0}
  BY <1>2 DEF Layout
<1>4. A(1) = 1 /\ A(N + 1) = L + 1
  BY <1>2 DEF Layout
<1>5. \A k \in 1..N : A(k + 1) = A(k) + C(k) + Len(U(k)) /\ A(k + 1) <= L + 1
  BY <1>2 DEF Layout
<1>6. \A k \in 1..N : \A j \in 1..C(k) : buf[A(k) + j - 1] = CodeBytes(C(k))[j]
  BY <1>2 DEF Layout
<1>7. \A k \in 1..N : LiesAt(buf, A(k) + C(k), U(k))
  BY <1>2 DEF Layout, LiesAt
<1>8. \A k \in 1..N : C(k) \in {3, 4}
  OBVIOUS
<1>9. \A k \in 1..N : U(k) \in Seq(Bytes)
  OBVIOUS
<1>10. \A k \in 1..N : IsNalUnit(U(k))
  OBVIOUS
<1>11. \A k \in 1..N : Len(U(k)) \in Nat \ {0}
  <2> SUFFICES ASSUME NEW k \in 1..N PROVE Len(U(k)) \in Nat \ {0}
    OBVIOUS
  <2>1. U(k) \in Seq(Bytes) /\ U(k) # << >>
    BY <1>9, <1>10 DEF IsNalUnit
  <2> HIDE DEF U
  <2> QED BY <2>1, EmptySeq
<1>L. L \in Nat
  BY <1>1
<1> HIDE DEF A, C, U, N, L
<1>12. ASSUME NEW k \in 1..N PROVE StartCode(buf, A(k)) = C(k)
  <2>1. A(k) \in Nat \ {0} /\ C(k) \in {3, 4} /\ Len(U(k)) \in Nat
    BY <1>0, <1>3, <1>8, <1>11
  <2>2. A(k) + C(k) - 1 <= Len(buf)
    BY <1>5, <1>L, <2>1 DEF L
  <2>3. A(k) \in Nat \ {0}
    BY <2>1
  <2>4. C(k) \in {3, 4}
    BY <2>1
  <2>5. \A j \in 1..C(k) : buf[A(k) + j - 1] = CodeBytes(C(k))[j]
    BY <1>6
  <2> QED BY <1>1, <2>2, <2>3, <2>4, <2>5, CodeIsFound
<1>13. ASSUME NEW k \in 1..N
       PROVE  /\ NalEnd(buf, A(k) + C(k)) = A(k + 1)
              /\ SubSeq(buf, A(k) + C(k), A(k + 1) - 1) = U(k)
              /\ A(k) + C(k) < A(k + 1)
  <2> DEFINE start == A(k) + C(k)
             end == A(k + 1)
             nal == U(k)
  <2>1. A(k) \in Nat \ {0} /\ C(k) \in {3, 4} /\ Len(nal) \in Nat \ {0}
    BY <1>0, <1>3, <1>8, <1>11
  <2>2. end = start + Len(nal) /\ end <= L + 1
    BY <1>5
  <2>3. start \in Nat \ {0}
    BY <2>1
  <2>4. LiesAt(buf, start, nal)
    BY <1>7
  <2>5. IsNalUnit(nal)
    BY <1>10
  <2>6. nal \in Seq(Bytes)
    BY <1>9
  <2>7. end = L + 1 \/ StartCode(buf, end) > 0
    <3>1. CASE k = N
      BY <1>4, <3>1
    <3>2. CASE k # N
      <4>1. k + 1 \in 1..N
        BY <1>0, <3>2
      <4>2. StartCode(buf, end) = C(k + 1) /\ C(k + 1) \in {3, 4}
        BY <1>8, <1>12, <4>1
      <4> QED BY <4>2
    <3> QED BY <3>1, <3>2
  <2> HIDE DEF start, end, nal
  <2>8. end \in Nat /\ start < end
    BY <2>1, <2>2, <2>3
  <2>9. \A q \in start..(end - 1) : StartCode(buf, q) = 0
    <3> SUFFICES ASSUME NEW q \in start..(end - 1) PROVE StartCode(buf, q) = 0
      OBVIOUS
    <3>1. q \in start..(start + Len(nal) - 1)
      BY <2>1, <2>2, <2>3, <2>8
    <3> QED BY <1>1, <2>3, <2>4, <2>5, <3>1, NoCodeInside
  <2>10. end \in Nat
    BY <2>8
  <2>11. NalEnd(buf, start) = end
    BY <1>1, <2>2, <2>3, <2>7, <2>8, <2>9, <2>10, UnitEnds DEF L
  <2>12. start + Len(nal) <= Len(buf) + 1
    BY <2>2 DEF L
  <2>13. SubSeq(buf, start, end - 1) = nal
    BY <1>1, <2>2, <2>3, <2>4, <2>6, <2>12, UnitIsCut
  <2> QED BY <2>8, <2>11, <2>13 DEF start, end, nal
<1> DEFINE st == [t \in 0..N |-> [i |-> A(t + 1), nals |-> First(nals, t)]]
           turn == FindTurn(buf)
<1>14. ASSUME NEW t \in 0..(N - 1) PROVE turn[st[t]] = st[t + 1]
  <2> DEFINE k == t + 1
  <2>1. k \in 1..N /\ t \in 0..N /\ k \in 0..N /\ k \in 1..(N + 1) /\ k + 1 \in 1..(N + 1)
    BY <1>0
  <2>2. st[t] = [i |-> A(k), nals |-> First(nals, t)]
    BY <2>1
  <2>3. st[t + 1] = [i |-> A(k + 1), nals |-> First(nals, k)]
    BY <2>1
  <2>4. First(nals, t) \in Seq(Seq(Bytes))
    BY <2>1, FirstProperties DEF N
  <2>5. First(nals, k) = Append(First(nals, t), U(k))
    BY FirstGrows DEF N, U
  <2> HIDE DEF k, st
  <2>6. A(k) \in Nat \ {0}
    BY <1>3, <2>1
  <2>7. C(k) \in {3, 4}
    BY <1>8, <2>1
  <2>8. A(k + 1) \in Nat
    BY <1>3, <2>1
  <2>9. A(k + 1) <= Len(buf) + 1
    BY <1>5, <2>1 DEF L
  <2>10. turn[[i |-> A(k), nals |-> First(nals, t)]]
           = [i |-> A(k + 1),
              nals |-> Append(First(nals, t), SubSeq(buf, A(k) + C(k), A(k + 1) - 1))]
    <3>1. StartCode(buf, A(k)) = C(k)
      BY <1>12, <2>1
    <3>2. NalEnd(buf, A(k) + C(k)) = A(k + 1)
      BY <1>13, <2>1
    <3>3. A(k) + C(k) < A(k + 1)
      BY <1>13, <2>1
    <3>4. UnitAt(buf, A(k), C(k), A(k + 1))
      BY <2>6, <2>7, <2>8, <2>9, <3>1, <3>2, <3>3 DEF UnitAt
    <3>5. TurnsTo(buf, A(k), C(k), A(k + 1), First(nals, t))
      BY <1>1, <2>4, <3>4, TurnAtUnit
    <3> QED BY <3>5, Zenon DEF TurnsTo
  <2>11. SubSeq(buf, A(k) + C(k), A(k + 1) - 1) = U(k)
    BY <1>13, <2>1
  <2> QED BY <2>2, <2>3, <2>5, <2>10, <2>11, Zenon
<1>15. turn[st[N]] = st[N]
  <2>1. st[N] = [i |-> L + 1, nals |-> First(nals, N)]
    BY <1>0, <1>4
  <2>2. First(nals, N) \in Seq(Seq(Bytes))
    BY <1>0, FirstProperties DEF N
  <2> HIDE DEF st
  <2>3. st[N] \in [i : Nat, nals : Seq(Seq(Bytes))]
    BY <1>L, <2>1, <2>2
  <2>4. st[N].i > Len(buf)
    BY <1>L, <2>1 DEF L
  <2> QED BY <2>3, <2>4, Zenon DEF FindTurn
<1>16. N <= L
  <2> DEFINE S == {k \in Nat : k <= N => A(k + 1) >= k + 1}
  <2>1. 0 \in S
    BY <1>4
  <2>2. ASSUME NEW k \in Nat, k \in S PROVE k + 1 \in S
    <3> SUFFICES ASSUME k + 1 <= N PROVE A((k + 1) + 1) >= (k + 1) + 1
      OBVIOUS
    <3>1. k + 1 \in 1..N /\ k + 1 \in 1..(N + 1) /\ A(k + 1) >= k + 1
      BY <1>0, <2>2
    <3>2. A(k + 1) \in Nat /\ C(k + 1) \in {3, 4} /\ Len(U(k + 1)) \in Nat
      BY <1>3, <1>8, <1>11, <3>1
    <3>3. A((k + 1) + 1) = A(k + 1) + C(k + 1) + Len(U(k + 1))
      BY <1>5, <3>1
    <3> QED BY <3>1, <3>2, <3>3
  <2> HIDE DEF S
  <2>3. N \in S
    BY <1>0, <2>1, <2>2, InductionOverNat
  <2> QED BY <1>0, <1>4, <1>L, <2>3 DEF S
<1> HIDE DEF turn
<1>17. Loop(turn, st[0])[L] = st[N]
  <2> HIDE DEF st
  <2>1. \A t \in 0..(N - 1) : turn[st[t]] = st[t + 1]
    BY <1>14
  <2>2. turn[st[N]] = st[N]
    BY <1>15
  <2>3. Course(turn, st, N)
    BY <2>1, <2>2 DEF Course
  <2> QED BY <1>0, <1>16, <1>L, <2>3, LoopReaches
<1>18. st[0] = [i |-> 1, nals |-> << >>]
  <2>1. st[0] = [i |-> A(0 + 1), nals |-> First(nals, 0)]
    BY <1>0
  <2> QED BY <1>4, <2>1, FirstProperties
<1>19. st[N].nals = nals
  <2>1. First(nals, N) = nals
    BY FirstProperties DEF N
  <2> QED BY <1>0, <2>1
<1>20. FindNalUnits(buf) = Loop(turn, [i |-> 1, nals |-> << >>])[L].nals
  BY Zenon DEF FindNalUnits, turn, L
<1>21. FindNalUnits(buf) = nals
  <2> HIDE DEF st
  <2> QED BY <1>17, <1>18, <1>19, <1>20, Zenon
<1> QED BY <1>21 DEF buf

----------------------------------------------------------------------------
(* The send queue of a key frame *)

\* Appending to the second of two sequences appends to both.
LEMMA ConcatAppend ==
    ASSUME NEW S, NEW a \in Seq(S), NEW b \in Seq(S), NEW x \in S
    PROVE  a \o Append(b, x) = Append(a \o b, x)
<1>1. <<x>> \in Seq(S)
  OBVIOUS
<1>2. a \o b \in Seq(S)
  BY ConcatProperties
<1>3. Append(b, x) = b \o <<x>>
  BY AppendIsConcat
<1>4. Append(a \o b, x) = (a \o b) \o <<x>>
  BY <1>2, AppendIsConcat
<1>5. (a \o b) \o <<x>> = a \o (b \o <<x>>)
  BY <1>1, ConcatAssociative
<1> QED BY <1>3, <1>4, <1>5, Zenon

\* A turn of the loop that fills the queue.
IsParameterSet(nal) == nal[1] \in {SPS, PPS}
QueueTurnsTo(nals, i, queue, next) ==
    QueueTurn(nals)[[i |-> i, queue |-> queue]] = [i |-> i + 1, queue |-> next]

\* A turn of the loop leaves a parameter set out.
LEMMA QueueTurnSkips ==
    ASSUME NEW nals, Len(nals) \in Nat, NEW i \in 1..Len(nals),
           NEW queue \in Seq(Seq(Bytes)), IsParameterSet(nals[i])
    PROVE  QueueTurnsTo(nals, i, queue, queue)
<1> DEFINE s == [i |-> i, queue |-> queue]
<1>1. s \in [i : Nat, queue : Seq(Seq(Bytes))]
  OBVIOUS
<1>2. s.i = i /\ s.queue = queue /\ ~(i > Len(nals))
  OBVIOUS
<1> HIDE DEF s
<1>3. QueueTurn(nals)[s]
        = IF s.i > Len(nals) THEN s
          ELSE [i |-> s.i + 1,
                queue |-> IF nals[s.i][1] \in {SPS, PPS} THEN s.queue
                          ELSE Append(s.queue, nals[s.i])]
  BY <1>1, Zenon DEF QueueTurn
<1> QED BY <1>2, <1>3, Zenon DEF s, QueueTurnsTo, IsParameterSet

\* A turn of the loop takes any other unit.
LEMMA QueueTurnTakes ==
    ASSUME NEW nals, Len(nals) \in Nat, NEW i \in 1..Len(nals),
           NEW queue \in Seq(Seq(Bytes)), ~IsParameterSet(nals[i])
    PROVE  QueueTurnsTo(nals, i, queue, Append(queue, nals[i]))
<1> DEFINE s == [i |-> i, queue |-> queue]
<1>1. s \in [i : Nat, queue : Seq(Seq(Bytes))]
  OBVIOUS
<1>2. s.i = i /\ s.queue = queue /\ ~(i > Len(nals))
  OBVIOUS
<1> HIDE DEF s
<1>3. QueueTurn(nals)[s]
        = IF s.i > Len(nals) THEN s
          ELSE [i |-> s.i + 1,
                queue |-> IF nals[s.i][1] \in {SPS, PPS} THEN s.queue
                          ELSE Append(s.queue, nals[s.i])]
  BY <1>1, Zenon DEF QueueTurn
<1> QED BY <1>2, <1>3, Zenon DEF s, QueueTurnsTo, IsParameterSet

\* The queue has what is stored in front of the units that are no parameter
\* sets, when those are the first d.
LEMMA QueueIsFilled ==
    ASSUME NEW nals, NEW slices \in Seq(Seq(Bytes)), NEW d \in Nat,
           Len(nals) = d + Len(slices),
           \A k \in 1..d : IsParameterSet(nals[k]),
           \A k \in 1..Len(slices) : /\ nals[d + k] = slices[k]
                                     /\ ~IsParameterSet(slices[k]),
           NEW stored \in Seq(Seq(Bytes))
    PROVE  Loop(QueueTurn(nals), [i |-> 1, queue |-> stored])[Len(nals)].queue
             = stored \o slices
<1> DEFINE N == Len(nals)
           M == Len(slices)
           Q(t) == stored \o First(slices, IF t <= d THEN 0 ELSE t - d)
           st == [t \in 0..N |-> [i |-> t + 1, queue |-> Q(t)]]
           turn == QueueTurn(nals)
<1>0. N \in Nat /\ M \in Nat /\ N = d + M
  OBVIOUS
<1>1. stored \o First(slices, 0) = stored
  <2>1. First(slices, 0) = << >>
    BY FirstProperties
  <2>2. stored \o << >> = stored
    BY ConcatEmptySeq
  <2> QED BY <2>1, <2>2, Zenon
<1>2. ASSUME NEW t \in 0..N, t <= d PROVE Q(t) = stored
  BY <1>1, <1>2
<1>3. ASSUME NEW t \in 0..N PROVE Q(t) \in Seq(Seq(Bytes))
  <2> DEFINE m == IF t <= d THEN 0 ELSE t - d
  <2>1. m \in 0..Len(slices)
    BY <1>0
  <2> HIDE DEF m
  <2>2. First(slices, m) \in Seq(Seq(Bytes))
    BY <2>1, FirstProperties
  <2>3. stored \o First(slices, m) \in Seq(Seq(Bytes))
    BY <2>2, ConcatProperties
  <2> QED BY <2>3 DEF m
<1>4. ASSUME NEW t \in 0..(N - 1), d <= t PROVE Q(t + 1) = Append(Q(t), nals[t + 1])
  <2> DEFINE m == t - d
  <2>1. m \in 0..(M - 1) /\ d + (m + 1) = t + 1 /\ m + 1 \in 1..M /\ m \in 0..M
    BY <1>0, <1>4
  <2>2. (IF t + 1 <= d THEN 0 ELSE (t + 1) - d) = m + 1
    BY <1>0, <1>4
  <2>3. (IF t <= d THEN 0 ELSE t - d) = m
    BY <1>0, <1>4
  <2>4. Q(t + 1) = stored \o First(slices, m + 1)
    BY <2>2, Zenon
  <2>5. Q(t) = stored \o First(slices, m)
    BY <2>3, Zenon
  <2>6. nals[t + 1] = slices[m + 1]
    BY <2>1
  <2> HIDE DEF m, Q
  <2>7. First(slices, m + 1) = Append(First(slices, m), slices[m + 1])
    BY <2>1, FirstGrows
  <2>8. First(slices, m) \in Seq(Seq(Bytes))
    BY <2>1, FirstProperties
  <2>9. slices[m + 1] \in Seq(Bytes)
    BY <2>1
  <2>10. stored \o Append(First(slices, m), slices[m + 1])
           = Append(stored \o First(slices, m), slices[m + 1])
    <3> DEFINE before == First(slices, m)
               unit == slices[m + 1]
    <3>1. before \in Seq(Seq(Bytes))
      BY <2>8
    <3>2. unit \in Seq(Bytes)
      BY <2>9
    <3> HIDE DEF before, unit
    <3>3. stored \o Append(before, unit) = Append(stored \o before, unit)
      BY <3>1, <3>2, ConcatAppend, SMTT(30)
    <3> QED BY <3>3, Zenon DEF before, unit
  <2> QED BY <2>4, <2>5, <2>6, <2>7, <2>10, Zenon
<1> HIDE DEF Q, turn
<1>5. ASSUME NEW t \in 0..(N - 1) PROVE turn[st[t]] = st[t + 1]
  <2>1. t + 1 \in 1..Len(nals) /\ Len(nals) \in Nat
    BY <1>0
  <2>2. st[t] = [i |-> t + 1, queue |-> Q(t)] /\ t \in 0..N
    BY <1>0
  <2>3. st[t + 1] = [i |-> (t + 1) + 1, queue |-> Q(t + 1)]
    BY <1>0
  <2>4. Q(t) \in Seq(Seq(Bytes))
    BY <1>3, <2>2
  <2> HIDE DEF st
  <2>5. QueueTurnsTo(nals, t + 1, Q(t), Q(t + 1))
    <3>1. CASE t + 1 <= d
      <4>1. IsParameterSet(nals[t + 1])
        BY <3>1
      <4>2. QueueTurnsTo(nals, t + 1, Q(t), Q(t))
        BY <2>1, <2>4, <4>1, QueueTurnSkips
      <4>3. t + 1 \in 0..N /\ t \in 0..N /\ t <= d
        BY <1>0, <3>1
      <4>4. Q(t + 1) = stored /\ Q(t) = stored
        BY <1>2, <3>1, <4>3, Zenon
      <4> QED BY <4>2, <4>4, Zenon
    <3>2. CASE ~(t + 1 <= d)
      <4>1. d <= t /\ (t - d) + 1 \in 1..Len(slices) /\ d + ((t - d) + 1) = t + 1
        BY <1>0, <3>2
      <4>2. ~IsParameterSet(nals[t + 1])
        BY <4>1
      <4>3. QueueTurnsTo(nals, t + 1, Q(t), Append(Q(t), nals[t + 1]))
        BY <2>1, <2>4, <4>2, QueueTurnTakes
      <4>4. Q(t + 1) = Append(Q(t), nals[t + 1])
        BY <1>4, <4>1
      <4> QED BY <4>3, <4>4, Zenon
    <3> QED BY <3>1, <3>2
  <2> QED BY <2>2, <2>3, <2>5, Zenon DEF QueueTurnsTo, turn
<1>6. turn[st[N]] = st[N]
  <2>1. st[N] = [i |-> N + 1, queue |-> Q(N)]
    BY <1>0
  <2>2. Q(N) \in Seq(Seq(Bytes))
    BY <1>0, <1>3
  <2> HIDE DEF st
  <2>3. st[N] \in [i : Nat, queue : Seq(Seq(Bytes))]
    BY <1>0, <2>1, <2>2
  <2>4. st[N].i > Len(nals)
    BY <1>0, <2>1
  <2> QED BY <2>3, <2>4, Zenon DEF QueueTurn, turn
<1>7. st[0] = [i |-> 1, queue |-> stored]
  <2>1. st[0] = [i |-> 0 + 1, queue |-> Q(0)]
    BY <1>0
  <2>2. Q(0) = stored
    BY <1>0, <1>2
  <2> QED BY <2>1, <2>2
<1>8. st[N].queue = stored \o slices
  <2>1. Q(N) = stored \o slices
    <3>1. (IF N <= d THEN 0 ELSE N - d) = M
      BY <1>0
    <3>2. First(slices, M) = slices
      BY FirstProperties
    <3> QED BY <3>1, <3>2, Zenon DEF Q
  <2> QED BY <1>0, <2>1
<1> HIDE DEF st, N
<1>9. Loop(turn, st[0])[N] = st[N]
  <2>1. Course(turn, st, N)
    BY <1>5, <1>6 DEF Course
  <2>2. N \in Nat /\ N <= N
    BY <1>0
  <2> QED BY <2>1, <2>2, LoopReaches
<1> QED BY <1>7, <1>8, <1>9, Zenon DEF turn, N

\* The pictures' units of a frame.
ArePictures(slices) ==
    /\ slices \in Seq(Seq(Bytes))
    /\ \A k \in 1..Len(slices) : IsNalUnit(slices[k]) /\ ~IsParameterSet(slices[k])

\* A frame without parameter sets leaves the stored ones as they are.
LEMMA NothingNewer ==
    ASSUME NEW slices, ArePictures(slices), NEW type \in {SPS, PPS}, NEW stored
    PROVE  Newest(slices, type, stored) = stored
<1>1. DOMAIN slices = 1..Len(slices)
  BY LenProperties DEF ArePictures
<1>2. {i \in DOMAIN slices : slices[i][1] = type} = {}
  BY <1>1 DEF ArePictures, IsParameterSet
<1> QED BY <1>2, Zenon DEF Newest

\* A key frame without parameter sets is sent behind the stored ones.
LEMMA PlainQueue ==
    ASSUME NEW slices, ArePictures(slices),
           NEW sps \in Seq(Bytes), NEW pps \in Seq(Bytes), sps # << >>, pps # << >>
    PROVE  SendQueue(slices, TRUE, sps, pps) = <<sps, pps>> \o slices
<1>1. <<sps, pps>> \in Seq(Seq(Bytes))
  OBVIOUS
<1>2. slices \in Seq(Seq(Bytes))
  BY DEF ArePictures
<1>3. Len(slices) = 0 + Len(slices)
  BY <1>2
<1>4. \A k \in 1..0 : IsParameterSet(slices[k])
  OBVIOUS
<1>5. \A k \in 1..Len(slices) : slices[0 + k] = slices[k] /\ ~IsParameterSet(slices[k])
  BY DEF ArePictures
<1> DEFINE stored == <<sps, pps>>
<1> HIDE DEF stored
<1>6. Loop(QueueTurn(slices), [i |-> 1, queue |-> stored])[Len(slices)].queue
        = stored \o slices
  BY <1>1, <1>2, <1>3, <1>4, <1>5, QueueIsFilled DEF stored
<1> QED BY <1>6, Zenon DEF SendQueue, stored

\* A parameter set of the encoder is a NAL unit.
LEMMA ParameterSetIsUnit ==
    ASSUME NEW type \in {SPS, PPS}, NEW v \in Versions
    PROVE  /\ ParameterSet(type, v) \in Seq(Bytes) /\ ParameterSet(type, v) # << >>
           /\ IsNalUnit(ParameterSet(type, v))
           /\ ParameterSet(type, v)[1] = type
<1>1. type \in Bytes /\ v \in Bytes /\ v # 0 /\ type # 0
  BY PacketizerAssumption DEF Bytes, SPS, PPS
<1> DEFINE n == <<type, v>>
<1>2. n \in Seq(Bytes)
  BY <1>1
<1>3. Len(n) = 2 /\ n[1] = type /\ n[2] = v /\ n # << >>
  OBVIOUS
<1> HIDE DEF n
<1>4. IsNalUnit(n)
  BY <1>1, <1>2, <1>3 DEF IsNalUnit
<1> QED BY <1>2, <1>3, <1>4 DEF ParameterSet, n

\* A frame with parameter sets in front of its pictures.
HasSets(nals, v, w, slices) ==
    nals = <<ParameterSet(SPS, v), ParameterSet(PPS, w)>> \o slices

\* Where the units of such a frame are, and that they are NAL units.
LEMMA FrameWithSets ==
    ASSUME NEW slices, ArePictures(slices), NEW v \in Versions, NEW w \in Versions,
           NEW nals, HasSets(nals, v, w, slices)
    PROVE  /\ nals \in Seq(Seq(Bytes)) /\ Len(nals) = 2 + Len(slices)
           /\ nals[1] = ParameterSet(SPS, v) /\ nals[2] = ParameterSet(PPS, w)
           /\ \A k \in 1..Len(slices) : nals[2 + k] = slices[k]
           /\ \A k \in 1..Len(nals) : IsNalUnit(nals[k])
<1> DEFINE x == ParameterSet(SPS, v)
           y == ParameterSet(PPS, w)
<1>1. x \in Seq(Bytes)
  BY ParameterSetIsUnit
<1>2. y \in Seq(Bytes)
  BY ParameterSetIsUnit
<1>3. IsNalUnit(x) /\ IsNalUnit(y)
  BY ParameterSetIsUnit
<1>4. slices \in Seq(Seq(Bytes))
  BY DEF ArePictures
<1> HIDE DEF x, y
<1> DEFINE sets == <<x, y>>
<1>5. sets \in Seq(Seq(Bytes))
  BY <1>1, <1>2
<1>6. Len(sets) = 2 /\ sets[1] = x /\ sets[2] = y
  OBVIOUS
<1> HIDE DEF sets
<1>7. nals = sets \o slices
  BY DEF sets, x, y, HasSets
<1>8. nals \in Seq(Seq(Bytes))
  BY <1>4, <1>5, <1>7, ConcatTwo
<1>9. /\ Len(sets \o slices) = Len(sets) + Len(slices)
      /\ \A j \in 1..Len(sets) : (sets \o slices)[j] = sets[j]
      /\ \A j \in 1..Len(slices) : (sets \o slices)[Len(sets) + j] = slices[j]
  BY <1>4, <1>5, ConcatTwo
<1>10. /\ Len(nals) = 2 + Len(slices)
       /\ \A j \in 1..2 : nals[j] = sets[j]
       /\ \A j \in 1..Len(slices) : nals[2 + j] = slices[j]
  BY <1>6, <1>7, <1>9
<1>11. nals[1] = x /\ nals[2] = y
  BY <1>6, <1>10
<1>12. Len(slices) \in Nat
  BY <1>4
<1>13. ASSUME NEW k \in 1..Len(nals) PROVE IsNalUnit(nals[k])
  <2>1. CASE k = 1
    BY <1>3, <1>11, <2>1
  <2>2. CASE k = 2
    BY <1>3, <1>11, <2>2
  <2>3. CASE k > 2
    <3>1. k - 2 \in 1..Len(slices) /\ 2 + (k - 2) = k
      BY <1>10, <1>12, <2>3
    <3>2. nals[k] = slices[k - 2]
      BY <1>10, <3>1
    <3> QED BY <3>1, <3>2 DEF ArePictures
  <2> QED BY <1>10, <1>12, <2>1, <2>2, <2>3
<1> QED BY <1>8, <1>10, <1>11, <1>13 DEF x, y

\* The parameter sets of such a frame become the stored ones.
LEMMA NewestAreTheFrames ==
    ASSUME NEW slices, ArePictures(slices), NEW v \in Versions, NEW w \in Versions,
           NEW nals, HasSets(nals, v, w, slices),
           NEW stored
    PROVE  /\ Newest(nals, SPS, stored) = ParameterSet(SPS, v)
           /\ Newest(nals, PPS, stored) = ParameterSet(PPS, w)
<1>1. nals \in Seq(Seq(Bytes))
  BY FrameWithSets
<1>2. Len(nals) = 2 + Len(slices) /\ nals[1] = ParameterSet(SPS, v)
      /\ nals[2] = ParameterSet(PPS, w)
      /\ \A k \in 1..Len(slices) : nals[2 + k] = slices[k]
  BY FrameWithSets
<1>3. DOMAIN nals = 1..Len(nals)
  BY <1>1, LenProperties
<1>4. slices \in Seq(Seq(Bytes))
  BY DEF ArePictures
<1>5. Len(slices) \in Nat
  BY <1>4
<1>6. nals[1][1] = SPS /\ nals[2][1] = PPS
  BY <1>2, ParameterSetIsUnit
<1>7. ASSUME NEW k \in 1..Len(nals), k # 1, k # 2
      PROVE  nals[k][1] # SPS /\ nals[k][1] # PPS
  <2>1. k - 2 \in 1..Len(slices) /\ 2 + (k - 2) = k
    BY <1>2, <1>5, <1>7
  <2>2. nals[k] = slices[k - 2]
    BY <1>2, <2>1
  <2> QED BY <2>1, <2>2 DEF ArePictures, IsParameterSet
<1>8. {i \in DOMAIN nals : nals[i][1] = SPS} = {1}
  <2>1. 1 \in DOMAIN nals /\ 2 \in DOMAIN nals
    BY <1>2, <1>3, <1>5
  <2>2. \A i \in DOMAIN nals : nals[i][1] = SPS <=> i = 1
    BY <1>3, <1>6, <1>7 DEF SPS, PPS
  <2> QED BY <2>1, <2>2, Zenon
<1>9. {i \in DOMAIN nals : nals[i][1] = PPS} = {2}
  <2>1. 1 \in DOMAIN nals /\ 2 \in DOMAIN nals
    BY <1>2, <1>3, <1>5
  <2>2. \A i \in DOMAIN nals : nals[i][1] = PPS <=> i = 2
    BY <1>3, <1>6, <1>7 DEF SPS, PPS
  <2> QED BY <2>1, <2>2, Zenon
<1>10. (CHOOSE i \in {1} : \A j \in {1} : j <= i) = 1
  OBVIOUS
<1>11. (CHOOSE i \in {2} : \A j \in {2} : j <= i) = 2
  OBVIOUS
<1>12. Newest(nals, SPS, stored) = nals[1]
  <2>1. {1} # {}
    OBVIOUS
  <2> QED BY <1>8, <1>10, <2>1, Zenon DEF Newest
<1>13. Newest(nals, PPS, stored) = nals[2]
  <2>1. {2} # {}
    OBVIOUS
  <2> QED BY <1>9, <1>11, <2>1, Zenon DEF Newest
<1> QED BY <1>2, <1>12, <1>13

\* Such a frame is sent as it is: the stored parameter sets are its own.
LEMMA QueueWithSets ==
    ASSUME NEW slices, ArePictures(slices), NEW v \in Versions, NEW w \in Versions,
           NEW nals, HasSets(nals, v, w, slices)
    PROVE  SendQueue(nals, TRUE, ParameterSet(SPS, v), ParameterSet(PPS, w)) = nals
<1> DEFINE x == ParameterSet(SPS, v)
           y == ParameterSet(PPS, w)
           stored == <<x, y>>
<1>1. x \in Seq(Bytes) /\ x # << >> /\ x[1] = SPS
  BY ParameterSetIsUnit
<1>2. y \in Seq(Bytes) /\ y # << >> /\ y[1] = PPS
  BY ParameterSetIsUnit
<1>3. slices \in Seq(Seq(Bytes))
  BY DEF ArePictures
<1>4. /\ Len(nals) = 2 + Len(slices) /\ nals[1] = x /\ nals[2] = y
      /\ \A k \in 1..Len(slices) : nals[2 + k] = slices[k]
  BY FrameWithSets
<1>5. nals = stored \o slices
  BY Zenon DEF HasSets
<1> HIDE DEF x, y
<1>6. stored \in Seq(Seq(Bytes))
  BY <1>1, <1>2
<1> HIDE DEF stored
<1>7. \A k \in 1..2 : IsParameterSet(nals[k])
  BY <1>1, <1>2, <1>4 DEF IsParameterSet
<1>8. \A k \in 1..Len(slices) : nals[2 + k] = slices[k] /\ ~IsParameterSet(slices[k])
  BY <1>4 DEF ArePictures
<1>9. Loop(QueueTurn(nals), [i |-> 1, queue |-> stored])[Len(nals)].queue
        = stored \o slices
  BY <1>3, <1>4, <1>6, <1>7, <1>8, QueueIsFilled
<1>10. SendQueue(nals, TRUE, x, y)
         = Loop(QueueTurn(nals), [i |-> 1, queue |-> stored])[Len(nals)].queue
  BY <1>1, <1>2, Zenon DEF SendQueue, stored
<1> QED BY <1>5, <1>9, <1>10, Zenon DEF x, y

----------------------------------------------------------------------------
(* What a receiver puts together *)

\* r is what the receiver has after each of the packets, nals what it has in
\* the end.
ReceivesBy(r, pkts, nals) ==
    /\ r[0] = << >> /\ r[Len(pkts)] = nals
    /\ \A k \in 0..Len(pkts) : r[k] \in Seq(Seq(Bytes))
    /\ \A k \in 0..(Len(pkts) - 1) : r[k + 1] = Take(r[k], pkts[k + 1])

Receives(pkts, nals) == \E r : ReceivesBy(r, pkts, nals)

\* Without packets a receiver has nothing.
LEMMA NothingReceived == Receives(<< >>, << >>)
<1> DEFINE r == [k \in 0..0 |-> << >>]
<1>1. Len(<< >>) = 0 /\ r[0] = << >> /\ << >> \in Seq(Seq(Bytes))
  OBVIOUS
<1>2. ReceivesBy(r, << >>, << >>)
  BY <1>1 DEF ReceivesBy
<1> QED BY <1>2 DEF Receives

\* A packet more, and the receiver takes it.
LEMMA OneMoreReceived ==
    ASSUME NEW pkts \in Seq(Packet), NEW nals, Receives(pkts, nals),
           NEW p \in Packet, Take(nals, p) \in Seq(Seq(Bytes))
    PROVE  Receives(Append(pkts, p), Take(nals, p))
<1>1. PICK r : ReceivesBy(r, pkts, nals)
  BY DEF Receives
<1> DEFINE n == Len(pkts)
           more == Append(pkts, p)
           new == Take(nals, p)
           r2 == [k \in 0..(n + 1) |-> IF k = n + 1 THEN new ELSE r[k]]
<1>0. n \in Nat
  OBVIOUS
<1>2. Len(more) = n + 1
  BY AppendProperties
<1>3. \A k \in 1..n : more[k] = pkts[k]
  BY AppendProperties
<1>4. more[n + 1] = p
  BY AppendProperties
<1>5. /\ r[0] = << >> /\ r[n] = nals
      /\ \A k \in 0..n : r[k] \in Seq(Seq(Bytes))
      /\ \A k \in 0..(n - 1) : r[k + 1] = Take(r[k], pkts[k + 1])
  BY <1>1 DEF ReceivesBy
<1>6. new \in Seq(Seq(Bytes))
  OBVIOUS
<1> HIDE DEF n, more
<1>7. new = Take(nals, p)
  OBVIOUS
<1> HIDE DEF new
<1>8. r2[n + 1] = new /\ \A k \in 0..n : r2[k] = r[k]
  BY <1>0
<1> HIDE DEF r2
<1>9. r2[0] = << >> /\ r2[n + 1] = new
  BY <1>0, <1>5, <1>8
<1>10. \A k \in 0..(n + 1) : r2[k] \in Seq(Seq(Bytes))
  <2> SUFFICES ASSUME NEW k \in 0..(n + 1) PROVE r2[k] \in Seq(Seq(Bytes))
    OBVIOUS
  <2>1. CASE k = n + 1
    BY <1>6, <1>8, <2>1
  <2>2. CASE k # n + 1
    <3>1. k \in 0..n
      BY <1>0, <2>2
    <3> QED BY <1>5, <1>8, <3>1
  <2> QED BY <2>1, <2>2
<1>11. \A k \in 0..((n + 1) - 1) : r2[k + 1] = Take(r2[k], more[k + 1])
  <2> SUFFICES ASSUME NEW k \in 0..n PROVE r2[k + 1] = Take(r2[k], more[k + 1])
    BY <1>0
  <2>1. CASE k = n
    BY <1>0, <1>4, <1>5, <1>7, <1>8, <2>1
  <2>2. CASE k # n
    <3>1. k \in 0..(n - 1) /\ k + 1 \in 0..n /\ k + 1 \in 1..n
      BY <1>0, <2>2
    <3>2. r2[k + 1] = r[k + 1] /\ r2[k] = r[k] /\ more[k + 1] = pkts[k + 1]
      BY <1>3, <1>8, <3>1
    <3> QED BY <1>5, <3>1, <3>2
  <2> QED BY <2>1, <2>2
<1>12. ReceivesBy(r2, more, new)
  BY <1>2, <1>9, <1>10, <1>11 DEF ReceivesBy
<1> QED BY <1>12 DEF Receives, more, new

\* The receiver's loop does that.
ReceiverTurnsTo(pkts, i, nals, next) ==
    ReceiverTurn(pkts)[[i |-> i, nals |-> nals]] = [i |-> i + 1, nals |-> next]

\* A turn of the receiver's loop takes a packet.
LEMMA ReceiverTurns ==
    ASSUME NEW pkts, Len(pkts) \in Nat, NEW i \in 1..Len(pkts),
           NEW nals \in Seq(Seq(Bytes))
    PROVE  ReceiverTurnsTo(pkts, i, nals, Take(nals, pkts[i]))
<1> DEFINE s == [i |-> i, nals |-> nals]
<1>1. s \in [i : Nat, nals : Seq(Seq(Bytes))]
  OBVIOUS
<1>2. s.i = i /\ s.nals = nals /\ ~(i > Len(pkts))
  OBVIOUS
<1> HIDE DEF s
<1>3. ReceiverTurn(pkts)[s]
        = IF s.i > Len(pkts) THEN s
          ELSE [i |-> s.i + 1, nals |-> Take(s.nals, pkts[s.i])]
  BY <1>1, Zenon DEF ReceiverTurn
<1> QED BY <1>2, <1>3, Zenon DEF s, ReceiverTurnsTo

\* What the receiver's loop ends with is what it receives.
LEMMA ReceivedIs ==
    ASSUME NEW pkts, Len(pkts) \in Nat, NEW nals, Receives(pkts, nals)
    PROVE  Received(pkts) = nals
<1>1. PICK r : ReceivesBy(r, pkts, nals)
  BY DEF Receives
<1> DEFINE N == Len(pkts)
           turn == ReceiverTurn(pkts)
           st == [t \in 0..N |-> [i |-> t + 1, nals |-> r[t]]]
<1>0. N \in Nat
  OBVIOUS
<1>2. r[0] = << >> /\ r[N] = nals
  BY <1>1 DEF ReceivesBy
<1>3. \A k \in 0..N : r[k] \in Seq(Seq(Bytes))
  BY <1>1 DEF ReceivesBy
<1>4. \A k \in 0..(N - 1) : r[k + 1] = Take(r[k], pkts[k + 1])
  BY <1>1 DEF ReceivesBy
<1>5. ASSUME NEW t \in 0..(N - 1) PROVE turn[st[t]] = st[t + 1]
  <2>1. t + 1 \in 1..Len(pkts) /\ t \in 0..N /\ t + 1 \in 0..N
    BY <1>0
  <2>2. st[t] = [i |-> t + 1, nals |-> r[t]]
    BY <2>1
  <2>3. st[t + 1] = [i |-> (t + 1) + 1, nals |-> r[t + 1]]
    BY <2>1
  <2>4. r[t] \in Seq(Seq(Bytes))
    BY <1>3, <2>1
  <2>5. ReceiverTurnsTo(pkts, t + 1, r[t], Take(r[t], pkts[t + 1]))
    BY <2>1, <2>4, ReceiverTurns
  <2>6. r[t + 1] = Take(r[t], pkts[t + 1])
    BY <1>4
  <2> HIDE DEF st
  <2> QED BY <2>2, <2>3, <2>5, <2>6, Zenon DEF ReceiverTurnsTo
<1>6. turn[st[N]] = st[N]
  <2>1. st[N] = [i |-> N + 1, nals |-> r[N]]
    BY <1>0
  <2>2. r[N] \in Seq(Seq(Bytes))
    BY <1>0, <1>3
  <2> HIDE DEF st
  <2>3. st[N] \in [i : Nat, nals : Seq(Seq(Bytes))]
    BY <1>0, <2>1, <2>2
  <2>4. st[N].i > Len(pkts)
    BY <1>0, <2>1
  <2> QED BY <2>3, <2>4, Zenon DEF ReceiverTurn
<1>7. st[0] = [i |-> 1, nals |-> << >>]
  <2>1. st[0] = [i |-> 0 + 1, nals |-> r[0]]
    BY <1>0
  <2> QED BY <1>2, <2>1
<1>8. st[N].nals = nals
  BY <1>0, <1>2
<1> HIDE DEF st, turn, N
<1>9. Loop(turn, st[0])[N] = st[N]
  <2>1. Course(turn, st, N)
    BY <1>5, <1>6 DEF Course
  <2>2. N \in Nat /\ N <= N
    BY <1>0
  <2> QED BY <2>1, <2>2, LoopReaches
<1> QED BY <1>7, <1>8, <1>9, Zenon DEF turn, N, Received

----------------------------------------------------------------------------
(* The packets of a large unit *)

\* No packet is too large, and the last one alone is marked, if the frame has
\* ended.
Fine(pkts, ended) ==
    \A i \in 1..Len(pkts) : /\ pkts[i].size <= kMaxPayload
                            /\ pkts[i].marker <=> (ended /\ i = Len(pkts))

\* A packet as the last one of those.
FineEnd(p, ended) == p.size <= kMaxPayload /\ p.marker = ended

\* One more packet behind packets of a frame that has not ended.
LEMMA FineGrows ==
    ASSUME NEW pkts \in Seq(Packet), Fine(pkts, FALSE),
           NEW p \in Packet, NEW ended, FineEnd(p, ended)
    PROVE  Fine(Append(pkts, p), ended)
<1> DEFINE more == Append(pkts, p)
           n == Len(pkts)
<1>0. n \in Nat
  OBVIOUS
<1>1. Len(more) = n + 1
  BY AppendProperties
<1>2. \A k \in 1..n : more[k] = pkts[k]
  BY AppendProperties
<1>3. more[n + 1] = p
  BY AppendProperties
<1>4. \A i \in 1..n : pkts[i].size <= kMaxPayload /\ ~pkts[i].marker
  BY DEF Fine
<1> HIDE DEF more, n
<1>5. ASSUME NEW i \in 1..(n + 1)
      PROVE  /\ more[i].size <= kMaxPayload
             /\ more[i].marker <=> (ended /\ i = n + 1)
  <2>1. CASE i = n + 1
    BY <1>3, <2>1 DEF FineEnd
  <2>2. CASE i # n + 1
    <3>1. i \in 1..n
      BY <1>0, <2>2
    <3>2. more[i] = pkts[i]
      BY <1>2, <3>1
    <3>3. pkts[i].size <= kMaxPayload /\ ~pkts[i].marker
      BY <1>4, <3>1
    <3> QED BY <2>2, <3>2, <3>3
  <2> QED BY <2>1, <2>2
<1> QED BY <1>1, <1>5 DEF Fine, more

\* How much of a unit the next packet takes.
LEMMA ChunkProperties ==
    ASSUME NEW nal \in Seq(Bytes), NEW done \in Nat, done < Len(nal) - 1
    PROVE  /\ Chunk(nal, done) \in Nat \ {0}
           /\ done + Chunk(nal, done) <= Len(nal) - 1
           /\ kFuHeaderSize + Chunk(nal, done) <= kMaxPayload
<1>1. Len(nal) \in Nat
  OBVIOUS
<1> QED BY <1>1, PacketizerAssumption DEF Chunk, kFuHeaderSize

\* A packet with a part of a large unit.
IsPart(p, type, start, part) ==
    p.kind = "FU-A" /\ p.type = type /\ p.start = start /\ p.data[1] = part

\* What a receiver makes of the next packet of a unit.
LEMMA FuPacketProperties ==
    ASSUME NEW nal \in Seq(Bytes), NEW done \in Nat, NEW chunk \in Nat \ {0},
           done + chunk <= Len(nal) - 1, kFuHeaderSize + chunk <= kMaxPayload,
           NEW lastNal \in BOOLEAN, NEW p, p = FuPacket(nal, done, chunk, lastNal)
    PROVE  /\ p \in Packet
           /\ IsPart(p, nal[1], done = 0, SubSeq(nal, done + 2, done + 1 + chunk))
           /\ FineEnd(p, done + chunk = Len(nal) - 1 /\ lastNal)
<1> DEFINE part == SubSeq(nal, done + 2, done + 1 + chunk)
           data == <<part>>
           isEnd == done + chunk = Len(nal) - 1
           marker == isEnd /\ lastNal
           size == kFuHeaderSize + chunk
           start == done = 0
<1>0. Len(nal) \in Nat
  OBVIOUS
<1>1. part \in Seq(Bytes)
  <2>1. \A i \in (done + 2)..(done + 1 + chunk) : nal[i] \in Bytes
    BY <1>0
  <2>2. done + 2 \in Int /\ done + 1 + chunk \in Int
    OBVIOUS
  <2> QED BY <2>1, <2>2, SubSeqProperties
<1>2. nal[1] \in Bytes
  BY <1>0
<1>3. size \in Nat /\ size <= kMaxPayload
  BY DEF kFuHeaderSize
<1>4. p = [kind |-> "FU-A", type |-> nal[1], start |-> start, end |-> isEnd,
           data |-> data, size |-> size, marker |-> marker]
  BY DEF FuPacket
<1>5. start \in BOOLEAN /\ isEnd \in BOOLEAN /\ marker \in BOOLEAN
  OBVIOUS
<1> HIDE DEF part, isEnd, marker, size, start
<1>6. data \in Seq(Seq(Bytes)) /\ data[1] = part
  BY <1>1
<1> HIDE DEF data
<1>7. p \in Packet
  BY <1>2, <1>3, <1>4, <1>5, <1>6 DEF Packet
<1>8. /\ p.kind = "FU-A" /\ p.type = nal[1] /\ p.start = start /\ p.data = data
      /\ p.size = size /\ p.marker = marker
  BY <1>4
<1>9. IsPart(p, nal[1], start, part)
  BY <1>6, <1>8, Zenon DEF IsPart
<1>10. FineEnd(p, marker)
  BY <1>3, <1>8 DEF FineEnd
<1> QED BY <1>7, <1>8, <1>9, <1>10, Zenon DEF start, part, marker, isEnd

\* The first part of a unit: the receiver has as much of it, its first byte from
\* the header.
LEMMA TakeFirstPart ==
    ASSUME NEW nals \in Seq(Seq(Bytes)), NEW nal \in Seq(Bytes), NEW chunk \in Nat \ {0},
           chunk <= Len(nal) - 1, NEW p, IsPart(p, nal[1], TRUE, SubSeq(nal, 2, 1 + chunk))
    PROVE  Take(nals, p) = Append(nals, First(nal, 1 + chunk))
<1>0. Len(nal) \in Nat
  OBVIOUS
<1>1. 1 \in 1..Len(nal) /\ 1 + chunk \in 1..Len(nal)
  BY <1>0
<1>2. SubSeq(nal, 1, 1 + chunk) = <<nal[1]>> \o SubSeq(nal, 1 + 1, 1 + chunk)
  BY <1>1, SubSeqRecursiveFirst
<1>3. 1 + 1 = 2
  OBVIOUS
<1>4. First(nal, 1 + chunk) = <<p.type>> \o p.data[1]
  BY <1>2, <1>3, Zenon DEF First, IsPart
<1>5. Take(nals, p) = Append(nals, <<p.type>> \o p.data[1])
  BY Zenon DEF Take, IsPart
<1> QED BY <1>4, <1>5, Zenon

\* A later part is put behind what the receiver has of the unit.
LEMMA TakeNextPart ==
    ASSUME NEW nals \in Seq(Seq(Bytes)), NEW u \in Seq(Bytes), NEW d \in Seq(Bytes),
           NEW p, NEW type, IsPart(p, type, FALSE, d)
    PROVE  Take(Append(nals, u), p) = Append(nals, u \o d)
<1> DEFINE x == Append(nals, u)
           n == Len(nals)
           ud == u \o d
           y == Append(nals, ud)
           z == [x EXCEPT ![n + 1] = ud]
<1>0. n \in Nat
  OBVIOUS
<1>1. x \in Seq(Seq(Bytes))
  BY AppendProperties
<1>2. Len(x) = n + 1
  BY AppendProperties
<1>3. \A j \in 1..n : x[j] = nals[j]
  BY AppendProperties
<1>4. x[n + 1] = u
  BY AppendProperties
<1>5. ud \in Seq(Bytes)
  BY ConcatProperties
<1> HIDE DEF x, ud
<1>6. y \in Seq(Seq(Bytes))
  BY <1>5, AppendProperties
<1>7. Len(y) = n + 1
  BY <1>5, AppendProperties
<1>8. \A j \in 1..n : y[j] = nals[j]
  BY <1>5, AppendProperties
<1>9. y[n + 1] = ud
  BY <1>5, AppendProperties
<1> HIDE DEF y, n
<1>10. n + 1 \in 1..Len(x)
  BY <1>0, <1>2
<1>11. z \in Seq(Seq(Bytes))
  BY <1>1, <1>5, <1>10, ExceptSeq
<1>12. Len(z) = n + 1
  BY <1>1, <1>2, <1>5, <1>10, ExceptSeq
<1>13. \A j \in 1..Len(x) : z[j] = IF j = n + 1 THEN ud ELSE x[j]
  BY <1>1, <1>5, <1>10, ExceptSeq
<1> HIDE DEF z
<1>14. \A j \in 1..Len(z) : z[j] = y[j]
  <2> SUFFICES ASSUME NEW j \in 1..(n + 1) PROVE z[j] = y[j]
    BY <1>12
  <2>1. CASE j = n + 1
    BY <1>2, <1>9, <1>13, <2>1
  <2>2. CASE j # n + 1
    <3>1. j \in 1..n
      BY <1>0, <2>2
    <3> QED BY <1>2, <1>3, <1>8, <1>13, <2>2, <3>1
  <2> QED BY <2>1, <2>2
<1>15. Len(z) = Len(y)
  BY <1>7, <1>12
<1>16. z = y
  BY <1>6, <1>11, <1>14, <1>15, SeqEqual, Zenon
<1>17. Take(x, p) = [x EXCEPT ![Len(x)] = x[Len(x)] \o p.data[1]]
  BY Zenon DEF Take, IsPart
<1>18. x[Len(x)] \o p.data[1] = ud
  BY <1>2, <1>4, Zenon DEF ud, IsPart
<1>19. Take(x, p) = z
  BY <1>2, <1>17, <1>18, Zenon DEF z
<1> QED BY <1>16, <1>19, Zenon DEF x, y, ud

\* How far the packets of a unit have come: the receiver has what was sent.
FuProgress(built, nals, nal, lastNal, done, pkts) ==
    /\ done \in Nat /\ done <= Len(nal) - 1
    /\ pkts \in Seq(Packet)
    /\ done = 0 => pkts = built
    /\ done > 0 => Receives(pkts, Append(nals, First(nal, 1 + done)))
    /\ Fine(pkts, done = Len(nal) - 1 /\ lastNal)

\* The next packet of the unit brings the receiver as far as it goes.
LEMMA FuStep ==
    ASSUME NEW nals \in Seq(Seq(Bytes)), NEW nal \in Seq(Bytes), Len(nal) > kMaxPayload,
           NEW lastNal \in BOOLEAN, NEW built \in Seq(Packet), Receives(built, nals),
           NEW done, NEW pkts, FuProgress(built, nals, nal, lastNal, done, pkts),
           done < Len(nal) - 1, NEW chunk, chunk = Chunk(nal, done)
    PROVE  FuProgress(built, nals, nal, lastNal, done + chunk,
                      Append(pkts, FuPacket(nal, done, chunk, lastNal)))
<1> DEFINE p == FuPacket(nal, done, chunk, lastNal)
           more == Append(pkts, p)
           l == Len(nal)
           part == SubSeq(nal, done + 2, done + 1 + chunk)
<1>0. l \in Nat
  OBVIOUS
<1>1. done \in Nat
  BY DEF FuProgress
<1>2. pkts \in Seq(Packet)
  BY DEF FuProgress
<1>3. chunk \in Nat \ {0}
  BY <1>1, ChunkProperties
<1>4. done + chunk <= Len(nal) - 1
  BY <1>1, ChunkProperties
<1>5. kFuHeaderSize + chunk <= kMaxPayload
  BY <1>1, ChunkProperties
<1>6. p \in Packet
  BY <1>1, <1>3, <1>4, <1>5, FuPacketProperties
<1>7. IsPart(p, nal[1], done = 0, part)
  BY <1>1, <1>3, <1>4, <1>5, FuPacketProperties, Zenon
<1>m. FineEnd(p, done + chunk = Len(nal) - 1 /\ lastNal)
  BY <1>1, <1>3, <1>4, <1>5, FuPacketProperties, ZenonT(40)
<1> HIDE DEF p
<1>8. more \in Seq(Packet)
  BY <1>2, <1>6, AppendProperties
<1>9. Fine(more, done + chunk = Len(nal) - 1 /\ lastNal)
  <2>1. Fine(pkts, done = Len(nal) - 1 /\ lastNal)
    BY DEF FuProgress
  <2>2. ~(done = Len(nal) - 1)
    BY <1>0, <1>1
  <2>3. Fine(pkts, FALSE)
    BY <2>1, <2>2, Zenon DEF Fine
  <2> DEFINE ended == done + chunk = Len(nal) - 1 /\ lastNal
  <2>6. FineEnd(p, ended)
    BY <1>m
  <2> HIDE DEF ended
  <2>7. Fine(Append(pkts, p), ended)
    BY <1>2, <1>6, <2>3, <2>6, FineGrows, Zenon
  <2> QED BY <2>7 DEF ended
<1>10. Receives(more, Append(nals, First(nal, 1 + (done + chunk))))
  <2> DEFINE new == Append(nals, First(nal, 1 + (done + chunk)))
  <2>1. First(nal, 1 + (done + chunk)) \in Seq(Bytes)
    BY <1>0, <1>1, <1>3, <1>4, FirstProperties
  <2>2. new \in Seq(Seq(Bytes))
    BY <2>1, AppendProperties
  <2>3. CASE done = 0
    <3>1. pkts = built
      BY <2>3 DEF FuProgress
    <3>3. done + 2 = 2 /\ done + 1 + chunk = 1 + chunk /\ done + chunk = chunk
      BY <1>3, <2>3
    <3>4. chunk <= Len(nal) - 1
      BY <1>4, <3>3
    <3>5. IsPart(p, nal[1], TRUE, SubSeq(nal, 2, 1 + chunk))
      <4>1. (done = 0) = TRUE
        BY <2>3
      <4> QED BY <1>7, <3>3, <4>1, Zenon
    <3>6. Take(nals, p) = Append(nals, First(nal, 1 + chunk))
      BY <1>3, <3>4, <3>5, TakeFirstPart, Zenon
    <3>7. Take(nals, p) = new
      BY <3>3, <3>6
    <3> HIDE DEF new
    <3>8. Take(nals, p) \in Seq(Seq(Bytes))
      BY <2>2, <3>7
    <3>9. Receives(Append(built, p), Take(nals, p))
      BY <1>6, <3>8, OneMoreReceived
    <3> QED BY <3>1, <3>7, <3>9 DEF new
  <2>4. CASE done # 0
    <3> DEFINE u == First(nal, 1 + done)
    <3>1. Receives(pkts, Append(nals, u))
      <4>1. done > 0
        BY <1>1, <2>4
      <4> QED BY <4>1, Zenon DEF FuProgress
    <3>3. u \in Seq(Bytes)
      BY <1>0, <1>1, FirstProperties
    <3>4. part \in Seq(Bytes)
      <4>1. \A i \in (done + 2)..(done + 1 + chunk) : nal[i] \in Bytes
        BY <1>0, <1>1, <1>3, <1>4
      <4>2. done + 2 \in Int /\ done + 1 + chunk \in Int
        BY <1>1, <1>3
      <4> QED BY <4>1, <4>2, SubSeqProperties
    <3>5. u \o part = First(nal, 1 + (done + chunk))
      <4>1. 1 \in 1..(Len(nal) + 1) /\ 1 + done \in (1 - 1)..Len(nal)
        BY <1>0, <1>1
      <4>2. done + 1 + chunk \in (1 + done)..Len(nal)
        BY <1>0, <1>1, <1>3, <1>4
      <4>3. SubSeq(nal, 1, 1 + done) \o SubSeq(nal, (1 + done) + 1, done + 1 + chunk)
              = SubSeq(nal, 1, done + 1 + chunk)
        BY <4>1, <4>2, ConcatAdjacentSubSeq
      <4>4. (1 + done) + 1 = done + 2 /\ done + 1 + chunk = 1 + (done + chunk)
        BY <1>1, <1>3
      <4> QED BY <4>3, <4>4, Zenon DEF First
    <3> HIDE DEF part, u
    <3>6. IsPart(p, nal[1], FALSE, part)
      <4>1. (done = 0) = FALSE
        BY <2>4
      <4> QED BY <1>7, <4>1, Zenon
    <3>7. Take(Append(nals, u), p) = Append(nals, u \o part)
      BY <3>3, <3>4, <3>6, TakeNextPart, Zenon
    <3>8. Take(Append(nals, u), p) = new
      BY <3>5, <3>7, Zenon
    <3> HIDE DEF new
    <3>9. Take(Append(nals, u), p) \in Seq(Seq(Bytes))
      BY <2>2, <3>8
    <3> DEFINE before == Append(nals, u)
    <3> HIDE DEF before
    <3>10. Receives(pkts, before) /\ Take(before, p) \in Seq(Seq(Bytes))
           /\ Take(before, p) = new
      BY <3>1, <3>8, <3>9 DEF before
    <3>11. Receives(Append(pkts, p), Take(before, p))
      BY <1>2, <1>6, <3>10, OneMoreReceived
    <3> QED BY <3>10, <3>11 DEF new
  <2> QED BY <2>3, <2>4
<1> HIDE DEF more
<1>11. done + chunk \in Nat /\ done + chunk > 0 /\ done + chunk # 0
  BY <1>1, <1>3
<1>12. FuProgress(built, nals, nal, lastNal, done + chunk, more)
  BY <1>4, <1>8, <1>9, <1>10, <1>11, Zenon DEF FuProgress
<1> QED BY <1>12 DEF more, p

\* A turn of the loop sends the next part of the unit.
FuTurnsTo(nal, lastNal, done, pkts, chunk) ==
    FuATurn(nal, lastNal)[[sent |-> done, packets |-> pkts]]
      = [sent    |-> done + chunk,
         packets |-> Append(pkts, FuPacket(nal, done, chunk, lastNal))]

\* The loop over a large unit builds that packet.
LEMMA FuTurns ==
    ASSUME NEW nal, NEW lastNal, NEW done \in Nat, NEW pkts \in Seq(Packet),
           ~(done >= Len(nal) - 1)
    PROVE  FuTurnsTo(nal, lastNal, done, pkts, Chunk(nal, done))
<1> DEFINE s == [sent |-> done, packets |-> pkts]
<1>1. s \in [sent : Nat, packets : Seq(Packet)]
  OBVIOUS
<1>2. s.sent = done /\ s.packets = pkts
  OBVIOUS
<1> HIDE DEF s
<1>3. FuATurn(nal, lastNal)[s]
        = IF s.sent >= Len(nal) - 1 THEN s
          ELSE [sent    |-> s.sent + Chunk(nal, s.sent),
                packets |-> Append(s.packets,
                                   FuPacket(nal, s.sent, Chunk(nal, s.sent), lastNal))]
  BY <1>1, Zenon DEF FuATurn
<1> QED BY <1>2, <1>3, Zenon DEF s, FuTurnsTo

\* A large unit reaches the receiver whole, in packets that are not too large.
LEMMA LargeUnitIsSent ==
    ASSUME NEW nals \in Seq(Seq(Bytes)), NEW nal \in Seq(Bytes), Len(nal) > kMaxPayload,
           NEW lastNal \in BOOLEAN, NEW built \in Seq(Packet), Receives(built, nals),
           Fine(built, FALSE)
    PROVE  /\ FuA(built, nal, lastNal) \in Seq(Packet)
           /\ Receives(FuA(built, nal, lastNal), Append(nals, nal))
           /\ Fine(FuA(built, nal, lastNal), lastNal)
<1> DEFINE States == [sent : Nat, packets : Seq(Packet)]
           Good(s) == FuProgress(built, nals, nal, lastNal, s.sent, s.packets)
           V == {s \in States : Good(s)}
           turn == FuATurn(nal, lastNal)
           first == [sent |-> 0, packets |-> built]
           measure == [s \in V |-> Len(nal) - 1 - s.sent]
<1>0. Len(nal) \in Nat /\ Len(nal) - 1 > 0 /\ ~(0 = Len(nal) - 1)
  <2>1. Len(nal) \in Nat
    OBVIOUS
  <2>2. kMaxPayload \in Nat /\ kMaxPayload > 2
    BY PacketizerAssumption DEF kFuHeaderSize
  <2>3. \A l \in Nat : l > 2 => l - 1 > 0 /\ ~(0 = l - 1)
    OBVIOUS
  <2>4. Len(nal) > 2
    BY <2>1, <2>2
  <2> QED BY <2>1, <2>3, <2>4, Zenon
<1>1. first \in V
  <2>1. first \in States /\ first.sent = 0 /\ first.packets = built
    OBVIOUS
  <2>2. Fine(built, 0 = Len(nal) - 1 /\ lastNal)
    <3>1. (0 = Len(nal) - 1 /\ lastNal) = FALSE
      BY <1>0
    <3> QED BY <3>1, Zenon
  <2>3. 0 \in Nat /\ 0 <= Len(nal) - 1 /\ ~(0 > 0)
    BY <1>0
  <2> HIDE DEF first
  <2>4. Good(first)
    BY <2>1, <2>2, <2>3, Zenon DEF FuProgress
  <2> QED BY <2>1, <2>4
<1>2. ASSUME NEW s \in V
      PROVE  /\ s \in States /\ s.sent \in Nat /\ s.packets \in Seq(Packet)
             /\ s.sent <= Len(nal) - 1
             /\ FuProgress(built, nals, nal, lastNal, s.sent, s.packets)
             /\ s = [sent |-> s.sent, packets |-> s.packets]
  <2>1. s \in States /\ FuProgress(built, nals, nal, lastNal, s.sent, s.packets)
    OBVIOUS
  <2>2. s.sent \in Nat /\ s.packets \in Seq(Packet)
    BY <2>1
  <2>3. s.sent <= Len(nal) - 1
    BY <2>1 DEF FuProgress
  <2>4. s = [sent |-> s.sent, packets |-> s.packets]
    BY <2>1
  <2> QED BY <2>1, <2>2, <2>3, <2>4, Zenon
<1>3. ASSUME NEW s \in V, ~(s.sent >= Len(nal) - 1)
      PROVE  /\ turn[s] \in V
             /\ turn[s].sent > s.sent
  <2> DEFINE chunk == Chunk(nal, s.sent)
             more == Append(s.packets, FuPacket(nal, s.sent, chunk, lastNal))
             t == [sent |-> s.sent + chunk, packets |-> more]
  <2>1. s.sent \in Nat
    BY <1>2
  <2>2. s.packets \in Seq(Packet)
    BY <1>2
  <2>3. FuTurnsTo(nal, lastNal, s.sent, s.packets, chunk)
    BY <1>3, <2>1, <2>2, FuTurns, Zenon
  <2>4. s = [sent |-> s.sent, packets |-> s.packets]
    BY <1>2, Zenon
  <2>5. turn[s] = t
    BY <2>3, <2>4, Zenon DEF FuTurnsTo
  <2>6. s.sent < Len(nal) - 1
    BY <1>0, <1>3, <2>1
  <2>7. FuProgress(built, nals, nal, lastNal, s.sent, s.packets)
    BY <1>2, Zenon
  <2>8. FuProgress(built, nals, nal, lastNal, s.sent + chunk, more)
    BY <2>6, <2>7, FuStep, Zenon
  <2>9. chunk \in Nat \ {0}
    BY <2>1, <2>6, ChunkProperties
  <2> HIDE DEF chunk, more
  <2>10. more \in Seq(Packet)
    BY <2>8, Zenon DEF FuProgress
  <2>11. t \in States /\ t.sent = s.sent + chunk /\ t.packets = more
    BY <2>1, <2>9, <2>10
  <2> HIDE DEF t
  <2>12. t \in V
    BY <2>8, <2>11, Zenon
  <2>13. t.sent > s.sent
    BY <2>1, <2>9, <2>11
  <2> QED BY <2>5, <2>12, <2>13, Zenon
<1>4. ASSUME NEW s \in V, s.sent >= Len(nal) - 1 PROVE turn[s] = s
  <2>1. s \in States
    BY <1>2, Zenon
  <2> QED BY <1>4, <2>1, Zenon DEF FuATurn
<1>5. \A s \in V : turn[s] \in V
  <2> TAKE s \in V
  <2> HIDE DEF V, turn
  <2>1. CASE s.sent >= Len(nal) - 1
    BY <1>4, <2>1, Zenon
  <2>2. CASE ~(s.sent >= Len(nal) - 1)
    BY <1>3, <2>2, Zenon
  <2> QED BY <2>1, <2>2, Zenon
<1>6. ASSUME NEW s \in V PROVE measure[s] = Len(nal) - 1 - s.sent /\ measure[s] \in Nat
  <2>1. measure[s] = Len(nal) - 1 - s.sent
    OBVIOUS
  <2>2. s.sent \in Nat /\ s.sent <= Len(nal) - 1
    BY <1>2
  <2> HIDE DEF measure, V
  <2> QED BY <1>0, <2>1, <2>2
<1> HIDE DEF measure, V, turn
<1>7. ASSUME NEW s \in V PROVE turn[s] = s \/ measure[turn[s]] < measure[s]
  <2>1. CASE s.sent >= Len(nal) - 1
    BY <1>4, <2>1, Zenon
  <2>2. CASE ~(s.sent >= Len(nal) - 1)
    <3> DEFINE t == turn[s]
    <3>1. t \in V
      BY <1>5
    <3>2. t.sent > s.sent
      BY <1>3, <2>2, Zenon
    <3> HIDE DEF t
    <3>3. t.sent \in Nat /\ s.sent \in Nat
      BY <1>2, <3>1
    <3>4. measure[t] < measure[s]
      BY <1>0, <1>6, <3>1, <3>2, <3>3
    <3> QED BY <3>4 DEF t
  <2> QED BY <2>1, <2>2, Zenon
<1> DEFINE last == Loop(turn, first)[Len(nal)]
<1>8. first.sent = 0
  OBVIOUS
<1> HIDE DEF first
<1>9. measure[first] <= Len(nal)
  BY <1>0, <1>1, <1>6, <1>8
<1>10. last \in V /\ turn[last] = last
  <2>1. GoesDown(turn, V, measure)
    BY <1>5, <1>6, <1>7, Zenon DEF GoesDown
  <2> QED BY <1>0, <1>1, <1>9, <2>1, LoopEnds, Zenon
<1>11. FuA(built, nal, lastNal) = last.packets
  BY Zenon DEF FuA, first, turn
<1> HIDE DEF last
<1>12. last.sent = Len(nal) - 1
  <2>1. last.sent \in Nat /\ last.sent <= Len(nal) - 1
    BY <1>2, <1>10
  <2>2. last.sent >= Len(nal) - 1
    <3>1. SUFFICES ASSUME ~(last.sent >= Len(nal) - 1) PROVE FALSE
      OBVIOUS
    <3>2. turn[last].sent > last.sent
      BY <1>3, <1>10, <3>1, Zenon
    <3> QED BY <1>10, <2>1, <3>2
  <2> QED BY <1>0, <2>1, <2>2
<1>13. FuProgress(built, nals, nal, lastNal, Len(nal) - 1, last.packets)
  BY <1>2, <1>10, <1>12, Zenon
<1>14. First(nal, 1 + (Len(nal) - 1)) = nal
  <2>1. 1 + (Len(nal) - 1) = Len(nal)
    BY <1>0
  <2>2. SubSeq(nal, 1, Len(nal)) = nal
    BY SubSeqFull
  <2> QED BY <2>1, <2>2, Zenon DEF First
<1>15. last.packets \in Seq(Packet)
  BY <1>13, Zenon DEF FuProgress
<1>16. Receives(last.packets, Append(nals, nal))
  BY <1>0, <1>13, <1>14, Zenon DEF FuProgress
<1>17. Fine(last.packets, lastNal)
  <2>1. (Len(nal) - 1 = Len(nal) - 1 /\ lastNal) = lastNal
    OBVIOUS
  <2>2. Fine(last.packets, Len(nal) - 1 = Len(nal) - 1 /\ lastNal)
    BY <1>13, Zenon DEF FuProgress
  <2> QED BY <2>1, <2>2, Zenon
<1> QED BY <1>11, <1>15, <1>16, <1>17, Zenon

----------------------------------------------------------------------------
(* The packets of a queue *)

\* A run of small units fits a packet.
RunFits(queue, ni, s) ==
    /\ s.end \in ni..(Len(queue) + 1)
    /\ s.bytes \in Nat /\ s.bytes <= kMaxPayload

\* The run of small units that goes into one packet ends within the queue, and
\* is not too large for a packet.
LEMMA StapFits ==
    ASSUME NEW queue, Len(queue) \in Nat, NEW ni \in 1..Len(queue),
           \A k \in 1..Len(queue) : Len(queue[k]) \in Nat
    PROVE  RunFits(queue, ni, StapEnd(queue, ni))
<1> DEFINE N == Len(queue)
           States == [end : Nat, bytes : Nat]
           V == {s \in States : RunFits(queue, ni, s)}
           first == [end |-> ni, bytes |-> 1]
           turn == StapTurn(queue)
<1>0. N \in Nat
  OBVIOUS
<1>m. kMaxPayload \in Nat /\ kMaxPayload > 2
  BY PacketizerAssumption DEF kFuHeaderSize
<1>1. first \in V
  <2>1. first \in States /\ first.end = ni /\ first.bytes = 1
    OBVIOUS
  <2> HIDE DEF first
  <2>2. RunFits(queue, ni, first)
    BY <1>0, <1>m, <2>1 DEF RunFits
  <2> QED BY <2>1, <2>2
<1>2. ASSUME NEW s \in V PROVE turn[s] \in V
  <2>1. s \in States /\ RunFits(queue, ni, s)
    OBVIOUS
  <2>2. s.end \in Nat /\ s.bytes \in Nat /\ s.end \in ni..(N + 1)
    BY <2>1 DEF RunFits
  <2> DEFINE end == s.end
             size == Len(queue[s.end])
             t == [end |-> s.end + 1, bytes |-> s.bytes + 2 + size]
             stops == \/ s.end > N \/ size > kStapSmallLimit
                      \/ s.bytes + 2 + size > kMaxPayload
  <2>3. turn[s] = IF stops THEN s ELSE t
    BY <2>1, Zenon DEF StapTurn
  <2>4. CASE stops
    BY <2>3, <2>4
  <2>5. CASE ~stops
    <3>1. ~(s.end > N) /\ ~(s.bytes + 2 + size > kMaxPayload)
      BY <2>5
    <3>2. s.end \in 1..N
      BY <1>0, <2>2, <3>1
    <3>3. size \in Nat
      BY <3>2
    <3> HIDE DEF size
    <3>4. t \in States /\ t.end = s.end + 1 /\ t.bytes = s.bytes + 2 + size
      BY <2>2, <3>3
    <3> HIDE DEF t
    <3>5. RunFits(queue, ni, t)
      BY <1>0, <1>m, <2>2, <3>1, <3>2, <3>3, <3>4 DEF RunFits
    <3>6. t \in V
      BY <3>4, <3>5
    <3> HIDE DEF V, turn, stops
    <3> QED BY <2>3, <2>5, <3>6
  <2> QED BY <2>4, <2>5
<1> HIDE DEF V, first, turn
<1>3. Loop(turn, first) \in [Nat -> V]
  BY <1>1, <1>2, LoopTurns
<1>4. Loop(turn, first)[N] \in V
  BY <1>0, <1>3
<1>5. StapEnd(queue, ni) = Loop(turn, first)[N]
  BY Zenon DEF StapEnd, turn, first
<1> QED BY <1>4, <1>5 DEF V

\* A packet with whole units.
LEMMA WholePacketProperties ==
    ASSUME NEW kind \in {"single", "STAP-A"}, NEW data \in Seq(Seq(Bytes)),
           data[1] \in Seq(Bytes), data[1][1] \in Bytes,
           NEW size \in Nat, size <= kMaxPayload,
           NEW marker \in BOOLEAN,
           NEW p, p = WholePacket(kind, data, size, marker)
    PROVE  /\ p \in Packet
           /\ FineEnd(p, marker)
<1> DEFINE type == data[1][1]
<1>1. p = [kind |-> kind, type |-> type, start |-> TRUE, end |-> TRUE,
           data |-> data, size |-> size, marker |-> marker]
  BY DEF WholePacket
<1>2. type \in Bytes
  OBVIOUS
<1> HIDE DEF type
<1>3. p \in Packet
  BY <1>1, <1>2 DEF Packet
<1>4. p.kind = kind /\ p.data = data /\ p.size = size /\ p.marker = marker
  BY <1>1
<1>7. FineEnd(p, marker)
  BY <1>4 DEF FineEnd
<1> QED BY <1>3, <1>7

\* A send queue: units, none of them empty.
IsQueue(queue) ==
    queue \in Seq(Seq(Bytes)) /\ \A k \in 1..Len(queue) : queue[k] # << >>

\* The units of a queue have a first byte.
LEMMA QueueUnits ==
    ASSUME NEW queue, IsQueue(queue)
    PROVE  /\ queue \in Seq(Seq(Bytes)) /\ Len(queue) \in Nat
           /\ \A k \in 1..Len(queue) : /\ queue[k] \in Seq(Bytes)
                                       /\ Len(queue[k]) \in Nat
                                       /\ queue[k][1] \in Bytes
<1>1. queue \in Seq(Seq(Bytes))
  BY DEF IsQueue
<1>2. Len(queue) \in Nat
  BY <1>1
<1>3. ASSUME NEW k \in 1..Len(queue)
      PROVE  queue[k] \in Seq(Bytes) /\ Len(queue[k]) \in Nat /\ queue[k][1] \in Bytes
  <2> DEFINE u == queue[k]
  <2>1. u \in Seq(Bytes)
    BY <1>1
  <2>2. u # << >>
    BY DEF IsQueue
  <2> HIDE DEF u
  <2>3. Len(u) \in Nat
    BY <2>1
  <2>4. Len(u) # 0
    BY <2>1, <2>2, EmptySeq
  <2>5. u[1] \in Bytes
    BY <2>1, <2>3, <2>4
  <2> QED BY <2>1, <2>3, <2>5 DEF u
<1> QED BY <1>1, <1>2, <1>3

\* How far the packets of a queue have come: the receiver has what was sent.
QueueProgress(queue, ni, pkts) ==
    /\ ni \in 1..(Len(queue) + 1)
    /\ pkts \in Seq(Packet)
    /\ Receives(pkts, First(queue, ni - 1))
    /\ Fine(pkts, ni = Len(queue) + 1)

\* While units are left no packet is marked.
LEMMA NotYetEnded ==
    ASSUME NEW queue, Len(queue) \in Nat, NEW ni \in 1..Len(queue), NEW pkts,
           QueueProgress(queue, ni, pkts)
    PROVE  Fine(pkts, FALSE)
<1>1. Fine(pkts, ni = Len(queue) + 1)
  BY Zenon DEF QueueProgress
<1>2. \A l \in Nat : ni \in 1..l => (ni = l + 1) = FALSE
  OBVIOUS
<1>3. (ni = Len(queue) + 1) = FALSE
  BY <1>2, Zenon
<1> QED BY <1>1, <1>3, Zenon

\* A packet with the units from ni to before end.
LEMMA WholeUnitsAreSent ==
    ASSUME NEW queue, IsQueue(queue), NEW ni \in 1..Len(queue),
           NEW end \in (ni + 1)..(Len(queue) + 1), NEW built,
           QueueProgress(queue, ni, built), NEW kind \in {"single", "STAP-A"},
           NEW size \in Nat, size <= kMaxPayload,
           NEW p,
           p = WholePacket(kind, SubSeq(queue, ni, end - 1), size, end = Len(queue) + 1)
    PROVE  QueueProgress(queue, end, Append(built, p))
<1> DEFINE data == SubSeq(queue, ni, end - 1)
           marker == end = Len(queue) + 1
           nals == First(queue, ni - 1)
           N == Len(queue)
<1>0. N \in Nat
  BY QueueUnits
<1>1. queue \in Seq(Seq(Bytes))
  BY QueueUnits
<1>2. ni \in Int /\ end - 1 \in Int /\ ni <= end - 1 /\ end - 1 <= N /\ ni - 1 \in 0..N
      /\ end - 1 \in 0..N /\ end \in 1..(N + 1)
  BY <1>0
<1>3. \A i \in ni..(end - 1) : queue[i] \in Seq(Bytes)
  BY <1>0, QueueUnits
<1>4. data \in Seq(Seq(Bytes))
  BY <1>2, <1>3, SubSeqProperties
<1>5. data[1] = queue[ni]
  <2>1. \A i \in 1..((end - 1) - ni + 1) : data[i] = queue[ni + i - 1]
    BY <1>2, <1>3, SubSeqProperties
  <2>2. 1 \in 1..((end - 1) - ni + 1) /\ ni + 1 - 1 = ni
    BY <1>2
  <2> HIDE DEF data
  <2>3. data[1] = queue[ni + 1 - 1]
    BY <2>1, <2>2, Zenon
  <2> QED BY <2>2, <2>3, Zenon
<1>6. data[1] \in Seq(Bytes)
  BY <1>5, QueueUnits
<1>7. data[1][1] \in Bytes
  BY <1>5, QueueUnits
<1>8. nals \o data = First(queue, end - 1)
  <2>1. 1 \in 1..(Len(queue) + 1) /\ ni - 1 \in (1 - 1)..Len(queue)
        /\ end - 1 \in (ni - 1)..Len(queue) /\ (ni - 1) + 1 = ni
    BY <1>0
  <2>2. SubSeq(queue, 1, ni - 1) \o SubSeq(queue, (ni - 1) + 1, end - 1)
          = SubSeq(queue, 1, end - 1)
    BY <1>1, <2>1, ConcatAdjacentSubSeq
  <2> QED BY <2>1, <2>2, Zenon DEF First
<1>9. First(queue, end - 1) \in Seq(Seq(Bytes))
  BY <1>1, <1>2, FirstProperties
<1>10. built \in Seq(Packet)
  BY Zenon DEF QueueProgress
<1>11. Receives(built, nals)
  BY Zenon DEF QueueProgress
<1>12. Fine(built, FALSE)
  BY <1>0, NotYetEnded, Zenon
<1>13. marker \in BOOLEAN
  OBVIOUS
<1>14. p = WholePacket(kind, data, size, marker)
  OBVIOUS
<1> HIDE DEF data, marker, nals
<1>15. p \in Packet
  BY <1>4, <1>6, <1>7, <1>13, <1>14, WholePacketProperties, Zenon
<1>16. Take(nals, p) = nals \o data
  <2>1. p.kind # "FU-A" /\ p.data = data
    BY <1>14 DEF WholePacket
  <2> QED BY <2>1, Zenon DEF Take
<1>17. FineEnd(p, marker)
  BY <1>4, <1>6, <1>7, <1>13, <1>14, WholePacketProperties, Zenon
<1>18. Append(built, p) \in Seq(Packet)
  BY <1>10, <1>15, AppendProperties
<1>19. Fine(Append(built, p), marker)
  BY <1>10, <1>12, <1>15, <1>17, FineGrows, Zenon
<1>20. Take(nals, p) \in Seq(Seq(Bytes))
  BY <1>8, <1>9, <1>16
<1>21. Receives(Append(built, p), Take(nals, p))
  BY <1>10, <1>11, <1>15, <1>20, OneMoreReceived, Zenon
<1>22. Receives(Append(built, p), First(queue, end - 1))
  BY <1>8, <1>16, <1>21, Zenon
<1> QED BY <1>2, <1>18, <1>19, <1>22, Zenon DEF QueueProgress, marker

\* A large unit of the queue is sent in parts.
LEMMA LargeUnitOfQueueIsSent ==
    ASSUME NEW queue, IsQueue(queue), NEW ni \in 1..Len(queue), NEW built,
           QueueProgress(queue, ni, built), Len(queue[ni]) > kMaxPayload
    PROVE  QueueProgress(queue, ni + 1, FuA(built, queue[ni], ni = Len(queue)))
<1> DEFINE nal == queue[ni]
           nals == First(queue, ni - 1)
           N == Len(queue)
           lastNal == ni = Len(queue)
<1>0. N \in Nat
  BY QueueUnits
<1>1. queue \in Seq(Seq(Bytes))
  BY QueueUnits
<1>2. nal \in Seq(Bytes)
  BY QueueUnits
<1>3. nals \in Seq(Seq(Bytes))
  <2>1. ni - 1 \in 0..Len(queue)
    BY <1>0
  <2> QED BY <1>1, <2>1, FirstProperties
<1>4. Append(nals, nal) = First(queue, (ni + 1) - 1)
  <2>1. ni - 1 \in 0..(Len(queue) - 1) /\ (ni - 1) + 1 = ni /\ (ni + 1) - 1 = ni
    BY <1>0
  <2>2. First(queue, (ni - 1) + 1) = Append(First(queue, ni - 1), queue[(ni - 1) + 1])
    BY <1>1, <2>1, FirstGrows
  <2> QED BY <2>1, <2>2, Zenon
<1>5. built \in Seq(Packet)
  BY Zenon DEF QueueProgress
<1>6. Receives(built, nals)
  BY Zenon DEF QueueProgress
<1>7. Fine(built, FALSE)
  BY <1>0, NotYetEnded, Zenon
<1>8. lastNal \in BOOLEAN
  OBVIOUS
<1>9. Len(nal) > kMaxPayload
  OBVIOUS
<1>10. lastNal = (ni + 1 = Len(queue) + 1)
  <2>1. \A l \in Nat : (ni = l) = (ni + 1 = l + 1)
    OBVIOUS
  <2> QED BY <1>0, <2>1, Zenon
<1>11. ni + 1 \in 1..(Len(queue) + 1)
  BY <1>0
<1> DEFINE new == FuA(built, nal, lastNal)
<1> HIDE DEF nal, nals, lastNal
<1>12. /\ new \in Seq(Packet) /\ Receives(new, Append(nals, nal)) /\ Fine(new, lastNal)
  BY <1>2, <1>3, <1>5, <1>6, <1>7, <1>8, <1>9, LargeUnitIsSent, Zenon
<1> HIDE DEF new
<1>13. Receives(new, First(queue, (ni + 1) - 1))
  BY <1>4, <1>12, Zenon
<1>14. Fine(new, ni + 1 = Len(queue) + 1)
  BY <1>10, <1>12, Zenon
<1>15. QueueProgress(queue, ni + 1, new)
  BY <1>11, <1>12, <1>13, <1>14, Zenon DEF QueueProgress
<1> QED BY <1>15, Zenon DEF new, nal, lastNal

\* A turn of the loop over the queue goes on, and the receiver with it.
PacketTurnsTo(queue, ni, pkts, next, more) ==
    PacketTurn(queue)[[ni |-> ni, packets |-> pkts]] = [ni |-> next, packets |-> more]

\* Whichever of the three ways a unit is sent in, the receiver has it then.
LEMMA PacketTurns ==
    ASSUME NEW queue, IsQueue(queue), NEW ni \in 1..Len(queue), NEW pkts,
           QueueProgress(queue, ni, pkts)
    PROVE  \E next, more : /\ PacketTurnsTo(queue, ni, pkts, next, more)
                           /\ QueueProgress(queue, next, more)
                           /\ next > ni
<1> DEFINE s == [ni |-> ni, packets |-> pkts]
           nal == queue[ni]
           last == ni = Len(queue)
           stap == StapEnd(queue, ni)
           run == WholePacket("STAP-A", SubSeq(queue, ni, stap.end - 1),
                              stap.bytes, stap.end = Len(queue) + 1)
           one == WholePacket("single", <<nal>>, Len(nal), last)
<1>0. Len(queue) \in Nat
  BY QueueUnits
<1>1. pkts \in Seq(Packet)
  BY Zenon DEF QueueProgress
<1>2. s \in [ni : Nat, packets : Seq(Packet)] /\ s.ni = ni /\ s.packets = pkts
  BY <1>1
<1>3. ~(ni > Len(queue))
  BY <1>0
<1> HIDE DEF s
<1>4. PacketTurn(queue)[s]
        = IF s.ni > Len(queue) THEN s
          ELSE IF Len(queue[s.ni]) > kMaxPayload
          THEN [ni |-> s.ni + 1,
                packets |-> FuA(s.packets, queue[s.ni], s.ni = Len(queue))]
          ELSE IF StapEnd(queue, s.ni).end > s.ni + 1
          THEN [ni |-> StapEnd(queue, s.ni).end,
                packets |-> Append(s.packets,
                              WholePacket("STAP-A",
                                SubSeq(queue, s.ni, StapEnd(queue, s.ni).end - 1),
                                StapEnd(queue, s.ni).bytes,
                                StapEnd(queue, s.ni).end = Len(queue) + 1))]
          ELSE [ni |-> s.ni + 1,
                packets |-> Append(s.packets,
                              WholePacket("single", <<queue[s.ni]>>, Len(queue[s.ni]),
                                          s.ni = Len(queue)))]
  BY <1>2, Zenon DEF PacketTurn
<1>5. PacketTurn(queue)[s]
        = IF Len(nal) > kMaxPayload
          THEN [ni |-> ni + 1, packets |-> FuA(pkts, nal, last)]
          ELSE IF stap.end > ni + 1
          THEN [ni |-> stap.end, packets |-> Append(pkts, run)]
          ELSE [ni |-> ni + 1, packets |-> Append(pkts, one)]
  BY <1>2, <1>3, <1>4, Zenon
<1>6. ni + 1 > ni
  BY <1>0
<1>7. CASE Len(nal) > kMaxPayload
  <2>1. PacketTurnsTo(queue, ni, pkts, ni + 1, FuA(pkts, nal, last))
    BY <1>5, <1>7, Zenon DEF PacketTurnsTo, s
  <2>2. QueueProgress(queue, ni + 1, FuA(pkts, nal, last))
    BY <1>7, LargeUnitOfQueueIsSent, Zenon
  <2> QED BY <1>6, <2>1, <2>2, Zenon
<1>8. CASE ~(Len(nal) > kMaxPayload) /\ stap.end > ni + 1
  <2>1. PacketTurnsTo(queue, ni, pkts, stap.end, Append(pkts, run))
    BY <1>5, <1>8, Zenon DEF PacketTurnsTo, s
  <2>2. RunFits(queue, ni, stap)
    BY <1>0, QueueUnits, StapFits
  <2>3. /\ stap.end \in ni..(Len(queue) + 1)
        /\ stap.bytes \in Nat /\ stap.bytes <= kMaxPayload
    BY <2>2, Zenon DEF RunFits
  <2> DEFINE end == stap.end
             bytes == stap.bytes
  <2>4. end \in (ni + 1)..(Len(queue) + 1) /\ end > ni
    <3>1. end > ni + 1 /\ end \in ni..(Len(queue) + 1)
      BY <1>8, <2>3
    <3> HIDE DEF end
    <3> QED BY <1>0, <3>1
  <2>5. bytes \in Nat /\ bytes <= kMaxPayload
    BY <2>3
  <2>6. run = WholePacket("STAP-A", SubSeq(queue, ni, end - 1), bytes, end = Len(queue) + 1)
    OBVIOUS
  <2> HIDE DEF end, bytes, run
  <2>7. QueueProgress(queue, end, Append(pkts, run))
    BY <2>4, <2>5, <2>6, WholeUnitsAreSent, Zenon
  <2> QED BY <2>1, <2>4, <2>7, Zenon DEF end
<1>9. CASE ~(Len(nal) > kMaxPayload) /\ ~(stap.end > ni + 1)
  <2>1. PacketTurnsTo(queue, ni, pkts, ni + 1, Append(pkts, one))
    BY <1>5, <1>9, Zenon DEF PacketTurnsTo, s
  <2>2. Len(nal) \in Nat /\ Len(nal) <= kMaxPayload
    <3>1. Len(nal) \in Nat
      BY QueueUnits
    <3>2. kMaxPayload \in Nat
      BY PacketizerAssumption
    <3> QED BY <1>9, <3>1, <3>2
  <2>3. ni + 1 \in (ni + 1)..(Len(queue) + 1)
    BY <1>0
  <2>4. <<nal>> = SubSeq(queue, ni, (ni + 1) - 1)
    <3>1. queue \in Seq(Seq(Bytes))
      BY QueueUnits
    <3>2. /\ ni \in ni..Len(queue) /\ (ni + 1) - 1 = ni
          /\ ni \in Int /\ ni + 1 \in Int /\ ni < ni + 1
      BY <1>0
    <3>3. SubSeq(queue, ni, ni) = <<nal>> \o SubSeq(queue, ni + 1, ni)
      BY <3>1, <3>2, SubSeqRecursiveFirst
    <3>4. SubSeq(queue, ni + 1, ni) = << >>
      BY <3>2, SubSeqEmpty
    <3>5. nal \in Seq(Bytes)
      BY QueueUnits
    <3>6. <<nal>> \in Seq(Seq(Bytes))
      BY <3>5
    <3>7. <<nal>> \o << >> = <<nal>>
      BY <3>6, ConcatEmptySeq
    <3> QED BY <3>2, <3>3, <3>4, <3>7, Zenon
  <2>5. last = (ni + 1 = Len(queue) + 1)
    <3>1. \A l \in Nat : (ni = l) = (ni + 1 = l + 1)
      OBVIOUS
    <3> QED BY <1>0, <3>1, Zenon
  <2>6. one = WholePacket("single", SubSeq(queue, ni, (ni + 1) - 1), Len(nal),
                          ni + 1 = Len(queue) + 1)
    BY <2>4, <2>5, Zenon
  <2> HIDE DEF one
  <2>7. QueueProgress(queue, ni + 1, Append(pkts, one))
    BY <2>2, <2>3, <2>6, WholeUnitsAreSent, Zenon
  <2> QED BY <1>6, <2>1, <2>7, Zenon
<1> QED BY <1>7, <1>8, <1>9, Zenon

\* The whole queue reaches the receiver, in packets that are not too large, the
\* last one and no other marked.
LEMMA QueueIsSent ==
    ASSUME NEW queue, IsQueue(queue)
    PROVE  /\ Packetize(queue) \in Seq(Packet)
           /\ Receives(Packetize(queue), queue)
           /\ Fine(Packetize(queue), TRUE)
<1> DEFINE N == Len(queue)
           States == [ni : Nat, packets : Seq(Packet)]
           V == {s \in States : QueueProgress(queue, s.ni, s.packets)}
           turn == PacketTurn(queue)
           first == [ni |-> 1, packets |-> << >>]
           measure == [s \in V |-> N + 1 - s.ni]
<1>0. N \in Nat
  BY QueueUnits
<1>1. queue \in Seq(Seq(Bytes))
  BY QueueUnits
<1>2. first \in V
  <2>1. << >> \in Seq(Packet)
    OBVIOUS
  <2>2. first \in States /\ first.ni = 1 /\ first.packets = << >>
    BY <2>1
  <2>3. First(queue, 1 - 1) = << >>
    BY <1>1, FirstProperties
  <2>4. Receives(<< >>, First(queue, 1 - 1))
    BY <2>3, NothingReceived, Zenon
  <2>5. 1 \in 1..(Len(queue) + 1)
    BY <1>0
  <2>6. Fine(<< >>, 1 = Len(queue) + 1)
    <3>1. \A i \in 1..Len(<< >>) : FALSE
      OBVIOUS
    <3> QED BY <3>1, Zenon DEF Fine
  <2> HIDE DEF first
  <2>7. QueueProgress(queue, first.ni, first.packets)
    BY <2>1, <2>2, <2>4, <2>5, <2>6, Zenon DEF QueueProgress
  <2> QED BY <2>2, <2>7
<1>3. ASSUME NEW s \in V
      PROVE  /\ s \in States /\ QueueProgress(queue, s.ni, s.packets)
             /\ s = [ni |-> s.ni, packets |-> s.packets]
             /\ s.ni \in 1..(N + 1)
  <2>1. s \in States /\ QueueProgress(queue, s.ni, s.packets)
    OBVIOUS
  <2>2. s = [ni |-> s.ni, packets |-> s.packets]
    BY <2>1
  <2>3. s.ni \in 1..(N + 1)
    BY <2>1, Zenon DEF QueueProgress
  <2> QED BY <2>1, <2>2, <2>3, Zenon
<1>4. ASSUME NEW s \in V, s.ni > N PROVE turn[s] = s
  BY <1>3, <1>4, Zenon DEF PacketTurn
<1>5. ASSUME NEW s \in V, ~(s.ni > N) PROVE turn[s] \in V /\ turn[s].ni > s.ni
  <2>1. s.ni \in 1..Len(queue)
    BY <1>0, <1>3, <1>5
  <2>2. QueueProgress(queue, s.ni, s.packets)
    BY <1>3, Zenon
  <2>3. PICK next, more : /\ PacketTurnsTo(queue, s.ni, s.packets, next, more)
                          /\ QueueProgress(queue, next, more)
                          /\ next > s.ni
    BY <2>1, <2>2, PacketTurns, Zenon
  <2> DEFINE t == [ni |-> next, packets |-> more]
  <2>4. turn[s] = t
    <3>1. s = [ni |-> s.ni, packets |-> s.packets]
      BY <1>3, Zenon
    <3> QED BY <2>3, <3>1, Zenon DEF PacketTurnsTo
  <2>5. more \in Seq(Packet)
    BY <2>3, Zenon DEF QueueProgress
  <2>6. next \in Nat
    <3>1. next \in 1..(Len(queue) + 1)
      BY <2>3, Zenon DEF QueueProgress
    <3> QED BY <1>0, <3>1
  <2>7. t \in States /\ t.ni = next /\ t.packets = more
    BY <2>5, <2>6
  <2> HIDE DEF t
  <2>8. t \in V
    BY <2>3, <2>7, Zenon
  <2> QED BY <2>3, <2>4, <2>7, <2>8, Zenon
<1>6. ASSUME NEW s \in V PROVE measure[s] = N + 1 - s.ni /\ measure[s] \in Nat
  <2>1. measure[s] = N + 1 - s.ni
    OBVIOUS
  <2>2. s.ni \in 1..(N + 1)
    BY <1>3, Zenon
  <2> HIDE DEF measure, V
  <2> QED BY <1>0, <2>1, <2>2
<1> HIDE DEF measure, V, turn
<1>7. ASSUME NEW s \in V
      PROVE  turn[s] \in V /\ (turn[s] = s \/ measure[turn[s]] < measure[s])
  <2>1. CASE s.ni > N
    BY <1>4, <2>1, Zenon
  <2>2. CASE ~(s.ni > N)
    <3> DEFINE t == turn[s]
    <3>1. t \in V /\ t.ni > s.ni
      BY <1>5, <2>2, Zenon
    <3> HIDE DEF t
    <3>2. t.ni \in 1..(N + 1) /\ s.ni \in 1..(N + 1)
      BY <1>3, <3>1, Zenon
    <3>3. measure[t] < measure[s]
      BY <1>0, <1>6, <3>1, <3>2
    <3> QED BY <3>1, <3>3 DEF t
  <2> QED BY <2>1, <2>2, Zenon
<1> DEFINE end == Loop(turn, first)[N]
<1>8. first.ni = 1
  OBVIOUS
<1> HIDE DEF first
<1>9. measure[first] <= N
  BY <1>0, <1>2, <1>6, <1>8
<1>10. end \in V /\ turn[end] = end
  <2>1. GoesDown(turn, V, measure)
    BY <1>6, <1>7, Zenon DEF GoesDown
  <2> QED BY <1>0, <1>2, <1>9, <2>1, LoopEnds, Zenon
<1>11. Packetize(queue) = end.packets
  BY Zenon DEF Packetize, first, turn
<1> HIDE DEF end
<1>12. end.ni = N + 1
  <2>1. end.ni \in 1..(N + 1)
    BY <1>3, <1>10, Zenon
  <2>2. end.ni > N
    <3>1. SUFFICES ASSUME ~(end.ni > N) PROVE FALSE
      OBVIOUS
    <3>2. turn[end].ni > end.ni
      BY <1>5, <1>10, <3>1, Zenon
    <3>3. end.ni > end.ni
      BY <1>10, <3>2, Zenon
    <3> QED BY <1>0, <2>1, <3>3
  <2> QED BY <1>0, <2>1, <2>2
<1>13. QueueProgress(queue, N + 1, end.packets)
  BY <1>3, <1>10, <1>12, Zenon
<1>14. (N + 1) - 1 = Len(queue) /\ (N + 1 = Len(queue) + 1) = TRUE
  BY <1>0
<1>15. First(queue, Len(queue)) = queue
  BY <1>1, FirstProperties
<1>16. end.packets \in Seq(Packet)
  BY <1>13, Zenon DEF QueueProgress
<1>17. Receives(end.packets, queue)
  <2>1. Receives(end.packets, First(queue, (N + 1) - 1))
    BY <1>13, Zenon DEF QueueProgress
  <2> QED BY <1>14, <1>15, <2>1, Zenon
<1>18. Fine(end.packets, TRUE)
  <2>1. Fine(end.packets, N + 1 = Len(queue) + 1)
    BY <1>13, Zenon DEF QueueProgress
  <2> QED BY <1>14, <2>1, Zenon
<1> QED BY <1>11, <1>16, <1>17, <1>18, Zenon

----------------------------------------------------------------------------
(* Sequence numbers, and a whole frame *)

\* The remainder of a multiple of m and a number below m.
LEMMA RestOfMultiple ==
    ASSUME NEW q \in Nat, NEW r \in Nat, NEW m \in Nat \ {0}, r < m
    PROVE  (m * q + r) % m = r
  OBVIOUS

\* The counter wraps where the sum does.
LEMMA NextNumber ==
    ASSUME NEW a \in Nat, NEW m \in Nat \ {0}
    PROVE  ((a % m) + 1) % m = (a + 1) % m
<1> DEFINE q == a \div m
           r == a % m
<1>1. r \in 0..(m - 1) /\ q \in Nat
  OBVIOUS
<1>2. a = m * q + r
  OBVIOUS
<1> HIDE DEF q, r
<1>3. CASE r + 1 < m
  <2>1. (m * q + (r + 1)) % m = r + 1
    BY <1>1, <1>3, RestOfMultiple
  <2>2. a + 1 = m * q + (r + 1)
    BY <1>1, <1>2
  <2>3. (r + 1) % m = r + 1
    BY <1>1, <1>3
  <2> QED BY <2>1, <2>2, <2>3, Zenon DEF r
<1>4. CASE r + 1 = m
  <2>1. (m * (q + 1) + 0) % m = 0
    <3>1. q + 1 \in Nat /\ 0 \in Nat /\ 0 < m
      BY <1>1
    <3> QED BY <3>1, RestOfMultiple, Zenon
  <2>2. a + 1 = m * (q + 1) + 0
    <3>1. m * (q + 1) = m * q + m
      BY <1>1
    <3>2. m * q \in Nat
      BY <1>1
    <3> HIDE DEF q
    <3> QED BY <1>1, <1>2, <1>4, <3>1, <3>2
  <2>3. (r + 1) % m = 0
    BY <1>4
  <2> QED BY <2>1, <2>2, <2>3, Zenon DEF r
<1> QED BY <1>1, <1>3, <1>4

\* Packets as they should be for the units of a queue, from number seq on.
Carries(out, queue, seq, next) ==
    out # << >> =>
       /\ Received([i \in DOMAIN out |-> out[i].packet]) = queue
       /\ \A i \in DOMAIN out :
             /\ out[i].packet.size <= kMaxPayload
             /\ out[i].seq = (seq + i - 1) % SeqModulus
             /\ out[i].packet.marker <=> i = Len(out)
       /\ next = (out[Len(out)].seq + 1) % SeqModulus

Numbered(built, seq) ==
    [k \in 1..Len(built) |-> [packet |-> built[k], seq |-> (seq + k - 1) % SeqModulus]]

\* The numbered packets of a queue are as they should be.
LEMMA NumberedPacketsCarry ==
    ASSUME NEW queue, IsQueue(queue), NEW seq \in Nat
    PROVE  Carries(Numbered(Packetize(queue), seq), queue, seq,
                   (seq + Len(Packetize(queue))) % SeqModulus)
<1> DEFINE built == Packetize(queue)
           out == Numbered(built, seq)
           n == Len(built)
<1>m. SeqModulus \in Nat \ {0}
  BY PacketizerAssumption
<1>1. built \in Seq(Packet)
  BY QueueIsSent
<1>2. Receives(built, queue)
  BY QueueIsSent, Zenon
<1>3. Fine(built, TRUE)
  BY QueueIsSent, Zenon
<1> HIDE DEF built
<1>4. n \in Nat
  BY <1>1
<1>5. DOMAIN out = 1..n
  BY DEF Numbered
<1>6. \A k \in 1..n : out[k] = [packet |-> built[k], seq |-> (seq + k - 1) % SeqModulus]
  BY DEF Numbered
<1>7. Len(out) = n
  BY <1>4, <1>5
<1> HIDE DEF out
<1>8. ASSUME NEW k \in 1..n
      PROVE  out[k].packet = built[k] /\ out[k].seq = (seq + k - 1) % SeqModulus
  <2> DEFINE num == (seq + k - 1) % SeqModulus
             b == built[k]
             x == out[k]
  <2>1. x = [packet |-> b, seq |-> num]
    BY <1>6
  <2> HIDE DEF num, b, x
  <2>2. x.packet = b /\ x.seq = num
    BY <2>1
  <2> QED BY <2>2 DEF x, b, num
<1>9. [i \in DOMAIN out |-> out[i].packet] = built
  <2>1. [i \in DOMAIN out |-> out[i].packet] = [i \in 1..n |-> built[i]]
    BY <1>5, <1>8
  <2>2. built = [i \in 1..n |-> built[i]]
    BY <1>1
  <2> QED BY <2>1, <2>2, Zenon
<1>10. Received(built) = queue
  BY <1>2, <1>4, ReceivedIs, Zenon
<1>11. ASSUME NEW i \in 1..n
       PROVE  built[i].size <= kMaxPayload /\ (built[i].marker <=> i = n)
  BY <1>3 DEF Fine
<1>12. ASSUME NEW i \in DOMAIN out
       PROVE  /\ out[i].packet.size <= kMaxPayload
              /\ out[i].seq = (seq + i - 1) % SeqModulus
              /\ out[i].packet.marker <=> i = Len(out)
  <2>1. i \in 1..n
    BY <1>5
  <2>2. out[i].packet = built[i] /\ out[i].seq = (seq + i - 1) % SeqModulus
    BY <1>8, <2>1
  <2> QED BY <1>7, <1>11, <2>1, <2>2, Zenon
<1>13. ASSUME out # << >>
       PROVE  (seq + n) % SeqModulus = (out[Len(out)].seq + 1) % SeqModulus
  <2>1. n # 0
    <3>1. SUFFICES ASSUME n = 0 PROVE FALSE
      OBVIOUS
    <3>2. built = << >>
      BY <1>1, <3>1, EmptySeq
    <3>3. out = << >>
      BY <3>2 DEF out, Numbered
    <3> QED BY <1>13, <3>3
  <2>2. n \in 1..n /\ seq + n - 1 \in Nat /\ (seq + n - 1) + 1 = seq + n
    BY <1>4, <2>1
  <2>3. out[n].seq = (seq + n - 1) % SeqModulus
    BY <1>8, <2>2
  <2>4. (((seq + n - 1) % SeqModulus) + 1) % SeqModulus = ((seq + n - 1) + 1) % SeqModulus
    BY <1>m, <2>2, NextNumber, Zenon
  <2> QED BY <1>7, <2>2, <2>3, <2>4, Zenon
<1> QED BY <1>9, <1>10, <1>12, <1>13, Zenon DEF Carries, out, built

\* A function on 1..k is a sequence of length k.
LEMMA FunctionIsSeq ==
    ASSUME NEW S, NEW k \in Nat, NEW f \in [1..k -> S]
    PROVE  f \in Seq(S) /\ Len(f) = k
<1>1. Len(f) = k
  OBVIOUS
<1>2. \A i \in 1..k : f[i] \in S
  OBVIOUS
<1>3. f = [i \in 1..k |-> f[i]]
  OBVIOUS
<1>4. f \in Seq(S)
  BY <1>1, <1>2, <1>3
<1> QED BY <1>1, <1>4

\* The slices of a frame are NAL units, and no parameter sets.
LEMMA SlicesArePictures ==
    ASSUME NEW k \in Nat, NEW slices \in [1..k -> Slices]
    PROVE  ArePictures(slices) /\ Len(slices) = k
<1>1. \A n \in Slices : IsNalUnit(n) /\ n[1] \notin {SPS, PPS}
  BY PacketizerAssumption
<1>2. \A n \in Slices : n \in Seq(Bytes)
  BY <1>1, Zenon DEF IsNalUnit
<1>3. slices \in [1..k -> Seq(Bytes)]
  BY <1>2
<1>4. slices \in Seq(Seq(Bytes))
  BY <1>3, FunctionIsSeq
<1>5. Len(slices) = k
  BY <1>3, FunctionIsSeq
<1>6. \A i \in 1..k : IsNalUnit(slices[i]) /\ ~IsParameterSet(slices[i])
  BY <1>1, Zenon DEF IsParameterSet
<1> QED BY <1>4, <1>5, <1>6, Zenon DEF ArePictures

\* A NAL unit is a sequence of bytes, not empty.
LEMMA UnitIsNotEmpty ==
    ASSUME NEW n, IsNalUnit(n)
    PROVE  n \in Seq(Bytes) /\ n # << >>
  BY Zenon DEF IsNalUnit

\* A sequence of NAL units may be sent.
LEMMA UnitsAreQueue ==
    ASSUME NEW nals \in Seq(Seq(Bytes)), \A k \in 1..Len(nals) : IsNalUnit(nals[k])
    PROVE  IsQueue(nals)
  BY UnitIsNotEmpty, Zenon DEF IsQueue

\* Both parameter sets are stored, or none yet.
StoredSets ==
    \/ m_spsNal = << >> /\ m_ppsNal = << >>
    \/ IsNalUnit(m_spsNal) /\ IsNalUnit(m_ppsNal)

PacketizerInv == StoredSets /\ rtpSeqNum \in Nat /\ PacketsCarryFrame

\* What sendH264 does once its queue is known.
LEMMA FrameIsSent ==
    ASSUME NEW sets, NEW slices, NEW codes, NEW isKeyFrame \in BOOLEAN,
           SendH264(sets, slices, codes, isKeyFrame), rtpSeqNum \in Nat,
           NEW found, found = FindNalUnits(AnnexB(sets \o slices, codes)),
           NEW sps, sps = (IF isKeyFrame THEN Newest(found, SPS, m_spsNal) ELSE m_spsNal),
           NEW pps, pps = (IF isKeyFrame THEN Newest(found, PPS, m_ppsNal) ELSE m_ppsNal),
           NEW queue, queue = SendQueue(found, isKeyFrame, sps, pps), IsQueue(queue),
           queue = (IF isKeyFrame THEN <<sps, pps>> ELSE << >>) \o slices,
           sets # << >> => sets = <<sps, pps>>
    PROVE  /\ m_spsNal' = sps /\ m_ppsNal' = pps
           /\ rtpSeqNum' \in Nat
           /\ PacketsCarryFrame'
<1> DEFINE built == Packetize(queue)
           next == (rtpSeqNum + Len(built)) % SeqModulus
<1>1. /\ m_spsNal' = sps /\ m_ppsNal' = pps
      /\ frame' = [sets |-> sets, slices |-> slices,
                   isKeyFrame |-> isKeyFrame, seq |-> rtpSeqNum]
      /\ packets' = Numbered(built, rtpSeqNum)
      /\ rtpSeqNum' = next
  BY Zenon DEF SendH264, Numbered
<1>2. Carries(Numbered(built, rtpSeqNum), queue, rtpSeqNum, next)
  BY NumberedPacketsCarry, Zenon
<1>3. next \in Nat
  <2>1. built \in Seq(Packet)
    BY QueueIsSent
  <2> HIDE DEF built
  <2>2. Len(built) \in Nat
    BY <2>1
  <2>3. SeqModulus \in Nat \ {0}
    BY PacketizerAssumption
  <2> QED BY <2>2, <2>3
<1> HIDE DEF next, built
<1>4. Carries(packets', queue, rtpSeqNum, rtpSeqNum')
  BY <1>1, <1>2, Zenon
<1>5. /\ frame'.sets = sets /\ frame'.slices = slices
      /\ frame'.isKeyFrame = isKeyFrame /\ frame'.seq = rtpSeqNum
  BY <1>1
<1>6. queue = (IF frame'.isKeyFrame THEN <<m_spsNal', m_ppsNal'>> ELSE << >>)
                \o frame'.slices
  BY <1>1, <1>5, Zenon
<1>7. frame'.sets # << >> => frame'.sets = <<m_spsNal', m_ppsNal'>>
  BY <1>1, <1>5, Zenon
<1>8. PacketsCarryFrame'
  <2> SUFFICES ASSUME packets' # << >>
               PROVE  /\ Received([i \in DOMAIN packets' |-> packets'[i].packet])
                           = (IF frame'.isKeyFrame THEN <<m_spsNal', m_ppsNal'>> ELSE << >>)
                                \o frame'.slices
                      /\ frame'.sets # << >> => frame'.sets = <<m_spsNal', m_ppsNal'>>
                      /\ \A i \in DOMAIN packets' :
                           /\ packets'[i].packet.size <= kMaxPayload
                           /\ packets'[i].seq = (frame'.seq + i - 1) % SeqModulus
                           /\ packets'[i].packet.marker <=> i = Len(packets')
                      /\ rtpSeqNum' = (packets'[Len(packets')].seq + 1) % SeqModulus
    BY Zenon DEF PacketsCarryFrame
  <2>1. Received([i \in DOMAIN packets' |-> packets'[i].packet]) = queue
    BY <1>4, Zenon DEF Carries
  <2>2. ASSUME NEW i \in DOMAIN packets'
        PROVE  /\ packets'[i].packet.size <= kMaxPayload
               /\ packets'[i].seq = (rtpSeqNum + i - 1) % SeqModulus
               /\ packets'[i].packet.marker <=> i = Len(packets')
    BY <1>4, Zenon DEF Carries
  <2>3. rtpSeqNum' = (packets'[Len(packets')].seq + 1) % SeqModulus
    BY <1>4, Zenon DEF Carries
  <2> QED BY <1>5, <1>6, <1>7, <2>1, <2>2, <2>3, Zenon
<1> QED BY <1>1, <1>3, <1>8, Zenon

\* Two NAL units and a frame's pictures behind them may be sent.
LEMMA SetsAndPictures ==
    ASSUME NEW slices, ArePictures(slices), NEW x, IsNalUnit(x), NEW y, IsNalUnit(y)
    PROVE  IsQueue(<<x, y>> \o slices)
<1> DEFINE sets == <<x, y>>
           q == sets \o slices
           n == Len(slices)
<1>1. x \in Seq(Bytes)
  BY UnitIsNotEmpty
<1>2. y \in Seq(Bytes)
  BY UnitIsNotEmpty
<1>3. slices \in Seq(Seq(Bytes))
  BY DEF ArePictures
<1>4. sets \in Seq(Seq(Bytes))
  BY <1>1, <1>2
<1>5. Len(sets) = 2 /\ sets[1] = x /\ sets[2] = y
  OBVIOUS
<1> HIDE DEF sets
<1>6. q \in Seq(Seq(Bytes))
  BY <1>3, <1>4, ConcatTwo
<1>7. /\ Len(q) = Len(sets) + n
      /\ \A j \in 1..Len(sets) : q[j] = sets[j]
      /\ \A j \in 1..n : q[Len(sets) + j] = slices[j]
  BY <1>3, <1>4, ConcatTwo
<1>8. n \in Nat
  BY <1>3
<1>9. \A j \in 1..n : IsNalUnit(slices[j])
  BY DEF ArePictures
<1> HIDE DEF q, n
<1>10. ASSUME NEW j \in 1..Len(q) PROVE IsNalUnit(q[j])
  <2>1. CASE j = 1
    BY <1>5, <1>7, <2>1
  <2>2. CASE j = 2
    BY <1>5, <1>7, <2>2
  <2>3. CASE j > 2
    <3>1. j - 2 \in 1..n /\ 2 + (j - 2) = j
      BY <1>5, <1>7, <1>8, <2>3
    <3>2. q[j] = slices[j - 2]
      BY <1>5, <1>7, <3>1
    <3> QED BY <1>9, <3>1, <3>2
  <2> QED BY <1>5, <1>7, <1>8, <2>1, <2>2, <2>3
<1>11. IsQueue(q)
  BY <1>6, <1>10, UnitsAreQueue, Zenon
<1> QED BY <1>11, Zenon DEF q, sets

\* The start codes of a key frame with parameter sets.
LEMMA CodesOfKeyFrame ==
    ASSUME NEW k \in Nat, NEW code \in {3, 4}
    PROVE  <<4, 4>> \o [i \in 1..k |-> code] \in [1..(2 + k) -> {3, 4}]
<1> DEFINE two == <<4, 4>>
           some == [i \in 1..k |-> code]
           C == {3, 4}
<1>1. two \in Seq(C)
  OBVIOUS
<1>2. Len(two) = 2
  OBVIOUS
<1>3. some \in [1..k -> C]
  OBVIOUS
<1> HIDE DEF two, C, some
<1>4. some \in Seq(C)
  BY <1>3, FunctionIsSeq
<1>5. Len(some) = k
  BY <1>3, FunctionIsSeq
<1>6. two \o some \in Seq(C)
  BY <1>1, <1>4, ConcatTwo
<1>7. Len(two \o some) = Len(two) + Len(some)
  BY <1>1, <1>4, ConcatTwo
<1>8. two \o some \in [1..Len(two \o some) -> C]
  BY <1>6, LenProperties
<1>9. two \o some \in [1..(2 + k) -> C]
  BY <1>2, <1>5, <1>7, <1>8, Zenon
<1> QED BY <1>9, Zenon DEF two, C, some

\* The queue of a key frame with parameter sets is the frame itself.
KeyFrameQueue(slices, codes, x, y, stored, other) ==
    LET nals  == <<x, y>> \o slices
        found == FindNalUnits(AnnexB(nals, codes))
    IN  /\ x = Newest(found, SPS, stored) /\ y = Newest(found, PPS, other)
        /\ nals = SendQueue(found, TRUE, x, y)
        /\ IsQueue(nals) /\ IsNalUnit(x) /\ IsNalUnit(y)

\* find_nal_units, the stored parameter sets and the queue together, for a key
\* frame that has parameter sets of its own.
LEMMA KeyFrameIsQueued ==
    ASSUME NEW slices, ArePictures(slices), NEW v \in Versions, NEW w \in Versions,
           NEW codes \in [1..(2 + Len(slices)) -> {3, 4}], NEW stored, NEW other
    PROVE  KeyFrameQueue(slices, codes, ParameterSet(SPS, v), ParameterSet(PPS, w),
                         stored, other)
<1> DEFINE x == ParameterSet(SPS, v)
           y == ParameterSet(PPS, w)
           nals == <<x, y>> \o slices
           found == FindNalUnits(AnnexB(nals, codes))
<1>4. HasSets(nals, v, w, slices)
  BY Zenon DEF HasSets
<1>5. IsNalUnit(x) /\ IsNalUnit(y)
  BY ParameterSetIsUnit
<1> HIDE DEF nals
<1>1. nals \in Seq(Seq(Bytes))
  BY <1>4, FrameWithSets
<1>2. Len(nals) = 2 + Len(slices)
  BY <1>4, FrameWithSets
<1>3. \A j \in 1..Len(nals) : IsNalUnit(nals[j])
  BY <1>4, FrameWithSets, Zenon
<1>6. codes \in [1..Len(nals) -> {3, 4}]
  BY <1>2, Zenon
<1>7. found = nals
  BY <1>1, <1>3, <1>6, UnitsAreFound, Zenon
<1>8. Newest(nals, SPS, stored) = x
  BY <1>4, NewestAreTheFrames
<1>9. Newest(nals, PPS, other) = y
  BY <1>4, NewestAreTheFrames
<1>10. SendQueue(nals, TRUE, x, y) = nals
  BY <1>4, QueueWithSets, Zenon
<1> HIDE DEF x, y
<1>11. IsQueue(nals)
  BY <1>1, <1>3, UnitsAreQueue, Zenon
<1>12. KeyFrameQueue(slices, codes, x, y, stored, other)
  BY <1>5, <1>7, <1>8, <1>9, <1>10, <1>11, Zenon DEF KeyFrameQueue, nals
<1> QED BY <1>12, Zenon DEF x, y

\* sendH264 of a key frame with parameter sets keeps the invariant.
LEMMA KeyFrameWithSets ==
    ASSUME PacketizerInv, NEW k \in Nat, NEW code \in {3, 4},
           NEW slices \in [1..k -> Slices], NEW v \in Versions, NEW w \in Versions,
           SendH264(<<ParameterSet(SPS, v), ParameterSet(PPS, w)>>, slices,
                    <<4, 4>> \o [i \in 1..k |-> code], TRUE)
    PROVE  PacketizerInv'
<1> DEFINE x == ParameterSet(SPS, v)
           y == ParameterSet(PPS, w)
           sets == <<x, y>>
           codes == <<4, 4>> \o [i \in 1..k |-> code]
           nals == sets \o slices
           found == FindNalUnits(AnnexB(nals, codes))
           key == TRUE
<1>1. ArePictures(slices) /\ Len(slices) = k
  BY SlicesArePictures, Zenon
<1>2. codes \in [1..(2 + Len(slices)) -> {3, 4}]
  BY <1>1, CodesOfKeyFrame, Zenon
<1>3. KeyFrameQueue(slices, codes, x, y, m_spsNal, m_ppsNal)
  <2> HIDE DEF codes
  <2> QED BY <1>1, <1>2, KeyFrameIsQueued, Zenon
<1>4. SendH264(sets, slices, codes, key) /\ rtpSeqNum \in Nat
  BY Zenon DEF PacketizerInv
<1>5. key \in BOOLEAN /\ key = TRUE
  BY Zenon
<1> HIDE DEF x, y, codes, key
<1>6. /\ x = Newest(found, SPS, m_spsNal) /\ y = Newest(found, PPS, m_ppsNal)
      /\ nals = SendQueue(found, TRUE, x, y)
      /\ IsQueue(nals) /\ IsNalUnit(x) /\ IsNalUnit(y)
  BY <1>3, Zenon DEF KeyFrameQueue
<1>7. found = FindNalUnits(AnnexB(sets \o slices, codes))
  BY Zenon
<1>8. /\ nals = (IF key THEN <<x, y>> ELSE << >>) \o slices
      /\ sets # << >> => sets = <<x, y>>
  BY <1>5, Zenon
<1> HIDE DEF sets, nals, found
<1>9. /\ x = (IF key THEN Newest(found, SPS, m_spsNal) ELSE m_spsNal)
      /\ y = (IF key THEN Newest(found, PPS, m_ppsNal) ELSE m_ppsNal)
      /\ nals = SendQueue(found, key, x, y)
  BY <1>5, <1>6, Zenon
<1>10. m_spsNal' = x /\ m_ppsNal' = y /\ rtpSeqNum' \in Nat /\ PacketsCarryFrame'
  BY <1>4, <1>5, <1>6, <1>7, <1>8, <1>9, FrameIsSent, ZenonT(40)
<1> QED BY <1>6, <1>10, Zenon DEF PacketizerInv, StoredSets

\* sendH264 of any other frame keeps the invariant.
LEMMA FrameWithoutSets ==
    ASSUME PacketizerInv, NEW k \in Nat, NEW code \in {3, 4},
           NEW slices \in [1..k -> Slices], m_spsNal # << >>, NEW isKeyFrame \in BOOLEAN,
           SendH264(<< >>, slices, [i \in 1..k |-> code], isKeyFrame)
    PROVE  PacketizerInv'
<1> DEFINE codes == [i \in 1..k |-> code]
           nals == << >> \o slices
           found == FindNalUnits(AnnexB(nals, codes))
           x == m_spsNal
           y == m_ppsNal
           queue == (IF isKeyFrame THEN <<x, y>> ELSE << >>) \o slices
<1>1. ArePictures(slices) /\ Len(slices) = k
  BY SlicesArePictures
<1>2. slices \in Seq(Seq(Bytes))
  BY <1>1, Zenon DEF ArePictures
<1>3. nals = slices
  BY <1>2, ConcatEmptySeq
<1>4. \A j \in 1..Len(slices) : IsNalUnit(slices[j])
  BY <1>1, Zenon DEF ArePictures
<1>5. found = slices
  <2>1. codes \in [1..k -> {3, 4}]
    OBVIOUS
  <2> HIDE DEF codes
  <2>2. codes \in [1..Len(slices) -> {3, 4}]
    BY <1>1, <2>1, Zenon
  <2>3. FindNalUnits(AnnexB(slices, codes)) = slices
    BY <1>2, <1>4, <2>2, UnitsAreFound, Zenon
  <2> QED BY <1>3, <2>3, Zenon
<1>6. IsNalUnit(x) /\ IsNalUnit(y)
  BY Zenon DEF PacketizerInv, StoredSets
<1>7. x \in Seq(Bytes)
  BY <1>6, UnitIsNotEmpty
<1>8. y \in Seq(Bytes)
  BY <1>6, UnitIsNotEmpty
<1>9. x # << >> /\ y # << >>
  BY <1>6, UnitIsNotEmpty, Zenon
<1>10. Newest(slices, SPS, x) = x
  BY <1>1, NothingNewer, Zenon
<1>11. Newest(slices, PPS, y) = y
  BY <1>1, NothingNewer, Zenon
<1>12. SendQueue(slices, isKeyFrame, x, y) = queue
  <2>1. CASE isKeyFrame = TRUE
    <3>1. SendQueue(slices, TRUE, x, y) = <<x, y>> \o slices
      BY <1>1, <1>7, <1>8, <1>9, PlainQueue, Zenon
    <3> QED BY <2>1, <3>1, Zenon
  <2>2. CASE isKeyFrame = FALSE
    <3>1. SendQueue(slices, FALSE, x, y) = slices
      BY Zenon DEF SendQueue
    <3> QED BY <1>3, <2>2, <3>1, Zenon
  <2> QED BY <2>1, <2>2, Zenon
<1>13. IsQueue(queue)
  <2>1. CASE isKeyFrame = TRUE
    <3>1. IsQueue(<<x, y>> \o slices)
      BY <1>1, <1>6, SetsAndPictures, Zenon
    <3>2. queue = <<x, y>> \o slices
      BY <2>1, Zenon
    <3> QED BY <3>1, <3>2, Zenon
  <2>2. CASE isKeyFrame = FALSE
    <3>1. queue = slices
      BY <1>3, <2>2, Zenon
    <3>2. IsQueue(slices)
      BY <1>2, <1>4, UnitsAreQueue, Zenon
    <3> QED BY <3>1, <3>2, Zenon
  <2> QED BY <2>1, <2>2, Zenon
<1>14. SendH264(<< >>, slices, codes, isKeyFrame) /\ rtpSeqNum \in Nat
  BY Zenon DEF PacketizerInv
<1>15. /\ x = (IF isKeyFrame THEN Newest(found, SPS, m_spsNal) ELSE m_spsNal)
       /\ y = (IF isKeyFrame THEN Newest(found, PPS, m_ppsNal) ELSE m_ppsNal)
       /\ queue = SendQueue(found, isKeyFrame, x, y)
  BY <1>5, <1>10, <1>11, <1>12, Zenon
<1>16. queue = (IF isKeyFrame THEN <<x, y>> ELSE << >>) \o slices
  OBVIOUS
<1>17. found = FindNalUnits(AnnexB(<< >> \o slices, codes))
  OBVIOUS
<1> HIDE DEF x, y, codes, nals, found, queue
<1>18. << >> # << >> => << >> = <<x, y>>
  OBVIOUS
<1>19. m_spsNal' = x /\ m_ppsNal' = y /\ rtpSeqNum' \in Nat /\ PacketsCarryFrame'
  BY <1>13, <1>14, <1>15, <1>16, <1>17, <1>18, FrameIsSent, ZenonT(40)
<1> QED BY <1>6, <1>19, Zenon DEF PacketizerInv, StoredSets

\* What reaches a receiver is the frame, whatever its units, their number and
\* the lengths of start codes and packets: find_nal_units finds the encoder's
\* units, and the packets of sendH264 carry them.
THEOREM FramesArriveWhole == PacketizerSpec => []PacketsCarryFrame
<1>1. PacketizerInit => PacketizerInv
  <2>1. 0 \in Nat
    OBVIOUS
  <2> QED BY <2>1, Zenon DEF PacketizerInit, PacketizerInv, StoredSets, PacketsCarryFrame
<1>2. ASSUME PacketizerInv, [PacketizerNext]_packetizerVars
      PROVE  PacketizerInv'
  <2>1. CASE SendPackets
    BY <1>2, <2>1, Zenon DEF SendPackets, PacketizerInv, StoredSets, PacketsCarryFrame
  <2>2. ASSUME NEW k \in 1..MaxSlices, NEW code \in {3, 4},
               NEW slices \in [1..k -> Slices],
               SendKeyFrame(slices, [i \in 1..k |-> code])
        PROVE  PacketizerInv'
    <3>1. k \in Nat
      BY PacketizerAssumption
    <3>2. ASSUME NEW v \in Versions, NEW w \in Versions,
                 SendH264(<<ParameterSet(SPS, v), ParameterSet(PPS, w)>>, slices,
                          <<4, 4>> \o [i \in 1..k |-> code], TRUE)
          PROVE  PacketizerInv'
      BY <1>2, <3>1, <3>2, KeyFrameWithSets, Zenon
    <3>3. CASE m_spsNal # << >> /\ SendH264(<< >>, slices, [i \in 1..k |-> code], TRUE)
      <4>1. TRUE \in BOOLEAN
        OBVIOUS
      <4> QED BY <1>2, <3>1, <3>3, <4>1, FrameWithoutSets, Zenon
    <3> QED BY <2>2, <3>2, <3>3, Zenon DEF SendKeyFrame
  <2>3. ASSUME NEW k \in 1..MaxSlices, NEW code \in {3, 4},
               NEW slices \in [1..k -> Slices],
               SendOtherFrame(slices, [i \in 1..k |-> code])
        PROVE  PacketizerInv'
    <3>1. k \in Nat
      BY PacketizerAssumption
    <3>2. FALSE \in BOOLEAN
      OBVIOUS
    <3> QED BY <1>2, <2>3, <3>1, <3>2, FrameWithoutSets, Zenon DEF SendOtherFrame
  <2>4. CASE UNCHANGED packetizerVars
    BY <1>2, <2>4, Zenon DEF packetizerVars, PacketizerInv, StoredSets, PacketsCarryFrame
  <2> QED BY <1>2, <2>1, <2>2, <2>3, <2>4, Zenon DEF PacketizerNext
<1>3. PacketizerInv => PacketsCarryFrame
  BY DEF PacketizerInv
<1> QED BY <1>1, <1>2, <1>3, PTL DEF PacketizerSpec
============================================================================
