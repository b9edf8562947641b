--------------------------- MODULE WebRtcProducer --------------------------
(***************************************************************************)
(* src/agent/src/webrtc/WebRtcProducer.cpp, with SignalingClient.cpp for   *)
(* its calls of the server: connect, disconnect and attemptReconnect, run  *)
(* by the agent's main thread, by the callbacks of libdatachannel and by   *)
(* detached reconnect threads, on members that only the two flags protect. *)
(*                                                                         *)
(* Every request of connect and disconnect is a step of its own; the       *)
(* server's answer may be a refusal or be lost.  A peer connection is a    *)
(* number, the transport's id is there or not (what the server keeps of it *)
(* is StreamRooms' subject); back-off delays are sleeps of any length.     *)
(***************************************************************************)
EXTENDS Naturals, FiniteSets

CONSTANTS
    ReconnectThreads,       \* bound: reconnect threads at one time
    maxReconnectAttempts,   \* of the configuration: 10
    MaxConnects             \* bound: calls of connect

ASSUME ProducerAssumption ==
    /\ "main" \notin ReconnectThreads
    /\ maxReconnectAttempts \in Nat /\ MaxConnects \in Nat

VARIABLES
    pc,                 \* the peer connection and its track, 0 for none
    m_transportId,      \* not empty
    m_connected, m_reconnecting,
    m_reconnectAttempts,
    at,                 \* where each thread is
    callbacks,          \* <<connection, stage>> of the callbacks that run:
                        \* what they report, then "retry" after a loss
    made,               \* connections made so far
    finals,             \* disconnects of the agent's end that have returned
    cancelled           \* history: threads that slept when one was called

flagVars     == <<m_connected, m_reconnecting, m_reconnectAttempts>>
endVars      == <<finals, cancelled>>
producerVars == <<pc, m_transportId, flagVars, at, callbacks, made, endVars>>

Threads == ReconnectThreads \cup {"main"}

ProducerInit ==
    /\ pc = 0 /\ m_transportId = FALSE
    /\ m_connected = FALSE /\ m_reconnecting = FALSE
    /\ m_reconnectAttempts = 0
    /\ at = [t \in Threads |-> IF t = "main" THEN "idle" ELSE "none"]
    /\ callbacks = {}
    /\ made = 0
    /\ finals = 0 /\ cancelled = {}

\* The destructor is the second disconnect.  A detached thread that sleeps
\* through it still wakes up; nothing else is modelled after it.
Alive == finals < 2
MoveTo(t, stage) == at' = [at EXCEPT ![t] = stage]

\* A new thread is one of these; they differ in nothing.
NotStarted == {t \in ReconnectThreads : at[t] = "none"}

----------------------------------------------------------------------------
(* Wrong versions, one slip each. *)

\* The guard is tried before the attempts are counted.
AttemptReconnectGuardFirst(p) ==
    /\ Alive /\ <<p, "retry">> \in callbacks
    /\ callbacks' = callbacks \ {<<p, "retry">>}
    /\ m_reconnecting' = TRUE
    /\ IF m_reconnecting \/ m_reconnectAttempts >= maxReconnectAttempts
       THEN UNCHANGED <<m_reconnectAttempts, at>>
       ELSE /\ m_reconnectAttempts' = m_reconnectAttempts + 1
            /\ NotStarted # {} /\ MoveTo(CHOOSE t \in NotStarted : TRUE, "sleep")
    /\ UNCHANGED <<pc, m_transportId, m_connected, made, endVars>>

----------------------------------------------------------------------------
(* connect *)

\* Where connect returns to.
AfterConnect(t) == IF t = "main" THEN "idle" ELSE "finish"

\* StreamControl "start" or the automatic start: not connected, so connect.
CallConnect ==
    /\ Alive /\ finals = 0 /\ at["main"] = "idle"
    /\ ~m_connected
    /\ MoveTo("main", "newPc")
    /\ UNCHANGED <<pc, m_transportId, flagVars, callbacks, made, endVars>>

\* The list of servers is asked for, which may fail; a connection that is
\* still there is replaced.
NewPc(t) ==
    /\ Alive /\ at[t] = "newPc" /\ made < MaxConnects
    /\ made' = made + 1
    /\ pc' = made + 1
    /\ MoveTo(t, "createTransport")
    /\ UNCHANGED <<m_transportId, flagVars, callbacks, endVars>>

\* Refused, unanswered, or the transport is made.
CreateTransport(t) ==
    /\ Alive /\ at[t] = "createTransport"
    /\ \/ m_transportId' = TRUE /\ MoveTo(t, "connectTransport")
       \/ UNCHANGED m_transportId /\ MoveTo(t, AfterConnect(t))
    /\ UNCHANGED <<pc, flagVars, callbacks, made, endVars>>

\* Another thread may have cleared the id: such a request is refused.
ConnectTransport(t) ==
    /\ Alive /\ at[t] = "connectTransport"
    /\ \/ m_transportId /\ MoveTo(t, "produce")
       \/ MoveTo(t, AfterConnect(t))
    /\ UNCHANGED <<pc, m_transportId, flagVars, callbacks, made, endVars>>

Produce(t) ==
    /\ Alive /\ at[t] = "produce"
    /\ \/ m_transportId /\ m_connected' = TRUE
       \/ UNCHANGED m_connected
    /\ MoveTo(t, AfterConnect(t))
    /\ UNCHANGED <<pc, m_transportId, m_reconnecting, m_reconnectAttempts,
                   callbacks, made, endVars>>

----------------------------------------------------------------------------
(* disconnect *)

\* The end of runAgent, then the destructor.
CallDisconnect ==
    /\ Alive /\ at["main"] = "idle"
    /\ MoveTo("main", "closeTrack")
    /\ cancelled' = {t \in ReconnectThreads : at[t] = "sleep"}
    /\ UNCHANGED <<pc, m_transportId, flagVars, callbacks, made, finals>>

CloseTrack(t) ==
    /\ Alive /\ at[t] = "closeTrack"
    /\ pc' = 0
    /\ MoveTo(t, "closeTransport")
    /\ UNCHANGED <<m_transportId, flagVars, callbacks, made, endVars>>

\* The request may be lost; the id is forgotten all the same.
CloseTransport(t) ==
    /\ Alive /\ at[t] = "closeTransport"
    /\ m_transportId' = FALSE
    /\ MoveTo(t, "clearFlags")
    /\ UNCHANGED <<pc, flagVars, callbacks, made, endVars>>

ClearFlags(t) ==
    /\ Alive /\ at[t] = "clearFlags"
    /\ m_connected' = FALSE /\ m_reconnecting' = FALSE
    /\ IF t = "main" THEN MoveTo(t, "idle") /\ finals' = finals + 1
       ELSE MoveTo(t, "newPc") /\ UNCHANGED finals
    /\ UNCHANGED <<pc, m_transportId, m_reconnectAttempts, callbacks, made,
                   cancelled>>

----------------------------------------------------------------------------
(* onStateChange and attemptReconnect *)

\* libdatachannel calls back, on a thread of its own and one call at a time
\* for a connection.  Failed and Disconnected are one report; the others
\* change nothing.
OnStateChange(state) ==
    /\ Alive /\ pc # 0 /\ \A c \in callbacks : c[1] # pc
    /\ callbacks' = callbacks \cup {<<pc, state>>}
    /\ UNCHANGED <<pc, m_transportId, flagVars, at, made, endVars>>

OnConnected(p) ==
    /\ Alive /\ <<p, "connected">> \in callbacks
    /\ m_connected' = TRUE /\ m_reconnectAttempts' = 0
    /\ callbacks' = callbacks \ {<<p, "connected">>}
    /\ UNCHANGED <<pc, m_transportId, m_reconnecting, at, made, endVars>>

OnLost(p) ==
    /\ Alive /\ <<p, "lost">> \in callbacks
    /\ m_connected' = FALSE
    /\ callbacks' = (callbacks \ {<<p, "lost">>}) \cup {<<p, "retry">>}
    /\ UNCHANGED <<pc, m_transportId, m_reconnecting, m_reconnectAttempts,
                   at, made, endVars>>

\* The attempt is counted before the guard is tried.
AttemptReconnect(p) ==
    /\ Alive /\ <<p, "retry">> \in callbacks
    /\ callbacks' = callbacks \ {<<p, "retry">>}
    /\ IF m_reconnectAttempts >= maxReconnectAttempts
       THEN UNCHANGED <<m_reconnecting, m_reconnectAttempts, at>>
       ELSE /\ m_reconnectAttempts' = m_reconnectAttempts + 1
            /\ m_reconnecting' = TRUE
            /\ IF m_reconnecting THEN UNCHANGED at
               ELSE NotStarted # {} /\ MoveTo(CHOOSE t \in NotStarted : TRUE, "sleep")
    /\ UNCHANGED <<pc, m_transportId, m_connected, made, endVars>>

\* The sleep is over: cancelled, or disconnect and connect.  After the
\* destructor the flag is read from memory that is no longer its own.
Wake(t) ==
    /\ at[t] = "sleep"
    /\ \E guard \in BOOLEAN :
          /\ Alive => guard = m_reconnecting
          /\ IF guard THEN MoveTo(t, "closeTrack") /\ UNCHANGED cancelled
             ELSE MoveTo(t, "none") /\ cancelled' = cancelled \ {t}
    /\ UNCHANGED <<pc, m_transportId, flagVars, callbacks, made, finals>>

FinishReconnect(t) ==
    /\ Alive /\ at[t] = "finish"
    /\ m_reconnecting' = FALSE
    /\ MoveTo(t, "none")
    /\ UNCHANGED <<pc, m_transportId, m_connected, m_reconnectAttempts,
                   callbacks, made, endVars>>

----------------------------------------------------------------------------

ProducerNext ==
    \/ CallConnect
    \/ CallDisconnect
    \/ \E state \in {"connected", "lost"} : OnStateChange(state)
    \/ \E p \in 1..made : OnConnected(p) \/ OnLost(p) \/ AttemptReconnect(p)
    \/ \E t \in Threads :
          \/ NewPc(t) \/ CreateTransport(t) \/ ConnectTransport(t) \/ Produce(t)
          \/ CloseTrack(t) \/ CloseTransport(t) \/ ClearFlags(t)
    \/ \E t \in ReconnectThreads : Wake(t) \/ FinishReconnect(t)

ProducerSpec == ProducerInit /\ [][ProducerNext]_producerVars

----------------------------------------------------------------------------
(* Properties *)

\* The guard that keeps reconnects from running side by side is never left
\* behind: as long as the producer exists, a guard that is set has a thread that
\* will clear it or find it cleared.  Were it ever set with no thread, no loss of
\* the connection would be answered by a reconnect again.
GuardHasThread ==
    Alive /\ m_reconnecting => \E t \in ReconnectThreads : at[t] # "none"

\* What the comment at the thread's start says: a thread that slept when the
\* disconnect at the agent's end was called aborts before it calls disconnect
\* and connect itself.  It may not: the flag is cleared last, after the request
\* that closes the transport.
DisconnectCancels ==
    \A t \in cancelled : at[t] \in {"sleep", "none"}
============================================================================
