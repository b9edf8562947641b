---------------------------- MODULE StreamRooms ----------------------------
(***************************************************************************)
(* Streaming: the handlers of StreamController, the rooms of RoomManager,  *)
(* the tables of MediasoupSfuBackend and its WorkerChannels to the         *)
(* mediasoup workers, which run in threads of this process.                *)
(*                                                                         *)
(* RoomManager holds m_mutex while it creates a router; every operation    *)
(* of the backend holds entityMutex from its first lookup to its last      *)
(* write, the wait for the worker's answer included.  A wait ends by an    *)
(* answer or after kRequestTimeoutSeconds; the worker may be slow, busy or *)
(* gone, and its answer may come when nobody waits any more.               *)
(*                                                                         *)
(* Every HTTP request is served once, and what it creates has its name:    *)
(* the router, transport, producer or consumer of request h is h.  RTP,    *)
(* ICE and DTLS parameters are left out, and so are the queries.           *)
(***************************************************************************)
EXTENDS Naturals, Sequences, FiniteSets

CONSTANTS
    Requests,       \* POST and DELETE requests under /api/v1/stream
    Locations,      \* location ids, one room each
    NumWorkers,     \* mediasoup workers
    ServerThreads   \* size of the HTTP server's thread pool

None == "none"
Main == "main"      \* the thread that runs the destructors

ASSUME StreamAssumption ==
    /\ NumWorkers \in Nat \ {0}
    /\ ServerThreads \in Nat \ {0}
    /\ {None, Main} \cap Requests = {}
    /\ IsFiniteSet(Requests)

Workers == 0..(NumWorkers - 1)
Callers == Requests \cup {Main}

VARIABLES
    m_rooms,              \* RoomManager: location -> router
    roomLock,             \* holder of RoomManager::m_mutex
    entityLock,           \* holder of entityMutex
    routerToWorker,       \* router -> worker
    transportToRouter,
    producerToTransport,
    consumerToTransport,
    nextWorkerIdx,        \* modulo NumWorkers
    call,                 \* caller -> what it is doing
    m_nextId,             \* worker -> last request id of its channel
    m_outQueue,           \* worker -> messages it has not read yet
    alive,                \* worker -> mediasoup_worker_run has not returned
    made,                 \* worker -> <<kind, name, parent>> it has
    givenUp,              \* <<kind, name>> whose creation was not answered
    phase                 \* of the server's life

locks      == <<roomLock, entityLock>>
tables     == <<routerToWorker, transportToRouter, producerToTransport,
                consumerToTransport>>
channels   == <<m_nextId, m_outQueue>>
workerVars == <<alive, made>>
vars == <<m_rooms, locks, tables, nextWorkerIdx, call, channels, workerVars,
          givenUp, phase>>

Idle == [op |-> "none", step |-> "idle", loc |-> None, on |-> None,
         prod |-> None, k |-> 0, id |-> 0, resp |-> None]

\* The handler of h has answered; what it created is kept.
Done(h, result) == [Idle EXCEPT !.op = call[h].op, !.step = "done",
                                !.resp = result]

\* The backend's constructor; a worker may have failed to start.
Init ==
    /\ m_rooms             = [l \in Locations |-> None]
    /\ roomLock = None /\ entityLock = None
    /\ routerToWorker      = [h \in Requests |-> NumWorkers]
    /\ transportToRouter   = [h \in Requests |-> None]
    /\ producerToTransport = [h \in Requests |-> None]
    /\ consumerToTransport = [h \in Requests |-> None]
    /\ nextWorkerIdx = 0
    /\ call       = [c \in Callers |-> Idle]
    /\ m_nextId   = [k \in Workers |-> 0]
    /\ m_outQueue = [k \in Workers |-> << >>]
    /\ alive      \in [Workers -> BOOLEAN]
    /\ made       = [k \in Workers |-> {}]
    /\ givenUp    = {}
    /\ phase      = "serving"

\* Keys of the tables.  NumWorkers stands for no worker.
HasRouter(r)    == r # None /\ routerToWorker[r] # NumWorkers
HasTransport(t) == t # None /\ transportToRouter[t] # None

\* channelForTransport, when there is one.
WorkerOf(t) == routerToWorker[transportToRouter[t]]

Active == {h \in Requests : call[h].step \notin {"idle", "done"}}

----------------------------------------------------------------------------
(* StreamController: a request arrives and is valid.  Clients know the      *)
(* transports and producers that were created once.                        *)

Arrive(h, c) ==
    /\ phase = "serving"
    /\ call[h] = Idle
    /\ Cardinality(Active) < ServerThreads
    /\ call' = [call EXCEPT ![h] = c]
    /\ UNCHANGED <<m_rooms, locks, tables, nextWorkerIdx, channels, workerVars,
                   givenUp, phase>>

\* 201 was answered to the request that created it.
Created(h, op) == call[h] = [Idle EXCEPT !.op = op, !.step = "done",
                                         !.resp = "accepted"]

HandleCreateTransport(h, l) ==
    Arrive(h, [Idle EXCEPT !.op = "router", !.step = "room", !.loc = l])

HandleConnectTransport(h, t) ==
    /\ Created(t, "transport")
    /\ Arrive(h, [Idle EXCEPT !.op = "connect", !.step = "entity", !.on = t])

HandleProduce(h, t) ==
    /\ Created(t, "transport")
    /\ Arrive(h, [Idle EXCEPT !.op = "produce", !.step = "entity", !.on = t])

HandleConsume(h, t, p) ==
    /\ Created(t, "transport") /\ Created(p, "produce")
    /\ Arrive(h, [Idle EXCEPT !.op = "consume", !.step = "entity", !.on = t,
                              !.prod = p])

HandleCloseTransport(h, t) ==
    /\ Created(t, "transport")
    /\ Arrive(h, [Idle EXCEPT !.op = "close", !.step = "entity", !.on = t])

----------------------------------------------------------------------------
(* RoomManager::getOrCreateRouter *)

\* Mutant of FindRoom: the mutex is released before the router is created.
FindRoomUnlocks(h) ==
    LET l == call[h].loc
        c == IF m_rooms[l] = None THEN [call[h] EXCEPT !.step = "entity"]
             ELSE [call[h] EXCEPT !.op = "transport", !.step = "entity",
                                  !.on = m_rooms[l]]
    IN /\ call[h].step = "room" /\ roomLock = None
       /\ call' = [call EXCEPT ![h] = c]
       /\ UNCHANGED <<m_rooms, locks, tables, nextWorkerIdx, channels,
                      workerVars, givenUp, phase>>

\* Lock and look the room up; a known router is returned, otherwise the mutex
\* is kept and createRouter called.
FindRoom(h) ==
    LET l == call[h].loc
        c == IF m_rooms[l] = None THEN [call[h] EXCEPT !.step = "entity"]
             ELSE [call[h] EXCEPT !.op = "transport", !.step = "entity",
                                  !.on = m_rooms[l]]
    IN /\ call[h].step = "room" /\ roomLock = None
       /\ roomLock' = IF m_rooms[l] = None THEN h ELSE None
       /\ call' = [call EXCEPT ![h] = c]
       /\ UNCHANGED <<m_rooms, entityLock, tables, nextWorkerIdx, channels,
                      workerVars, givenUp, phase>>

\* createRouter has returned: the room is entered, or 500 is answered.
EnterRoom(h) ==
    /\ call[h].op = "router" /\ call[h].step = "returned"
    /\ roomLock' = None
    /\ \/ /\ call[h].resp = "accepted"
          /\ m_rooms' = [m_rooms EXCEPT ![call[h].loc] = h]
          /\ call' = [call EXCEPT ![h] = [Idle EXCEPT !.op = "transport",
                                          !.step = "entity", !.on = h]]
       \/ /\ call[h].resp # "accepted"
          /\ call' = [call EXCEPT ![h] = Done(h, "rejected")]
          /\ UNCHANGED m_rooms
    /\ UNCHANGED <<entityLock, tables, nextWorkerIdx, channels, workerVars,
                   givenUp, phase>>

----------------------------------------------------------------------------
(* WorkerChannel::request, called with entityMutex held *)

\* Mutant of NextId: the id is not taken from the counter any more.
NextIdStays(k) == 1

\* genRequestId.
NextId(k) == m_nextId[k] + 1

Send(k, kind, c, id) ==
    /\ m_nextId'   = [m_nextId EXCEPT ![k] = id]
    /\ m_outQueue' = [m_outQueue EXCEPT
                        ![k] = Append(@, [kind |-> kind, name |-> c,
                                          on |-> call[c].on,
                                          prod |-> call[c].prod, id |-> id])]

\* Mutant of Lock: the entity mutex is not held over the wait.
LockBriefly(c) == entityLock = None /\ UNCHANGED entityLock

Lock(c) == entityLock = None /\ entityLock' = c

\* The pending entry is registered and the message queued.
Request(c, k) ==
    /\ call[c].step = "entity"
    /\ Lock(c)
    /\ Send(k, call[c].op, c, NextId(k))
    /\ call' = [call EXCEPT ![c].step = "wait", ![c].k = k,
                            ![c].id = NextId(k)]
    /\ UNCHANGED <<m_rooms, roomLock, tables, workerVars, givenUp, phase>>

\* Mutant of WaitOver: wait instead of wait_for.
WaitOverAnswered(c) == call[c].step = "wait" /\ call[c].resp # None

\* wait_for returns: an answer is there, or the time is over.
WaitOver(c) == call[c].step = "wait"

----------------------------------------------------------------------------
(* MediasoupSfuBackend *)

\* pickWorker is round-robin.
CreateRouter(h) ==
    /\ call[h].op = "router"
    /\ Request(h, nextWorkerIdx)
    /\ nextWorkerIdx' = (nextWorkerIdx + 1) % NumWorkers

CreateWebRtcTransport(h) ==
    /\ call[h].op = "transport" /\ HasRouter(call[h].on)
    /\ Request(h, routerToWorker[call[h].on])
    /\ UNCHANGED nextWorkerIdx

\* connectTransport, produce and consume; a producer is not looked up.
OnTransport(h) ==
    /\ call[h].op \in {"connect", "produce", "consume"}
    /\ HasTransport(call[h].on)
    /\ Request(h, WorkerOf(call[h].on))
    /\ UNCHANGED nextWorkerIdx

\* The router or the transport is not, or no longer, in the tables.  To close
\* such a transport is answered 204 like any other.
NotFoundResult(h) == IF call[h].op = "close" THEN "accepted" ELSE "rejected"

NotFound(h) ==
    /\ call[h].step = "entity" /\ entityLock = None
    /\ \/ call[h].op = "transport" /\ ~HasRouter(call[h].on)
       \/ call[h].op \in {"connect", "produce", "consume", "close"}
          /\ ~HasTransport(call[h].on)
    /\ call' = [call EXCEPT ![h] = Done(h, NotFoundResult(h))]
    /\ UNCHANGED <<m_rooms, locks, tables, nextWorkerIdx, channels, workerVars,
                   givenUp, phase>>

\* Mutant of Succeeds: an empty answer is taken for an accepted one.
SucceedsWhenEmpty(resp) == resp \in {"accepted", None}

\* WorkerMessageBuilder::parseResponse.
Succeeds(resp) == resp = "accepted"

\* Mutant of Record: the consumer is not entered.
RecordForgetsConsumer(h) ==
    LET c == call[h] IN
    /\ routerToWorker' = IF c.op = "router"
                         THEN [routerToWorker EXCEPT ![h] = c.k]
                         ELSE routerToWorker
    /\ transportToRouter' = IF c.op = "transport"
                            THEN [transportToRouter EXCEPT ![h] = c.on]
                            ELSE transportToRouter
    /\ producerToTransport' = IF c.op = "produce"
                              THEN [producerToTransport EXCEPT ![h] = c.on]
                              ELSE producerToTransport
    /\ UNCHANGED consumerToTransport

\* What was created is entered in its table.
Record(h) ==
    LET c == call[h] IN
    /\ routerToWorker' = IF c.op = "router"
                         THEN [routerToWorker EXCEPT ![h] = c.k]
                         ELSE routerToWorker
    /\ transportToRouter' = IF c.op = "transport"
                            THEN [transportToRouter EXCEPT ![h] = c.on]
                            ELSE transportToRouter
    /\ producerToTransport' = IF c.op = "produce"
                              THEN [producerToTransport EXCEPT ![h] = c.on]
                              ELSE producerToTransport
    /\ consumerToTransport' = IF c.op = "consume"
                              THEN [consumerToTransport EXCEPT ![h] = c.on]
                              ELSE consumerToTransport

\* request() erases its pending entry and hands out the answer, empty when
\* none came; the operation returns and unlocks.  All but createRouter answer
\* the client.
Return(h) ==
    LET resp   == call[h].resp
        result == IF Succeeds(resp) THEN "accepted" ELSE "rejected"
    IN /\ WaitOver(h)
       /\ IF Succeeds(resp) THEN Record(h) ELSE UNCHANGED tables
       /\ givenUp' = IF resp = None THEN givenUp \cup {<<call[h].op, h>>}
                     ELSE givenUp
       /\ call' = [call EXCEPT ![h] =
                     IF call[h].op = "router"
                     THEN [call[h] EXCEPT !.step = "returned", !.resp = result]
                     ELSE Done(h, result)]
       /\ entityLock' = None
       /\ UNCHANGED <<m_rooms, roomLock, nextWorkerIdx, channels, workerVars,
                      phase>>

\* The producers and consumers of some transports are erased, and these.
EraseTransports(T) ==
    /\ transportToRouter'   = [t \in Requests |-> IF t \in T THEN None
                                                 ELSE transportToRouter[t]]
    /\ producerToTransport' = [p \in Requests |->
                                 IF producerToTransport[p] \in T THEN None
                                 ELSE producerToTransport[p]]
    /\ consumerToTransport' = [p \in Requests |->
                                 IF consumerToTransport[p] \in T THEN None
                                 ELSE consumerToTransport[p]]

\* closeTransport: the notification, an event WORKER_CLOSE, is queued; 204.
CloseTransport(h) ==
    LET t == call[h].on IN
    /\ call[h].op = "close" /\ call[h].step = "entity"
    /\ entityLock = None
    /\ HasTransport(t)
    /\ m_outQueue' = [m_outQueue EXCEPT
                        ![WorkerOf(t)] = Append(@, [kind |-> "workerClose",
                                                    name |-> h, on |-> t,
                                                    prod |-> None, id |-> 0])]
    /\ EraseTransports({t})
    /\ call' = [call EXCEPT ![h] = Done(h, "accepted")]
    /\ UNCHANGED <<m_rooms, locks, routerToWorker, nextWorkerIdx, m_nextId,
                   workerVars, givenUp, phase>>

----------------------------------------------------------------------------
(* The workers: the mediasoup library, then WorkerChannel::onWorkerMessage. *)

\* What the worker has below the entity x.
Below(k, x) ==
    LET below(S) == {e \in made[k] : e[3] \in S}
        first    == below({x})
        second   == below({e[2] : e \in first})
    IN first \cup second

\* The worker can do what the message asks for.
CanDo(k, m) ==
    CASE m.kind = "router"    -> TRUE
      [] m.kind = "transport" -> \E e \in made[k] : e[1] = "router" /\ e[2] = m.on
      [] m.kind = "consume"   -> \E e \in made[k] : e[1] = "produce" /\ e[2] = m.prod
      [] OTHER                -> TRUE

\* The request of this id whose entry is still in m_pending of worker k.
Pending(k, id) == {c \in Callers : /\ call[c].step = "wait"
                                   /\ call[c].k = k /\ call[c].id = id}

\* onWorkerMessage: the answer is stored in the pending entry of its id, or
\* dropped with a warning when there is none.
OnWorkerMessage(k, id, answer) ==
    call' = [c \in Callers |-> IF c \in Pending(k, id)
                               THEN [call[c] EXCEPT !.resp = answer]
                               ELSE call[c]]

\* channelRead, then the library's handler, which does what it is asked for or
\* refuses, then channelWrite, all in the worker's thread.
WorkerHandles(k) ==
    /\ alive[k] /\ m_outQueue[k] # << >>
    /\ LET m == Head(m_outQueue[k]) IN
       /\ m.kind # "workerClose"
       /\ \E answer \in {"accepted", "rejected"} :
             /\ answer = "accepted" => CanDo(k, m)
             /\ OnWorkerMessage(k, m.id, answer)
             /\ made' = IF answer = "rejected" \/ m.kind = "connect" THEN made
                        ELSE IF m.kind = "closeRouter"
                        THEN [made EXCEPT ![k] = (@ \ Below(k, m.on))
                                \ {e \in @ : e[1] = "router" /\ e[2] = m.on}]
                        ELSE [made EXCEPT ![k] = @ \cup {<<m.kind, m.name, m.on>>}]
    /\ m_outQueue' = [m_outQueue EXCEPT ![k] = Tail(@)]
    /\ UNCHANGED <<m_rooms, locks, tables, nextWorkerIdx, m_nextId, alive,
                   givenUp, phase>>

\* The event WORKER_CLOSE: the worker deletes all it has and its loop ends.
WorkerCloses(k) ==
    /\ alive[k] /\ m_outQueue[k] # << >>
    /\ Head(m_outQueue[k]).kind = "workerClose"
    /\ alive' = [alive EXCEPT ![k] = FALSE]
    /\ made'  = [made EXCEPT ![k] = {}]
    /\ m_outQueue' = [m_outQueue EXCEPT ![k] = Tail(@)]
    /\ UNCHANGED <<m_rooms, locks, tables, nextWorkerIdx, call, m_nextId,
                   givenUp, phase>>

----------------------------------------------------------------------------
(* Shutdown: ~HttpServer, ~RoomManager, ~MediasoupSfuBackend *)

\* The HTTP server has stopped and its threads have ended.
Stop ==
    /\ phase = "serving" /\ Active = {}
    /\ phase' = "closing"
    /\ UNCHANGED <<m_rooms, locks, tables, nextWorkerIdx, call, channels,
                   workerVars, givenUp>>

Rooms == {l \in Locations : m_rooms[l] # None}

\* ~RoomManager: closeRouter of the next room, when it is in the tables.
CloseRouter(l) ==
    /\ phase = "closing" /\ l \in Rooms
    /\ call[Main] = Idle
    /\ HasRouter(m_rooms[l]) /\ Lock(Main)
    /\ LET r  == m_rooms[l]
           k  == routerToWorker[r]
           id == NextId(k)
       IN /\ m_nextId'   = [m_nextId EXCEPT ![k] = id]
          /\ m_outQueue' = [m_outQueue EXCEPT
                              ![k] = Append(@, [kind |-> "closeRouter",
                                                name |-> Main, on |-> r,
                                                prod |-> None, id |-> id])]
          /\ call' = [call EXCEPT ![Main] =
                        [Idle EXCEPT !.op = "closeRouter", !.step = "wait",
                                     !.loc = l, !.on = r, !.k = k, !.id = id]]
    /\ UNCHANGED <<m_rooms, roomLock, tables, nextWorkerIdx, workerVars,
                   givenUp, phase>>

\* Whatever the answer, the router and all that belongs to it are erased.
RouterClosed ==
    LET c == call[Main] IN
    /\ WaitOver(Main)
    /\ routerToWorker' = [routerToWorker EXCEPT ![c.on] = NumWorkers]
    /\ EraseTransports({t \in Requests : transportToRouter[t] = c.on})
    /\ m_rooms' = [m_rooms EXCEPT ![c.loc] = None]
    /\ call' = [call EXCEPT ![Main] = Idle]
    /\ entityLock' = None
    /\ UNCHANGED <<roomLock, nextWorkerIdx, channels, workerVars, givenUp,
                   phase>>

\* The channels are closed, which tells the workers nothing; their threads are
\* joined.
CloseChannels ==
    /\ phase = "closing" /\ Rooms = {} /\ call[Main] = Idle
    /\ phase' = "joining"
    /\ UNCHANGED <<m_rooms, locks, tables, nextWorkerIdx, call, channels,
                   workerVars, givenUp>>

Joined ==
    /\ phase = "joining" /\ \A k \in Workers : ~alive[k]
    /\ phase' = "down"
    /\ UNCHANGED <<m_rooms, locks, tables, nextWorkerIdx, call, channels,
                   workerVars, givenUp>>

----------------------------------------------------------------------------
ClientRequest(h) ==
    \/ \E l \in Locations : HandleCreateTransport(h, l)
    \/ \E t \in Requests :
          \/ HandleConnectTransport(h, t)
          \/ HandleProduce(h, t)
          \/ HandleCloseTransport(h, t)
          \/ \E p \in Requests : HandleConsume(h, t, p)

HandlerStep(h) ==
    \/ FindRoom(h)
    \/ EnterRoom(h)
    \/ CreateRouter(h)
    \/ CreateWebRtcTransport(h)
    \/ OnTransport(h)
    \/ NotFound(h)
    \/ Return(h)
    \/ CloseTransport(h)

WorkerStep(k) ==
    \/ WorkerHandles(k)
    \/ WorkerCloses(k)

MainStep ==
    \/ \E l \in Locations : CloseRouter(l)
    \/ RouterClosed
    \/ CloseChannels
    \/ Joined

Next ==
    \/ \E h \in Requests : ClientRequest(h) \/ HandlerStep(h)
    \/ \E k \in Workers : WorkerStep(k)
    \/ Stop
    \/ MainStep

\* The threads of the server run and wait_for is timed.  Of the workers nothing
\* is assumed.
Spec ==
    /\ Init /\ [][Next]_vars
    /\ \A h \in Requests : WF_vars(HandlerStep(h))
    /\ WF_vars(MainStep)

----------------------------------------------------------------------------
(* Properties *)

\* "Get or create a Router for this location": concurrent requests for one
\* location never leave two routers for it in the tables, nor a router that
\* belongs to no room once its handler has left getOrCreateRouter.
OneRouterPerRoom ==
    /\ \A r \in Requests : HasRouter(r) =>
          \/ \E l \in Locations : m_rooms[l] = r
          \/ call[r].op = "router"
          \/ phase # "serving"
    /\ \A l, m \in Locations : m_rooms[l] = m_rooms[m] /\ m_rooms[l] # None
                               => l = m

\* The tables refer to one another: no transport is without its router, no
\* producer or consumer without its transport, although transports are closed
\* while others wait for an answer to produce or consume on them.
TablesLinked ==
    /\ \A t \in Requests : HasTransport(t) => HasRouter(transportToRouter[t])
    /\ \A p \in Requests :
          /\ producerToTransport[p] # None => HasTransport(producerToTransport[p])
          /\ consumerToTransport[p] # None => HasTransport(consumerToTransport[p])

\* A worker that was told to close, or has ended.
Doomed(k) == ~alive[k] \/ \E i \in 1..Len(m_outQueue[k]) :
                             m_outQueue[k][i].kind = "workerClose"

Has(k, kind, x) == \E e \in made[k] : e[1] = kind /\ e[2] = x

\* What the tables have, the worker has, as long as it runs and was not told to
\* close: no late, lost or foreign answer makes a creation count that was not
\* accepted.
TablesBacked ==
    phase = "serving" => \A x \in Requests :
       /\ HasRouter(x) => LET k == routerToWorker[x] IN
                          Doomed(k) \/ Has(k, "router", x)
       /\ HasTransport(x) => LET k == WorkerOf(x) IN
                             Doomed(k) \/ Has(k, "transport", x)
       /\ producerToTransport[x] # None =>
             LET k == WorkerOf(producerToTransport[x]) IN
             Doomed(k) \/ Has(k, "produce", x)
       /\ consumerToTransport[x] # None =>
             LET k == WorkerOf(consumerToTransport[x]) IN
             Doomed(k) \/ Has(k, "consume", x)

InTables(kind, x) ==
    \/ kind = "router"    /\ HasRouter(x)
    \/ kind = "transport" /\ HasTransport(x)
    \/ kind = "produce"   /\ producerToTransport[x] # None
    \/ kind = "consume"   /\ consumerToTransport[x] # None

\* The worker has nothing the tables do not know, but for a creation under way,
\* one whose wait ended without an answer, and what it is about to close: the
\* time-out is the only leak.
LeakHasCause ==
    phase = "serving" => \A k \in Workers : \A e \in made[k] :
       \/ InTables(e[1], e[2])
       \/ call[e[2]].op = e[1] /\ call[e[2]].step = "wait"
       \/ <<e[1], e[2]>> \in givenUp
       \/ Doomed(k)

\* Whoever holds entityMutex, on which every stream request waits, releases it
\* although the worker may never answer.
LockReleased ==
    \A c \in Callers : entityLock = c ~> entityLock # c

============================================================================
