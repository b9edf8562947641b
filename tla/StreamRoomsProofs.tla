------------------------- MODULE StreamRoomsProofs -------------------------
(***************************************************************************)
(* Proofs about streaming: the rooms, the tables of the backend and what   *)
(* the workers have, for any number of requests, locations, workers and    *)
(* server threads.                                                         *)
(*                                                                         *)
(* The argument has two parts.  The locks: who waits for a worker holds    *)
(* entityMutex, so the tables it looked at are still the same when it      *)
(* records what it created, and who creates a router holds the mutex of    *)
(* RoomManager, so the room it missed is still missing.  The channels: a   *)
(* message that a worker has not read yet is that of the waiting request,  *)
(* or of one that has given up, and only the first is answered.            *)
(***************************************************************************)
EXTENDS StreamRooms, SequenceTheorems, TLAPS

Kinds   == {"router", "transport", "produce", "consume"}
Ops     == Kinds \cup {"none", "connect", "close", "closeRouter"}
Steps   == {"idle", "room", "entity", "wait", "returned", "done"}
Answers == {None, "accepted", "rejected"}

CallType ==
    [op : Ops, step : Steps, loc : Locations \cup {None},
     on : Requests \cup {None}, prod : Requests \cup {None}, k : Workers,
     id : Nat, resp : Answers]

RoomsType ==
    /\ m_rooms \in [Locations -> Requests \cup {None}]
    /\ routerToWorker \in [Requests -> 0..NumWorkers]
    /\ transportToRouter \in [Requests -> Requests \cup {None}]
    /\ producerToTransport \in [Requests -> Requests \cup {None}]
    /\ consumerToTransport \in [Requests -> Requests \cup {None}]
    /\ nextWorkerIdx \in Workers
    /\ call \in [Callers -> CallType]

----------------------------------------------------------------------------
(* The locks and the tables *)

\* The handler is inside getOrCreateRouter, which found no room.
HoldsRoom(c) == c.op = "router" /\ c.step \in {"entity", "wait", "returned"}

\* What a waiting request has looked up is still in the tables.
LookedUp(c) ==
    \/ c.op = "router"
    \/ c.op = "transport" /\ HasRouter(c.on) /\ routerToWorker[c.on] = c.k
    \/ /\ c.op \in {"connect", "produce", "consume"}
       /\ HasTransport(c.on) /\ WorkerOf(c.on) = c.k

\* What the tables and the locks know of request h fits to where it is.
RequestInv(h) ==
    LET c == call[h] IN
    /\ c.step = "wait" <=> entityLock = h
    /\ HoldsRoom(c) <=> roomLock = h
    /\ HoldsRoom(c) => c.loc \in Locations /\ m_rooms[c.loc] = None
    /\ c.step = "room" => c.op = "router" /\ c.loc \in Locations
    /\ phase # "serving" => c.step \in {"idle", "done"}
    /\ c.step = "wait" => LookedUp(c)
    /\ c.step \in {"room", "entity"} => c.resp = None
    /\ HasRouter(h) => /\ c.step \notin {"idle", "room"}
                       /\ c.op = "router" => /\ c.step = "returned"
                                             /\ c.resp = "accepted"
    /\ HasTransport(h) => c.op = "transport" /\ c.step = "done"
    /\ producerToTransport[h] # None => c.op = "produce" /\ c.step = "done"
    /\ consumerToTransport[h] # None => c.op = "consume" /\ c.step = "done"
    /\ \A l \in Locations : m_rooms[l] = h => c.op # "router" /\ c.step # "idle"

\* The destructor of RoomManager runs when no request does.
MainInv ==
    LET c == call[Main] IN
    \/ c = Idle /\ entityLock # Main
    \/ /\ c.step = "wait" /\ entityLock = Main /\ phase = "closing"
       /\ c.op = "closeRouter" /\ c.on \in Requests /\ c.loc \in Locations

RoomsInv ==
    /\ RoomsType
    /\ \A h \in Requests : RequestInv(h)
    /\ MainInv
    /\ OneRouterPerRoom
    /\ TablesLinked

----------------------------------------------------------------------------
(* The channels and the workers *)

MessageType ==
    [kind : Kinds \cup {"connect", "workerClose"}, name : Requests,
     on : Requests \cup {None}, prod : Requests \cup {None}, id : Nat]
    \cup
    [kind : {"closeRouter"}, name : {Main}, on : Requests, prod : {None}, id : Nat]

ChannelsType ==
    /\ m_nextId \in [Workers -> Nat]
    /\ m_outQueue \in [Workers -> Seq(MessageType)]
    /\ alive \in [Workers -> BOOLEAN]
    /\ made \in [Workers -> SUBSET (Kinds \X Requests \X (Requests \cup {None}))]

\* Caller c waits for the answer to the message m of worker k.
AnswersFor(m, k, c) ==
    /\ call[c].step = "wait" /\ call[c].k = k /\ call[c].id = m.id
    /\ call[c].op = m.kind /\ call[c].resp = None

\* A request in a channel has an id of its own, and whoever sent it waits for
\* it or has given it up.
MessageInv(k, m) ==
    \/ m.kind = "workerClose" /\ m.id = 0
    \/ /\ m.kind \in Kinds \cup {"connect"} /\ m.name \in Requests
       /\ m.id \in 1..m_nextId[k]
       /\ <<m.kind, m.name>> \in givenUp \/ AnswersFor(m, k, m.name)

\* No two messages have one id, and nobody waits for the message of another.
IdInv(k) ==
    /\ \A i, j \in 1..Len(m_outQueue[k]) :
          /\ m_outQueue[k][i].id = m_outQueue[k][j].id
          /\ m_outQueue[k][i].id # 0
          => i = j
    /\ \A h \in Requests : \A i \in 1..Len(m_outQueue[k]) :
          /\ call[h].step = "wait" /\ call[h].k = k
          /\ call[h].id = m_outQueue[k][i].id
          => m_outQueue[k][i].name = h /\ AnswersFor(m_outQueue[k][i], k, h)
    /\ \A h \in Requests : call[h].step = "wait" /\ call[h].k = k
                           => call[h].id \in 1..m_nextId[k]

\* The worker of what is in the tables.
WorkerFor(kind, x) ==
    IF kind = "router" THEN routerToWorker[x]
    ELSE IF kind = "transport" THEN WorkerOf(x)
    ELSE IF kind = "produce" THEN WorkerOf(producerToTransport[x])
    ELSE WorkerOf(consumerToTransport[x])

\* What worker k has: it is in the tables as the worker's, or its request has
\* the answer, or has given up, or all of it is about to go.
MadeInv(k, e) ==
    \/ InTables(e[1], e[2]) /\ WorkerFor(e[1], e[2]) = k
    \/ /\ call[e[2]].op = e[1] /\ call[e[2]].step = "wait"
       /\ call[e[2]].k = k /\ call[e[2]].resp = "accepted"
    \/ <<e[1], e[2]>> \in givenUp
    \/ Doomed(k)

\* What was accepted, the worker has.
AcceptedInv(h) ==
    call[h].step = "wait" /\ call[h].resp = "accepted" /\ call[h].op \in Kinds
    => Has(call[h].k, call[h].op, h) \/ Doomed(call[h].k)

\* What is in the tables, the worker has: TablesBacked, for all kinds alike.
BackedInv(kind, x) ==
    InTables(kind, x) =>
       Has(WorkerFor(kind, x), kind, x) \/ Doomed(WorkerFor(kind, x))

ServingInv ==
    /\ \A k \in Workers : \A i \in 1..Len(m_outQueue[k]) :
          MessageInv(k, m_outQueue[k][i])
    /\ \A k \in Workers : IdInv(k)
    /\ \A k \in Workers : \A e \in made[k] : MadeInv(k, e)
    /\ \A h \in Requests : AcceptedInv(h)
    /\ \A kind \in Kinds, x \in Requests : BackedInv(kind, x)

WorkersInv == ChannelsType /\ (phase = "serving" => ServingInv)
----------------------------------------------------------------------------
(* The locks and the tables: lemmas *)

LEMMA StreamConstants ==
    /\ NumWorkers \in Nat /\ NumWorkers > 0 /\ 0 \in Workers
    /\ NumWorkers \notin Workers
    /\ \A k \in 0..NumWorkers : k # NumWorkers => k \in Workers
    /\ Workers \subseteq 0..NumWorkers
    /\ None \notin Requests /\ Main \notin Requests /\ None # Main
    /\ Main \in Callers /\ Requests \subseteq Callers /\ None \notin Callers
<1>1. NumWorkers \in Nat /\ NumWorkers > 0 /\ None \notin Requests /\ Main \notin Requests
  BY StreamAssumption
<1>2. None # Main
  BY DEF None, Main
<1> QED
  BY <1>1, <1>2 DEF Workers, Callers

LEMMA IdleType == Idle \in CallType /\ Idle.step = "idle" /\ Idle.op = "none"
BY StreamConstants DEF Idle, CallType, Ops, Steps, Answers

\* Nothing that the invariant says of g has changed.
LEMMA RequestKept ==
    ASSUME NEW g \in Requests, RequestInv(g), UNCHANGED <<m_rooms, tables, phase>>,
           call'[g] = call[g],
           entityLock' = g <=> entityLock = g, roomLock' = g <=> roomLock = g
    PROVE  RequestInv(g)'
BY DEF RequestInv, tables, HoldsRoom, LookedUp, HasRouter, HasTransport, WorkerOf

\* The tables stay; no handler with a router leaves getOrCreateRouter.
LEMMA TablesKept ==
    ASSUME RoomsInv, UNCHANGED <<m_rooms, tables, phase>>,
           \A r \in Requests : HasRouter(r) /\ call[r].op = "router"
                               => call'[r].op = "router"
    PROVE  OneRouterPerRoom' /\ TablesLinked'
<1>1. OneRouterPerRoom'
  BY DEF RoomsInv, OneRouterPerRoom, HasRouter, tables
<1>2. TablesLinked'
  BY DEF RoomsInv, TablesLinked, HasRouter, HasTransport, tables
<1> QED
  BY <1>1, <1>2

\* One handler goes on, the tables stay.
LEMMA HandlerMoves ==
    ASSUME RoomsInv, UNCHANGED <<m_rooms, tables, phase>>, nextWorkerIdx' \in Workers,
           NEW h \in Requests, NEW c \in CallType, call' = [call EXCEPT ![h] = c],
           entityLock' = entityLock \/ {entityLock, entityLock'} \subseteq {None, h},
           roomLock' = roomLock \/ {roomLock, roomLock'} \subseteq {None, h},
           RequestInv(h)',
           HasRouter(h) /\ call[h].op = "router" => c.op = "router"
    PROVE  RoomsInv'
<1>1. call \in [Callers -> CallType] /\ h \in Callers /\ call[h] \in CallType
  BY StreamConstants DEF RoomsInv, RoomsType
<1>2. RoomsType'
  BY <1>1 DEF RoomsInv, RoomsType, tables
<1>3. ASSUME NEW g \in Requests PROVE RequestInv(g)'
  <2>1. CASE g = h
    BY <2>1
  <2>2. CASE g # h
    <3>1. g \in Callers /\ g # None /\ h # None
      BY StreamConstants
    <3>2. call'[g] = call[g]
      BY <1>1, <2>2, <3>1
    <3>3. (entityLock' = g <=> entityLock = g) /\ (roomLock' = g <=> roomLock = g)
      BY <2>2, <3>1
    <3> QED
      BY <3>2, <3>3, RequestKept DEF RoomsInv
  <2> QED
    BY <2>1, <2>2
<1>4. MainInv'
  <2>1. call'[Main] = call[Main] /\ (entityLock' = Main <=> entityLock = Main)
    BY <1>1, StreamConstants
  <2> QED
    BY <2>1 DEF RoomsInv, MainInv
<1>5. \A r \in Requests : HasRouter(r) /\ call[r].op = "router"
                          => call'[r].op = "router"
  BY <1>1, StreamConstants
<1> QED
  BY <1>2, <1>3, <1>4, <1>5, TablesKept DEF RoomsInv

LEMMA ArriveKeeps ==
    ASSUME RoomsInv, NEW h \in Requests, NEW c \in CallType, Arrive(h, c),
           c.resp = None,
           \/ c.step = "room" /\ c.op = "router" /\ c.loc \in Locations
           \/ c.step = "entity" /\ c.op \in {"connect", "produce", "consume", "close"}
    PROVE  RoomsInv'
<1>1. /\ call[h].step = "idle" /\ call' = [call EXCEPT ![h] = c]
      /\ UNCHANGED <<m_rooms, tables, phase, entityLock, roomLock, nextWorkerIdx>>
      /\ phase = "serving"
  BY IdleType DEF Arrive, locks
<1>2. call'[h] = c /\ RequestInv(h) /\ nextWorkerIdx \in Workers
  BY <1>1, StreamConstants DEF RoomsInv, RoomsType
<1>3. RequestInv(h)'
  BY <1>1, <1>2 DEF RequestInv, tables, HoldsRoom, LookedUp, HasRouter,
                    HasTransport, WorkerOf
<1>4. ~HasRouter(h)
  BY <1>1, <1>2 DEF RequestInv
<1> QED
  BY <1>1, <1>2, <1>3, <1>4, HandlerMoves
LEMMA ClientRequestKeeps ==
    ASSUME RoomsInv, NEW h \in Requests, ClientRequest(h)
    PROVE  RoomsInv'
<1>1. ASSUME NEW l \in Locations, HandleCreateTransport(h, l)
      PROVE  RoomsInv'
  <2> DEFINE c == [Idle EXCEPT !.op = "router", !.step = "room", !.loc = l]
  <2>1. /\ c \in CallType /\ c.step = "room" /\ c.op = "router"
        /\ c.loc \in Locations /\ c.resp = None
    BY StreamConstants DEF Idle, CallType, Ops, Kinds, Steps, Answers
  <2>2. Arrive(h, c)
    BY <1>1 DEF HandleCreateTransport
  <2> HIDE DEF c
  <2> QED
    BY <2>1, <2>2, ArriveKeeps
<1>2. ASSUME NEW t \in Requests, NEW p \in Requests,
             Arrive(h, [Idle EXCEPT !.op = "consume", !.step = "entity",
                                    !.on = t, !.prod = p])
      PROVE  RoomsInv'
  <2> DEFINE c == [Idle EXCEPT !.op = "consume", !.step = "entity", !.on = t,
                               !.prod = p]
  <2>1. c \in CallType /\ c.step = "entity" /\ c.resp = None
        /\ c.op \in {"connect", "produce", "consume", "close"}
    BY StreamConstants DEF Idle, CallType, Ops, Kinds, Steps, Answers
  <2>2. Arrive(h, c)
    BY <1>2
  <2> HIDE DEF c
  <2> QED
    BY <2>1, <2>2, ArriveKeeps
<1>3. ASSUME NEW t \in Requests, NEW op \in {"connect", "produce", "close"},
             Arrive(h, [Idle EXCEPT !.op = op, !.step = "entity", !.on = t])
      PROVE  RoomsInv'
  <2> DEFINE c == [Idle EXCEPT !.op = op, !.step = "entity", !.on = t]
  <2>1. c \in CallType /\ c.step = "entity" /\ c.resp = None
        /\ c.op \in {"connect", "produce", "consume", "close"}
    BY StreamConstants DEF Idle, CallType, Ops, Kinds, Steps, Answers
  <2>2. Arrive(h, c)
    BY <1>3
  <2> HIDE DEF c
  <2> QED
    BY <2>1, <2>2, ArriveKeeps
<1>4. ASSUME NEW t \in Requests, HandleConnectTransport(h, t) PROVE RoomsInv'
  BY <1>3, <1>4 DEF HandleConnectTransport
<1>5. ASSUME NEW t \in Requests, HandleProduce(h, t) PROVE RoomsInv'
  BY <1>3, <1>5 DEF HandleProduce
<1>6. ASSUME NEW t \in Requests, HandleCloseTransport(h, t) PROVE RoomsInv'
  BY <1>3, <1>6 DEF HandleCloseTransport
<1>7. ASSUME NEW t \in Requests, NEW p \in Requests, HandleConsume(h, t, p)
      PROVE  RoomsInv'
  BY <1>2, <1>7 DEF HandleConsume
<1> QED
  BY <1>1, <1>4, <1>5, <1>6, <1>7 DEF ClientRequest

LEMMA FindRoomKeeps ==
    ASSUME RoomsInv, NEW h \in Requests, FindRoom(h)
    PROVE  RoomsInv'
<1> DEFINE l == call[h].loc
           c == IF m_rooms[l] = None THEN [call[h] EXCEPT !.step = "entity"]
                ELSE [call[h] EXCEPT !.op = "transport", !.step = "entity",
                                     !.on = m_rooms[l]]
<1>1. /\ call[h].step = "room" /\ roomLock = None
      /\ roomLock' = IF m_rooms[l] = None THEN h ELSE None
      /\ call' = [call EXCEPT ![h] = c]
      /\ UNCHANGED <<m_rooms, entityLock, tables, nextWorkerIdx, phase>>
  BY DEF FindRoom
<1>2. /\ call[h] \in CallType /\ RequestInv(h) /\ h \in Callers
      /\ call \in [Callers -> CallType] /\ nextWorkerIdx \in Workers
      /\ m_rooms \in [Locations -> Requests \cup {None}]
  BY StreamConstants DEF RoomsInv, RoomsType
<1>3. l \in Locations /\ call[h].op = "router" /\ ~HasRouter(h)
  BY <1>1, <1>2 DEF RequestInv
<1>4. /\ c \in CallType /\ c.step = "entity" /\ c.loc = l
      /\ c.resp = call[h].resp
      /\ c.op = IF m_rooms[l] = None THEN "router" ELSE "transport"
  BY <1>2, <1>3 DEF CallType, Ops, Kinds, Steps
<1> HIDE DEF c
<1>5. call'[h] = c
  BY <1>1, <1>2
<1>6. RequestInv(h)'
  BY <1>1, <1>2, <1>3, <1>4, <1>5, StreamConstants
  DEF RequestInv, tables, HoldsRoom, LookedUp, HasRouter, HasTransport, WorkerOf
<1> QED
  BY <1>1, <1>2, <1>3, <1>4, <1>6, HandlerMoves

\* Done is a call that has ended.
LEMMA DoneType ==
    ASSUME RoomsInv, NEW h \in Requests, NEW result \in {"accepted", "rejected"}
    PROVE  /\ Done(h, result) \in CallType /\ Done(h, result).step = "done"
           /\ Done(h, result).op = call[h].op
           /\ Done(h, result).resp = result
<1>1. call[h] \in CallType
  BY StreamConstants DEF RoomsInv, RoomsType
<1> QED
  BY <1>1, IdleType DEF Done, CallType, Steps, Answers, Idle

LEMMA NotFoundKeeps ==
    ASSUME RoomsInv, NEW h \in Requests, NotFound(h)
    PROVE  RoomsInv'
<1> DEFINE c == Done(h, NotFoundResult(h))
<1>1. /\ call[h].step = "entity" /\ entityLock = None /\ call[h].op # "router"
      /\ call' = [call EXCEPT ![h] = c]
      /\ UNCHANGED <<m_rooms, entityLock, roomLock, tables, nextWorkerIdx, phase>>
  BY DEF NotFound, locks
<1>2. /\ RequestInv(h) /\ h \in Callers /\ call \in [Callers -> CallType]
      /\ nextWorkerIdx \in Workers
  BY StreamConstants DEF RoomsInv, RoomsType
<1>3. c \in CallType /\ c.step = "done" /\ c.op = call[h].op
  BY DoneType DEF NotFoundResult
<1> HIDE DEF c
<1>4. call'[h] = c
  BY <1>1, <1>2
<1>5. RequestInv(h)'
  BY <1>1, <1>2, <1>3, <1>4
  DEF RequestInv, tables, HoldsRoom, LookedUp, HasRouter, HasTransport, WorkerOf
<1> QED
  BY <1>1, <1>2, <1>3, <1>5, HandlerMoves

\* A request is sent to worker k, which the lookup has found.
LEMMA RequestKeeps ==
    ASSUME RoomsInv, NEW h \in Requests, NEW k \in Workers, Request(h, k),
           LookedUp([call[h] EXCEPT !.k = k]), ChannelsType,
           nextWorkerIdx' \in Workers
    PROVE  RoomsInv'
<1> DEFINE c == [call[h] EXCEPT !.step = "wait", !.k = k, !.id = NextId(k)]
<1>1. /\ call[h].step = "entity" /\ entityLock = None /\ entityLock' = h
      /\ call' = [call EXCEPT ![h].step = "wait", ![h].k = k, ![h].id = NextId(k)]
      /\ UNCHANGED <<m_rooms, roomLock, tables, phase>>
  BY DEF Request, Lock
<1>2. /\ RequestInv(h) /\ h \in Callers /\ call \in [Callers -> CallType]
      /\ call[h] \in CallType
  BY StreamConstants DEF RoomsInv, RoomsType
<1>3. call' = [call EXCEPT ![h] = c]
  BY <1>1, <1>2
<1>4. NextId(k) \in Nat
  BY DEF NextId, ChannelsType
<1>5. /\ c \in CallType /\ c.step = "wait" /\ c.op = call[h].op /\ c.on = call[h].on
      /\ c.k = k /\ c.loc = call[h].loc
  BY <1>2, <1>4 DEF CallType, Steps
<1>6. LookedUp(c)
  <2>1. /\ [call[h] EXCEPT !.k = k].op = c.op /\ [call[h] EXCEPT !.k = k].on = c.on
        /\ [call[h] EXCEPT !.k = k].k = c.k
    BY <1>2, <1>5 DEF CallType
  <2> QED
    BY <2>1 DEF LookedUp
<1> HIDE DEF c
<1>7. call'[h] = c
  BY <1>2, <1>3
<1>8. RequestInv(h)'
  BY <1>1, <1>2, <1>5, <1>6, <1>7, StreamConstants
  DEF RequestInv, tables, HoldsRoom, LookedUp, HasRouter, HasTransport, WorkerOf
<1> QED
  BY <1>1, <1>2, <1>3, <1>5, <1>8, HandlerMoves

\* The worker of a router or a transport in the tables.
LEMMA WorkerFound ==
    ASSUME RoomsInv
    PROVE  /\ \A r \in Requests : HasRouter(r) => routerToWorker[r] \in Workers
           /\ \A t \in Requests : HasTransport(t) =>
                 transportToRouter[t] \in Requests /\ WorkerOf(t) \in Workers
<1>1. /\ routerToWorker \in [Requests -> 0..NumWorkers]
      /\ transportToRouter \in [Requests -> Requests \cup {None}] /\ TablesLinked
  BY DEF RoomsInv, RoomsType
<1>2. \A r \in Requests : HasRouter(r) => routerToWorker[r] \in Workers
  BY <1>1, StreamConstants DEF HasRouter
<1>3. \A t \in Requests : HasTransport(t) =>
         transportToRouter[t] \in Requests /\ HasRouter(transportToRouter[t])
  BY <1>1 DEF HasTransport, TablesLinked
<1> QED
  BY <1>2, <1>3 DEF WorkerOf

LEMMA RequestsKeep ==
    ASSUME RoomsInv, ChannelsType, NEW h \in Requests,
           CreateRouter(h) \/ CreateWebRtcTransport(h) \/ OnTransport(h)
    PROVE  RoomsInv' /\ \E k \in Workers : /\ Request(h, k)
                                           /\ LookedUp([call[h] EXCEPT !.k = k])
<1>1. call[h] \in CallType /\ nextWorkerIdx \in Workers
  BY StreamConstants DEF RoomsInv, RoomsType
<1>2. \A k : /\ [call[h] EXCEPT !.k = k].op = call[h].op
             /\ [call[h] EXCEPT !.k = k].on = call[h].on
             /\ [call[h] EXCEPT !.k = k].k = k
  BY <1>1 DEF CallType
<1>3. nextWorkerIdx' \in Workers
  <2>1. CASE CreateRouter(h)
    <3>1. nextWorkerIdx' = (nextWorkerIdx + 1) % NumWorkers
      BY <2>1 DEF CreateRouter
    <3> QED
      BY <1>1, <3>1, StreamConstants DEF Workers
  <2>2. CASE CreateWebRtcTransport(h) \/ OnTransport(h)
    BY <1>1, <2>2 DEF CreateWebRtcTransport, OnTransport
  <2> QED
    BY <2>1, <2>2
<1>4. \E k \in Workers : Request(h, k) /\ LookedUp([call[h] EXCEPT !.k = k])
  <2>1. CASE CreateRouter(h)
    BY <1>1, <1>2, <2>1 DEF CreateRouter, LookedUp
  <2>2. CASE CreateWebRtcTransport(h)
    <3>1. call[h].on \in Requests
      BY <1>1, <2>2 DEF CallType, CreateWebRtcTransport, HasRouter
    <3>2. routerToWorker[call[h].on] \in Workers
      BY <2>2, <3>1, WorkerFound DEF CreateWebRtcTransport
    <3>3. LookedUp([call[h] EXCEPT !.k = routerToWorker[call[h].on]])
      BY <1>2, <2>2 DEF CreateWebRtcTransport, LookedUp
    <3> QED
      BY <2>2, <3>2, <3>3 DEF CreateWebRtcTransport
  <2>3. CASE OnTransport(h)
    <3>1. call[h].on \in Requests
      BY <1>1, <2>3 DEF CallType, OnTransport, HasTransport
    <3>2. WorkerOf(call[h].on) \in Workers
      BY <2>3, <3>1, WorkerFound DEF OnTransport
    <3>3. LookedUp([call[h] EXCEPT !.k = WorkerOf(call[h].on)])
      BY <1>2, <2>3 DEF OnTransport, LookedUp
    <3> QED
      BY <2>3, <3>2, <3>3 DEF OnTransport
  <2> QED
    BY <2>1, <2>2, <2>3
<1> QED
  BY <1>3, <1>4, RequestKeeps
LEMMA EnterRoomKeeps ==
    ASSUME RoomsInv, NEW h \in Requests, EnterRoom(h)
    PROVE  RoomsInv'
<1> DEFINE l == call[h].loc
<1>1. /\ call[h].op = "router" /\ call[h].step = "returned" /\ roomLock' = None
      /\ UNCHANGED <<entityLock, tables, nextWorkerIdx, phase>>
  BY DEF EnterRoom
<1>2. /\ RequestInv(h) /\ h \in Callers /\ call \in [Callers -> CallType]
      /\ nextWorkerIdx \in Workers /\ call[h] \in CallType
      /\ m_rooms \in [Locations -> Requests \cup {None}]
      /\ h # None /\ Main # h /\ Main \in Callers
  BY StreamConstants DEF RoomsInv, RoomsType
<1>3. /\ roomLock = h /\ l \in Locations /\ m_rooms[l] = None
      /\ entityLock # h /\ phase = "serving"
  BY <1>1, <1>2 DEF RequestInv, HoldsRoom
<1>4. CASE /\ call[h].resp # "accepted" /\ m_rooms' = m_rooms
           /\ call' = [call EXCEPT ![h] = Done(h, "rejected")]
  <2> DEFINE c == Done(h, "rejected")
  <2>1. c \in CallType /\ c.step = "done" /\ c.op = "router"
    BY <1>1, DoneType
  <2> HIDE DEF c
  <2>2. call' = [call EXCEPT ![h] = c] /\ call'[h] = c
    BY <1>2, <1>4 DEF c
  <2>3. RequestInv(h)'
    BY <1>1, <1>2, <1>3, <1>4, <2>1, <2>2
    DEF RequestInv, tables, HoldsRoom, LookedUp, HasRouter, HasTransport, WorkerOf
  <2> QED
    BY <1>1, <1>2, <1>3, <1>4, <2>1, <2>2, <2>3, HandlerMoves
<1>5. CASE /\ call[h].resp = "accepted"
           /\ m_rooms' = [m_rooms EXCEPT ![l] = h]
           /\ call' = [call EXCEPT ![h] = [Idle EXCEPT !.op = "transport",
                                           !.step = "entity", !.on = h]]
  <2> DEFINE c == [Idle EXCEPT !.op = "transport", !.step = "entity", !.on = h]
  <2>1. c \in CallType /\ c.step = "entity" /\ c.op = "transport" /\ c.resp = None
    BY IdleType DEF Idle, CallType, Ops, Kinds, Steps
  <2> HIDE DEF c
  <2>2. call' = [call EXCEPT ![h] = c]
    BY <1>5 DEF c
  <2>3. /\ m_rooms'[l] = h
        /\ \A x \in Locations : x # l => m_rooms'[x] = m_rooms[x]
    BY <1>2, <1>3, <1>5
  <2>4. RoomsType'
    BY <1>1, <1>2, <1>3, <1>5, <2>1, <2>2 DEF RoomsInv, RoomsType, tables
  <2>5. ASSUME NEW g \in Requests PROVE RequestInv(g)'
    <3>1. CASE g = h
      <4>1. call'[h] = c
        BY <1>2, <2>2
      <4> QED
        BY <1>1, <1>2, <1>3, <2>1, <3>1, <4>1
        DEF RequestInv, tables, HoldsRoom, LookedUp, HasRouter, HasTransport, WorkerOf
    <3>2. CASE g # h
      <4>1. call'[g] = call[g] /\ g # None
        BY <1>2, <2>2, <3>2, StreamConstants
      <4>2. RequestInv(g)
        BY DEF RoomsInv
      <4>3. ~HoldsRoom(call[g]) /\ roomLock' # g
        BY <1>1, <1>3, <3>2, <4>1, <4>2 DEF RequestInv
      <4>4. \A x \in Locations : m_rooms'[x] = g => m_rooms[x] = g
        BY <2>3, <3>2
      <4> QED
        BY <1>1, <4>1, <4>2, <4>3, <4>4
        DEF RequestInv, tables, LookedUp, HasRouter, HasTransport, WorkerOf
    <3> QED
      BY <3>1, <3>2
  <2>6. MainInv'
    <3>1. call'[Main] = call[Main]
      BY <1>2, <2>2
    <3> QED
      BY <1>1, <3>1 DEF RoomsInv, MainInv
  <2>7. OneRouterPerRoom'
    <3>1. ASSUME NEW r \in Requests, HasRouter(r)'
          PROVE  \/ \E x \in Locations : m_rooms'[x] = r
                 \/ call'[r].op = "router"
                 \/ phase' # "serving"
      <4>1. HasRouter(r)
        BY <1>1, <3>1 DEF HasRouter, tables
      <4>2. CASE r = h
        BY <1>3, <2>3, <4>2
      <4>3. CASE r # h
        <5>1. call'[r] = call[r] /\ r # None
          BY <1>2, <2>2, <4>3, StreamConstants
        <5>2. \A x \in Locations : m_rooms[x] = r => m_rooms'[x] = r
          BY <1>3, <2>3, <5>1
        <5> QED
          BY <1>1, <4>1, <5>1, <5>2 DEF RoomsInv, OneRouterPerRoom
      <4> QED
        BY <4>2, <4>3
    <3>2. \A x \in Locations : m_rooms[x] # h
      BY <1>1, <1>2 DEF RequestInv
    <3>3. \A x, y \in Locations : m_rooms'[x] = m_rooms'[y] /\ m_rooms'[x] # None
                                  => x = y
      BY <2>3, <3>2 DEF RoomsInv, OneRouterPerRoom
    <3> QED
      BY <3>1, <3>3 DEF OneRouterPerRoom
  <2>8. TablesLinked'
    BY <1>1 DEF RoomsInv, TablesLinked, HasRouter, HasTransport, tables
  <2> QED
    BY <2>4, <2>5, <2>6, <2>7, <2>8 DEF RoomsInv
<1> QED
  BY <1>4, <1>5 DEF EnterRoom

\* What Record changes: the entry of h in the table of its operation.
LEMMA ReturnFacts ==
    ASSUME RoomsInv, NEW h \in Requests, Return(h)
    PROVE  /\ call[h].step = "wait" /\ entityLock = h /\ entityLock' = None
           /\ call[h] \in CallType /\ LookedUp(call[h]) /\ RequestInv(h)
           /\ call'[h].op = call[h].op
           /\ call'[h].step = IF call[h].op = "router" THEN "returned" ELSE "done"
           /\ call'[h].resp = IF call[h].resp = "accepted" THEN "accepted"
                              ELSE "rejected"
           /\ call'[h].loc = IF call[h].op = "router" THEN call[h].loc ELSE None
           /\ call' \in [Callers -> CallType]
           /\ \A c \in Callers : c # h => call'[c] = call[c]
           /\ UNCHANGED <<m_rooms, roomLock, nextWorkerIdx, channels, workerVars,
                          phase>>
           /\ routerToWorker' = IF call[h].op = "router" /\ call[h].resp = "accepted"
                                THEN [routerToWorker EXCEPT ![h] = call[h].k]
                                ELSE routerToWorker
           /\ transportToRouter' =
                 IF call[h].op = "transport" /\ call[h].resp = "accepted"
                 THEN [transportToRouter EXCEPT ![h] = call[h].on]
                 ELSE transportToRouter
           /\ producerToTransport' =
                 IF call[h].op = "produce" /\ call[h].resp = "accepted"
                 THEN [producerToTransport EXCEPT ![h] = call[h].on]
                 ELSE producerToTransport
           /\ consumerToTransport' =
                 IF call[h].op = "consume" /\ call[h].resp = "accepted"
                 THEN [consumerToTransport EXCEPT ![h] = call[h].on]
                 ELSE consumerToTransport
<1> DEFINE result == IF Succeeds(call[h].resp) THEN "accepted" ELSE "rejected"
           d == IF call[h].op = "router"
                THEN [call[h] EXCEPT !.step = "returned", !.resp = result]
                ELSE Done(h, result)
<1>1. /\ call[h].step = "wait" /\ entityLock' = None
      /\ UNCHANGED <<m_rooms, roomLock, nextWorkerIdx, channels, workerVars, phase>>
      /\ call' = [call EXCEPT ![h] = d]
      /\ IF Succeeds(call[h].resp) THEN Record(h) ELSE UNCHANGED tables
  BY DEF Return, WaitOver
<1>2. /\ RequestInv(h) /\ h \in Callers /\ call \in [Callers -> CallType]
      /\ call[h] \in CallType
  BY StreamConstants DEF RoomsInv, RoomsType
<1>3. entityLock = h /\ LookedUp(call[h])
  BY <1>1, <1>2 DEF RequestInv
<1>4. Succeeds(call[h].resp) <=> call[h].resp = "accepted"
  BY DEF Succeeds
<1>5. result \in {"accepted", "rejected"}
  OBVIOUS
<1>6. /\ d \in CallType /\ d.op = call[h].op /\ d.resp = result
      /\ d.step = IF call[h].op = "router" THEN "returned" ELSE "done"
      /\ d.loc = IF call[h].op = "router" THEN call[h].loc ELSE None
  <2>1. CASE call[h].op = "router"
    BY <1>2, <1>5, <2>1 DEF CallType, Steps, Answers
  <2>2. CASE call[h].op # "router"
    <3>1. Done(h, result).loc = None
      BY DEF Done, Idle
    <3> QED
      BY <1>5, <2>2, <3>1, DoneType
  <2> QED
    BY <2>1, <2>2
<1> HIDE DEF d
<1>7. /\ call'[h] = d /\ call' \in [Callers -> CallType]
      /\ \A c \in Callers : c # h => call'[c] = call[c]
  BY <1>1, <1>2, <1>6
<1>8. /\ routerToWorker' = IF call[h].op = "router" /\ call[h].resp = "accepted"
                           THEN [routerToWorker EXCEPT ![h] = call[h].k]
                           ELSE routerToWorker
      /\ transportToRouter' =
            IF call[h].op = "transport" /\ call[h].resp = "accepted"
            THEN [transportToRouter EXCEPT ![h] = call[h].on]
            ELSE transportToRouter
      /\ producerToTransport' =
            IF call[h].op = "produce" /\ call[h].resp = "accepted"
            THEN [producerToTransport EXCEPT ![h] = call[h].on]
            ELSE producerToTransport
      /\ consumerToTransport' =
            IF call[h].op = "consume" /\ call[h].resp = "accepted"
            THEN [consumerToTransport EXCEPT ![h] = call[h].on]
            ELSE consumerToTransport
  BY <1>1, <1>4 DEF Record, tables
<1> QED
  BY <1>1, <1>2, <1>3, <1>4, <1>6, <1>7, <1>8

LEMMA ReturnKeeps ==
    ASSUME RoomsInv, NEW h \in Requests, Return(h)
    PROVE  RoomsInv'
<1> DEFINE c == call[h]
           ok == call[h].resp = "accepted"
<1>1. /\ h \in Callers /\ RoomsType /\ h # None /\ Main # h /\ Main \in Callers
      /\ TablesLinked /\ OneRouterPerRoom
  BY StreamConstants DEF RoomsInv
<1>2. /\ c.k \in Workers /\ c.k # NumWorkers /\ c.k \in 0..NumWorkers
      /\ c.on \in Requests \cup {None}
      /\ c.op \in {"transport", "produce", "consume"} => c.on \in Requests
  BY ReturnFacts, StreamConstants DEF CallType, LookedUp, HasRouter, HasTransport
<1>3. RoomsType'
  BY <1>1, <1>2, ReturnFacts DEF RoomsType
<1>4. /\ \A r \in Requests : HasRouter(r)' <=>
            HasRouter(r) \/ (r = h /\ c.op = "router" /\ ok)
      /\ \A r \in Requests : HasRouter(r) => HasRouter(r)'
  BY <1>1, <1>2, ReturnFacts DEF RoomsType, HasRouter, RequestInv
<1>5. /\ \A t \in Requests : HasTransport(t)' <=>
            HasTransport(t) \/ (t = h /\ c.op = "transport" /\ ok)
      /\ \A t \in Requests : HasTransport(t) => HasTransport(t)'
  BY <1>1, <1>2, ReturnFacts, StreamConstants DEF RoomsType, HasTransport
<1>6. \A p \in Requests :
         /\ producerToTransport'[p] = IF p = h /\ c.op = "produce" /\ ok
                                      THEN c.on ELSE producerToTransport[p]
         /\ consumerToTransport'[p] = IF p = h /\ c.op = "consume" /\ ok
                                      THEN c.on ELSE consumerToTransport[p]
         /\ transportToRouter'[p] = IF p = h /\ c.op = "transport" /\ ok
                                    THEN c.on ELSE transportToRouter[p]
  BY <1>1, ReturnFacts DEF RoomsType
<1>7. ASSUME NEW g \in Requests PROVE RequestInv(g)'
  <2>1. CASE g = h
    <3>1. ~HoldsRoom(call'[h]) <=> roomLock # h
      BY ReturnFacts DEF RequestInv, HoldsRoom
    <3>2. HoldsRoom(call'[h]) => /\ call'[h].loc = c.loc /\ c.loc \in Locations
                                 /\ m_rooms[c.loc] = None
      BY ReturnFacts DEF RequestInv, HoldsRoom
    <3>3. phase = "serving" /\ ~HasTransport(h) /\ producerToTransport[h] = None
          /\ consumerToTransport[h] = None
      BY ReturnFacts DEF RequestInv
    <3>4. HasRouter(h) => c.op # "router"
      BY ReturnFacts DEF RequestInv
    <3>5. \A l \in Locations : m_rooms[l] = h => c.op # "router"
      BY ReturnFacts DEF RequestInv
    <3> QED
      BY <1>1, <1>2, <1>4, <1>5, <1>6, <2>1, <3>1, <3>2, <3>3, <3>4, <3>5,
         ReturnFacts DEF RequestInv
  <2>2. CASE g # h
    <3>1. call'[g] = call[g] /\ g # None
      BY <2>2, ReturnFacts, StreamConstants
    <3>2. RequestInv(g)
      BY DEF RoomsInv
    <3>3. call[g].step # "wait" /\ entityLock' # g
      BY <2>2, <3>1, <3>2, ReturnFacts DEF RequestInv
    <3>4. /\ HasRouter(g)' <=> HasRouter(g)
          /\ HasTransport(g)' <=> HasTransport(g)
          /\ producerToTransport'[g] = producerToTransport[g]
          /\ consumerToTransport'[g] = consumerToTransport[g]
      BY <1>4, <1>5, <1>6, <2>2
    <3> QED
      BY <3>1, <3>2, <3>3, <3>4, ReturnFacts DEF RequestInv
  <2> QED
    BY <2>1, <2>2
<1>8. MainInv'
  <2>1. call'[Main] = call[Main] /\ entityLock # Main /\ entityLock' # Main
    BY <1>1, ReturnFacts, StreamConstants
  <2> QED
    BY <2>1 DEF RoomsInv, MainInv
<1>9. OneRouterPerRoom'
  <2>1. \A r \in Requests : call'[r].op = call[r].op
    BY ReturnFacts, StreamConstants
  <2> QED
    BY <1>1, <1>4, <2>1, ReturnFacts DEF OneRouterPerRoom
<1>10. TablesLinked'
  <2>1. ASSUME NEW t \in Requests, HasTransport(t)'
        PROVE  HasRouter(transportToRouter[t])'
    <3>1. CASE t = h /\ c.op = "transport" /\ ok
      <4>1. HasRouter(c.on) /\ c.on \in Requests
        BY <1>2, <3>1, ReturnFacts DEF LookedUp
      <4>2. routerToWorker'[c.on] # NumWorkers
        BY <1>4, <4>1 DEF HasRouter
      <4>3. transportToRouter'[t] = c.on /\ c.on # None
        BY <1>6, <3>1, <4>1 DEF HasRouter
      <4> QED
        BY <4>2, <4>3 DEF HasRouter
    <3>2. CASE ~(t = h /\ c.op = "transport" /\ ok)
      <4>1. HasTransport(t) /\ transportToRouter'[t] = transportToRouter[t]
        BY <1>5, <1>6, <2>1, <3>2
      <4>2. HasRouter(transportToRouter[t]) /\ transportToRouter[t] \in Requests
        BY <1>1, <4>1 DEF TablesLinked, RoomsType, HasTransport
      <4>3. routerToWorker'[transportToRouter[t]] # NumWorkers
        BY <1>4, <4>2 DEF HasRouter
      <4> QED
        BY <4>1, <4>2, <4>3 DEF HasRouter
    <3> QED
      BY <3>1, <3>2
  <2>2. \A t \in Requests : HasTransport(t) => transportToRouter'[t] # None
    BY <1>5 DEF HasTransport
  <2>3. ASSUME NEW p \in Requests, producerToTransport'[p] # None
        PROVE  HasTransport(producerToTransport[p])'
    <3>1. HasTransport(producerToTransport'[p]) /\ producerToTransport'[p] \in Requests
      BY <1>1, <1>2, <1>6, <2>3, ReturnFacts
      DEF LookedUp, TablesLinked, RoomsType, HasTransport
    <3> QED
      BY <2>2, <3>1 DEF HasTransport
  <2>4. ASSUME NEW p \in Requests, consumerToTransport'[p] # None
        PROVE  HasTransport(consumerToTransport[p])'
    <3>1. HasTransport(consumerToTransport'[p]) /\ consumerToTransport'[p] \in Requests
      BY <1>1, <1>2, <1>6, <2>4, ReturnFacts
      DEF LookedUp, TablesLinked, RoomsType, HasTransport
    <3> QED
      BY <2>2, <3>1 DEF HasTransport
  <2> QED
    BY <2>1, <2>3, <2>4 DEF TablesLinked
<1> QED
  BY <1>3, <1>7, <1>8, <1>9, <1>10 DEF RoomsInv
\* closeTransport and the destructor erase the transports T, with what is on
\* them, and some routers with all their transports.
LEMMA EraseFacts ==
    ASSUME RoomsInv, NEW T \in SUBSET Requests, EraseTransports(T)
    PROVE  /\ \A t \in Requests : /\ HasTransport(t)' <=> HasTransport(t) /\ t \notin T
                                  /\ HasTransport(t)' => transportToRouter'[t]
                                                         = transportToRouter[t]
           /\ \A p \in Requests :
                 /\ producerToTransport'[p] # None =>
                       /\ producerToTransport'[p] = producerToTransport[p]
                       /\ producerToTransport[p] \in Requests
                       /\ HasTransport(producerToTransport[p])'
                 /\ consumerToTransport'[p] # None =>
                       /\ consumerToTransport'[p] = consumerToTransport[p]
                       /\ consumerToTransport[p] \in Requests
                       /\ HasTransport(consumerToTransport[p])'
           /\ transportToRouter' \in [Requests -> Requests \cup {None}]
           /\ producerToTransport' \in [Requests -> Requests \cup {None}]
           /\ consumerToTransport' \in [Requests -> Requests \cup {None}]
<1>1. RoomsType /\ TablesLinked /\ None \notin T
  BY StreamConstants DEF RoomsInv
<1>2. /\ transportToRouter' \in [Requests -> Requests \cup {None}]
      /\ producerToTransport' \in [Requests -> Requests \cup {None}]
      /\ consumerToTransport' \in [Requests -> Requests \cup {None}]
  BY <1>1 DEF EraseTransports, RoomsType
<1>3. \A t \in Requests : /\ HasTransport(t)' <=> HasTransport(t) /\ t \notin T
                          /\ HasTransport(t)' => transportToRouter'[t]
                                                 = transportToRouter[t]
  BY <1>1 DEF EraseTransports, HasTransport
<1>4. \A t \in Requests : HasTransport(t) /\ t \notin T
                          => t # None /\ transportToRouter'[t] # None
  BY <1>3 DEF HasTransport
<1>5. ASSUME NEW p \in Requests, producerToTransport'[p] # None
      PROVE  /\ producerToTransport'[p] = producerToTransport[p]
             /\ producerToTransport[p] \in Requests
             /\ HasTransport(producerToTransport[p])'
  <2>1. /\ producerToTransport'[p] = producerToTransport[p]
        /\ producerToTransport[p] \notin T
    BY <1>5 DEF EraseTransports
  <2>2. producerToTransport[p] \in Requests /\ HasTransport(producerToTransport[p])
    BY <1>1, <1>5, <2>1 DEF TablesLinked, RoomsType
  <2>3. transportToRouter'[producerToTransport[p]] # None
    BY <1>4, <2>1, <2>2
  <2> QED
    BY <1>5, <2>1, <2>2, <2>3 DEF HasTransport
<1>6. ASSUME NEW p \in Requests, consumerToTransport'[p] # None
      PROVE  /\ consumerToTransport'[p] = consumerToTransport[p]
             /\ consumerToTransport[p] \in Requests
             /\ HasTransport(consumerToTransport[p])'
  <2>1. /\ consumerToTransport'[p] = consumerToTransport[p]
        /\ consumerToTransport[p] \notin T
    BY <1>6 DEF EraseTransports
  <2>2. consumerToTransport[p] \in Requests /\ HasTransport(consumerToTransport[p])
    BY <1>1, <1>6, <2>1 DEF TablesLinked, RoomsType
  <2>3. transportToRouter'[consumerToTransport[p]] # None
    BY <1>4, <2>1, <2>2
  <2> QED
    BY <1>6, <2>1, <2>2, <2>3 DEF HasTransport
<1> QED
  BY <1>2, <1>3, <1>5, <1>6

LEMMA CloseTransportKeeps ==
    ASSUME RoomsInv, NEW h \in Requests, CloseTransport(h)
    PROVE  RoomsInv'
<1> DEFINE t == call[h].on
           c == Done(h, "accepted")
<1>1. /\ call[h].op = "close" /\ call[h].step = "entity" /\ entityLock = None
      /\ HasTransport(t) /\ EraseTransports({t})
      /\ call' = [call EXCEPT ![h] = c]
      /\ UNCHANGED <<m_rooms, entityLock, roomLock, routerToWorker, nextWorkerIdx,
                     phase>>
  BY DEF CloseTransport, locks
<1>2. /\ h \in Callers /\ RoomsType /\ h # None /\ Main # h /\ Main \in Callers
      /\ TablesLinked /\ OneRouterPerRoom /\ RequestInv(h) /\ call[h] \in CallType
  BY StreamConstants DEF RoomsInv, RoomsType
<1>3. t \in Requests
  BY <1>1, <1>2 DEF HasTransport, CallType
<1>4. c \in CallType /\ c.step = "done" /\ c.op = "close"
  BY <1>1, DoneType
<1>5. {t} \in SUBSET Requests
  BY <1>3
<1> HIDE DEF c, t
<1>6. /\ call'[h] = c /\ \A g \in Callers : g # h => call'[g] = call[g]
      /\ call' \in [Callers -> CallType]
  BY <1>1, <1>2, <1>4 DEF RoomsType
<1>7. RoomsType'
  BY <1>1, <1>2, <1>5, <1>6, EraseFacts DEF RoomsType
<1>8. ASSUME NEW g \in Requests PROVE RequestInv(g)'
  <2>1. /\ RequestInv(g) /\ call[g].step # "wait" /\ g \in Callers
    BY <1>1, StreamConstants DEF RoomsInv, RequestInv
  <2>2. /\ HasRouter(g)' <=> HasRouter(g)
        /\ HasTransport(g)' => HasTransport(g)
        /\ producerToTransport'[g] # None => producerToTransport[g] # None
        /\ consumerToTransport'[g] # None => consumerToTransport[g] # None
    BY <1>1, <1>5, EraseFacts DEF HasRouter
  <2>3. CASE g = h
    BY <1>1, <1>4, <1>6, <2>1, <2>2, <2>3 DEF RequestInv, HoldsRoom
  <2>4. CASE g # h
    BY <1>1, <1>6, <2>1, <2>2, <2>4 DEF RequestInv
  <2> QED
    BY <2>3, <2>4
<1>9. MainInv'
  BY <1>1, <1>2, <1>6 DEF RoomsInv, MainInv
<1>10. OneRouterPerRoom'
  <2>1. \A r \in Requests : call[r].op = "router" => call'[r].op = "router"
    BY <1>1, <1>6, StreamConstants
  <2> QED
    BY <1>1, <1>2, <2>1 DEF OneRouterPerRoom, HasRouter
<1>11. TablesLinked'
  BY <1>1, <1>2, <1>5, EraseFacts DEF TablesLinked, HasRouter
<1> QED
  BY <1>7, <1>8, <1>9, <1>10, <1>11 DEF RoomsInv

\* An answer changes nothing but the entry of who waits for it.
LEMMA AnswerFacts ==
    ASSUME RoomsInv, NEW k, NEW id, NEW answer \in {"accepted", "rejected"},
           OnWorkerMessage(k, id, answer)
    PROVE  /\ call' \in [Callers -> CallType]
           /\ \A c \in Callers :
                 /\ call'[c].op = call[c].op /\ call'[c].step = call[c].step
                 /\ call'[c].loc = call[c].loc /\ call'[c].on = call[c].on
                 /\ call'[c].k = call[c].k /\ call'[c].id = call[c].id
                 /\ call'[c].prod = call[c].prod
                 /\ call[c].step # "wait" => call'[c] = call[c]
                 /\ call'[c].resp = IF call[c].step = "wait" /\ call[c].k = k
                                       /\ call[c].id = id
                                    THEN answer ELSE call[c].resp
<1>1. call \in [Callers -> CallType]
  BY DEF RoomsInv, RoomsType
<1>2. ASSUME NEW c \in Callers
      PROVE  /\ call'[c] \in CallType
             /\ call'[c].op = call[c].op /\ call'[c].step = call[c].step
             /\ call'[c].loc = call[c].loc /\ call'[c].on = call[c].on
             /\ call'[c].k = call[c].k /\ call'[c].id = call[c].id
             /\ call'[c].prod = call[c].prod
             /\ call[c].step # "wait" => call'[c] = call[c]
             /\ call'[c].resp = IF call[c].step = "wait" /\ call[c].k = k
                                   /\ call[c].id = id
                                THEN answer ELSE call[c].resp
  <2>1. call[c] \in CallType
    BY <1>1
  <2>2. call'[c] = IF call[c].step = "wait" /\ call[c].k = k /\ call[c].id = id
                   THEN [call[c] EXCEPT !.resp = answer] ELSE call[c]
    BY DEF OnWorkerMessage, Pending
  <2> QED
    BY <2>1, <2>2 DEF CallType, Answers
<1>3. call' = [c \in Callers |-> call'[c]]
  BY DEF OnWorkerMessage
<1>4. call' \in [Callers -> CallType]
  BY <1>2, <1>3
<1> QED
  BY <1>2, <1>4

LEMMA WorkerHandlesKeeps ==
    ASSUME RoomsInv, NEW k \in Workers, WorkerHandles(k)
    PROVE  RoomsInv'
<1>1. PICK answer \in {"accepted", "rejected"} :
         OnWorkerMessage(k, Head(m_outQueue[k]).id, answer)
  BY DEF WorkerHandles
<1>2. UNCHANGED <<m_rooms, entityLock, roomLock, tables, nextWorkerIdx, phase>>
  BY DEF WorkerHandles, locks
<1>3. RoomsType'
  BY <1>1, <1>2, AnswerFacts DEF RoomsInv, RoomsType, tables
<1>4. ASSUME NEW g \in Requests PROVE RequestInv(g)'
  <2>1. RequestInv(g) /\ g \in Callers
    BY StreamConstants DEF RoomsInv
  <2>2. /\ call'[g].op = call[g].op /\ call'[g].step = call[g].step
        /\ call'[g].loc = call[g].loc /\ call'[g].on = call[g].on
        /\ call'[g].k = call[g].k
        /\ call[g].step # "wait" => call'[g].resp = call[g].resp
    BY <1>1, <2>1, AnswerFacts
  <2>3. HasRouter(g) /\ call[g].op = "router" => call[g].step # "wait"
    BY <2>1 DEF RequestInv
  <2> QED
    BY <1>2, <2>1, <2>2, <2>3
    DEF RequestInv, tables, HoldsRoom, LookedUp, HasRouter, HasTransport, WorkerOf
<1>5. MainInv'
  <2>1. Main \in Callers /\ MainInv
    BY StreamConstants DEF RoomsInv
  <2> QED
    BY <1>1, <1>2, <2>1, AnswerFacts, IdleType DEF MainInv
<1>6. \A r \in Requests : call'[r].op = call[r].op
  BY <1>1, AnswerFacts, StreamConstants
<1>7. OneRouterPerRoom' /\ TablesLinked'
  BY <1>2, <1>6, TablesKept
<1> QED
  BY <1>3, <1>4, <1>5, <1>7 DEF RoomsInv

LEMMA CloseRouterKeeps ==
    ASSUME RoomsInv, ChannelsType, NEW l \in Locations, CloseRouter(l)
    PROVE  RoomsInv'
<1> DEFINE r == m_rooms[l]
           k == routerToWorker[r]
           c == [Idle EXCEPT !.op = "closeRouter", !.step = "wait", !.loc = l,
                             !.on = r, !.k = k, !.id = NextId(k)]
<1>1. /\ phase = "closing" /\ r # None /\ HasRouter(r) /\ call[Main] = Idle
      /\ entityLock = None /\ entityLock' = Main
      /\ call' = [call EXCEPT ![Main] = c]
      /\ UNCHANGED <<m_rooms, roomLock, tables, nextWorkerIdx, phase>>
  BY DEF CloseRouter, Lock, Rooms
<1>2. RoomsType /\ Main \in Callers
  BY StreamConstants DEF RoomsInv
<1>3. r \in Requests
  BY <1>1, <1>2 DEF RoomsType
<1>4. k \in Workers
  BY <1>1, <1>3, WorkerFound
<1>5. NextId(k) \in Nat
  BY <1>4 DEF NextId, ChannelsType
<1> HIDE DEF k, r
<1>6. /\ c \in CallType /\ c.step = "wait" /\ c.op = "closeRouter"
      /\ c.on \in Requests /\ c.loc \in Locations
  BY <1>3, <1>4, <1>5, IdleType DEF Idle, CallType, Ops, Steps, Answers
<1> HIDE DEF c
<1>7. /\ call'[Main] = c /\ call' \in [Callers -> CallType]
      /\ \A g \in Requests : call'[g] = call[g]
  BY <1>1, <1>2, <1>6, StreamConstants DEF RoomsType
<1>8. RoomsType'
  BY <1>1, <1>2, <1>7 DEF RoomsType, tables
<1>9. ASSUME NEW g \in Requests PROVE RequestInv(g)'
  <2>1. RequestInv(g) /\ g # Main /\ g # None
    BY StreamConstants DEF RoomsInv
  <2>2. call'[g] = call[g] /\ (entityLock' = g <=> entityLock = g)
    BY <1>1, <1>7, <2>1
  <2> QED
    BY <1>1, <2>1, <2>2, RequestKept
<1>10. MainInv'
  BY <1>1, <1>6, <1>7 DEF MainInv
<1>11. OneRouterPerRoom' /\ TablesLinked'
  BY <1>1, <1>7, TablesKept
<1> QED
  BY <1>8, <1>9, <1>10, <1>11 DEF RoomsInv

LEMMA RouterClosedKeeps ==
    ASSUME RoomsInv, RouterClosed
    PROVE  RoomsInv'
<1> DEFINE x == call[Main].on
           l == call[Main].loc
           T == {t \in Requests : transportToRouter[t] = x}
<1>1. /\ call[Main].step = "wait" /\ EraseTransports(T)
      /\ routerToWorker' = [routerToWorker EXCEPT ![x] = NumWorkers]
      /\ m_rooms' = [m_rooms EXCEPT ![l] = None]
      /\ call' = [call EXCEPT ![Main] = Idle] /\ entityLock' = None
      /\ UNCHANGED <<roomLock, nextWorkerIdx, phase>>
  BY DEF RouterClosed, WaitOver
<1>2. /\ entityLock = Main /\ phase = "closing" /\ x \in Requests /\ l \in Locations
  BY <1>1, IdleType DEF RoomsInv, MainInv
<1>3. /\ RoomsType /\ TablesLinked /\ OneRouterPerRoom /\ Main \in Callers
      /\ NumWorkers \in 0..NumWorkers
  BY StreamConstants DEF RoomsInv
<1>4. T \in SUBSET Requests
  OBVIOUS
<1>5. /\ call'[Main] = Idle /\ call' \in [Callers -> CallType]
      /\ \A g \in Requests : call'[g] = call[g]
  BY <1>1, <1>3, IdleType, StreamConstants DEF RoomsType
<1>6. RoomsType'
  BY <1>1, <1>2, <1>3, <1>4, <1>5, EraseFacts DEF RoomsType
<1>7. \A r \in Requests : HasRouter(r)' <=> HasRouter(r) /\ r # x
  BY <1>1, <1>2, <1>3 DEF HasRouter, RoomsType
<1>8. \A m \in Locations : m_rooms'[m] = IF m = l THEN None ELSE m_rooms[m]
  BY <1>1, <1>2, <1>3 DEF RoomsType
<1>9. ASSUME NEW g \in Requests PROVE RequestInv(g)'
  <2>1. RequestInv(g) /\ g # Main /\ g # None
    BY StreamConstants DEF RoomsInv
  <2>2. call[g].step \in {"idle", "done"} /\ entityLock' # g /\ ~HoldsRoom(call[g])
    BY <1>1, <1>2, <2>1 DEF RequestInv, HoldsRoom
  <2>3. /\ HasRouter(g)' => HasRouter(g)
        /\ HasTransport(g)' => HasTransport(g)
        /\ producerToTransport'[g] # None => producerToTransport[g] # None
        /\ consumerToTransport'[g] # None => consumerToTransport[g] # None
        /\ \A m \in Locations : m_rooms'[m] = g => m_rooms[m] = g
    BY <1>1, <1>4, <1>7, <1>8, <2>1, EraseFacts
  <2>4. call'[g] = call[g]
    BY <1>5
  <2> QED
    BY <1>1, <1>2, <2>1, <2>2, <2>3, <2>4 DEF RequestInv
<1>10. MainInv'
  BY <1>1, <1>5, StreamConstants DEF MainInv
<1>11. OneRouterPerRoom'
  BY <1>1, <1>2, <1>3, <1>8 DEF OneRouterPerRoom
<1>12. TablesLinked'
  <2>1. ASSUME NEW t \in Requests, HasTransport(t)'
        PROVE  HasRouter(transportToRouter[t])'
    <3>1. /\ HasTransport(t) /\ t \notin T
          /\ transportToRouter'[t] = transportToRouter[t]
      BY <1>1, <1>4, <2>1, EraseFacts
    <3>2. /\ transportToRouter[t] \in Requests /\ transportToRouter[t] # x
          /\ HasRouter(transportToRouter[t])
      BY <1>3, <3>1 DEF TablesLinked, RoomsType, HasTransport
    <3>3. transportToRouter[t] # None /\ routerToWorker'[transportToRouter[t]] # NumWorkers
      BY <1>7, <3>2 DEF HasRouter
    <3> QED
      BY <3>1, <3>3 DEF HasRouter
  <2>2. ASSUME NEW p \in Requests
        PROVE  /\ producerToTransport'[p] # None => HasTransport(producerToTransport[p])'
               /\ consumerToTransport'[p] # None => HasTransport(consumerToTransport[p])'
    BY <1>1, <1>4, EraseFacts
  <2> QED
    BY <2>1, <2>2 DEF TablesLinked
<1> QED
  BY <1>6, <1>9, <1>10, <1>11, <1>12 DEF RoomsInv

\* Steps of the destructors that change nothing but the phase.
LEMMA PhaseKeeps ==
    ASSUME RoomsInv, UNCHANGED <<m_rooms, locks, tables, nextWorkerIdx, call>>,
           phase' = phase \/ (/\ phase' # "serving" /\ call[Main] = Idle
                              /\ \A h \in Requests : call[h].step \in {"idle", "done"})
    PROVE  RoomsInv'
<1>1. RoomsType'
  BY DEF RoomsInv, RoomsType, tables
<1>2. ASSUME NEW g \in Requests PROVE RequestInv(g)'
  <2>1. RequestInv(g)
    BY DEF RoomsInv
  <2> QED
    BY <2>1 DEF RequestInv, locks, tables, HoldsRoom, LookedUp, HasRouter,
                HasTransport, WorkerOf
<1>3. MainInv'
  BY IdleType DEF RoomsInv, MainInv, locks
<1>4. OneRouterPerRoom' /\ TablesLinked'
  BY DEF RoomsInv, OneRouterPerRoom, TablesLinked, HasRouter, HasTransport, tables
<1> QED
  BY <1>1, <1>2, <1>3, <1>4 DEF RoomsInv

LEMMA RoomsInvInit == Init => RoomsInv
<1> SUFFICES ASSUME Init PROVE RoomsInv
  OBVIOUS
<1>1. RoomsType
  BY StreamConstants, IdleType DEF Init, RoomsType
<1>2. \A h \in Requests : /\ call[h] = Idle /\ ~HasRouter(h) /\ ~HasTransport(h)
                          /\ producerToTransport[h] = None
                          /\ consumerToTransport[h] = None
                          /\ h # None
  BY StreamConstants DEF Init, HasRouter, HasTransport
<1>3. \A l \in Locations : m_rooms[l] = None
  BY DEF Init
<1>4. ASSUME NEW h \in Requests PROVE RequestInv(h)
  BY <1>2, <1>3, IdleType DEF RequestInv, HoldsRoom, Init
<1>5. MainInv
  BY StreamConstants DEF MainInv, Init
<1>6. OneRouterPerRoom /\ TablesLinked
  BY <1>2, <1>3 DEF OneRouterPerRoom, TablesLinked
<1> QED
  BY <1>1, <1>4, <1>5, <1>6 DEF RoomsInv

LEMMA RoomsInvNext == RoomsInv /\ ChannelsType /\ [Next]_vars => RoomsInv'
<1> SUFFICES ASSUME RoomsInv, ChannelsType, [Next]_vars
             PROVE  RoomsInv'
  OBVIOUS
<1>1. ASSUME NEW h \in Requests, HandlerStep(h) PROVE RoomsInv'
  BY <1>1, FindRoomKeeps, EnterRoomKeeps, RequestsKeep, NotFoundKeeps, ReturnKeeps,
     CloseTransportKeeps DEF HandlerStep
<1>2. ASSUME NEW k \in Workers, WorkerCloses(k) PROVE RoomsInv'
  BY <1>2, PhaseKeeps DEF WorkerCloses
<1>3. CASE Stop
  <2>1. \A h \in Requests : call[h].step \in {"idle", "done"}
    BY <1>3 DEF Stop, Active
  <2>2. call[Main] = Idle
    BY <1>3 DEF Stop, RoomsInv, MainInv
  <2> QED
    BY <1>3, <2>1, <2>2, PhaseKeeps DEF Stop
<1>4. CASE CloseChannels \/ Joined
  <2>1. phase # "serving" /\ phase' # "serving" /\ call[Main] = Idle
    BY <1>4 DEF CloseChannels, Joined, RoomsInv, MainInv
  <2>2. \A h \in Requests : call[h].step \in {"idle", "done"}
    BY <2>1 DEF RoomsInv, RequestInv
  <2> QED
    BY <1>4, <2>1, <2>2, PhaseKeeps DEF CloseChannels, Joined
<1>5. CASE UNCHANGED vars
  BY <1>5, PhaseKeeps DEF vars
<1> QED
  BY <1>1, <1>2, <1>3, <1>4, <1>5, ClientRequestKeeps, WorkerHandlesKeeps,
     CloseRouterKeeps, RouterClosedKeeps DEF Next, WorkerStep, MainStep
----------------------------------------------------------------------------
(* The channels and the workers: lemmas *)

LEMMA AppendFacts ==
    ASSUME NEW S, NEW q \in Seq(S), NEW m \in S
    PROVE  /\ Append(q, m) \in Seq(S) /\ Len(q) \in Nat
           /\ Len(Append(q, m)) = Len(q) + 1
           /\ Append(q, m)[Len(q) + 1] = m
           /\ \A i \in 1..Len(q) : Append(q, m)[i] = q[i] /\ q[i] \in S
           /\ \A i \in 1..Len(Append(q, m)) : i \in 1..Len(q) \/ i = Len(q) + 1
           /\ \A i \in 1..Len(q) : i \in 1..Len(Append(q, m)) /\ i # Len(q) + 1
OBVIOUS

LEMMA TailFacts ==
    ASSUME NEW S, NEW q \in Seq(S), q # << >>
    PROVE  /\ Tail(q) \in Seq(S) /\ Head(q) = q[1] /\ Head(q) \in S
           /\ 1 \in 1..Len(q) /\ Len(q) \in Nat /\ Len(Tail(q)) = Len(q) - 1
           /\ \A i \in 1..Len(Tail(q)) : /\ Tail(q)[i] = q[i + 1]
                                         /\ i + 1 \in 1..Len(q) /\ i + 1 # 1
           /\ \A i \in 1..Len(q) : i # 1 => /\ i - 1 \in 1..Len(Tail(q))
                                            /\ Tail(q)[i - 1] = q[i]
<1>1. /\ Tail(q) \in Seq(S) /\ Head(q) = q[1] /\ Head(q) \in S
      /\ Len(q) \in Nat /\ Len(q) >= 1 /\ Len(Tail(q)) = Len(q) - 1
  OBVIOUS
<1>2. \A i \in 1..Len(Tail(q)) : /\ Tail(q)[i] = q[i + 1]
                                 /\ i + 1 \in 1..Len(q) /\ i + 1 # 1
  BY <1>1
<1>3. ASSUME NEW i \in 1..Len(q), i # 1
      PROVE  i - 1 \in 1..Len(Tail(q)) /\ Tail(q)[i - 1] = q[i]
  <2>1. i - 1 \in 1..Len(Tail(q)) /\ (i - 1) + 1 = i
    BY <1>1, <1>3
  <2> QED
    BY <1>2, <2>1
<1> QED
  BY <1>1, <1>2, <1>3

\* What a handler sends, and to whom.
LEMMA RequestFacts ==
    ASSUME RoomsInv, ChannelsType, NEW h \in Requests, NEW k \in Workers,
           Request(h, k), LookedUp([call[h] EXCEPT !.k = k])
    PROVE  \E m \in MessageType :
              /\ m.kind = call[h].op /\ m.kind \in Kinds \cup {"connect"}
              /\ m.name = h /\ m.id = m_nextId[k] + 1
              /\ m_nextId' = [m_nextId EXCEPT ![k] = m_nextId[k] + 1]
              /\ m_outQueue' = [m_outQueue EXCEPT ![k] = Append(m_outQueue[k], m)]
              /\ call'[h].step = "wait" /\ call'[h].k = k /\ call'[h].id = m.id
              /\ call'[h].op = call[h].op /\ call'[h].resp = None
              /\ call[h].step = "entity" /\ entityLock = None
              /\ \A g \in Requests : g # h => call'[g] = call[g]
              /\ UNCHANGED <<tables, workerVars, givenUp, phase>>
<1> DEFINE m == [kind |-> call[h].op, name |-> h, on |-> call[h].on,
                 prod |-> call[h].prod, id |-> NextId(k)]
<1>1. /\ call \in [Callers -> CallType] /\ call[h] \in CallType /\ h \in Callers
      /\ RequestInv(h) /\ Requests \subseteq Callers
  BY StreamConstants DEF RoomsInv, RoomsType
<1>2. /\ call[h].step = "entity" /\ entityLock = None
      /\ call' = [call EXCEPT ![h].step = "wait", ![h].k = k, ![h].id = NextId(k)]
      /\ m_nextId' = [m_nextId EXCEPT ![k] = NextId(k)]
      /\ m_outQueue' = [m_outQueue EXCEPT ![k] = Append(@, m)]
      /\ UNCHANGED <<tables, workerVars, givenUp, phase>>
  BY DEF Request, Lock, Send
<1>3. NextId(k) = m_nextId[k] + 1 /\ NextId(k) \in Nat
  BY DEF NextId, ChannelsType
<1>4. call[h].resp = None
  BY <1>1, <1>2 DEF RequestInv
<1>5. [call[h] EXCEPT !.k = k].op = call[h].op
  BY <1>1 DEF CallType
<1>6. call[h].op \in Kinds \cup {"connect"}
  BY <1>5 DEF LookedUp, Kinds
<1>7. /\ m \in MessageType /\ m.kind = call[h].op /\ m.name = h /\ m.id = NextId(k)
  BY <1>1, <1>3, <1>6 DEF MessageType, CallType
<1> HIDE DEF m
<1>8. /\ call'[h].step = "wait" /\ call'[h].k = k /\ call'[h].id = NextId(k)
      /\ call'[h].op = call[h].op /\ call'[h].resp = call[h].resp
  BY <1>1, <1>2 DEF CallType
<1>9. \A g \in Requests : g # h => call'[g] = call[g]
  BY <1>1, <1>2
<1> QED
  BY <1>2, <1>3, <1>4, <1>6, <1>7, <1>8, <1>9

\* closeTransport tells the worker of the transport to close.
LEMMA CloseTransportFacts ==
    ASSUME RoomsInv, ChannelsType, NEW h \in Requests, CloseTransport(h)
    PROVE  \E t \in Requests, m \in MessageType :
              /\ HasTransport(t) /\ WorkerOf(t) \in Workers
              /\ m.kind = "workerClose" /\ m.id = 0
              /\ m_outQueue' = [m_outQueue EXCEPT ![WorkerOf(t)] =
                                  Append(m_outQueue[WorkerOf(t)], m)]
              /\ EraseTransports({t}) /\ entityLock = None
              /\ call[h].step = "entity" /\ call'[h].step = "done"
              /\ \A g \in Requests : g # h => call'[g] = call[g]
              /\ UNCHANGED <<routerToWorker, m_nextId, workerVars, givenUp, phase>>
<1> DEFINE t == call[h].on
           m == [kind |-> "workerClose", name |-> h, on |-> t, prod |-> None,
                 id |-> 0]
<1>1. /\ call \in [Callers -> CallType] /\ call[h] \in CallType /\ h \in Callers
      /\ Requests \subseteq Callers
  BY StreamConstants DEF RoomsInv, RoomsType
<1>2. /\ call[h].step = "entity" /\ entityLock = None /\ HasTransport(t)
      /\ EraseTransports({t}) /\ call' = [call EXCEPT ![h] = Done(h, "accepted")]
      /\ m_outQueue' = [m_outQueue EXCEPT ![WorkerOf(t)] = Append(@, m)]
      /\ UNCHANGED <<routerToWorker, m_nextId, workerVars, givenUp, phase>>
  BY DEF CloseTransport
<1>3. t \in Requests
  BY <1>1, <1>2 DEF HasTransport, CallType
<1>4. WorkerOf(t) \in Workers
  BY <1>2, <1>3, WorkerFound
<1>5. m \in MessageType /\ m.kind = "workerClose" /\ m.id = 0
  BY <1>3 DEF MessageType
<1>6. call'[h].step = "done" /\ \A g \in Requests : g # h => call'[g] = call[g]
  BY <1>1, <1>2, DoneType
<1> HIDE DEF m, t
<1>7. m_outQueue' = [m_outQueue EXCEPT ![WorkerOf(t)] =
                       Append(m_outQueue[WorkerOf(t)], m)]
  BY <1>2, <1>4 DEF ChannelsType
<1> QED
  BY <1>2, <1>3, <1>4, <1>5, <1>6, <1>7

LEMMA ChannelsTypeInit == Init => ChannelsType
BY DEF Init, ChannelsType

LEMMA ChannelsTypeNext == RoomsInv /\ ChannelsType /\ [Next]_vars => ChannelsType'
<1> SUFFICES ASSUME RoomsInv, ChannelsType, [Next]_vars
             PROVE  ChannelsType'
  OBVIOUS
<1>1. ASSUME UNCHANGED <<channels, workerVars>> PROVE ChannelsType'
  BY <1>1 DEF ChannelsType, channels, workerVars
<1>2. ASSUME NEW k \in Workers, NEW m \in MessageType,
             m_outQueue' = [m_outQueue EXCEPT ![k] = Append(m_outQueue[k], m)],
             UNCHANGED workerVars,
             m_nextId' = m_nextId \/ m_nextId' = [m_nextId EXCEPT ![k] = m_nextId[k] + 1]
      PROVE  ChannelsType'
  <2>1. Append(m_outQueue[k], m) \in Seq(MessageType)
    BY AppendFacts DEF ChannelsType
  <2>2. m_outQueue' \in [Workers -> Seq(MessageType)]
    BY <1>2, <2>1 DEF ChannelsType
  <2>3. m_nextId' \in [Workers -> Nat]
    BY <1>2 DEF ChannelsType
  <2> QED
    BY <1>2, <2>2, <2>3 DEF ChannelsType, workerVars
<1>3. ASSUME NEW h \in Requests, ClientRequest(h) PROVE ChannelsType'
  BY <1>1, <1>3 DEF ClientRequest, HandleCreateTransport, HandleConnectTransport,
     HandleProduce, HandleConsume, HandleCloseTransport, Arrive
<1>4. ASSUME NEW h \in Requests,
             CreateRouter(h) \/ CreateWebRtcTransport(h) \/ OnTransport(h)
      PROVE  ChannelsType'
  <2>1. PICK k \in Workers : Request(h, k) /\ LookedUp([call[h] EXCEPT !.k = k])
    BY <1>4, RequestsKeep
  <2> QED
    BY <1>2, <2>1, RequestFacts
<1>5. ASSUME NEW h \in Requests, CloseTransport(h) PROVE ChannelsType'
  <2>1. PICK t \in Requests, m \in MessageType :
          /\ WorkerOf(t) \in Workers
          /\ m_outQueue' = [m_outQueue EXCEPT ![WorkerOf(t)] =
                              Append(m_outQueue[WorkerOf(t)], m)]
          /\ UNCHANGED <<m_nextId, workerVars>>
    BY <1>5, CloseTransportFacts
  <2> QED
    BY <1>2, <2>1
<1>6. ASSUME NEW h \in Requests, FindRoom(h) \/ EnterRoom(h) \/ NotFound(h)
      PROVE  ChannelsType'
  BY <1>1, <1>6 DEF FindRoom, EnterRoom, NotFound
<1>7. ASSUME NEW h \in Requests, Return(h) PROVE ChannelsType'
  BY <1>1, <1>7 DEF Return
<1>8. ASSUME NEW k \in Workers, WorkerHandles(k) \/ WorkerCloses(k) PROVE ChannelsType'
  <2> DEFINE m == Head(m_outQueue[k])
  <2>1. /\ m_outQueue[k] # << >> /\ m_nextId' = m_nextId
        /\ m_outQueue' = [m_outQueue EXCEPT ![k] = Tail(@)]
    BY <1>8 DEF WorkerHandles, WorkerCloses
  <2>2. m \in MessageType /\ Tail(m_outQueue[k]) \in Seq(MessageType)
    BY <2>1, TailFacts DEF ChannelsType
  <2>3. m_outQueue' \in [Workers -> Seq(MessageType)]
    BY <2>1, <2>2 DEF ChannelsType
  <2>4. CASE WorkerHandles(k)
    <3> DEFINE E == Kinds \X Requests \X (Requests \cup {None})
    <3>1. /\ m.kind # "workerClose" /\ alive' = alive
          /\ \/ made' = made
             \/ \E S : S \subseteq made[k] /\ made' = [made EXCEPT ![k] = S]
             \/ /\ m.kind \notin {"connect", "closeRouter"}
                /\ made' = [made EXCEPT ![k] = @ \cup {<<m.kind, m.name, m.on>>}]
      <4>1. PICK answer \in {"accepted", "rejected"} :
              made' = IF answer = "rejected" \/ m.kind = "connect" THEN made
                      ELSE IF m.kind = "closeRouter"
                      THEN [made EXCEPT ![k] = (@ \ Below(k, m.on))
                              \ {e \in @ : e[1] = "router" /\ e[2] = m.on}]
                      ELSE [made EXCEPT ![k] = @ \cup {<<m.kind, m.name, m.on>>}]
        BY <2>4 DEF WorkerHandles
      <4>2. m.kind # "workerClose" /\ alive' = alive
        BY <2>4 DEF WorkerHandles
      <4> DEFINE S == (made[k] \ Below(k, m.on))
                        \ {e \in made[k] : e[1] = "router" /\ e[2] = m.on}
      <4>3. S \subseteq made[k]
        OBVIOUS
      <4>4. [made EXCEPT ![k] = (@ \ Below(k, m.on))
                              \ {e \in @ : e[1] = "router" /\ e[2] = m.on}]
            = [made EXCEPT ![k] = S]
        BY DEF ChannelsType
      <4> HIDE DEF S
      <4> QED
        BY <4>1, <4>2, <4>3, <4>4
    <3>2. m.kind \notin {"connect", "closeRouter"} => <<m.kind, m.name, m.on>> \in E
      BY <2>2, <3>1 DEF MessageType
    <3>3. made' \in [Workers -> SUBSET E]
      <4> HIDE DEF m, E
      <4>1. made \in [Workers -> SUBSET E] /\ made[k] \subseteq E
        BY DEF ChannelsType, E
      <4>2. CASE made' = made
        BY <4>1, <4>2
      <4>3. CASE \E S : S \subseteq made[k] /\ made' = [made EXCEPT ![k] = S]
        <5>1. PICK S : S \subseteq made[k] /\ made' = [made EXCEPT ![k] = S]
          BY <4>3
        <5>2. S \in SUBSET E
          BY <4>1, <5>1
        <5> QED
          BY <4>1, <5>1, <5>2
      <4>4. CASE /\ m.kind \notin {"connect", "closeRouter"}
                 /\ made' = [made EXCEPT ![k] = @ \cup {<<m.kind, m.name, m.on>>}]
        <5>1. made[k] \cup {<<m.kind, m.name, m.on>>} \in SUBSET E
          BY <3>2, <4>1, <4>4
        <5> QED
          BY <4>1, <4>4, <5>1
      <4> QED
        BY <3>1, <4>2, <4>3, <4>4
    <3> QED
      BY <2>1, <2>3, <3>1, <3>3 DEF ChannelsType
  <2>5. CASE WorkerCloses(k)
    BY <2>1, <2>3, <2>5 DEF ChannelsType, WorkerCloses
  <2> QED
    BY <1>8, <2>4, <2>5
<1>9. ASSUME NEW l \in Locations, CloseRouter(l) PROVE ChannelsType'
  <2> DEFINE r == m_rooms[l]
             k == routerToWorker[r]
             m == [kind |-> "closeRouter", name |-> Main, on |-> r, prod |-> None,
                   id |-> NextId(k)]
  <2>1. /\ r # None /\ HasRouter(r) /\ UNCHANGED workerVars
        /\ m_nextId' = [m_nextId EXCEPT ![k] = NextId(k)]
        /\ m_outQueue' = [m_outQueue EXCEPT ![k] = Append(@, m)]
    BY <1>9 DEF CloseRouter, Rooms
  <2>2. r \in Requests
    BY <2>1 DEF RoomsInv, RoomsType
  <2>3. k \in Workers
    BY <2>1, <2>2, WorkerFound
  <2>4. NextId(k) = m_nextId[k] + 1 /\ NextId(k) \in Nat
    BY <2>3 DEF NextId, ChannelsType
  <2>5. m \in MessageType
    BY <2>2, <2>4 DEF MessageType
  <2> HIDE DEF m, k
  <2>6. m_outQueue' = [m_outQueue EXCEPT ![k] = Append(m_outQueue[k], m)]
    BY <2>1, <2>3 DEF ChannelsType
  <2> QED
    BY <1>2, <2>1, <2>3, <2>4, <2>5, <2>6
<1>10. CASE RouterClosed \/ CloseChannels \/ Joined \/ Stop
  BY <1>1, <1>10 DEF RouterClosed, CloseChannels, Joined, Stop
<1>11. CASE UNCHANGED vars
  BY <1>1, <1>11 DEF vars
<1> QED
  BY <1>3, <1>4, <1>5, <1>6, <1>7, <1>8, <1>9, <1>10, <1>11
  DEF Next, HandlerStep, WorkerStep, MainStep
\* A message is added to the queue of worker j.
QueueGrows(j, m) ==
    /\ j \in Workers /\ m \in MessageType
    /\ m_outQueue' = [m_outQueue EXCEPT ![j] = Append(m_outQueue[j], m)]
    /\ UNCHANGED workerVars

\* The first message of worker j leaves its queue.
QueueShrinks(j) ==
    /\ j \in Workers /\ m_outQueue[j] # << >>
    /\ m_outQueue' = [m_outQueue EXCEPT ![j] = Tail(m_outQueue[j])]

LEMMA GrownQueue ==
    ASSUME ChannelsType, NEW j, NEW m, QueueGrows(j, m), NEW k \in Workers
    PROVE  /\ \A i \in 1..Len(m_outQueue'[k]) :
                 \/ i \in 1..Len(m_outQueue[k]) /\ m_outQueue'[k][i] = m_outQueue[k][i]
                 \/ k = j /\ i = Len(m_outQueue[j]) + 1 /\ m_outQueue'[k][i] = m
           /\ \A i \in 1..Len(m_outQueue[k]) :
                 i \in 1..Len(m_outQueue'[k]) /\ m_outQueue'[k][i] = m_outQueue[k][i]
           /\ k = j => \E i \in 1..Len(m_outQueue'[k]) : m_outQueue'[k][i] = m
           /\ Doomed(k) => Doomed(k)'
           /\ k = j /\ m.kind = "workerClose" => Doomed(k)'
<1>1. /\ j \in Workers /\ m \in MessageType /\ alive' = alive
      /\ m_outQueue[j] \in Seq(MessageType) /\ m_outQueue[k] \in Seq(MessageType)
      /\ m_outQueue'[j] = Append(m_outQueue[j], m)
      /\ k # j => m_outQueue'[k] = m_outQueue[k]
  BY DEF QueueGrows, ChannelsType, workerVars
<1>2. \A i \in 1..Len(m_outQueue'[k]) :
         \/ i \in 1..Len(m_outQueue[k]) /\ m_outQueue'[k][i] = m_outQueue[k][i]
         \/ k = j /\ i = Len(m_outQueue[j]) + 1 /\ m_outQueue'[k][i] = m
  BY <1>1, AppendFacts
<1>3. \A i \in 1..Len(m_outQueue[k]) :
         i \in 1..Len(m_outQueue'[k]) /\ m_outQueue'[k][i] = m_outQueue[k][i]
  BY <1>1, AppendFacts
<1>4. k = j => /\ Len(m_outQueue[j]) + 1 \in 1..Len(m_outQueue'[k])
               /\ m_outQueue'[k][Len(m_outQueue[j]) + 1] = m
  BY <1>1, AppendFacts
<1>5. Doomed(k) => Doomed(k)'
  BY <1>1, <1>3 DEF Doomed
<1>6. k = j /\ m.kind = "workerClose" => Doomed(k)'
  BY <1>4 DEF Doomed
<1> QED
  BY <1>2, <1>3, <1>4, <1>5, <1>6

LEMMA ShrunkQueue ==
    ASSUME ChannelsType, NEW j, QueueShrinks(j), NEW k \in Workers
    PROVE  /\ \A i \in 1..Len(m_outQueue'[k]) :
                 LET n == IF k = j THEN i + 1 ELSE i IN
                 /\ n \in 1..Len(m_outQueue[k]) /\ m_outQueue'[k][i] = m_outQueue[k][n]
                 /\ k = j => n # 1
           /\ 1 \in 1..Len(m_outQueue[j]) /\ Head(m_outQueue[j]) = m_outQueue[j][1]
           /\ /\ Doomed(k)
              /\ alive' = alive /\ Head(m_outQueue[j]).kind # "workerClose"
              => Doomed(k)'
           /\ k # j /\ Doomed(k) /\ alive'[k] = alive[k] => Doomed(k)'
<1>1. /\ j \in Workers
      /\ m_outQueue[j] \in Seq(MessageType) /\ m_outQueue[k] \in Seq(MessageType)
      /\ m_outQueue[j] # << >> /\ m_outQueue'[j] = Tail(m_outQueue[j])
      /\ k # j => m_outQueue'[k] = m_outQueue[k]
  BY DEF QueueShrinks, ChannelsType
<1>2. /\ 1 \in 1..Len(m_outQueue[j]) /\ Head(m_outQueue[j]) = m_outQueue[j][1]
      /\ \A i \in 1..Len(m_outQueue'[j]) :
            /\ i + 1 \in 1..Len(m_outQueue[j]) /\ i + 1 # 1
            /\ m_outQueue'[j][i] = m_outQueue[j][i + 1]
      /\ \A i \in 1..Len(m_outQueue[j]) : i # 1 =>
            i - 1 \in 1..Len(m_outQueue'[j]) /\ m_outQueue'[j][i - 1] = m_outQueue[j][i]
  BY <1>1, TailFacts
<1>3. \A i \in 1..Len(m_outQueue'[k]) :
         LET n == IF k = j THEN i + 1 ELSE i IN
         /\ n \in 1..Len(m_outQueue[k]) /\ m_outQueue'[k][i] = m_outQueue[k][n]
         /\ k = j => n # 1
  BY <1>1, <1>2
<1>4. k # j /\ Doomed(k) /\ alive'[k] = alive[k] => Doomed(k)'
  BY <1>1 DEF Doomed
<1>5. ASSUME Doomed(k), alive' = alive, Head(m_outQueue[j]).kind # "workerClose"
      PROVE  Doomed(k)'
  <2>1. CASE k # j \/ ~alive[k]
    BY <1>4, <1>5, <2>1 DEF Doomed
  <2>2. CASE k = j /\ alive[k]
    <3>1. PICK i \in 1..Len(m_outQueue[k]) : m_outQueue[k][i].kind = "workerClose"
      BY <1>5, <2>2 DEF Doomed
    <3>2. i # 1
      BY <1>2, <1>5, <2>2, <3>1
    <3>3. /\ i - 1 \in 1..Len(m_outQueue'[k])
          /\ m_outQueue'[k][i - 1].kind = "workerClose"
      BY <1>2, <2>2, <3>1, <3>2
    <3> QED
      BY <3>3 DEF Doomed
  <2> QED
    BY <2>1, <2>2
<1> QED
  BY <1>2, <1>3, <1>4, <1>5

\* Nobody waits while entityMutex is free.
LEMMA NobodyWaits ==
    ASSUME RoomsInv, entityLock = None
    PROVE  \A g \in Requests : call[g].step # "wait"
BY StreamConstants DEF RoomsInv, RequestInv

\* Steps of a handler that does not wait, neither before nor after.
LEMMA QuietServing ==
    ASSUME ChannelsType, ServingInv,
           UNCHANGED <<tables, channels, workerVars, givenUp>>,
           \A g \in Requests : \/ call'[g] = call[g]
                               \/ call[g].step # "wait" /\ call'[g].step # "wait"
    PROVE  ServingInv'
<1>1. UNCHANGED <<routerToWorker, transportToRouter, producerToTransport,
                  consumerToTransport, m_nextId, m_outQueue, alive, made>>
  BY DEF tables, channels, workerVars
<1>2. \A k : Doomed(k)' <=> Doomed(k)
  BY <1>1 DEF Doomed
<1>3. \A kind, x : /\ InTables(kind, x)' <=> InTables(kind, x)
                   /\ WorkerFor(kind, x)' = WorkerFor(kind, x)
  BY <1>1 DEF InTables, WorkerFor, WorkerOf, HasRouter, HasTransport
<1>4. ASSUME NEW k \in Workers, NEW i \in 1..Len(m_outQueue[k])
      PROVE  MessageInv(k, m_outQueue[k][i])'
  BY <1>1 DEF ServingInv, MessageInv, AnswersFor
<1>5. ASSUME NEW k \in Workers PROVE IdInv(k)'
  <2>1. IdInv(k)
    BY DEF ServingInv
  <2> QED
    BY <1>1, <2>1 DEF IdInv, AnswersFor
<1>6. ASSUME NEW k \in Workers, NEW e \in made[k] PROVE MadeInv(k, e)'
  <2>1. MadeInv(k, e) /\ e[2] \in Requests
    BY DEF ServingInv, ChannelsType
  <2> QED
    BY <1>2, <1>3, <2>1 DEF MadeInv
<1>7. ASSUME NEW h \in Requests PROVE AcceptedInv(h)'
  BY <1>1, <1>2 DEF ServingInv, AcceptedInv, Has
<1>8. ASSUME NEW kind \in Kinds, NEW x \in Requests PROVE BackedInv(kind, x)'
  BY <1>1, <1>2, <1>3 DEF ServingInv, BackedInv, Has
<1> QED
  BY <1>1, <1>4, <1>5, <1>6, <1>7, <1>8 DEF ServingInv
\* What is in the tables has a worker.
LEMMA WorkerForType ==
    ASSUME RoomsInv, NEW kind \in Kinds, NEW x \in Requests, InTables(kind, x)
    PROVE  WorkerFor(kind, x) \in Workers
<1>1. /\ producerToTransport \in [Requests -> Requests \cup {None}]
      /\ consumerToTransport \in [Requests -> Requests \cup {None}] /\ TablesLinked
  BY DEF RoomsInv, RoomsType
<1>2. CASE kind = "router" /\ HasRouter(x)
  BY <1>2, WorkerFound DEF WorkerFor
<1>3. CASE kind = "transport" /\ HasTransport(x)
  BY <1>3, WorkerFound DEF WorkerFor
<1>4. CASE kind = "produce" /\ producerToTransport[x] # None
  BY <1>1, <1>4, WorkerFound DEF WorkerFor, TablesLinked
<1>5. CASE kind = "consume" /\ consumerToTransport[x] # None
  BY <1>1, <1>5, WorkerFound DEF WorkerFor, TablesLinked
<1> QED
  BY <1>2, <1>3, <1>4, <1>5 DEF InTables
\* A request is sent: it waits for its own message alone.
LEMMA RequestServing ==
    ASSUME RoomsInv, ChannelsType, ServingInv, NEW h \in Requests,
           CreateRouter(h) \/ CreateWebRtcTransport(h) \/ OnTransport(h)
    PROVE  ServingInv'
<1>1. PICK j \in Workers : Request(h, j) /\ LookedUp([call[h] EXCEPT !.k = j])
  BY RequestsKeep
<1>2. PICK m \in MessageType :
        /\ m.kind = call[h].op /\ m.kind \in Kinds \cup {"connect"}
        /\ m.name = h /\ m.id = m_nextId[j] + 1
        /\ m_nextId' = [m_nextId EXCEPT ![j] = m_nextId[j] + 1]
        /\ m_outQueue' = [m_outQueue EXCEPT ![j] = Append(m_outQueue[j], m)]
        /\ call'[h].step = "wait" /\ call'[h].k = j /\ call'[h].id = m.id
        /\ call'[h].op = call[h].op /\ call'[h].resp = None
        /\ call[h].step = "entity" /\ entityLock = None
        /\ \A g \in Requests : g # h => call'[g] = call[g]
        /\ UNCHANGED <<tables, workerVars, givenUp, phase>>
  BY <1>1, RequestFacts
<1>3. /\ UNCHANGED <<routerToWorker, transportToRouter, producerToTransport,
                     consumerToTransport, alive, made, givenUp>>
      /\ QueueGrows(j, m)
  BY <1>2 DEF tables, workerVars, QueueGrows
<1>4. /\ \A g \in Requests : call[g].step # "wait"
      /\ \A g \in Requests : call'[g].step = "wait" => g = h
  BY <1>2, NobodyWaits
<1>5. /\ m_nextId[j] \in Nat /\ m_nextId'[j] = m_nextId[j] + 1
      /\ \A k \in Workers : m_nextId[k] \in Nat /\ m_nextId'[k] \in Nat
                            /\ m_nextId'[k] >= m_nextId[k]
  BY <1>2 DEF ChannelsType
<1>6. ASSUME NEW k \in Workers, NEW i \in 1..Len(m_outQueue[k])
      PROVE  /\ m_outQueue[k][i].id \in 0..m_nextId[k]
             /\ \/ m_outQueue[k][i].kind = "workerClose" /\ m_outQueue[k][i].id = 0
                \/ /\ m_outQueue[k][i].kind \in Kinds \cup {"connect"}
                   /\ m_outQueue[k][i].name \in Requests
                   /\ m_outQueue[k][i].id \in 1..m_nextId[k]
                   /\ <<m_outQueue[k][i].kind, m_outQueue[k][i].name>> \in givenUp
  <2>1. MessageInv(k, m_outQueue[k][i])
    BY DEF ServingInv
  <2>2. \A n : ~(n \in Requests /\ AnswersFor(m_outQueue[k][i], k, n))
    BY <1>4 DEF AnswersFor
  <2> QED
    BY <1>5, <2>1, <2>2 DEF MessageInv
<1>7. ASSUME NEW i \in 1..Len(m_outQueue[j]) PROVE m_outQueue[j][i].id # m.id
  <2>1. m_outQueue[j][i].id \in 0..m_nextId[j]
    BY <1>6
  <2>2. \A n \in 0..m_nextId[j] : n # m_nextId[j] + 1
    BY <1>5
  <2> QED
    BY <1>2, <2>1, <2>2
<1>8. ASSUME NEW k \in Workers, NEW i \in 1..Len(m_outQueue'[k])
      PROVE  MessageInv(k, m_outQueue[k][i])'
  <2>1. CASE i \in 1..Len(m_outQueue[k]) /\ m_outQueue'[k][i] = m_outQueue[k][i]
    <3>1. \A n \in 1..m_nextId[k] : n \in 1..m_nextId'[k]
      BY <1>5
    <3> QED
      BY <1>3, <1>6, <2>1, <3>1 DEF MessageInv
  <2>2. CASE k = j /\ m_outQueue'[k][i] = m
    <3>1. m.id \in 1..m_nextId'[k]
      BY <1>2, <1>5, <2>2
    <3>2. /\ m_outQueue'[k][i].kind \in Kinds \cup {"connect"}
          /\ m_outQueue'[k][i].name = h /\ m_outQueue'[k][i].id \in 1..m_nextId'[k]
      BY <1>2, <2>2, <3>1
    <3>3. AnswersFor(m_outQueue[k][i], k, m_outQueue[k][i].name)'
      BY <1>2, <2>2 DEF AnswersFor
    <3> QED
      BY <3>2, <3>3 DEF MessageInv
  <2> QED
    BY <1>3, <2>1, <2>2, GrownQueue
<1>9. ASSUME NEW k \in Workers PROVE IdInv(k)'
  <2>1. ASSUME NEW i \in 1..Len(m_outQueue'[k]), NEW n \in 1..Len(m_outQueue'[k]),
               m_outQueue'[k][i].id = m_outQueue'[k][n].id, m_outQueue'[k][i].id # 0
        PROVE  i = n
    <3>1. CASE /\ i \in 1..Len(m_outQueue[k]) /\ m_outQueue'[k][i] = m_outQueue[k][i]
               /\ n \in 1..Len(m_outQueue[k]) /\ m_outQueue'[k][n] = m_outQueue[k][n]
      BY <2>1, <3>1 DEF ServingInv, IdInv
    <3> QED
      BY <1>3, <1>7, <2>1, <3>1, GrownQueue
  <2>2. ASSUME NEW g \in Requests, NEW i \in 1..Len(m_outQueue'[k]),
               call'[g].step = "wait", call'[g].k = k,
               call'[g].id = m_outQueue'[k][i].id
        PROVE  m_outQueue'[k][i].name = g /\ AnswersFor(m_outQueue[k][i], k, g)'
    <3>1. g = h /\ k = j /\ m_outQueue'[k][i].id = m.id
      BY <1>2, <1>4, <2>2
    <3>3. m_outQueue'[k][i] = m
      BY <1>3, <1>7, <3>1, GrownQueue
    <3> QED
      BY <1>2, <3>1, <3>3 DEF AnswersFor
  <2>3. ASSUME NEW g \in Requests, call'[g].step = "wait", call'[g].k = k
        PROVE  call'[g].id \in 1..m_nextId'[k]
    BY <1>2, <1>4, <1>5, <2>3
  <2> QED
    BY <2>1, <2>2, <2>3 DEF IdInv
<1>10. ASSUME NEW k \in Workers, NEW e \in made[k] PROVE MadeInv(k, e)'
  <2>1. MadeInv(k, e) /\ e[2] \in Requests
    BY DEF ServingInv, ChannelsType
  <2>2. \/ InTables(e[1], e[2]) /\ WorkerFor(e[1], e[2]) = k
        \/ <<e[1], e[2]>> \in givenUp
        \/ Doomed(k)
    BY <1>4, <2>1 DEF MadeInv
  <2>3. InTables(e[1], e[2]) /\ WorkerFor(e[1], e[2]) = k
        => (InTables(e[1], e[2]) /\ WorkerFor(e[1], e[2]) = k)'
    BY <1>3 DEF InTables, WorkerFor, WorkerOf, HasRouter, HasTransport
  <2>4. Doomed(k) => Doomed(k)'
    BY <1>3, GrownQueue
  <2> QED
    BY <1>3, <2>2, <2>3, <2>4 DEF MadeInv
<1>11. ASSUME NEW g \in Requests PROVE AcceptedInv(g)'
  BY <1>2, <1>4 DEF AcceptedInv, None
<1>12. ASSUME NEW kind \in Kinds, NEW x \in Requests PROVE BackedInv(kind, x)'
  <2>1. BackedInv(kind, x)
    BY DEF ServingInv
  <2>2. /\ InTables(kind, x)' <=> InTables(kind, x)
        /\ WorkerFor(kind, x)' = WorkerFor(kind, x)
    BY <1>3 DEF InTables, WorkerFor, WorkerOf, HasRouter, HasTransport
  <2>3. ASSUME InTables(kind, x) PROVE WorkerFor(kind, x) \in Workers
    BY <2>3, WorkerForType
  <2> QED
    BY <1>3, <2>1, <2>2, <2>3, GrownQueue DEF BackedInv, Has
<1> QED
  BY <1>3, <1>8, <1>9, <1>10, <1>11, <1>12 DEF ServingInv
\* What is in the tables stays there when a request returns; what it created
\* is entered under the worker that answered.
LEMMA ReturnTables ==
    ASSUME RoomsInv, NEW h \in Requests, Return(h), NEW kind \in Kinds,
           NEW x \in Requests
    PROVE  /\ InTables(kind, x) =>
                 InTables(kind, x)' /\ WorkerFor(kind, x)' = WorkerFor(kind, x)
           /\ InTables(kind, x)' =>
                 \/ InTables(kind, x)
                 \/ x = h /\ kind = call[h].op /\ call[h].resp = "accepted"
           /\ x = h /\ kind = call[h].op /\ call[h].resp = "accepted" =>
                 InTables(kind, x)' /\ WorkerFor(kind, x)' = call[h].k
<1> DEFINE c == call[h]
           new(op) == c.op = op /\ c.resp = "accepted"
<1>1. /\ RoomsType /\ TablesLinked /\ h # None
      /\ c.k \in Workers /\ c.k # NumWorkers /\ LookedUp(c)
      /\ ~HasTransport(h) /\ producerToTransport[h] = None
      /\ consumerToTransport[h] = None /\ (c.op = "router" => ~HasRouter(h))
  BY ReturnFacts, StreamConstants DEF RoomsInv, CallType, RequestInv
<1>2. \A r \in Requests :
         /\ routerToWorker'[r] = IF r = h /\ new("router") THEN c.k
                                 ELSE routerToWorker[r]
         /\ transportToRouter'[r] = IF r = h /\ new("transport") THEN c.on
                                    ELSE transportToRouter[r]
         /\ producerToTransport'[r] = IF r = h /\ new("produce") THEN c.on
                                      ELSE producerToTransport[r]
         /\ consumerToTransport'[r] = IF r = h /\ new("consume") THEN c.on
                                      ELSE consumerToTransport[r]
  BY <1>1, ReturnFacts DEF RoomsType
<1>3. \A r \in Requests : /\ r # None
                          /\ HasRouter(r) => routerToWorker'[r] = routerToWorker[r]
  BY <1>1, <1>2, StreamConstants DEF HasRouter
<1>4. \A t \in Requests : HasTransport(t) =>
         /\ transportToRouter[t] \in Requests /\ HasRouter(transportToRouter[t])
         /\ transportToRouter'[t] = transportToRouter[t]
  BY <1>1, <1>2 DEF HasTransport, TablesLinked, RoomsType
<1>5. \A t \in Requests : HasTransport(t) =>
         routerToWorker'[transportToRouter'[t]] = routerToWorker[transportToRouter[t]]
  BY <1>3, <1>4
<1>6. CASE kind = "router"
  BY <1>1, <1>2, <1>3, <1>6 DEF InTables, WorkerFor, HasRouter
<1>7. CASE kind = "transport"
  <2>1. HasTransport(x) => /\ HasTransport(x)' /\ WorkerFor(kind, x)' = WorkerFor(kind, x)
    BY <1>4, <1>5, <1>7 DEF WorkerFor, WorkerOf, HasTransport
  <2>2. HasTransport(x)' => HasTransport(x) \/ (x = h /\ new("transport"))
    BY <1>2 DEF HasTransport
  <2>3. ASSUME x = h, new("transport")
        PROVE  HasTransport(x)' /\ WorkerFor(kind, x)' = c.k
    <3>1. c.on \in Requests /\ HasRouter(c.on) /\ routerToWorker[c.on] = c.k
      BY <1>1, <2>3, ReturnFacts DEF LookedUp, HasRouter, CallType
    <3>2. transportToRouter'[x] = c.on /\ routerToWorker'[c.on] = c.k
      BY <1>2, <1>3, <2>3, <3>1
    <3> QED
      BY <1>3, <1>7, <2>3, <3>1, <3>2 DEF WorkerFor, WorkerOf, HasTransport
  <2> QED
    BY <1>7, <2>1, <2>2, <2>3 DEF InTables
<1>8. CASE kind = "produce"
  <2>1. ASSUME producerToTransport[x] # None
        PROVE  /\ producerToTransport'[x] # None
               /\ WorkerFor(kind, x)' = WorkerFor(kind, x)
    <3>1. /\ producerToTransport[x] \in Requests /\ HasTransport(producerToTransport[x])
          /\ producerToTransport'[x] = producerToTransport[x]
      BY <1>1, <1>2, <2>1 DEF TablesLinked, RoomsType
    <3> QED
      BY <1>5, <1>8, <2>1, <3>1 DEF WorkerFor, WorkerOf
  <2>2. producerToTransport'[x] # None =>
           producerToTransport[x] # None \/ (x = h /\ new("produce"))
    BY <1>2
  <2>3. ASSUME x = h, new("produce")
        PROVE  producerToTransport'[x] # None /\ WorkerFor(kind, x)' = c.k
    <3>1. c.on \in Requests /\ HasTransport(c.on) /\ WorkerOf(c.on) = c.k
      BY <1>1, <2>3, ReturnFacts DEF LookedUp, HasTransport, CallType
    <3>2. producerToTransport'[x] = c.on
      BY <1>2, <2>3
    <3> QED
      BY <1>3, <1>5, <1>8, <3>1, <3>2 DEF WorkerFor, WorkerOf
  <2> QED
    BY <1>8, <2>1, <2>2, <2>3 DEF InTables
<1>9. CASE kind = "consume"
  <2>1. ASSUME consumerToTransport[x] # None
        PROVE  /\ consumerToTransport'[x] # None
               /\ WorkerFor(kind, x)' = WorkerFor(kind, x)
    <3>1. /\ consumerToTransport[x] \in Requests /\ HasTransport(consumerToTransport[x])
          /\ consumerToTransport'[x] = consumerToTransport[x]
      BY <1>1, <1>2, <2>1 DEF TablesLinked, RoomsType
    <3> QED
      BY <1>5, <1>9, <2>1, <3>1 DEF WorkerFor, WorkerOf
  <2>2. consumerToTransport'[x] # None =>
           consumerToTransport[x] # None \/ (x = h /\ new("consume"))
    BY <1>2
  <2>3. ASSUME x = h, new("consume")
        PROVE  consumerToTransport'[x] # None /\ WorkerFor(kind, x)' = c.k
    <3>1. c.on \in Requests /\ HasTransport(c.on) /\ WorkerOf(c.on) = c.k
      BY <1>1, <2>3, ReturnFacts DEF LookedUp, HasTransport, CallType
    <3>2. consumerToTransport'[x] = c.on
      BY <1>2, <2>3
    <3> QED
      BY <1>3, <1>5, <1>9, <3>1, <3>2 DEF WorkerFor, WorkerOf
  <2> QED
    BY <1>9, <2>1, <2>2, <2>3 DEF InTables
<1> QED
  BY <1>6, <1>7, <1>8, <1>9 DEF Kinds

LEMMA ReturnServing ==
    ASSUME RoomsInv, ChannelsType, ServingInv, NEW h \in Requests, Return(h)
    PROVE  ServingInv'
<1>1. /\ UNCHANGED <<m_nextId, m_outQueue, alive, made>> /\ call[h].step = "wait"
      /\ givenUp' = IF call[h].resp = None THEN givenUp \cup {<<call[h].op, h>>}
                    ELSE givenUp
  BY DEF Return, WaitOver, channels, workerVars
<1>2. \A g \in Requests : call'[g].step # "wait"
  <2>1. \A g \in Requests : g # h => call'[g] = call[g] /\ call[g].step # "wait"
    BY ReturnFacts, StreamConstants DEF RoomsInv, RequestInv
  <2> QED
    BY <2>1, ReturnFacts
<1>3. \A g \in Requests : call[g].step = "wait" => g = h
  BY ReturnFacts DEF RoomsInv, RequestInv
<1>4. \A k : Doomed(k)' <=> Doomed(k)
  BY <1>1 DEF Doomed
<1>5. ASSUME NEW k \in Workers, NEW i \in 1..Len(m_outQueue[k])
      PROVE  MessageInv(k, m_outQueue[k][i])'
  <2> DEFINE m == m_outQueue[k][i]
  <2>1. MessageInv(k, m)
    BY DEF ServingInv
  <2>2. ASSUME m.name \in Requests, AnswersFor(m, k, m.name)
        PROVE  <<m.kind, m.name>> \in givenUp'
    <3>1. m.name = h /\ m.kind = call[h].op /\ call[h].resp = None
      BY <1>3, <2>2 DEF AnswersFor
    <3> QED
      BY <1>1, <3>1
  <2>3. givenUp \subseteq givenUp' /\ m' = m /\ m_nextId' = m_nextId
    BY <1>1
  <2>4. \/ m.kind = "workerClose" /\ m.id = 0
        \/ /\ m.kind \in Kinds \cup {"connect"} /\ m.name \in Requests
           /\ m.id \in 1..m_nextId[k]
           /\ <<m.kind, m.name>> \in givenUp'
    BY <2>1, <2>2, <2>3 DEF MessageInv
  <2> QED
    BY <2>3, <2>4 DEF MessageInv
<1>6. ASSUME NEW k \in Workers PROVE IdInv(k)'
  BY <1>1, <1>2 DEF ServingInv, IdInv
<1>7. ASSUME NEW k \in Workers, NEW e \in made[k] PROVE MadeInv(k, e)'
  <2>1. MadeInv(k, e) /\ e[1] \in Kinds /\ e[2] \in Requests
    BY DEF ServingInv, ChannelsType
  <2>2. CASE InTables(e[1], e[2]) /\ WorkerFor(e[1], e[2]) = k
    BY <2>1, <2>2, ReturnTables DEF MadeInv
  <2>3. CASE /\ call[e[2]].op = e[1] /\ call[e[2]].step = "wait"
             /\ call[e[2]].k = k /\ call[e[2]].resp = "accepted"
    <3>1. e[2] = h
      BY <1>3, <2>1, <2>3
    <3> QED
      BY <2>1, <2>3, <3>1, ReturnTables DEF MadeInv
  <2>4. CASE <<e[1], e[2]>> \in givenUp \/ Doomed(k)
    BY <1>1, <1>4, <2>4 DEF MadeInv
  <2> QED
    BY <2>1, <2>2, <2>3, <2>4 DEF MadeInv
<1>8. ASSUME NEW g \in Requests PROVE AcceptedInv(g)'
  BY <1>2 DEF AcceptedInv
<1>9. ASSUME NEW kind \in Kinds, NEW x \in Requests PROVE BackedInv(kind, x)'
  <2>1. BackedInv(kind, x) /\ AcceptedInv(h)
    BY DEF ServingInv
  <2>2. CASE InTables(kind, x)
    <3>1. WorkerFor(kind, x)' = WorkerFor(kind, x)
      BY <2>2, ReturnTables
    <3> QED
      BY <1>1, <1>4, <2>1, <2>2, <3>1 DEF BackedInv, Has
  <2>3. CASE x = h /\ kind = call[h].op /\ call[h].resp = "accepted"
    <3>1. WorkerFor(kind, x)' = call[h].k
      BY <2>3, ReturnTables
    <3>2. Has(call[h].k, kind, x) \/ Doomed(call[h].k)
      BY <1>1, <2>1, <2>3 DEF AcceptedInv
    <3> QED
      BY <1>1, <1>4, <3>1, <3>2 DEF BackedInv, Has
  <2>4. CASE ~InTables(kind, x)'
    BY <2>4 DEF BackedInv
  <2> QED
    BY <2>2, <2>3, <2>4, ReturnTables
<1> QED
  BY <1>1, <1>5, <1>6, <1>7, <1>8, <1>9 DEF ServingInv

\* closeTransport erases what is on the worker it tells to close, nothing else.
LEMMA EraseTables ==
    ASSUME RoomsInv, NEW t \in Requests, HasTransport(t), EraseTransports({t}),
           routerToWorker' = routerToWorker, NEW kind \in Kinds, NEW x \in Requests
    PROVE  /\ InTables(kind, x)' =>
                 InTables(kind, x) /\ WorkerFor(kind, x)' = WorkerFor(kind, x)
           /\ InTables(kind, x) /\ ~InTables(kind, x)' => WorkerFor(kind, x) = WorkerOf(t)
<1>1. {t} \in SUBSET Requests /\ RoomsType
  BY DEF RoomsInv
<1>2. \A y \in Requests :
         /\ transportToRouter'[y] = IF y = t THEN None ELSE transportToRouter[y]
         /\ producerToTransport'[y] = IF producerToTransport[y] = t THEN None
                                      ELSE producerToTransport[y]
         /\ consumerToTransport'[y] = IF consumerToTransport[y] = t THEN None
                                      ELSE consumerToTransport[y]
  BY DEF EraseTransports
<1>3. CASE kind = "router"
  BY <1>3 DEF InTables, WorkerFor, HasRouter
<1>4. CASE kind = "transport"
  BY <1>2, <1>4 DEF InTables, WorkerFor, WorkerOf, HasTransport
<1>5. CASE kind = "produce"
  BY <1>1, <1>2, <1>5 DEF InTables, WorkerFor, WorkerOf, RoomsType
<1>6. CASE kind = "consume"
  BY <1>1, <1>2, <1>6 DEF InTables, WorkerFor, WorkerOf, RoomsType
<1> QED
  BY <1>3, <1>4, <1>5, <1>6 DEF Kinds

LEMMA CloseTransportServing ==
    ASSUME RoomsInv, ChannelsType, ServingInv, NEW h \in Requests, CloseTransport(h)
    PROVE  ServingInv'
<1>1. PICK t \in Requests, m \in MessageType :
        /\ HasTransport(t) /\ WorkerOf(t) \in Workers
        /\ m.kind = "workerClose" /\ m.id = 0
        /\ m_outQueue' = [m_outQueue EXCEPT ![WorkerOf(t)] =
                            Append(m_outQueue[WorkerOf(t)], m)]
        /\ EraseTransports({t}) /\ entityLock = None
        /\ call[h].step = "entity" /\ call'[h].step = "done"
        /\ \A g \in Requests : g # h => call'[g] = call[g]
        /\ UNCHANGED <<routerToWorker, m_nextId, workerVars, givenUp, phase>>
  BY CloseTransportFacts
<1>2. /\ QueueGrows(WorkerOf(t), m)
      /\ UNCHANGED <<routerToWorker, m_nextId, alive, made, givenUp>>
  BY <1>1 DEF QueueGrows, workerVars
<1>3. /\ \A g \in Requests : call[g].step # "wait"
      /\ \A g \in Requests : call'[g].step # "wait"
  BY <1>1, NobodyWaits
<1>4. PICK j \in Workers : j = WorkerOf(t) /\ QueueGrows(j, m) /\ Doomed(j)'
  BY <1>1, <1>2, GrownQueue
<1>5. ASSUME NEW k \in Workers, NEW i \in 1..Len(m_outQueue'[k])
      PROVE  MessageInv(k, m_outQueue[k][i])'
  <2>1. CASE i \in 1..Len(m_outQueue[k]) /\ m_outQueue'[k][i] = m_outQueue[k][i]
    <3>1. MessageInv(k, m_outQueue[k][i])
      BY <2>1 DEF ServingInv
    <3> QED
      BY <1>2, <1>3, <2>1, <3>1 DEF MessageInv, AnswersFor
  <2>2. CASE m_outQueue'[k][i] = m
    BY <1>1, <2>2 DEF MessageInv
  <2> QED
    BY <1>4, <2>1, <2>2, GrownQueue
<1>6. ASSUME NEW k \in Workers PROVE IdInv(k)'
  <2>1. ASSUME NEW i \in 1..Len(m_outQueue'[k]), NEW n \in 1..Len(m_outQueue'[k]),
               m_outQueue'[k][i].id = m_outQueue'[k][n].id, m_outQueue'[k][i].id # 0
        PROVE  i = n
    <3>1. m_outQueue'[k][i] # m /\ m_outQueue'[k][n] # m
      BY <1>1, <2>1
    <3>2. /\ i \in 1..Len(m_outQueue[k]) /\ m_outQueue'[k][i] = m_outQueue[k][i]
          /\ n \in 1..Len(m_outQueue[k]) /\ m_outQueue'[k][n] = m_outQueue[k][n]
      BY <1>4, <3>1, GrownQueue
    <3> QED
      BY <2>1, <3>2 DEF ServingInv, IdInv
  <2> QED
    BY <1>3, <2>1 DEF IdInv
<1>7. ASSUME NEW k \in Workers, NEW e \in made[k] PROVE MadeInv(k, e)'
  <2>1. MadeInv(k, e) /\ e[1] \in Kinds /\ e[2] \in Requests
    BY DEF ServingInv, ChannelsType
  <2>2. CASE InTables(e[1], e[2]) /\ WorkerFor(e[1], e[2]) = k
    <3>1. CASE InTables(e[1], e[2])'
      BY <1>1, <1>2, <2>1, <2>2, <3>1, EraseTables DEF MadeInv
    <3>2. CASE ~InTables(e[1], e[2])'
      <4>1. k = j
        BY <1>1, <1>2, <1>4, <2>1, <2>2, <3>2, EraseTables
      <4> QED
        BY <1>4, <4>1 DEF MadeInv
    <3> QED
      BY <3>1, <3>2
  <2>3. CASE <<e[1], e[2]>> \in givenUp
    BY <1>2, <2>3 DEF MadeInv
  <2>4. CASE Doomed(k)
    BY <1>4, <2>4, GrownQueue DEF MadeInv
  <2> QED
    BY <1>3, <2>1, <2>2, <2>3, <2>4 DEF MadeInv
<1>8. ASSUME NEW g \in Requests PROVE AcceptedInv(g)'
  BY <1>3 DEF AcceptedInv
<1>9. ASSUME NEW kind \in Kinds, NEW x \in Requests PROVE BackedInv(kind, x)'
  <2>1. BackedInv(kind, x)
    BY DEF ServingInv
  <2>2. SUFFICES ASSUME InTables(kind, x)' PROVE BackedInv(kind, x)'
    BY DEF BackedInv
  <2>3. InTables(kind, x) /\ WorkerFor(kind, x)' = WorkerFor(kind, x)
    BY <1>1, <1>2, <2>2, EraseTables
  <2>4. WorkerFor(kind, x) \in Workers
    BY <2>3, WorkerForType
  <2> QED
    BY <1>2, <1>4, <2>1, <2>3, <2>4, GrownQueue DEF BackedInv, Has
<1> QED
  BY <1>2, <1>5, <1>6, <1>7, <1>8, <1>9 DEF ServingInv
\* The ids of a queue stay distinct when its first message leaves it.
LEMMA ShrunkUnique ==
    ASSUME ChannelsType, NEW j, QueueShrinks(j), NEW k \in Workers, IdInv(k)
    PROVE  \A i, n \in 1..Len(m_outQueue'[k]) :
              /\ m_outQueue'[k][i].id = m_outQueue'[k][n].id
              /\ m_outQueue'[k][i].id # 0
              => i = n
<1> SUFFICES ASSUME NEW i \in 1..Len(m_outQueue'[k]), NEW n \in 1..Len(m_outQueue'[k]),
                    m_outQueue'[k][i].id = m_outQueue'[k][n].id,
                    m_outQueue'[k][i].id # 0
             PROVE  i = n
  OBVIOUS
<1> DEFINE at(x) == IF k = j THEN x + 1 ELSE x
<1>1. /\ at(i) \in 1..Len(m_outQueue[k]) /\ m_outQueue'[k][i] = m_outQueue[k][at(i)]
      /\ at(n) \in 1..Len(m_outQueue[k]) /\ m_outQueue'[k][n] = m_outQueue[k][at(n)]
  BY ShrunkQueue
<1> HIDE DEF at
<1>2. at(i) = at(n)
  BY <1>1 DEF IdInv
<1>3. i \in Int /\ n \in Int
  OBVIOUS
<1> QED
  BY <1>2, <1>3 DEF at

\* When no call changes, nobody's wait does either.
LEMMA ShrunkIds ==
    ASSUME ChannelsType, NEW j, QueueShrinks(j), NEW k \in Workers, IdInv(k),
           UNCHANGED <<call, m_nextId>>
    PROVE  IdInv(k)'
<1>1. ASSUME NEW h \in Requests, NEW i \in 1..Len(m_outQueue'[k]),
             call[h].step = "wait", call[h].k = k, call[h].id = m_outQueue'[k][i].id
      PROVE  m_outQueue'[k][i].name = h /\ AnswersFor(m_outQueue[k][i], k, h)'
  <2>1. PICK n \in 1..Len(m_outQueue[k]) : m_outQueue'[k][i] = m_outQueue[k][n]
    BY ShrunkQueue
  <2> QED
    BY <1>1, <2>1 DEF IdInv, AnswersFor
<1>2. \A i, n \in 1..Len(m_outQueue'[k]) :
         /\ m_outQueue'[k][i].id = m_outQueue'[k][n].id
         /\ m_outQueue'[k][i].id # 0
         => i = n
  BY ShrunkUnique
<1> QED
  BY <1>1, <1>2 DEF IdInv
\* The worker closes: it is doomed ever after, and the others do not notice.
LEMMA WorkerClosesServing ==
    ASSUME RoomsInv, ChannelsType, ServingInv, NEW j \in Workers, WorkerCloses(j)
    PROVE  ServingInv'
<1>1. /\ QueueShrinks(j) /\ alive' = [alive EXCEPT ![j] = FALSE]
      /\ made' = [made EXCEPT ![j] = {}]
      /\ UNCHANGED <<call, m_nextId, givenUp, routerToWorker, transportToRouter,
                     producerToTransport, consumerToTransport>>
  BY DEF WorkerCloses, QueueShrinks, tables, ChannelsType
<1>2. /\ ~alive'[j] /\ made'[j] = {}
      /\ \A k \in Workers : k # j => alive'[k] = alive[k] /\ made'[k] = made[k]
  BY <1>1 DEF ChannelsType
<1>3. \A k \in Workers : Doomed(k) => Doomed(k)'
  <2>1. Doomed(j)'
    BY <1>2 DEF Doomed
  <2> QED
    BY <1>1, <1>2, <2>1, ShrunkQueue
<1>4. \A kind, x : /\ InTables(kind, x)' <=> InTables(kind, x)
                   /\ WorkerFor(kind, x)' = WorkerFor(kind, x)
  BY <1>1 DEF InTables, WorkerFor, WorkerOf, HasRouter, HasTransport
<1>5. ASSUME NEW k \in Workers, NEW i \in 1..Len(m_outQueue'[k])
      PROVE  MessageInv(k, m_outQueue[k][i])'
  <2>1. PICK n \in 1..Len(m_outQueue[k]) : m_outQueue'[k][i] = m_outQueue[k][n]
    BY <1>1, ShrunkQueue
  <2>2. MessageInv(k, m_outQueue[k][n])
    BY DEF ServingInv
  <2> QED
    BY <1>1, <2>1, <2>2 DEF MessageInv, AnswersFor
<1>6. ASSUME NEW k \in Workers PROVE IdInv(k)'
  BY <1>1, ShrunkIds DEF ServingInv
<1>7. ASSUME NEW k \in Workers, NEW e \in made'[k] PROVE MadeInv(k, e)'
  <2>1. k # j /\ e \in made[k]
    BY <1>2
  <2>2. MadeInv(k, e)
    BY <2>1 DEF ServingInv
  <2> QED
    BY <1>1, <1>3, <1>4, <2>2 DEF MadeInv
<1>8. \A kind, x : \A k \in Workers : Has(k, kind, x) \/ Doomed(k)
                                      => Has(k, kind, x)' \/ Doomed(k)'
  <2>1. Doomed(j)'
    BY <1>2 DEF Doomed
  <2> QED
    BY <1>2, <1>3, <2>1 DEF Has
<1>9. ASSUME NEW g \in Requests PROVE AcceptedInv(g)'
  <2>1. AcceptedInv(g) /\ call[g].k \in Workers
    BY StreamConstants DEF ServingInv, RoomsInv, RoomsType, CallType
  <2> QED
    BY <1>1, <1>8, <2>1 DEF AcceptedInv
<1>10. ASSUME NEW kind \in Kinds, NEW x \in Requests PROVE BackedInv(kind, x)'
  <2>1. BackedInv(kind, x)
    BY DEF ServingInv
  <2>2. InTables(kind, x) => WorkerFor(kind, x) \in Workers
    BY WorkerForType
  <2> QED
    BY <1>4, <1>8, <2>1, <2>2 DEF BackedInv
<1> QED
  BY <1>5, <1>6, <1>7, <1>9, <1>10 DEF ServingInv

\* The worker answers the first of its messages: to the one who waits for it, or
\* to nobody.
LEMMA WorkerHandlesServing ==
    ASSUME RoomsInv, ChannelsType, ServingInv, NEW j \in Workers, WorkerHandles(j)
    PROVE  ServingInv'
<1> DEFINE m == Head(m_outQueue[j])
<1>1. /\ QueueShrinks(j) /\ m.kind # "workerClose"
      /\ UNCHANGED <<alive, m_nextId, givenUp, routerToWorker, transportToRouter,
                     producerToTransport, consumerToTransport>>
  BY DEF WorkerHandles, QueueShrinks, tables, ChannelsType
<1>2. 1 \in 1..Len(m_outQueue[j]) /\ m = m_outQueue[j][1] /\ MessageInv(j, m) /\ IdInv(j)
  BY <1>1, ShrunkQueue DEF ServingInv
<1>3. /\ m.kind \in Kinds \cup {"connect"} /\ m.name \in Requests
      /\ m.id \in 1..m_nextId[j] /\ m.id # 0
      /\ <<m.kind, m.name>> \in givenUp \/ AnswersFor(m, j, m.name)
  BY <1>1, <1>2 DEF MessageInv, ChannelsType
<1>4. PICK answer \in {"accepted", "rejected"} :
        /\ OnWorkerMessage(j, m.id, answer)
        /\ made' = IF answer = "rejected" \/ m.kind = "connect" THEN made
                   ELSE [made EXCEPT ![j] = @ \cup {<<m.kind, m.name, m.on>>}]
  <2>1. m.kind # "closeRouter"
    BY <1>3 DEF Kinds
  <2> QED
    BY <2>1 DEF WorkerHandles
<1>5. /\ \A k \in Workers : made[k] \subseteq made'[k]
      /\ \A k \in Workers : \A e \in made'[k] :
            \/ e \in made[k]
            \/ /\ k = j /\ e = <<m.kind, m.name, m.on>> /\ answer = "accepted"
               /\ m.kind \in Kinds
      /\ answer = "accepted" /\ m.kind \in Kinds => <<m.kind, m.name, m.on>> \in made'[j]
  <2>1. "connect" \notin Kinds
    BY DEF Kinds
  <2> HIDE DEF m
  <2> QED
    BY <1>3, <1>4, <2>1 DEF ChannelsType
\* Whoever is answered waited for this message.
<1>6. ASSUME NEW g \in Requests
      PROVE  /\ call'[g].op = call[g].op /\ call'[g].step = call[g].step
             /\ call'[g].k = call[g].k /\ call'[g].id = call[g].id
             /\ \/ call'[g].resp = call[g].resp
                   /\ ~(call[g].step = "wait" /\ call[g].k = j /\ call[g].id = m.id)
                \/ /\ call'[g].resp = answer /\ g = m.name /\ AnswersFor(m, j, g)
  <2>1. g \in Callers
    BY StreamConstants
  <2>2. /\ call'[g].op = call[g].op /\ call'[g].step = call[g].step
        /\ call'[g].k = call[g].k /\ call'[g].id = call[g].id
        /\ call'[g].resp = IF call[g].step = "wait" /\ call[g].k = j
                              /\ call[g].id = m.id
                           THEN answer ELSE call[g].resp
    BY <1>4, <2>1, AnswerFacts
  <2>3. call[g].step = "wait" /\ call[g].k = j /\ call[g].id = m.id
        => g = m.name /\ AnswersFor(m, j, g)
    BY <1>2 DEF IdInv
  <2> QED
    BY <2>2, <2>3
<1> HIDE DEF m
<1>7. \A k \in Workers : Doomed(k) => Doomed(k)'
  BY <1>1, ShrunkQueue DEF m
<1>8. \A kind, x : /\ InTables(kind, x)' <=> InTables(kind, x)
                   /\ WorkerFor(kind, x)' = WorkerFor(kind, x)
  BY <1>1 DEF InTables, WorkerFor, WorkerOf, HasRouter, HasTransport
<1>9. \A kind, x : \A k \in Workers : Has(k, kind, x) => Has(k, kind, x)'
  BY <1>5 DEF Has
\* The messages left have other ids, and so whoever waits for them still does.
<1>10. ASSUME NEW k \in Workers, NEW i \in 1..Len(m_outQueue'[k]), NEW g \in Requests
       PROVE  \E n \in 1..Len(m_outQueue[k]) :
                 /\ m_outQueue'[k][i] = m_outQueue[k][n]
                 /\ AnswersFor(m_outQueue[k][n], k, g)
                    => AnswersFor(m_outQueue[k][i], k, g)'
  <2>1. PICK n \in 1..Len(m_outQueue[k]) :
          m_outQueue'[k][i] = m_outQueue[k][n] /\ (k = j => n # 1)
    BY <1>1, ShrunkQueue
  <2>2. ASSUME k = j PROVE m_outQueue[k][n].id # m.id
    BY <1>2, <1>3, <2>1, <2>2 DEF IdInv
  <2>3. AnswersFor(m_outQueue[k][n], k, g) => call'[g].resp = call[g].resp
    BY <1>6, <2>2 DEF AnswersFor
  <2> QED
    BY <1>6, <2>1, <2>3 DEF AnswersFor
<1>11. ASSUME NEW k \in Workers, NEW i \in 1..Len(m_outQueue'[k])
       PROVE  MessageInv(k, m_outQueue[k][i])'
  <2>1. PICK n \in 1..Len(m_outQueue[k]) : m_outQueue'[k][i] = m_outQueue[k][n]
    BY <1>1, ShrunkQueue
  <2>2. MessageInv(k, m_outQueue[k][n])
    BY DEF ServingInv
  <2>3. CASE m_outQueue[k][n].name \in Requests
             /\ AnswersFor(m_outQueue[k][n], k, m_outQueue[k][n].name)
    <3>1. AnswersFor(m_outQueue[k][i], k, m_outQueue[k][i].name)'
      <4>1. PICK g \in Requests : g = m_outQueue[k][n].name
        BY <2>3
      <4>2. AnswersFor(m_outQueue[k][i], k, g)'
        BY <1>10, <2>1, <2>3, <4>1 DEF AnswersFor
      <4> QED
        BY <2>1, <4>1, <4>2
    <3> QED
      BY <1>1, <2>1, <2>2, <3>1 DEF MessageInv
  <2>4. CASE ~(m_outQueue[k][n].name \in Requests
               /\ AnswersFor(m_outQueue[k][n], k, m_outQueue[k][n].name))
    BY <1>1, <2>1, <2>2, <2>4 DEF MessageInv
  <2> QED
    BY <2>3, <2>4
<1>12. ASSUME NEW k \in Workers PROVE IdInv(k)'
  <2>1. IdInv(k)
    BY DEF ServingInv
  <2>2. \A i, n \in 1..Len(m_outQueue'[k]) :
           /\ m_outQueue'[k][i].id = m_outQueue'[k][n].id
           /\ m_outQueue'[k][i].id # 0
           => i = n
    BY <1>1, <2>1, ShrunkUnique
  <2>3. ASSUME NEW g \in Requests, NEW i \in 1..Len(m_outQueue'[k]),
               call'[g].step = "wait", call'[g].k = k,
               call'[g].id = m_outQueue'[k][i].id
        PROVE  m_outQueue'[k][i].name = g /\ AnswersFor(m_outQueue[k][i], k, g)'
    <3>1. PICK n \in 1..Len(m_outQueue[k]) :
            /\ m_outQueue'[k][i] = m_outQueue[k][n]
            /\ AnswersFor(m_outQueue[k][n], k, g)
               => AnswersFor(m_outQueue[k][i], k, g)'
      BY <1>10
    <3> QED
      BY <1>6, <2>1, <2>3, <3>1 DEF IdInv
  <2>4. \A g \in Requests : call'[g].step = "wait" /\ call'[g].k = k
                            => call'[g].id \in 1..m_nextId'[k]
    BY <1>1, <1>6, <2>1 DEF IdInv
  <2> QED
    BY <2>2, <2>3, <2>4 DEF IdInv
<1>13. ASSUME NEW k \in Workers, NEW e \in made'[k] PROVE MadeInv(k, e)'
  <2>1. CASE e \in made[k]
    <3>1. MadeInv(k, e) /\ e[2] \in Requests
      BY <2>1 DEF ServingInv, ChannelsType
    <3>2. CASE /\ call[e[2]].op = e[1] /\ call[e[2]].step = "wait"
               /\ call[e[2]].k = k /\ call[e[2]].resp = "accepted"
      <4>1. call'[e[2]].resp = "accepted"
        BY <1>6, <3>1, <3>2 DEF AnswersFor, None
      <4> QED
        BY <1>6, <3>1, <3>2, <4>1 DEF MadeInv
    <3>3. CASE \/ InTables(e[1], e[2]) /\ WorkerFor(e[1], e[2]) = k
               \/ <<e[1], e[2]>> \in givenUp \/ Doomed(k)
      BY <1>1, <1>7, <1>8, <3>3 DEF MadeInv
    <3> QED
      BY <3>1, <3>2, <3>3 DEF MadeInv
  <2>2. CASE k = j /\ e = <<m.kind, m.name, m.on>> /\ answer = "accepted"
    <3>1. e[1] = m.kind /\ e[2] = m.name
      BY <2>2
    <3>2. CASE <<m.kind, m.name>> \in givenUp
      BY <1>1, <3>1, <3>2 DEF MadeInv
    <3>3. CASE AnswersFor(m, j, m.name)
      <4>1. /\ call'[m.name].resp = "accepted" /\ call'[m.name].op = m.kind
            /\ call'[m.name].step = "wait" /\ call'[m.name].k = j
        BY <1>3, <1>6, <2>2, <3>3 DEF AnswersFor
      <4> QED
        BY <2>2, <3>1, <4>1 DEF MadeInv
    <3> QED
      BY <1>3, <3>2, <3>3
  <2> QED
    BY <1>5, <2>1, <2>2
<1>14. ASSUME NEW g \in Requests PROVE AcceptedInv(g)'
  <2>1. AcceptedInv(g) /\ call[g].k \in Workers
    BY StreamConstants DEF ServingInv, RoomsInv, RoomsType, CallType
  <2>2. SUFFICES ASSUME call'[g].step = "wait", call'[g].resp = "accepted",
                        call'[g].op \in Kinds
                 PROVE  (Has(call[g].k, call[g].op, g) \/ Doomed(call[g].k))'
    BY DEF AcceptedInv
  <2>3. CASE call'[g].resp = call[g].resp
    BY <1>6, <1>7, <1>9, <2>1, <2>2, <2>3 DEF AcceptedInv
  <2>4. CASE call'[g].resp = answer /\ g = m.name /\ AnswersFor(m, j, g)
    <3>1. /\ call'[g].k = j /\ call'[g].op = m.kind /\ m.kind \in Kinds
          /\ answer = "accepted"
      BY <1>6, <2>2, <2>4 DEF AnswersFor
    <3>2. \E e \in made'[j] : e[1] = m.kind /\ e[2] = g
      BY <1>5, <2>4, <3>1
    <3> QED
      BY <3>1, <3>2 DEF Has
  <2> QED
    BY <1>6, <2>3, <2>4
<1>15. ASSUME NEW kind \in Kinds, NEW x \in Requests PROVE BackedInv(kind, x)'
  <2>1. BackedInv(kind, x)
    BY DEF ServingInv
  <2>2. InTables(kind, x) => WorkerFor(kind, x) \in Workers
    BY WorkerForType
  <2> QED
    BY <1>7, <1>8, <1>9, <2>1, <2>2 DEF BackedInv
<1> QED
  BY <1>11, <1>12, <1>13, <1>14, <1>15 DEF ServingInv

LEMMA WorkersInvNext == RoomsInv /\ WorkersInv /\ [Next]_vars => WorkersInv'
<1> SUFFICES ASSUME RoomsInv, WorkersInv, [Next]_vars
             PROVE  WorkersInv'
  OBVIOUS
<1>1. ChannelsType /\ ChannelsType'
  BY ChannelsTypeNext DEF WorkersInv
<1>2. SUFFICES ASSUME phase' = "serving" PROVE ServingInv'
  BY <1>1 DEF WorkersInv
<1>3. ASSUME phase = "serving" PROVE ServingInv
  BY <1>3 DEF WorkersInv
<1>4. ASSUME NEW h \in Requests, ClientRequest(h) PROVE ServingInv'
  <2>1. PICK c \in CallType : Arrive(h, c) /\ c.step # "wait"
    <3>1. ASSUME NEW l \in Locations, HandleCreateTransport(h, l)
          PROVE  \E c \in CallType : Arrive(h, c) /\ c.step # "wait"
      <4> DEFINE c == [Idle EXCEPT !.op = "router", !.step = "room", !.loc = l]
      <4>1. c \in CallType /\ c.step = "room"
        BY StreamConstants DEF Idle, CallType, Ops, Kinds, Steps, Answers
      <4>2. Arrive(h, c)
        BY <3>1 DEF HandleCreateTransport
      <4> HIDE DEF c
      <4> QED
        BY <4>1, <4>2
    <3>2. ASSUME NEW t \in Requests, NEW op \in {"connect", "produce", "close"},
                 Arrive(h, [Idle EXCEPT !.op = op, !.step = "entity", !.on = t])
          PROVE  \E c \in CallType : Arrive(h, c) /\ c.step # "wait"
      <4> DEFINE c == [Idle EXCEPT !.op = op, !.step = "entity", !.on = t]
      <4>1. c \in CallType /\ c.step = "entity"
        BY StreamConstants DEF Idle, CallType, Ops, Kinds, Steps, Answers
      <4>2. Arrive(h, c)
        BY <3>2
      <4> HIDE DEF c
      <4> QED
        BY <4>1, <4>2
    <3>3. ASSUME NEW t \in Requests, NEW p \in Requests, HandleConsume(h, t, p)
          PROVE  \E c \in CallType : Arrive(h, c) /\ c.step # "wait"
      <4> DEFINE c == [Idle EXCEPT !.op = "consume", !.step = "entity", !.on = t,
                                   !.prod = p]
      <4>1. c \in CallType /\ c.step = "entity"
        BY StreamConstants DEF Idle, CallType, Ops, Kinds, Steps, Answers
      <4>2. Arrive(h, c)
        BY <3>3 DEF HandleConsume
      <4> HIDE DEF c
      <4> QED
        BY <4>1, <4>2
    <3>4. ASSUME NEW t \in Requests, HandleConnectTransport(h, t)
          PROVE  \E c \in CallType : Arrive(h, c) /\ c.step # "wait"
      BY <3>2, <3>4 DEF HandleConnectTransport
    <3>5. ASSUME NEW t \in Requests, HandleProduce(h, t)
          PROVE  \E c \in CallType : Arrive(h, c) /\ c.step # "wait"
      BY <3>2, <3>5 DEF HandleProduce
    <3>6. ASSUME NEW t \in Requests, HandleCloseTransport(h, t)
          PROVE  \E c \in CallType : Arrive(h, c) /\ c.step # "wait"
      BY <3>2, <3>6 DEF HandleCloseTransport
    <3> QED
      BY <1>4, <3>1, <3>3, <3>4, <3>5, <3>6 DEF ClientRequest
  <2>2. /\ call[h].step = "idle" /\ phase = "serving" /\ call' = [call EXCEPT ![h] = c]
        /\ UNCHANGED <<tables, channels, workerVars, givenUp>>
    BY <2>1, IdleType DEF Arrive
  <2>3. \A g \in Requests : \/ call'[g] = call[g]
                            \/ call[g].step # "wait" /\ call'[g].step # "wait"
    BY <2>1, <2>2, StreamConstants DEF RoomsInv, RoomsType
  <2> QED
    BY <1>1, <1>3, <2>2, <2>3, QuietServing
<1>5. ASSUME NEW h \in Requests, FindRoom(h) \/ EnterRoom(h) \/ NotFound(h)
      PROVE  ServingInv'
  <2>1. /\ phase = "serving" /\ UNCHANGED <<tables, channels, workerVars, givenUp>>
    BY <1>2, <1>5 DEF FindRoom, EnterRoom, NotFound
  <2>2. call \in [Callers -> CallType] /\ h \in Callers /\ call[h] \in CallType
    BY StreamConstants DEF RoomsInv, RoomsType
  <2>3. CASE FindRoom(h)
    <3>1. PICK c : call' = [call EXCEPT ![h] = c] /\ c.step = "entity"
      <4> DEFINE l == call[h].loc
                 c == IF m_rooms[l] = None THEN [call[h] EXCEPT !.step = "entity"]
                      ELSE [call[h] EXCEPT !.op = "transport", !.step = "entity",
                                           !.on = m_rooms[l]]
      <4>1. c.step = "entity"
        BY <2>2 DEF CallType
      <4>2. call' = [call EXCEPT ![h] = c]
        BY <2>3 DEF FindRoom
      <4> HIDE DEF c
      <4> QED
        BY <4>1, <4>2
    <3>2. call[h].step = "room"
      BY <2>3 DEF FindRoom
    <3>3. \A g \in Requests : \/ call'[g] = call[g]
                              \/ call[g].step # "wait" /\ call'[g].step # "wait"
      BY <2>2, <3>1, <3>2, StreamConstants
    <3> QED
      BY <1>1, <1>3, <2>1, <3>3, QuietServing
  <2>4. CASE EnterRoom(h)
    <3>1. PICK c : call' = [call EXCEPT ![h] = c] /\ c.step # "wait"
      <4> DEFINE a == Done(h, "rejected")
                 b == [Idle EXCEPT !.op = "transport", !.step = "entity", !.on = h]
      <4>1. a.step # "wait"
        BY DoneType
      <4>2. b.step # "wait"
        BY DEF Idle
      <4>3. call' = [call EXCEPT ![h] = a] \/ call' = [call EXCEPT ![h] = b]
        BY <2>4 DEF EnterRoom
      <4> HIDE DEF a, b
      <4> QED
        BY <4>1, <4>2, <4>3
    <3>2. call[h].step = "returned"
      BY <2>4 DEF EnterRoom
    <3>3. \A g \in Requests : \/ call'[g] = call[g]
                              \/ call[g].step # "wait" /\ call'[g].step # "wait"
      BY <2>2, <3>1, <3>2, StreamConstants
    <3> QED
      BY <1>1, <1>3, <2>1, <3>3, QuietServing
  <2>5. CASE NotFound(h)
    <3>1. call[h].step = "entity" /\ call' = [call EXCEPT ![h] = Done(h, NotFoundResult(h))]
      BY <2>5 DEF NotFound
    <3>2. \A g \in Requests : \/ call'[g] = call[g]
                              \/ call[g].step # "wait" /\ call'[g].step # "wait"
      BY <2>2, <3>1, StreamConstants, DoneType DEF NotFoundResult
    <3> QED
      BY <1>1, <1>3, <2>1, <3>2, QuietServing
  <2> QED
    BY <1>5, <2>3, <2>4, <2>5
<1>6. ASSUME NEW h \in Requests,
             CreateRouter(h) \/ CreateWebRtcTransport(h) \/ OnTransport(h)
      PROVE  ServingInv'
  BY <1>1, <1>2, <1>3, <1>6, RequestServing
  DEF CreateRouter, CreateWebRtcTransport, OnTransport, Request
<1>7. ASSUME NEW h \in Requests, Return(h) \/ CloseTransport(h) PROVE ServingInv'
  BY <1>1, <1>2, <1>3, <1>7, ReturnServing, CloseTransportServing
  DEF Return, CloseTransport
<1>8. ASSUME NEW k \in Workers, WorkerStep(k) PROVE ServingInv'
  BY <1>1, <1>2, <1>3, <1>8, WorkerHandlesServing, WorkerClosesServing
  DEF WorkerStep, WorkerHandles, WorkerCloses
<1>9. CASE Stop \/ CloseChannels \/ Joined
  BY <1>2, <1>9 DEF Stop, CloseChannels, Joined
<1>10. CASE RouterClosed
  <2>1. call[Main].step = "wait" /\ phase' = phase
    BY <1>10 DEF RouterClosed, WaitOver
  <2> QED
    BY <1>2, <2>1, IdleType DEF RoomsInv, MainInv
<1>11. ASSUME NEW l \in Locations, CloseRouter(l) PROVE ServingInv'
  BY <1>2, <1>11 DEF CloseRouter
<1>12. CASE UNCHANGED vars
  BY <1>1, <1>2, <1>3, <1>12, QuietServing DEF vars
<1> QED
  BY <1>4, <1>5, <1>6, <1>7, <1>8, <1>9, <1>10, <1>11, <1>12
  DEF Next, HandlerStep, MainStep

LEMMA WorkersInvInit == Init => WorkersInv
<1> SUFFICES ASSUME Init PROVE WorkersInv
  OBVIOUS
<1>1. ChannelsType
  BY ChannelsTypeInit
<1>2. \A k \in Workers : m_outQueue[k] = << >> /\ made[k] = {}
  BY DEF Init
<1>3. \A h \in Requests : call[h].step # "wait"
  BY IdleType, StreamConstants DEF Init
<1>4. \A kind, x : x \in Requests => ~InTables(kind, x)
  BY DEF Init, InTables, HasRouter, HasTransport
<1>5. ASSUME NEW k \in Workers PROVE IdInv(k)
  BY <1>2, <1>3 DEF IdInv
<1>6. ServingInv
  BY <1>2, <1>3, <1>4, <1>5 DEF ServingInv, AcceptedInv, BackedInv
<1> QED
  BY <1>1, <1>6 DEF WorkersInv

----------------------------------------------------------------------------
(* The theorems *)

\* Locks, requests and tables, and the worker's side of them (messages, ids, what
\* workers have), fit together in every reachable state of StreamController,
\* MediasoupSfuBackend and WorkerChannel.
THEOREM StreamInductive == Spec => [](RoomsInv /\ WorkersInv)
<1>1. Init => RoomsInv /\ WorkersInv
  BY RoomsInvInit, WorkersInvInit
<1>2. RoomsInv /\ WorkersInv /\ [Next]_vars => (RoomsInv /\ WorkersInv)'
  BY RoomsInvNext, WorkersInvNext DEF WorkersInv
<1> QED
  BY <1>1, <1>2, PTL DEF Spec

\* However many requests for a location run at once, getOrCreateRouter leaves
\* it one router, and every router it leaves belongs to a room.
THEOREM OneRouter == Spec => []OneRouterPerRoom
<1>1. RoomsInv /\ WorkersInv => OneRouterPerRoom
  BY DEF RoomsInv
<1> QED
  BY <1>1, StreamInductive, PTL

\* The tables of MediasoupSfuBackend refer to one another, whatever is closed
\* while others wait.
THEOREM TablesStayLinked == Spec => []TablesLinked
<1>1. RoomsInv /\ WorkersInv => TablesLinked
  BY DEF RoomsInv
<1> QED
  BY <1>1, StreamInductive, PTL

\* What MediasoupSfuBackend has recorded, the worker has, however late, lost or
\* refused the answers of WorkerChannel are.
THEOREM TablesAreBacked == Spec => []TablesBacked
<1>1. RoomsInv /\ WorkersInv => TablesBacked
  <2> SUFFICES ASSUME RoomsInv, WorkersInv, phase = "serving", NEW x \in Requests
               PROVE  /\ HasRouter(x) => LET k == routerToWorker[x] IN
                                         Doomed(k) \/ Has(k, "router", x)
                      /\ HasTransport(x) => LET k == WorkerOf(x) IN
                                            Doomed(k) \/ Has(k, "transport", x)
                      /\ producerToTransport[x] # None =>
                            LET k == WorkerOf(producerToTransport[x]) IN
                            Doomed(k) \/ Has(k, "produce", x)
                      /\ consumerToTransport[x] # None =>
                            LET k == WorkerOf(consumerToTransport[x]) IN
                            Doomed(k) \/ Has(k, "consume", x)
    BY DEF TablesBacked
  <2>1. \A kind \in Kinds : BackedInv(kind, x)
    BY DEF WorkersInv, ServingInv
  <2>2. /\ BackedInv("router", x) /\ BackedInv("transport", x)
        /\ BackedInv("produce", x) /\ BackedInv("consume", x)
    BY <2>1 DEF Kinds
  <2> QED
    BY <2>2 DEF BackedInv, InTables, WorkerFor
<1> QED
  BY <1>1, StreamInductive, PTL

\* What a worker has and MediasoupSfuBackend does not know was created by a
\* request that had given up waiting.
THEOREM LeaksHaveCause == Spec => []LeakHasCause
<1>1. RoomsInv /\ WorkersInv => LeakHasCause
  BY DEF LeakHasCause, WorkersInv, ServingInv, MadeInv
<1> QED
  BY <1>1, StreamInductive, PTL
============================================================================
