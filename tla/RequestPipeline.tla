-------------------------- MODULE RequestPipeline --------------------------
(***************************************************************************)
(* The way of a request through the server: the queue and the worker       *)
(* threads HttpServer sets up, the gates Router puts before a handler, the *)
(* token buckets of RateLimitMiddleware, the event streams that keep their *)
(* worker thread in a loop of their own, and the stop that joins the       *)
(* workers.                                                                *)
(*                                                                         *)
(* Time is relative, in ticks: a bucket has the age of its lastRefill, a   *)
(* request the lag since it read the clock, and a tick makes everything    *)
(* older.  One token takes PeriodOf[k] ticks under key k (an address and a *)
(* path).  The handlers themselves, and the credentials that the           *)
(* authentication asks for, are modelled elsewhere: here they take a       *)
(* worker thread for a while.                                              *)
(***************************************************************************)
EXTENDS Integers, Sequences, FiniteSets

CONSTANTS
    Clients,            \* each has at most one request under way
    Keys,               \* client address and path, as one
    WorkerThreads,      \* cfg.workerThreads
    BurstSize,          \* m_cfg.burstSize
    PeriodOf,           \* key -> ticks for one token, 60 / effectiveRpm
    IdleLimit,          \* ticks: the ten minutes after which a bucket goes
    CleanupInterval,    \* kRateLimitCleanupInterval
    MaxLag              \* bound: ticks a thread waits for m_mutex

ASSUME PipelineAssumption ==
    /\ WorkerThreads \in Nat \ {0}
    /\ BurstSize \in Nat \ {0}
    /\ PeriodOf \in [Keys -> Nat \ {0}]
    /\ CleanupInterval \in Nat \ {0}
    /\ MaxLag \in Nat
    /\ IdleLimit \in Nat
    \* Ten minutes fill an empty bucket at the rates the Router configures,
    \* whatever two waits for m_mutex made of the clock values.
    /\ \A k \in Keys : IdleLimit >= BurstSize * PeriodOf[k] + 2 * MaxLag

VARIABLES
    pc,         \* client -> where its request is
    keyOf,      \* client -> the key of its request, NoKey without a bucket
    lag,        \* client -> ticks since its request read the clock
    connected,  \* client -> the client still reads its stream
    queue,      \* requests no worker has taken yet
    server,     \* "listening", "stopping" (the workers are joined), "stopped"
    m_buckets,  \* key -> bucket
    m_callCount,\* modulo CleanupInterval
    m_channels, \* clients whose sink is subscribed
    fair        \* key -> ticks of credit of an exact bucket

limiterVars == <<m_buckets, m_callCount, fair>>
requestVars == <<pc, keyOf, lag, connected, queue, server, m_channels>>
vars == <<limiterVars, requestVars>>

NoKey == "NoKey"
NoBucket == [tokens |-> 0, age |-> -1]

\* Older than this makes no difference to a bucket any more.
AgeCap == IdleLimit + MaxLag + 1
MinOf(a, b) == IF a < b THEN a ELSE b

Full(k) == BurstSize * PeriodOf[k]

\* The exact bucket is charged when a decision is made, the code's when the
\* clock was read: it is larger by the time between the two.
ExactFull(k) == Full(k) + MaxLag

Init ==
    /\ pc          = [r \in Clients |-> "idle"]
    /\ keyOf       = [r \in Clients |-> NoKey]
    /\ lag         = [r \in Clients |-> 0]
    /\ connected   = [r \in Clients |-> TRUE]
    /\ queue       = << >>
    /\ server      = "listening"
    /\ m_buckets   = [k \in Keys |-> NoBucket]
    /\ m_callCount = 0
    /\ m_channels  = {}
    /\ fair        = [k \in Keys |-> ExactFull(k)]

----------------------------------------------------------------------------
(* The routes, by the chain of gates that Router puts before the handler:  *)
(*   protected  cors, input validation, rate limit, token                  *)
(*   public     cors, input validation, rate limit                         *)
(*   signup     cors, rate limit                                           *)
(*   open       none, or cors that answers a preflight                     *)
(*   stream     token                                                      *)

Chain(chain, methods, resources) == {chain} \X methods \X resources

Writable == {"POST", "GET", "PUT", "DELETE"}

V1Routes ==
    Chain("public", {"GET"}, {"auth/methods"})
    \cup Chain("public", {"POST"}, {"auth"})
    \cup Chain("protected", {"DELETE"}, {"auth"})
    \cup Chain("open", {"OPTIONS"}, {"auth", "any"})
    \cup Chain("protected", {"GET"}, {"auth/me", "computers", "computer",
            "info", "session", "user", "screens", "framebuffer", "features",
            "feature"})
    \cup Chain("protected", {"PUT"}, {"feature"})

AgentRoutes ==
    Chain("public", {"POST"}, {"agents/register"})
    \cup Chain("protected", {"GET"}, {"agents", "status", "commands"})
    \cup Chain("protected", {"POST"}, {"commands", "heartbeat"})
    \cup Chain("protected", {"PUT"}, {"command"})
    \cup Chain("protected", {"DELETE"}, {"agent"})

SchoolRoutes ==
    Chain("protected", Writable, {"schools", "locations"})
    \cup Chain("protected", {"GET"}, {"school", "location",
                                      "location/computers"})

TeacherRoutes ==
    Chain("protected", Writable, {"teachers"})
    \cup Chain("protected", {"POST", "DELETE"}, {"teacher/locations"})

StudentRoutes ==
    Chain("public", {"POST"}, {"students/activate"})
    \cup Chain("protected", Writable, {"students"})
    \cup Chain("protected", {"POST"}, {"reset-machine"})

StreamRoutes ==
    Chain("protected", {"POST"}, {"transport", "connect", "produce", "consume"})
    \cup Chain("protected", {"GET"}, {"ice-servers", "capabilities"})
    \cup Chain("protected", {"DELETE"}, {"transport"})

V2Routes ==
    Chain("protected", {"GET"}, {"v2/locations", "v2/location", "v2/state"})
    \cup Chain("protected", {"POST"}, {"v2/batch/features"})

HealthAndMetricsRoutes ==
    Chain("open", {"GET"}, {"health", "v2/health", "v2/metrics"})

OpenApiRoutes == Chain("open", {"GET"}, {"openapi.json"})

\* Only with HUB32API_DEBUG in the environment.
DebugRoutes == Chain("open", {"GET"}, {"debug/info"})

RegisterRoutes ==
    Chain("open", {"GET"}, {"register"})
    \cup Chain("signup", {"GET"}, {"captcha", "verify"})
    \cup Chain("signup", {"POST"}, {"register"})

ClassRoutes == Chain("protected", Writable, {"classes"})

RequestRoutes ==
    Chain("protected", {"POST"}, {"change-password", "accept", "reject"})
    \cup Chain("protected", {"GET"}, {"inbox", "outbox"})

SseRoutes == Chain("stream", {"GET"}, {"events", "screen/stream"})

Routes ==
    UNION {V1Routes, AgentRoutes, SchoolRoutes, TeacherRoutes, StudentRoutes,
           StreamRoutes, V2Routes, HealthAndMetricsRoutes, OpenApiRoutes,
           DebugRoutes, RegisterRoutes, ClassRoutes, RequestRoutes, SseRoutes}

Chains == {route[1] : route \in Routes}

\* The first gate of a route at which a worker has to wait, or may wait long:
\* the mutex of the limiter, the handler, or the stream.
StageOf(chain) ==
    CASE chain \in {"protected", "public", "signup"} -> "limiter"
      [] chain = "open"   -> "handler"
      [] chain = "stream" -> "subscribe"

\* A gate before the stage may answer: 413, 415, 400 and 422 of the input
\* validation, 401 of a stream.
MayStopEarly(chain) == chain \in {"protected", "public", "stream"}

----------------------------------------------------------------------------
(* Queue and worker threads *)

Working(r) == pc[r] \notin {"idle", "queued"}
WorkerFree == Cardinality({r \in Clients : Working(r)}) < WorkerThreads

SendRequest(r) ==
    /\ server = "listening" /\ pc[r] = "idle"
    /\ pc'    = [pc EXCEPT ![r] = "queued"]
    /\ queue' = Append(queue, r)
    /\ UNCHANGED <<limiterVars, keyOf, lag, connected, server, m_channels>>

\* A worker's request is over.
Answered(r) ==
    /\ pc'        = [pc EXCEPT ![r] = "idle"]
    /\ keyOf'     = [keyOf EXCEPT ![r] = NoKey]
    /\ lag'       = [lag EXCEPT ![r] = 0]
    /\ connected' = [connected EXCEPT ![r] = TRUE]

\* Wrong version: the newest request is taken first.
TakeRequestNewest(r, chain) ==
    /\ WorkerFree /\ queue # << >> /\ r = queue[Len(queue)]
    /\ queue' = SubSeq(queue, 1, Len(queue) - 1)
    /\ pc' = [pc EXCEPT ![r] = StageOf(chain)]
    /\ keyOf' \in IF StageOf(chain) = "limiter"
                  THEN {[keyOf EXCEPT ![r] = k] : k \in Keys} ELSE {keyOf}
    /\ UNCHANGED <<limiterVars, lag, connected, server, m_channels>>

\* A free worker takes the oldest request and runs it through the gates up to
\* the limiter, where it has just read the clock.
TakeRequest(r, chain) ==
    /\ WorkerFree /\ queue # << >> /\ r = Head(queue)
    /\ queue' = Tail(queue)
    /\ \/ /\ MayStopEarly(chain)
          /\ pc' = [pc EXCEPT ![r] = "idle"]
          /\ UNCHANGED keyOf
       \/ /\ pc' = [pc EXCEPT ![r] = StageOf(chain)]
          /\ keyOf' \in IF StageOf(chain) = "limiter"
                        THEN {[keyOf EXCEPT ![r] = k] : k \in Keys}
                        ELSE {keyOf}
    /\ UNCHANGED <<limiterVars, lag, connected, server, m_channels>>

\* The token is checked (protected routes), the handler runs and answers.
FinishRequest(r) ==
    /\ pc[r] = "handler"
    /\ Answered(r)
    /\ UNCHANGED <<limiterVars, queue, server, m_channels>>

----------------------------------------------------------------------------
(* RateLimitMiddleware::process *)

\* Conversion of a double to int: toward zero.
Truncated(ticks, k) ==
    IF ticks >= 0 THEN ticks \div PeriodOf[k] ELSE -((-ticks) \div PeriodOf[k])

\* Wrong version: nearest instead of toward zero.
RefilledRoundsUp(b, now, k) ==
    (MinOf(b.tokens * PeriodOf[k] + (b.age - now), Full(k)) + PeriodOf[k] - 1)
       \div PeriodOf[k]

\* The tokens of bucket b at a clock value now ticks old.  lastRefill may be
\* the younger of the two: elapsed is negative then.
Refilled(b, now, k) ==
    Truncated(MinOf(b.tokens * PeriodOf[k] + (b.age - now), Full(k)), k)

\* What the conversion adds to a bucket below zero.
RoundedUp(b, now, k) ==
    LET ticks == b.tokens * PeriodOf[k] + (b.age - now)
    IN  IF ticks < 0 THEN Refilled(b, now, k) * PeriodOf[k] - ticks ELSE 0

\* Every CleanupInterval-th call removes the buckets of idle keys.
Pruned ==
    [k \in Keys |-> IF m_callCount + 1 = CleanupInterval
                       /\ m_buckets[k].age > IdleLimit
                    THEN NoBucket ELSE m_buckets[k]]

\* The bucket of the key as process finds it, or a new one.
BucketAt(k, now) ==
    IF Pruned[k] = NoBucket THEN [tokens |-> BurstSize, age |-> now]
    ELSE Pruned[k]

\* The critical section of m_mutex, with the clock value read before it.
ProcessLimit(r) ==
    LET k      == keyOf[r]
        bucket == BucketAt(k, lag[r])
        tokens == Refilled(bucket, lag[r], k)
    IN  /\ pc[r] = "limiter"
        /\ m_callCount' = (m_callCount + 1) % CleanupInterval
        /\ IF tokens < 1
           THEN \* 429, Retry-After
                /\ m_buckets' = [Pruned EXCEPT ![k] = [tokens |-> tokens,
                                                       age |-> lag[r]]]
                /\ fair' = [fair EXCEPT ![k] = @ + RoundedUp(bucket, lag[r], k)]
                /\ Answered(r)
           ELSE /\ m_buckets' = [Pruned EXCEPT ![k] = [tokens |-> tokens - 1,
                                                       age |-> lag[r]]]
                /\ fair' = [fair EXCEPT ![k] = @ - PeriodOf[k]]
                /\ pc'  = [pc EXCEPT ![r] = "handler"]
                /\ lag' = [lag EXCEPT ![r] = 0]
                /\ UNCHANGED <<keyOf, connected>>
        /\ UNCHANGED <<queue, server, m_channels>>

----------------------------------------------------------------------------
(* The event streams of registerSse, and SseManager *)

\* The provider is called: SseManager::subscribe.
Subscribe(r) ==
    /\ pc[r] = "subscribe"
    /\ pc' = [pc EXCEPT ![r] = "stream"]
    /\ m_channels' = m_channels \cup {r}
    /\ UNCHANGED <<limiterVars, keyOf, lag, connected, queue, server>>

\* Wrong version: the result of the write is not looked at.
HeartbeatUnchecked(r) ==
    /\ pc[r] = "stream" /\ ~connected[r]
    /\ UNCHANGED vars

\* Every 15 s a heartbeat is written; when that fails the loop is left.
StreamHeartbeat(r) ==
    /\ pc[r] = "stream" /\ ~connected[r]
    /\ pc' = [pc EXCEPT ![r] = "closing"]
    /\ UNCHANGED <<limiterVars, keyOf, lag, connected, queue, server,
                   m_channels>>

\* Wrong version: the provider returns without SseManager::unsubscribe.
UnsubscribeForgotten(r) ==
    /\ pc[r] = "closing"
    /\ Answered(r)
    /\ UNCHANGED <<limiterVars, queue, server, m_channels>>

\* SseManager::unsubscribe, and the provider returns.
Unsubscribe(r) ==
    /\ pc[r] = "closing"
    /\ m_channels' = m_channels \ {r}
    /\ Answered(r)
    /\ UNCHANGED <<limiterVars, queue, server>>

----------------------------------------------------------------------------
(* The environment, and the end of the server *)

\* The client of a stream goes away.
ClientLeaves(r) ==
    /\ pc[r] = "stream" /\ connected[r]
    /\ connected' = [connected EXCEPT ![r] = FALSE]
    /\ UNCHANGED <<limiterVars, pc, keyOf, lag, queue, server, m_channels>>

\* A tick: no thread waits for the limiter longer than MaxLag.
Tick ==
    /\ \A r \in Clients : pc[r] = "limiter" => lag[r] < MaxLag
    /\ lag' = [r \in Clients |-> IF pc[r] = "limiter" THEN lag[r] + 1 ELSE lag[r]]
    /\ m_buckets' =
          [k \in Keys |-> IF m_buckets[k] = NoBucket THEN NoBucket
                          ELSE [m_buckets[k] EXCEPT !.age = MinOf(@ + 1, AgeCap)]]
    /\ fair' = [k \in Keys |-> MinOf(fair[k] + 1, ExactFull(k))]
    /\ UNCHANGED <<m_callCount, pc, keyOf, connected, queue, server, m_channels>>

\* HttpServer::stop: the listener ends; requests in the queue are still served.
Stop ==
    /\ server = "listening"
    /\ server' = "stopping"
    /\ UNCHANGED <<limiterVars, pc, keyOf, lag, connected, queue, m_channels>>

\* The workers have run out of requests and are joined: listen, and with it
\* start, return.
Join ==
    /\ server = "stopping" /\ queue = << >>
    /\ \A r \in Clients : ~Working(r)
    /\ server' = "stopped"
    /\ UNCHANGED <<limiterVars, pc, keyOf, lag, connected, queue, m_channels>>

\* What a worker thread goes on to do.
WorkerStep(r) ==
    \/ \E chain \in Chains : TakeRequest(r, chain)
    \/ ProcessLimit(r)
    \/ FinishRequest(r)
    \/ Subscribe(r)
    \/ StreamHeartbeat(r)
    \/ Unsubscribe(r)

Next ==
    \/ \E r \in Clients : SendRequest(r) \/ WorkerStep(r) \/ ClientLeaves(r)
    \/ Tick
    \/ Stop
    \/ Join

\* Worker threads run: the mutexes are held for short sections only, and the
\* wait of a stream is timed.  The thread in listen joins them.  Time passes.
\* Nothing is assumed of clients.
Fairness ==
    /\ \A r \in Clients : WF_vars(WorkerStep(r))
    /\ WF_vars(Join)
    /\ WF_vars(Tick)

Spec == Init /\ [][Next]_vars /\ Fairness

----------------------------------------------------------------------------
(* Properties *)

\* No key is let through more often than an exact token bucket allows that is
\* charged in the order of the decisions, has MaxLag ticks more to give, and
\* forgives what the conversion to int rounds up when a thread decides with a
\* clock value older than the bucket's.  Neither clock values used out of
\* order nor the removal of idle buckets give a client more.
WithinQuota == \A k \in Keys : fair[k] >= 0

\* A sink refers to the stack of its provider: none is subscribed that is not
\* in the provider's loop.
SinksAreLive == \A r \in m_channels : pc[r] \in {"stream", "closing"}

\* Every worker thread belongs to a stream whose client is there.
PoolHeld ==
    Cardinality({r \in Clients : pc[r] = "stream" /\ connected[r]})
       >= WorkerThreads

\* A request in the queue is taken, unless the streams have all the threads.
QueuedIsTaken ==
    \A r \in Clients : pc[r] = "queued" ~> (pc[r] # "queued" \/ PoolHeld)

\* A stop ends the server, unless the client of a stream stays: nothing tells
\* the loop of a stream that the server is to stop.
StopEndsServer ==
    server = "stopping"
       ~> (server = "stopped" \/ \E r \in Clients : pc[r] = "stream"
                                                     /\ connected[r])

\* "On every request the bucket is first refilled proportionally to the time
\* elapsed since the last visit": a key that keeps asking is let through again
\* and again.
Asking(k)     == \E r \in Clients : pc[r] = "limiter" /\ keyOf[r] = k
LetThrough(k) == \E r \in Clients : pc[r] = "handler" /\ keyOf[r] = k
SteadyIsServed == \A k \in Keys : []<>Asking(k) => []<>LetThrough(k)
============================================================================
