----------------------- MODULE RequestPipelineProofs -----------------------
(***************************************************************************)
(* Proofs about the way of a request through the server: the sinks of the  *)
(* event streams, and the quota of the rate limiter, for any number of     *)
(* clients, keys and worker threads, any burst and any rate.               *)
(***************************************************************************)
EXTENDS RequestPipeline, SequenceTheorems, TLAPS

PcValues == {"idle", "queued", "limiter", "handler", "subscribe", "stream",
             "closing"}

----------------------------------------------------------------------------
(* The queue and the sinks *)

\* The clients in the queue are waiting there, each once.
QueueInv ==
    /\ pc \in [Clients -> PcValues]
    /\ queue \in Seq(Clients)
    /\ \A i \in 1..Len(queue) : pc[queue[i]] = "queued"
    /\ \A i, j \in 1..Len(queue) : queue[i] = queue[j] => i = j

SinkInv ==
    /\ QueueInv
    /\ m_channels \subseteq Clients
    /\ SinksAreLive

ChainNames == {"protected", "public", "signup", "open", "stream"}

\* A route of Chain(c, ...) has the chain c.
LEMMA ChainOfRoute ==
    ASSUME NEW c, NEW methods, NEW resources,
           NEW route \in Chain(c, methods, resources)
    PROVE  route[1] = c
BY DEF Chain

\* A chain of the table of routes leads to one of three stages.
LEMMA StageValues ==
    ASSUME NEW chain \in Chains
    PROVE  StageOf(chain) \in {"limiter", "handler", "subscribe"}
<1>1. PICK route \in Routes : chain = route[1]
  BY DEF Chains
<1>2. ASSUME route \in V1Routes PROVE chain \in ChainNames
  BY <1>1, <1>2, ChainOfRoute, Zenon DEF V1Routes, ChainNames
<1>3. ASSUME route \in AgentRoutes PROVE chain \in ChainNames
  BY <1>1, <1>3, ChainOfRoute, Zenon DEF AgentRoutes, ChainNames
<1>4. ASSUME route \in SchoolRoutes PROVE chain \in ChainNames
  BY <1>1, <1>4, ChainOfRoute, Zenon DEF SchoolRoutes, ChainNames
<1>5. ASSUME route \in TeacherRoutes PROVE chain \in ChainNames
  BY <1>1, <1>5, ChainOfRoute, Zenon DEF TeacherRoutes, ChainNames
<1>6. ASSUME route \in StudentRoutes PROVE chain \in ChainNames
  BY <1>1, <1>6, ChainOfRoute, Zenon DEF StudentRoutes, ChainNames
<1>7. ASSUME route \in StreamRoutes PROVE chain \in ChainNames
  BY <1>1, <1>7, ChainOfRoute, Zenon DEF StreamRoutes, ChainNames
<1>8. ASSUME route \in V2Routes PROVE chain \in ChainNames
  BY <1>1, <1>8, ChainOfRoute, Zenon DEF V2Routes, ChainNames
<1>9. ASSUME route \in HealthAndMetricsRoutes PROVE chain \in ChainNames
  BY <1>1, <1>9, ChainOfRoute, Zenon DEF HealthAndMetricsRoutes, ChainNames
<1>10. ASSUME route \in OpenApiRoutes PROVE chain \in ChainNames
  BY <1>1, <1>10, ChainOfRoute, Zenon DEF OpenApiRoutes, ChainNames
<1>11. ASSUME route \in DebugRoutes PROVE chain \in ChainNames
  BY <1>1, <1>11, ChainOfRoute, Zenon DEF DebugRoutes, ChainNames
<1>12. ASSUME route \in RegisterRoutes PROVE chain \in ChainNames
  BY <1>1, <1>12, ChainOfRoute, Zenon DEF RegisterRoutes, ChainNames
<1>13. ASSUME route \in ClassRoutes PROVE chain \in ChainNames
  BY <1>1, <1>13, ChainOfRoute, Zenon DEF ClassRoutes, ChainNames
<1>14. ASSUME route \in RequestRoutes PROVE chain \in ChainNames
  BY <1>1, <1>14, ChainOfRoute, Zenon DEF RequestRoutes, ChainNames
<1>15. ASSUME route \in SseRoutes PROVE chain \in ChainNames
  BY <1>1, <1>15, ChainOfRoute, Zenon DEF SseRoutes, ChainNames
<1>16. chain \in ChainNames
  BY <1>2, <1>3, <1>4, <1>5, <1>6, <1>7, <1>8,
     <1>9, <1>10, <1>11, <1>12, <1>13, <1>14, <1>15 DEF Routes
<1>17. QED
  BY <1>16 DEF StageOf, ChainNames
\* The first request of the queue leaves it.
LEMMA QueueTail ==
    ASSUME QueueInv, queue # << >>
    PROVE  /\ Head(queue) \in Clients /\ pc[Head(queue)] = "queued"
           /\ Tail(queue) \in Seq(Clients)
           /\ \A i \in 1..Len(Tail(queue)) :
                 /\ pc[Tail(queue)[i]] = "queued"
                 /\ Tail(queue)[i] # Head(queue)
           /\ \A i, j \in 1..Len(Tail(queue)) :
                 Tail(queue)[i] = Tail(queue)[j] => i = j
<1>1. /\ queue \in Seq(Clients) /\ Len(queue) \in Nat /\ Len(queue) >= 1
      /\ Head(queue) = queue[1] /\ queue[1] \in Clients
      /\ Tail(queue) \in Seq(Clients) /\ Len(Tail(queue)) = Len(queue) - 1
  BY DEF QueueInv
<1>2. \A i \in 1..Len(Tail(queue)) :
         /\ Tail(queue)[i] = queue[i + 1]
         /\ i + 1 \in 1..Len(queue) /\ i + 1 # 1
  BY <1>1
<1>3. 1 \in 1..Len(queue)
  BY <1>1
<1>4. pc[Head(queue)] = "queued"
  BY <1>1, <1>3 DEF QueueInv
<1>5. ASSUME NEW i \in 1..Len(Tail(queue))
      PROVE  pc[Tail(queue)[i]] = "queued" /\ Tail(queue)[i] # Head(queue)
  BY <1>1, <1>2, <1>3 DEF QueueInv
<1>6. ASSUME NEW i \in 1..Len(Tail(queue)), NEW j \in 1..Len(Tail(queue)),
             Tail(queue)[i] = Tail(queue)[j]
      PROVE  i = j
  <2>1. queue[i + 1] = queue[j + 1]
    BY <1>2, <1>6
  <2>2. i + 1 = j + 1
    BY <1>2, <2>1 DEF QueueInv
  <2> QED
    BY <1>1, <2>2
<1> QED
  BY <1>1, <1>4, <1>5, <1>6

\* A request that is not in the queue changes its place.
LEMMA QueueElsewhere ==
    ASSUME QueueInv, NEW r \in Clients, pc[r] # "queued", queue' = queue,
           NEW v \in PcValues, pc' = [pc EXCEPT ![r] = v]
    PROVE  QueueInv'
<1>1. \A i \in 1..Len(queue) : queue[i] \in Clients /\ queue[i] # r
  BY DEF QueueInv
<1> QED
  BY <1>1 DEF QueueInv

LEMMA SinkInvInit == Init => SinkInv
BY DEF Init, SinkInv, QueueInv, SinksAreLive, PcValues

LEMMA SinkInvNext == SinkInv /\ [Next]_vars => SinkInv'
<1> SUFFICES ASSUME SinkInv, [Next]_vars
             PROVE  SinkInv'
  OBVIOUS
<1> USE DEF SinkInv
<1>1. ASSUME NEW r \in Clients, SendRequest(r)
      PROVE  SinkInv'
  <2>1. /\ pc \in [Clients -> PcValues] /\ pc[r] = "idle"
        /\ pc' = [pc EXCEPT ![r] = "queued"]
        /\ queue' = Append(queue, r) /\ m_channels' = m_channels
        /\ queue \in Seq(Clients) /\ Len(queue) \in Nat
    BY <1>1 DEF SendRequest, QueueInv
  <2>2. /\ queue' \in Seq(Clients) /\ Len(queue') = Len(queue) + 1
        /\ queue'[Len(queue) + 1] = r
    BY <2>1
  <2>3. \A i \in 1..Len(queue) : queue'[i] = queue[i] /\ queue[i] \in Clients
                                 /\ queue[i] # r /\ pc'[queue[i]] = "queued"
    BY <2>1 DEF QueueInv
  <2>4. \A i \in 1..Len(queue') : i \in 1..Len(queue) \/ i = Len(queue) + 1
    BY <2>1, <2>2
  <2>5. \A i \in 1..Len(queue') : pc'[queue'[i]] = "queued"
    BY <2>1, <2>2, <2>3, <2>4
  <2>6. \A i, j \in 1..Len(queue') : queue'[i] = queue'[j] => i = j
    BY <2>2, <2>3, <2>4 DEF QueueInv
  <2>7. QueueInv'
    BY <2>1, <2>2, <2>5, <2>6 DEF QueueInv, PcValues
  <2> QED
    BY <2>1, <2>7 DEF SinksAreLive
<1>2. ASSUME NEW r \in Clients, NEW chain \in Chains, TakeRequest(r, chain)
      PROVE  SinkInv'
  <2>1. PICK v \in PcValues : pc' = [pc EXCEPT ![r] = v]
    BY <1>2, StageValues DEF TakeRequest, PcValues
  <2>2. /\ queue # << >> /\ r = Head(queue) /\ queue' = Tail(queue)
        /\ m_channels' = m_channels
    BY <1>2 DEF TakeRequest
  <2>3. \A i \in 1..Len(queue') : queue'[i] \in Clients
    BY <2>2, QueueTail
  <2>4. QueueInv'
    BY <2>1, <2>2, <2>3, QueueTail DEF QueueInv
  <2>5. pc[r] = "queued"
    BY <2>2, QueueTail
  <2> QED
    BY <2>1, <2>2, <2>4, <2>5 DEF SinksAreLive, QueueInv
<1>3. ASSUME NEW r \in Clients, ProcessLimit(r)
      PROVE  SinkInv'
  <2>1. PICK v \in {"idle", "handler"} : pc' = [pc EXCEPT ![r] = v]
    BY <1>3 DEF ProcessLimit, Answered
  <2>2. pc[r] = "limiter" /\ queue' = queue /\ m_channels' = m_channels
    BY <1>3 DEF ProcessLimit
  <2>3. QueueInv'
    BY <2>1, <2>2, QueueElsewhere DEF PcValues
  <2> QED
    BY <2>1, <2>2, <2>3 DEF SinksAreLive, QueueInv
<1>4. ASSUME NEW r \in Clients, FinishRequest(r)
      PROVE  SinkInv'
  <2>1. QueueInv'
    BY <1>4, QueueElsewhere DEF FinishRequest, Answered, PcValues
  <2> QED
    BY <1>4, <2>1 DEF FinishRequest, Answered, SinksAreLive, QueueInv
<1>5. ASSUME NEW r \in Clients, Subscribe(r)
      PROVE  SinkInv'
  <2>1. QueueInv'
    BY <1>5, QueueElsewhere DEF Subscribe, PcValues
  <2> QED
    BY <1>5, <2>1 DEF Subscribe, SinksAreLive, QueueInv
<1>6. ASSUME NEW r \in Clients, StreamHeartbeat(r)
      PROVE  SinkInv'
  <2>1. QueueInv'
    BY <1>6, QueueElsewhere DEF StreamHeartbeat, PcValues
  <2> QED
    BY <1>6, <2>1 DEF StreamHeartbeat, SinksAreLive, QueueInv
<1>7. ASSUME NEW r \in Clients, Unsubscribe(r)
      PROVE  SinkInv'
  <2>1. QueueInv'
    BY <1>7, QueueElsewhere DEF Unsubscribe, Answered, PcValues
  <2> QED
    BY <1>7, <2>1 DEF Unsubscribe, Answered, SinksAreLive, QueueInv
<1>8. ASSUME UNCHANGED <<pc, queue, m_channels>>
      PROVE  SinkInv'
  BY <1>8 DEF QueueInv, SinksAreLive
<1>9. ASSUME NEW r \in Clients, ClientLeaves(r)
      PROVE  SinkInv'
  BY <1>8, <1>9 DEF ClientLeaves
<1>10. CASE Tick \/ Stop \/ Join
  BY <1>8, <1>10 DEF Tick, Stop, Join
<1>11. CASE UNCHANGED vars
  BY <1>8, <1>11 DEF vars, requestVars
<1> QED
  BY <1>1, <1>2, <1>3, <1>4, <1>5, <1>6, <1>7, <1>9, <1>10, <1>11
  DEF Next, WorkerStep

\* Every subscribed sink belongs to a provider that is still in its loop, for
\* any number of streams and workers: SseManager never holds a sink whose
\* stack frame is gone.
THEOREM SinksLive == Spec => []SinksAreLive
<1>1. SinkInv => SinksAreLive
  BY DEF SinkInv
<1> QED
  BY <1>1, SinkInvInit, SinkInvNext, PTL DEF Spec

----------------------------------------------------------------------------
(* The quota of the rate limiter *)

\* What a bucket promises to a request that reads the clock now, in ticks.
Worth(b, k) == b.tokens * PeriodOf[k] + b.age

\* The exact bucket of key k with credit f gives at least what bucket b will.
\* A key without a bucket gets a full one, so its exact bucket is full.  A
\* bucket below zero is so by less than one wait for the mutex.
Backed(b, k, f) ==
    IF b = NoBucket
    THEN f >= ExactFull(k)
    ELSE /\ b.age >= 0
         /\ b.tokens * PeriodOf[k] >= -MaxLag
         /\ Worth(b, k) >= 0
         /\ f >= MinOf(Worth(b, k), ExactFull(k))

QuotaType ==
    /\ pc \in [Clients -> PcValues]
    /\ keyOf \in [Clients -> Keys \cup {NoKey}]
    /\ \A r \in Clients : pc[r] = "limiter" => keyOf[r] \in Keys
    /\ lag \in [Clients -> 0..MaxLag]
    /\ m_buckets \in [Keys -> [tokens : Int, age : Int]]
    /\ fair \in [Keys -> Int]

QuotaInv ==
    /\ QuotaType
    /\ \A k \in Keys : Backed(m_buckets[k], k, fair[k])

LEMMA Periods ==
    ASSUME NEW k \in Keys
    PROVE  /\ PeriodOf[k] \in Nat /\ PeriodOf[k] > 0
           /\ Full(k) \in Nat /\ MaxLag \in Nat
           /\ ExactFull(k) = Full(k) + MaxLag
           /\ IdleLimit \in Nat /\ IdleLimit >= Full(k) + 2 * MaxLag
           /\ AgeCap = IdleLimit + MaxLag + 1
           /\ BurstSize \in Nat /\ Full(k) = BurstSize * PeriodOf[k]
<1>1. /\ PeriodOf[k] \in Nat /\ PeriodOf[k] > 0 /\ BurstSize \in Nat
      /\ MaxLag \in Nat /\ IdleLimit \in Nat
      /\ IdleLimit >= BurstSize * PeriodOf[k] + 2 * MaxLag
  BY PipelineAssumption
<1>2. BurstSize * PeriodOf[k] \in Nat
  BY <1>1
<1> QED
  BY <1>1, <1>2 DEF Full, ExactFull, AgeCap

\* What the division leaves.
LEMMA Quotient ==
    ASSUME NEW x \in Nat, NEW p \in Nat, p > 0
    PROVE  x \div p \in Nat /\ (x \div p) * p <= x
OBVIOUS

\* The conversion to int never makes a credit larger, nor a debt.
LEMMA TruncatedFacts ==
    ASSUME NEW k \in Keys, NEW x \in Int
    PROVE  /\ Truncated(x, k) \in Int
           /\ x >= 0 => Truncated(x, k) \in Nat /\ Truncated(x, k) * PeriodOf[k] <= x
           /\ x < 0 => Truncated(x, k) <= 0 /\ Truncated(x, k) * PeriodOf[k] >= x
<1>1. PeriodOf[k] \in Nat /\ PeriodOf[k] > 0
  BY Periods
<1>2. CASE x >= 0
  BY <1>1, <1>2, Quotient DEF Truncated
<1>3. CASE x < 0
  <2>1. PICK q \in Nat : q = (-x) \div PeriodOf[k] /\ q * PeriodOf[k] <= -x
    BY <1>1, <1>3, Quotient
  <2>2. Truncated(x, k) = -q
    BY <1>3, <2>1 DEF Truncated
  <2>3. (-q) * PeriodOf[k] = -(q * PeriodOf[k])
    BY <1>1, <2>1
  <2> QED
    BY <1>1, <1>3, <2>1, <2>2, <2>3
<1> QED
  BY <1>2, <1>3

\* A bucket that is there, as its tokens in ticks.
LEMMA BackedBucket ==
    ASSUME NEW k \in Keys, NEW t \in Int, NEW l \in Nat, NEW f \in Int,
           t * PeriodOf[k] >= -MaxLag, t * PeriodOf[k] + l >= 0,
           f >= MinOf(t * PeriodOf[k] + l, ExactFull(k))
    PROVE  Backed([tokens |-> t, age |-> l], k, f)
<1>1. [tokens |-> t, age |-> l] # NoBucket
  BY DEF NoBucket
<1> QED
  BY <1>1 DEF Backed, Worth

\* One decision of the limiter on a bucket that is there: the exact bucket is
\* charged no less than the code's one loses.
LEMMA Decision ==
    ASSUME NEW k \in Keys, NEW b \in [tokens : Int, age : Int], b # NoBucket,
           NEW f \in Int, Backed(b, k, f), NEW l \in 0..MaxLag,
           NEW t, t = Refilled(b, l, k)
    PROVE  /\ t \in Int
           /\ RoundedUp(b, l, k) \in Int
           /\ t < 1 => Backed([tokens |-> t, age |-> l], k,
                              f + RoundedUp(b, l, k))
           /\ t >= 1 => Backed([tokens |-> t - 1, age |-> l], k,
                               f - PeriodOf[k])
<1> DEFINE P == PeriodOf[k]
           X == b.tokens * P
           ticks == X + (b.age - l)
<1>1. /\ P \in Nat /\ P > 0 /\ Full(k) \in Nat /\ MaxLag \in Nat
      /\ ExactFull(k) = Full(k) + MaxLag
  BY Periods
<1>2. /\ b.tokens \in Int /\ b.age \in Nat /\ X \in Int /\ l \in Nat
      /\ l <= MaxLag /\ ticks \in Int
  BY <1>1 DEF Backed
<1>3. /\ X >= -MaxLag /\ X + b.age >= 0
      /\ f >= MinOf(X + b.age, ExactFull(k))
  BY DEF Backed, Worth
<1>4. t = Truncated(MinOf(ticks, Full(k)), k)
  BY DEF Refilled
<1>5. RoundedUp(b, l, k) = IF ticks < 0 THEN t * P - ticks ELSE 0
  BY DEF RoundedUp
<1>6. MinOf(ticks, Full(k)) \in Int
  BY <1>1, <1>2 DEF MinOf
<1>7. t \in Int /\ t * P \in Int
  BY <1>1, <1>4, <1>6, TruncatedFacts
<1>8. RoundedUp(b, l, k) \in Int
  BY <1>2, <1>5, <1>7
<1> HIDE DEF P, X
<1>9. CASE ticks < 0
  <2>1. MinOf(ticks, Full(k)) = ticks
    BY <1>1, <1>2, <1>9 DEF MinOf
  <2>2. t <= 0 /\ t * P >= ticks
    BY <1>2, <1>4, <1>9, <2>1, TruncatedFacts DEF P
  <2>3. t * P >= -MaxLag /\ t * P + l >= 0
    BY <1>1, <1>2, <1>3, <1>7, <2>2
  <2>4. f + RoundedUp(b, l, k) >= MinOf(t * P + l, ExactFull(k))
    <3>1. t * P + l = X + b.age + RoundedUp(b, l, k)
      BY <1>2, <1>5, <1>7, <1>9
    <3>2. RoundedUp(b, l, k) >= 0
      BY <1>2, <1>5, <1>7, <1>9, <2>2
    <3> QED
      BY <1>1, <1>2, <1>3, <1>7, <1>8, <3>1, <3>2 DEF MinOf
  <2>5. Backed([tokens |-> t, age |-> l], k, f + RoundedUp(b, l, k))
    <3>1. f + RoundedUp(b, l, k) \in Int
      BY <1>8
    <3> QED
      BY <1>2, <1>7, <2>3, <2>4, <3>1, BackedBucket, Zenon DEF P
  <2>6. ~(t >= 1)
    BY <1>7, <2>2
  <2> QED
    BY <1>7, <1>8, <2>5, <2>6
<1>10. CASE ticks >= 0
  <2>1. /\ MinOf(ticks, Full(k)) >= 0 /\ MinOf(ticks, Full(k)) <= ticks
        /\ MinOf(ticks, Full(k)) <= Full(k)
    BY <1>1, <1>2, <1>10 DEF MinOf
  <2>2. t \in Nat /\ t * P <= MinOf(ticks, Full(k))
    BY <1>4, <1>6, <2>1, TruncatedFacts DEF P
  <2>3. t * P <= ticks /\ t * P <= Full(k)
    BY <1>1, <1>2, <1>6, <1>7, <2>1, <2>2
  <2>4. RoundedUp(b, l, k) = 0
    BY <1>2, <1>5, <1>10
  <2>5. f >= t * P + l
    <3>1. t * P + l <= X + b.age /\ t * P + l <= ExactFull(k)
      BY <1>1, <1>2, <1>7, <2>3
    <3> QED
      BY <1>1, <1>2, <1>3, <1>7, <3>1 DEF MinOf
  <2>6. ASSUME t < 1
        PROVE  Backed([tokens |-> t, age |-> l], k, f + RoundedUp(b, l, k))
    <3>1. t = 0
      BY <2>2, <2>6
    <3>2. t * P = 0
      BY <1>1, <3>1
    <3>3. f + RoundedUp(b, l, k) >= MinOf(t * P + l, ExactFull(k))
      BY <1>1, <1>2, <2>4, <2>5, <3>2 DEF MinOf
    <3>4. /\ f + RoundedUp(b, l, k) \in Int /\ t * P >= -MaxLag
          /\ t * P + l >= 0
      BY <1>1, <1>2, <1>8, <3>2
    <3> QED
      BY <1>2, <1>7, <3>3, <3>4, BackedBucket, Zenon DEF P
  <2>7. ASSUME t >= 1
        PROVE  Backed([tokens |-> t - 1, age |-> l], k, f - P)
    <3>1. t - 1 \in Nat /\ (t - 1) * P = t * P - P
      BY <1>1, <1>7, <2>7
    <3>2. (t - 1) * P >= 0
      BY <1>1, <3>1
    <3>3. f - P >= MinOf((t - 1) * P + l, ExactFull(k))
      BY <1>1, <1>2, <1>7, <2>5, <3>1 DEF MinOf
    <3>4. /\ f - P \in Int /\ t - 1 \in Int
          /\ (t - 1) * P >= -MaxLag /\ (t - 1) * P + l >= 0
      BY <1>1, <1>2, <1>7, <3>1, <3>2
    <3> QED
      BY <1>2, <3>3, <3>4, BackedBucket, Zenon DEF P
  <2> QED
    BY <1>7, <1>8, <2>6, <2>7 DEF P
<1> QED
  BY <1>2, <1>9, <1>10

\* A bucket that is removed leaves a full exact one behind.
LEMMA PrunedBacked ==
    ASSUME NEW k \in Keys, QuotaInv
    PROVE  /\ Pruned[k] \in [tokens : Int, age : Int]
           /\ Backed(Pruned[k], k, fair[k])
<1>1. Pruned[k] = IF m_callCount + 1 = CleanupInterval
                     /\ m_buckets[k].age > IdleLimit
                  THEN NoBucket ELSE m_buckets[k]
  BY DEF Pruned
<1>2. /\ m_buckets[k] \in [tokens : Int, age : Int] /\ fair[k] \in Int
      /\ Backed(m_buckets[k], k, fair[k])
  BY DEF QuotaInv, QuotaType
<1>3. NoBucket \in [tokens : Int, age : Int]
  BY DEF NoBucket
<1>4. ASSUME m_buckets[k].age > IdleLimit, m_buckets[k] # NoBucket
      PROVE  fair[k] >= ExactFull(k)
  <2> DEFINE X == m_buckets[k].tokens * PeriodOf[k]
             a == m_buckets[k].age
  <2>1. /\ PeriodOf[k] \in Nat /\ Full(k) \in Nat /\ MaxLag \in Nat
        /\ ExactFull(k) = Full(k) + MaxLag /\ IdleLimit \in Nat
        /\ IdleLimit >= Full(k) + 2 * MaxLag
    BY Periods
  <2>2. X \in Int /\ a \in Int /\ a > IdleLimit
    BY <1>2, <1>4, <2>1
  <2>3. X >= -MaxLag /\ fair[k] >= MinOf(X + a, ExactFull(k))
    BY <1>2, <1>4 DEF Backed, Worth
  <2> HIDE DEF X, a
  <2> QED
    BY <1>2, <2>1, <2>2, <2>3 DEF MinOf
<1>5. ASSUME m_buckets[k].age > IdleLimit
      PROVE  Backed(NoBucket, k, fair[k])
  BY <1>2, <1>4, <1>5 DEF Backed
<1> QED
  BY <1>1, <1>2, <1>3, <1>5

\* The bucket that process works on is backed, new or not.
LEMMA BucketAtBacked ==
    ASSUME NEW k \in Keys, QuotaInv, NEW l \in 0..MaxLag
    PROVE  /\ BucketAt(k, l) \in [tokens : Int, age : Int]
           /\ BucketAt(k, l) # NoBucket
           /\ Backed(BucketAt(k, l), k, fair[k])
<1>1. CASE Pruned[k] = NoBucket
  <2>1. BucketAt(k, l) = [tokens |-> BurstSize, age |-> l]
    BY <1>1 DEF BucketAt
  <2>2. /\ BurstSize \in Nat /\ Full(k) = BurstSize * PeriodOf[k]
        /\ Full(k) \in Nat /\ MaxLag \in Nat
        /\ ExactFull(k) = Full(k) + MaxLag
    BY Periods
  <2>3. l \in Nat /\ l <= MaxLag
    BY <2>2
  <2>4. fair[k] \in Int /\ fair[k] >= ExactFull(k)
    BY <1>1, PrunedBacked DEF Backed, QuotaInv, QuotaType
  <2>5. /\ fair[k] >= MinOf(BurstSize * PeriodOf[k] + l, ExactFull(k))
        /\ BurstSize * PeriodOf[k] >= -MaxLag
        /\ BurstSize * PeriodOf[k] + l >= 0 /\ BurstSize \in Int
    BY <2>2, <2>3, <2>4 DEF MinOf
  <2>6. Backed(BucketAt(k, l), k, fair[k])
    BY <2>1, <2>3, <2>4, <2>5, BackedBucket, Zenon
  <2> QED
    BY <2>1, <2>2, <2>3, <2>6 DEF NoBucket
<1>2. CASE Pruned[k] # NoBucket
  BY <1>2, PrunedBacked DEF BucketAt
<1> QED
  BY <1>1, <1>2

\* A tick makes a bucket and its exact one older alike.
LEMMA TickBacked ==
    ASSUME NEW k \in Keys, NEW b \in [tokens : Int, age : Int], b # NoBucket,
           NEW f \in Int, Backed(b, k, f)
    PROVE  /\ [b EXCEPT !.age = MinOf(@ + 1, AgeCap)] \in [tokens : Int, age : Int]
           /\ Backed([b EXCEPT !.age = MinOf(@ + 1, AgeCap)], k,
                     MinOf(f + 1, ExactFull(k)))
<1> DEFINE X == b.tokens * PeriodOf[k]
           a == MinOf(b.age + 1, AgeCap)
           g == MinOf(f + 1, ExactFull(k))
<1>1. /\ PeriodOf[k] \in Nat /\ Full(k) \in Nat /\ MaxLag \in Nat
      /\ ExactFull(k) = Full(k) + MaxLag /\ IdleLimit \in Nat
      /\ AgeCap = IdleLimit + MaxLag + 1
  BY Periods
<1>2. b.tokens \in Int /\ b.age \in Int /\ X \in Int
  BY <1>1
<1>3. /\ b.age >= 0 /\ X >= -MaxLag /\ X + b.age >= 0
      /\ f >= MinOf(X + b.age, ExactFull(k))
  BY DEF Backed, Worth
<1>4. [b EXCEPT !.age = MinOf(@ + 1, AgeCap)] = [tokens |-> b.tokens, age |-> a]
  OBVIOUS
<1> HIDE DEF X
<1>5. a \in Nat /\ X + a >= 0 /\ a <= b.age + 1
  BY <1>1, <1>2, <1>3 DEF MinOf
<1>6. g \in Int /\ g >= MinOf(X + a, ExactFull(k))
  BY <1>1, <1>2, <1>3, <1>5 DEF MinOf
<1> HIDE DEF a, g
<1>7. Backed([tokens |-> b.tokens, age |-> a], k, g)
  BY <1>2, <1>3, <1>5, <1>6, BackedBucket, Zenon DEF X
<1> QED
  BY <1>2, <1>4, <1>5, <1>7 DEF g

LEMMA QuotaInvInit == Init => QuotaInv
<1> SUFFICES ASSUME Init PROVE QuotaInv
  OBVIOUS
<1>1. MaxLag \in Nat /\ 0 \in 0..MaxLag
  BY PipelineAssumption
<1>2. \A k \in Keys : ExactFull(k) \in Int
  BY Periods
<1>3. NoBucket \in [tokens : Int, age : Int]
  BY DEF NoBucket
<1>4. QuotaType
  BY <1>1, <1>2, <1>3 DEF Init, QuotaType, PcValues
<1>5. ASSUME NEW k \in Keys PROVE Backed(m_buckets[k], k, fair[k])
  <2>1. m_buckets[k] = NoBucket /\ fair[k] = ExactFull(k)
    BY DEF Init
  <2>2. ExactFull(k) >= ExactFull(k)
    BY <1>2
  <2> QED
    BY <2>1, <2>2 DEF Backed
<1> QED
  BY <1>4, <1>5 DEF QuotaInv

\* A request goes on without meeting the limiter's tables.
LEMMA QuotaElsewhere ==
    ASSUME QuotaInv, UNCHANGED <<m_buckets, fair>>, NEW r \in Clients,
           NEW v \in PcValues, pc' = [pc EXCEPT ![r] = v],
           NEW key \in Keys \cup {NoKey}, v = "limiter" => key \in Keys,
           keyOf' = [keyOf EXCEPT ![r] = key],
           lag' = lag \/ lag' = [lag EXCEPT ![r] = 0]
    PROVE  QuotaInv'
<1>1. 0 \in 0..MaxLag
  BY PipelineAssumption
<1>2. QuotaType'
  BY <1>1 DEF QuotaInv, QuotaType
<1>3. \A k \in Keys : Backed(m_buckets[k], k, fair[k])'
  BY DEF QuotaInv, Backed, Worth
<1> QED
  BY <1>2, <1>3 DEF QuotaInv

LEMMA LimitKeepsQuota ==
    ASSUME QuotaInv, NEW r \in Clients, ProcessLimit(r)
    PROVE  QuotaInv'
<1> DEFINE k == keyOf[r]
           l == lag[r]
           b == BucketAt(k, l)
           t == Refilled(b, l, k)
<1>1. k \in Keys /\ l \in 0..MaxLag /\ pc[r] = "limiter"
  BY DEF ProcessLimit, QuotaInv, QuotaType
<1>2. /\ b \in [tokens : Int, age : Int] /\ b # NoBucket
      /\ Backed(b, k, fair[k])
  BY <1>1, BucketAtBacked
<1>3. fair \in [Keys -> Int] /\ PeriodOf[k] \in Int /\ l \in Int /\ 0 \in 0..MaxLag
  BY <1>1, Periods DEF QuotaInv, QuotaType
<1>4. /\ t \in Int /\ RoundedUp(b, l, k) \in Int
      /\ t < 1 => Backed([tokens |-> t, age |-> l], k,
                         fair[k] + RoundedUp(b, l, k))
      /\ t >= 1 => Backed([tokens |-> t - 1, age |-> l], k,
                          fair[k] - PeriodOf[k])
  BY <1>1, <1>2, <1>3, Decision
<1>5. /\ Pruned \in [Keys -> [tokens : Int, age : Int]]
      /\ \A j \in Keys : Backed(Pruned[j], j, fair[j])
  <2>1. Pruned = [j \in Keys |-> Pruned[j]]
    BY DEF Pruned
  <2> QED
    BY <2>1, PrunedBacked
<1>6. ASSUME t < 1 PROVE QuotaInv'
  <2>1. /\ m_buckets' = [Pruned EXCEPT ![k] = [tokens |-> t, age |-> l]]
        /\ fair' = [fair EXCEPT ![k] = @ + RoundedUp(b, l, k)]
        /\ Answered(r)
    BY <1>6 DEF ProcessLimit
  <2> HIDE DEF b, t, k, l
  <2>2. m_buckets' \in [Keys -> [tokens : Int, age : Int]] /\ fair' \in [Keys -> Int]
    BY <1>1, <1>3, <1>4, <1>5, <2>1
  <2>3. QuotaType'
    BY <1>3, <2>1, <2>2 DEF QuotaInv, QuotaType, Answered, PcValues
  <2>4. \A j \in Keys : Backed(m_buckets'[j], j, fair'[j])
    <3>1. /\ m_buckets'[k] = [tokens |-> t, age |-> l]
          /\ fair'[k] = fair[k] + RoundedUp(b, l, k)
      BY <1>1, <1>3, <1>5, <2>1
    <3>2. \A j \in Keys \ {k} : m_buckets'[j] = Pruned[j] /\ fair'[j] = fair[j]
      BY <1>1, <1>3, <1>5, <2>1
    <3> QED
      BY <1>4, <1>5, <1>6, <3>1, <3>2
  <2> QED
    BY <2>3, <2>4 DEF QuotaInv, Backed, Worth
<1>7. ASSUME t >= 1 PROVE QuotaInv'
  <2>1. /\ m_buckets' = [Pruned EXCEPT ![k] = [tokens |-> t - 1, age |-> l]]
        /\ fair' = [fair EXCEPT ![k] = @ - PeriodOf[k]]
        /\ pc' = [pc EXCEPT ![r] = "handler"]
        /\ lag' = [lag EXCEPT ![r] = 0] /\ keyOf' = keyOf
    <3>1. ~(t < 1)
      BY <1>4, <1>7
    <3> QED
      BY <3>1 DEF ProcessLimit
  <2> HIDE DEF b, t, k, l
  <2>2. m_buckets' \in [Keys -> [tokens : Int, age : Int]] /\ fair' \in [Keys -> Int]
    BY <1>1, <1>3, <1>4, <1>5, <2>1
  <2>3. QuotaType'
    BY <1>3, <2>1, <2>2 DEF QuotaInv, QuotaType, PcValues
  <2>4. \A j \in Keys : Backed(m_buckets'[j], j, fair'[j])
    <3>1. /\ m_buckets'[k] = [tokens |-> t - 1, age |-> l]
          /\ fair'[k] = fair[k] - PeriodOf[k]
      BY <1>1, <1>3, <1>5, <2>1
    <3>2. \A j \in Keys \ {k} : m_buckets'[j] = Pruned[j] /\ fair'[j] = fair[j]
      BY <1>1, <1>3, <1>5, <2>1
    <3> QED
      BY <1>4, <1>5, <1>7, <3>1, <3>2
  <2> QED
    BY <2>3, <2>4 DEF QuotaInv, Backed, Worth
<1> QED
  BY <1>4, <1>6, <1>7

LEMMA TickKeepsQuota ==
    ASSUME QuotaInv, Tick
    PROVE  QuotaInv'
<1>1. MaxLag \in Nat
  BY PipelineAssumption
<1>2. lag' \in [Clients -> 0..MaxLag]
  <2> SUFFICES ASSUME NEW r \in Clients
               PROVE  (IF pc[r] = "limiter" THEN lag[r] + 1 ELSE lag[r]) \in 0..MaxLag
    BY DEF Tick
  <2>1. lag[r] \in 0..MaxLag
    BY DEF QuotaInv, QuotaType
  <2>2. pc[r] = "limiter" => lag[r] < MaxLag
    BY DEF Tick
  <2> QED
    BY <1>1, <2>1, <2>2
<1>3. ASSUME NEW k \in Keys
      PROVE  /\ m_buckets'[k] \in [tokens : Int, age : Int]
             /\ fair'[k] \in Int
             /\ Backed(m_buckets'[k], k, fair'[k])
  <2>1. /\ m_buckets[k] \in [tokens : Int, age : Int] /\ fair[k] \in Int
        /\ Backed(m_buckets[k], k, fair[k])
    BY DEF QuotaInv, QuotaType
  <2>2. /\ m_buckets'[k] = IF m_buckets[k] = NoBucket THEN NoBucket
                           ELSE [m_buckets[k] EXCEPT !.age = MinOf(@ + 1, AgeCap)]
        /\ fair'[k] = MinOf(fair[k] + 1, ExactFull(k))
    BY DEF Tick
  <2>3. ExactFull(k) \in Int
    BY Periods
  <2>4. fair'[k] \in Int
    BY <2>1, <2>2, <2>3 DEF MinOf
  <2>5. CASE m_buckets[k] = NoBucket
    <3>1. fair[k] >= ExactFull(k)
      BY <2>1, <2>5 DEF Backed
    <3>2. fair'[k] >= ExactFull(k)
      BY <2>1, <2>2, <2>3, <3>1 DEF MinOf
    <3> QED
      BY <2>1, <2>2, <2>4, <2>5, <3>2 DEF Backed
  <2>6. CASE m_buckets[k] # NoBucket
    BY <2>1, <2>2, <2>4, <2>6, TickBacked
  <2> QED
    BY <2>5, <2>6
<1>4. m_buckets' \in [Keys -> [tokens : Int, age : Int]]
  BY <1>3 DEF Tick
<1>5. fair' \in [Keys -> Int]
  BY <1>3 DEF Tick
<1>6. QuotaType'
  BY <1>2, <1>4, <1>5 DEF QuotaInv, QuotaType, Tick
<1> QED
  BY <1>3, <1>6 DEF QuotaInv, Backed, Worth

LEMMA QuotaInvNext == QuotaInv /\ [Next]_vars => QuotaInv'
<1> SUFFICES ASSUME QuotaInv, [Next]_vars
             PROVE  QuotaInv'
  OBVIOUS
<1>1. \A r \in Clients : /\ keyOf[r] \in Keys \cup {NoKey}
                         /\ keyOf = [keyOf EXCEPT ![r] = keyOf[r]]
  BY DEF QuotaInv, QuotaType
<1>2. ASSUME NEW r \in Clients, SendRequest(r)
      PROVE  QuotaInv'
  BY <1>1, <1>2, QuotaElsewhere DEF SendRequest, limiterVars, PcValues
<1>3. ASSUME NEW r \in Clients, NEW chain \in Chains, TakeRequest(r, chain)
      PROVE  QuotaInv'
  <2>1. UNCHANGED <<m_buckets, fair>> /\ lag' = lag
    BY <1>3 DEF TakeRequest, limiterVars
  <2>2. PICK v \in PcValues, key \in Keys \cup {NoKey} :
          /\ pc' = [pc EXCEPT ![r] = v] /\ keyOf' = [keyOf EXCEPT ![r] = key]
          /\ v = "limiter" => key \in Keys
    <3>1. CASE pc' = [pc EXCEPT ![r] = "idle"] /\ keyOf' = keyOf
      BY <1>1, <3>1 DEF PcValues
    <3>2. CASE pc' = [pc EXCEPT ![r] = StageOf(chain)] /\ StageOf(chain) = "limiter"
               /\ keyOf' \in {[keyOf EXCEPT ![r] = k] : k \in Keys}
      BY <3>2 DEF PcValues
    <3>3. CASE pc' = [pc EXCEPT ![r] = StageOf(chain)] /\ StageOf(chain) # "limiter"
               /\ keyOf' = keyOf
      BY <1>1, <3>3, StageValues DEF PcValues
    <3> QED
      BY <1>3, <3>1, <3>2, <3>3 DEF TakeRequest
  <2> QED
    BY <2>1, <2>2, QuotaElsewhere
<1>4. ASSUME NEW r \in Clients, Answered(r), UNCHANGED <<m_buckets, fair>>
      PROVE  QuotaInv'
  BY <1>4, QuotaElsewhere DEF Answered, PcValues
<1>5. ASSUME NEW r \in Clients, FinishRequest(r) \/ Unsubscribe(r)
      PROVE  QuotaInv'
  BY <1>4, <1>5 DEF FinishRequest, Unsubscribe, limiterVars
<1>6. ASSUME NEW r \in Clients, Subscribe(r)
      PROVE  QuotaInv'
  BY <1>1, <1>6, QuotaElsewhere DEF Subscribe, limiterVars, PcValues
<1>7. ASSUME NEW r \in Clients, StreamHeartbeat(r)
      PROVE  QuotaInv'
  BY <1>1, <1>7, QuotaElsewhere DEF StreamHeartbeat, limiterVars, PcValues
<1>8. ASSUME UNCHANGED <<pc, keyOf, lag, m_buckets, fair>>
      PROVE  QuotaInv'
  BY <1>8 DEF QuotaInv, QuotaType, Backed, Worth
<1>9. ASSUME NEW r \in Clients, ClientLeaves(r)
      PROVE  QuotaInv'
  BY <1>8, <1>9 DEF ClientLeaves, limiterVars
<1>10. CASE Stop \/ Join \/ UNCHANGED vars
  BY <1>8, <1>10 DEF Stop, Join, vars, limiterVars, requestVars
<1> QED
  BY <1>2, <1>3, <1>5, <1>6, <1>7, <1>9, <1>10, LimitKeepsQuota,
     TickKeepsQuota DEF Next, WorkerStep

\* No key is let through more often than its exact bucket allows, for any burst
\* and any rate, although the clock values of RateLimitMiddleware::process are
\* used out of order and idle buckets are removed.
THEOREM QuotaKept == Spec => []WithinQuota
<1>1. QuotaInv => WithinQuota
  <2> SUFFICES ASSUME QuotaInv, NEW k \in Keys
               PROVE  fair[k] >= 0
    BY DEF WithinQuota
  <2>1. /\ fair[k] \in Int /\ Backed(m_buckets[k], k, fair[k])
        /\ m_buckets[k] \in [tokens : Int, age : Int]
    BY DEF QuotaInv, QuotaType
  <2>2. ExactFull(k) \in Nat /\ PeriodOf[k] \in Nat
    BY Periods
  <2>3. CASE m_buckets[k] = NoBucket
    BY <2>1, <2>2, <2>3 DEF Backed
  <2>4. CASE m_buckets[k] # NoBucket
    <3>1. /\ Worth(m_buckets[k], k) >= 0
          /\ fair[k] >= MinOf(Worth(m_buckets[k], k), ExactFull(k))
      BY <2>1, <2>4 DEF Backed
    <3>2. Worth(m_buckets[k], k) \in Int
      BY <2>1, <2>2 DEF Worth
    <3> QED
      BY <2>1, <2>2, <3>1, <3>2 DEF MinOf
  <2> QED
    BY <2>3, <2>4
<1> QED
  BY <1>1, QuotaInvInit, QuotaInvNext, PTL DEF Spec

============================================================================
