-------------------------- MODULE WorkerPoolProofs --------------------------
(* Proofs about WorkerPool, for any jobs, limits and capacity of the channel. *)
EXTENDS WorkerPool, FiniteSetTheorems, SequenceTheorems, TLAPS

\* The six places a job may be in do not overlap, and what has passed through
\* the pool so far is finite.
PlacesInv ==
  /\ \A i, j \in 1..Len(queue) : queue[i] = queue[j] => i = j
  /\ Queued \cap (taken \cup holding \cup ended \cup refused \cup dropped) = {}
  /\ taken \cap (holding \cup ended \cup refused \cup dropped) = {}
  /\ holding \cap (ended \cup refused \cup dropped) = {}
  /\ ended \cap (refused \cup dropped) = {}
  /\ refused \cap dropped = {}
  /\ IsFiniteSet(holding) /\ IsFiniteSet(ended) /\ IsFiniteSet(refused) /\ IsFiniteSet(dropped)

\* The only caller inside the limiter without a slot is the dispatcher, for the
\* job it has taken: queued, or with a slot reserved.
Reserved(j) == waiters = <<>> /\ woken = {j}
Waits(j) == waiters = <<j>> /\ woken = {}
DispatcherInv ==
  /\ \/ dispatcher # "acquire" /\ taken = {} /\ waiters = <<>> /\ woken = {}
     \/ dispatcher = "acquire" /\ \E j \in Job : taken = {j} /\ (Waits(j) \/ Reserved(j))
  /\ leaving \subseteq taken

\* Only a cancelled pool makes the dispatcher give a job up, and it is gone for
\* good only when the channel is drained or the shutdown timed out.
ShutdownInv ==
  /\ leaving # {} => Cancelled
  /\ dropped # {} => shutdown = "timed out"
  /\ dispatcher = "gone" => Closed /\ (shutdown = "timed out" \/ queue = <<>>)
  /\ shutdown = "clean" => dispatcher = "gone" /\ holding = {}

\* The types that the argument needs.
NumbersInv ==
  /\ limit \in 1..MaxLimit /\ inUse \in Nat
  /\ queue \in Seq(Job)
  /\ holding \subseteq Job /\ ended \subseteq Job /\ refused \subseteq Job /\ dropped \subseteq Job
  /\ dispatcher \in {"receive", "acquire", "gone"}
  /\ shutdown \in {"no", "draining", "clean", "timed out"}

\* The bounds of the instance are numbers (Limiter's LimitAssumption).
Bounds == MaxLimit \in Nat /\ QueueCap \in Nat

PoolInv == Bounds /\ NumbersInv /\ PlacesInv /\ DispatcherInv /\ ShutdownInv

----------------------------------------------------------------------------
\* What admitLocked does when nobody waits, and when only the dispatcher does.
LEMMA AdmitsAtMostOne ==
  ASSUME NEW used \in Nat, NEW newLimit \in Nat, NEW ws, NEW asleep,
         Slots!AdmitLocked(used, newLimit, ws, asleep)
  PROVE  /\ ws = <<>> => inUse' \in Nat /\ waiters' = <<>> /\ woken' = asleep
         /\ \A j \in Job : ws = <<j>> =>
              /\ inUse' \in Nat
              /\ \/ waiters' = <<j>> /\ woken' = asleep
                 \/ waiters' = <<>> /\ woken' = asleep \cup {j}
<1> DEFINE k == Slots!Room(used, newLimit, ws)
<1>1. inUse' = used + k /\ waiters' = SubSeq(ws, k + 1, Len(ws)) /\ woken' = asleep \cup {ws[i] : i \in 1..k}
  BY DEF Slots!AdmitLocked
<1>2. ws = <<>> => k = 0
  BY DEF Slots!Room
<1>3. \A j \in Job : ws = <<j>> => k \in {0, 1}
  BY DEF Slots!Room
<1> HIDE DEF k
<1>4. ws = <<>> => \A j \in Job : ws # <<j>>
  OBVIOUS
<1>5. CASE ws = <<>>
  <2>1. k = 0 /\ Len(ws) = 0
    BY <1>2, <1>5
  <2>2. waiters' = <<>>
    BY <1>1, <1>5, <2>1
  <2>3. {ws[i] : i \in 1..k} = {}
    BY <2>1
  <2> QED BY <1>1, <1>4, <2>1, <2>2, <2>3
<1>6. ASSUME NEW j \in Job, ws = <<j>>
      PROVE  /\ inUse' \in Nat
             /\ \/ waiters' = <<j>> /\ woken' = asleep
                \/ waiters' = <<>> /\ woken' = asleep \cup {j}
  <2>1. k \in {0, 1} /\ Len(ws) = 1 /\ ws[1] = j
    BY <1>3, <1>6
  <2>2. CASE k = 0
    <3>1. waiters' = <<j>>
      <4>1. ws \in Seq(Job)
        BY <1>6
      <4>2. SubSeq(ws, 1, Len(ws)) = ws
        BY <4>1, SubSeqFull
      <4> QED BY <1>1, <1>6, <2>2, <4>2
    <3>2. {ws[i] : i \in 1..k} = {}
      BY <2>2
    <3>3. woken' = asleep
      BY <1>1, <3>2
    <3>4. inUse' \in Nat
      BY <1>1, <2>2
    <3> QED BY <3>1, <3>3, <3>4
  <2>3. CASE k = 1
    <3>1. waiters' = <<>>
      BY <1>1, <1>6, <2>1, <2>3
    <3>2. {ws[i] : i \in 1..k} = {j}
      BY <2>1, <2>3
    <3> QED BY <1>1, <2>3, <3>1, <3>2
  <2> QED BY <2>1, <2>2, <2>3
<1> QED BY <1>5, <1>6

\* A freed slot or a new limit leaves the dispatcher where it was, or with a
\* slot reserved.
LEMMA AdmitKeepsDispatcher ==
  ASSUME PoolInv, NEW used \in Nat, NEW newLimit \in Nat,
         Slots!AdmitLocked(used, newLimit, waiters, woken),
         UNCHANGED <<taken, dispatcher, leaving>>
  PROVE  DispatcherInv' /\ inUse' \in Nat
<1>1. CASE waiters = <<>>
  <2>1. inUse' \in Nat /\ waiters' = <<>> /\ woken' = woken
    BY <1>1, AdmitsAtMostOne
  <2> QED BY <1>1, <2>1 DEF PoolInv, DispatcherInv, Waits, Reserved
<1>2. CASE waiters # <<>>
  <2>1. PICK j \in Job : taken = {j} /\ waiters = <<j>> /\ woken = {} /\ dispatcher = "acquire"
    BY <1>2 DEF PoolInv, DispatcherInv, Waits, Reserved
  <2>2. /\ inUse' \in Nat
        /\ \/ waiters' = <<j>> /\ woken' = {}
           \/ waiters' = <<>> /\ woken' = {j}
    BY <2>1, AdmitsAtMostOne
  <2> QED BY <2>1, <2>2 DEF PoolInv, DispatcherInv, Waits, Reserved
<1> QED BY <1>1, <1>2

----------------------------------------------------------------------------
\* The channel.

LEMMA ChannelAppends ==
  ASSUME PoolInv, NEW j \in Job, j \notin Queued, queue' = Append(queue, j)
  PROVE  /\ queue' \in Seq(Job) /\ Queued' = Queued \cup {j}
         /\ \A i, k \in 1..Len(queue') : queue'[i] = queue'[k] => i = k
<1>1. queue \in Seq(Job) /\ DOMAIN queue = 1..Len(queue) /\ Len(queue) \in Nat
  <2>1. queue \in Seq(Job)
    BY DEF PoolInv, NumbersInv
  <2> QED BY <2>1, LenProperties
<1>2. /\ queue' \in Seq(Job) /\ Len(queue') = Len(queue) + 1 /\ DOMAIN queue' = 1..(Len(queue) + 1)
      /\ \A i \in 1..Len(queue) : queue'[i] = queue[i]
      /\ queue'[Len(queue) + 1] = j
  BY <1>1
<1>3. Queued' = Queued \cup {j}
  <2>1. \A x : x \in Queued' <=> \E i \in 1..(Len(queue) + 1) : x = queue'[i]
    BY <1>2 DEF Queued
  <2>2. \A x : x \in Queued <=> \E i \in 1..Len(queue) : x = queue[i]
    BY <1>1 DEF Queued
  <2>3. \A i \in 1..(Len(queue) + 1) : i \in 1..Len(queue) \/ i = Len(queue) + 1
    BY <1>1
  <2>4. Len(queue) + 1 \in 1..(Len(queue) + 1) /\ 1..Len(queue) \subseteq 1..(Len(queue) + 1)
    BY <1>1
  <2> QED BY <1>2, <2>1, <2>2, <2>3, <2>4
<1>4. \A i \in 1..Len(queue) : queue[i] \in Queued
  BY <1>1 DEF Queued
<1>5. \A i, k \in 1..Len(queue') : queue'[i] = queue'[k] => i = k
  BY <1>1, <1>2, <1>4 DEF PoolInv, PlacesInv
<1> QED BY <1>2, <1>3, <1>5

LEMMA ChannelYields ==
  ASSUME PoolInv, queue # <<>>, queue' = Tail(queue)
  PROVE  /\ Head(queue) \in Job /\ queue' \in Seq(Job)
         /\ Queued = Queued' \cup {Head(queue)} /\ Head(queue) \notin Queued'
         /\ \A i, k \in 1..Len(queue') : queue'[i] = queue'[k] => i = k
<1>1. /\ queue \in Seq(Job) /\ DOMAIN queue = 1..Len(queue) /\ Len(queue) \in Nat /\ Len(queue) >= 1
      /\ \A i, k \in 1..Len(queue) : queue[i] = queue[k] => i = k
  <2>1. queue \in Seq(Job)
    BY DEF PoolInv, NumbersInv
  <2>2. DOMAIN queue = 1..Len(queue) /\ Len(queue) \in Nat /\ Len(queue) # 0
    BY <2>1, LenProperties, EmptySeq
  <2>3. \A i, k \in 1..Len(queue) : queue[i] = queue[k] => i = k
    BY DEF PoolInv, PlacesInv
  <2> QED BY <2>1, <2>2, <2>3
<1>2. /\ queue' \in Seq(Job) /\ Len(queue') = Len(queue) - 1 /\ DOMAIN queue' = 1..(Len(queue) - 1)
      /\ \A i \in 1..(Len(queue) - 1) : queue'[i] = queue[i + 1]
      /\ Head(queue) = queue[1] /\ Head(queue) \in Job
  BY <1>1
<1>3. \A x : x \in Queued' <=> \E i \in 1..(Len(queue) - 1) : x = queue[i + 1]
  BY <1>2 DEF Queued
<1>4. \A x : x \in Queued <=> \E i \in 1..Len(queue) : x = queue[i]
  BY <1>1 DEF Queued
<1>5. \A i \in 1..Len(queue) : i = 1 \/ (i - 1 \in 1..(Len(queue) - 1) /\ (i - 1) + 1 = i)
  BY <1>1
<1>6. 1 \in 1..Len(queue) /\ \A i \in 1..(Len(queue) - 1) : i + 1 \in 1..Len(queue) /\ i + 1 # 1
  BY <1>1
<1>7. Queued = Queued' \cup {Head(queue)}
  <2>1. \A x : x \in Queued => x \in Queued' \/ x = Head(queue)
    BY <1>2, <1>3, <1>4, <1>5
  <2>2. \A x : x \in Queued' \/ x = Head(queue) => x \in Queued
    BY <1>2, <1>3, <1>4, <1>6
  <2> QED BY <2>1, <2>2
<1>8. Head(queue) \notin Queued'
  BY <1>1, <1>2, <1>3, <1>6
<1>9. \A i, k \in 1..Len(queue') : queue'[i] = queue'[k] => i = k
  BY <1>1, <1>2, <1>6
<1> QED BY <1>2, <1>7, <1>8, <1>9

\* Distinct jobs in the channel are as many as the channel is long.
LEMMA ChannelCounted ==
  ASSUME PoolInv
  PROVE  IsFiniteSet(Queued) /\ Cardinality(Queued) = Len(queue)
<1> DEFINE at == [i \in 1..Len(queue) |-> queue[i]]
<1>1. Len(queue) \in Nat /\ DOMAIN queue = 1..Len(queue)
  <2>1. queue \in Seq(Job)
    BY DEF PoolInv, NumbersInv
  <2> QED BY <2>1, LenProperties
<1>2. at \in Bijection(1..Len(queue), Queued)
  <2>1. at \in [1..Len(queue) -> Queued]
    BY <1>1 DEF Queued
  <2>2. \A i, j \in 1..Len(queue) : at[i] = at[j] => i = j
    BY DEF PoolInv, PlacesInv
  <2>3. \A x \in Queued : \E i \in 1..Len(queue) : at[i] = x
    BY <1>1 DEF Queued
  <2> QED BY <2>1, <2>2, <2>3 DEF Bijection, Injection, Surjection, IsInjective
<1>3. IsFiniteSet(1..Len(queue)) /\ Cardinality(1..Len(queue)) = Len(queue)
  <2>1. \A n \in Nat : IsFiniteSet(1..n) /\ Cardinality(1..n) = n
    BY FS_Interval
  <2> QED BY <1>1, <2>1
<1>4. ExistsBijection(1..Len(queue), Queued)
  BY <1>2 DEF ExistsBijection
<1> QED BY <1>3, <1>4, FS_Bijection

----------------------------------------------------------------------------
\* The steps.

LEMMA SubmitKeeps ==
  ASSUME PoolInv, NEW j \in Job, Submit(j)
  PROVE  PoolInv'
<1>1. /\ j \notin Submitted /\ ~Closed
      /\ UNCHANGED <<limiterVars, taken, dispatcher, ended, dropped, shutdown>>
  BY DEF Submit
<1>2. CASE queue' = Append(queue, j) /\ refused' = refused
  <2>1. /\ queue' \in Seq(Job) /\ Queued' = Queued \cup {j}
        /\ \A i, k \in 1..Len(queue') : queue'[i] = queue'[k] => i = k
    BY <1>1, <1>2, ChannelAppends DEF Submitted
  <2>2. PlacesInv'
    BY <1>1, <1>2, <2>1 DEF PoolInv, PlacesInv, Submitted, limiterVars
  <2> QED BY <1>1, <1>2, <2>1, <2>2 DEF PoolInv, NumbersInv, DispatcherInv, ShutdownInv, Waits, Reserved,
             Closed, Cancelled, limiterVars
<1>3. CASE queue' = queue /\ refused' = refused \cup {j}
  <2>1. IsFiniteSet(refused')
    BY <1>3, FS_AddElement DEF PoolInv, PlacesInv
  <2>2. Queued' = Queued
    BY <1>3 DEF Queued
  <2>3. PlacesInv'
    BY <1>1, <1>3, <2>1, <2>2 DEF PoolInv, PlacesInv, Submitted, limiterVars
  <2> QED BY <1>1, <1>3, <2>3 DEF PoolInv, NumbersInv, DispatcherInv, ShutdownInv, Waits, Reserved,
             Closed, Cancelled, limiterVars
<1> QED BY <1>2, <1>3 DEF Submit

LEMMA StopsKeeps ==
  ASSUME PoolInv, DispatchStops
  PROVE  PoolInv'
<1>1. Queued' = Queued
  BY DEF DispatchStops, Queued
<1>2. NumbersInv' /\ PlacesInv'
  BY <1>1 DEF PoolInv, NumbersInv, PlacesInv, DispatchStops, limiterVars
<1>3. DispatcherInv'
  BY DEF PoolInv, DispatcherInv, Waits, Reserved, DispatchStops, limiterVars
<1>4. ShutdownInv'
  BY DEF PoolInv, ShutdownInv, DispatchStops, Closed, Cancelled, limiterVars
<1> QED BY <1>2, <1>3, <1>4 DEF PoolInv

LEMMA ReceivesKeeps ==
  ASSUME PoolInv, DispatchReceives
  PROVE  PoolInv'
<1> DEFINE j == Head(queue)
<1>1. /\ dispatcher = "receive" /\ queue # <<>> /\ queue' = Tail(queue)
      /\ UNCHANGED <<ended, refused, dropped, shutdown, limit, woken, leaving>>
      /\ taken = {} /\ waiters = <<>> /\ woken = {} /\ leaving = {}
  BY DEF DispatchReceives, Slots!Acquire, PoolInv, DispatcherInv
<1>2. /\ j \in Job /\ queue' \in Seq(Job)
      /\ Queued = Queued' \cup {j} /\ j \notin Queued'
      /\ \A i, k \in 1..Len(queue') : queue'[i] = queue'[k] => i = k
  BY <1>1, ChannelYields
<1>3. j \notin holding \cup ended \cup refused \cup dropped
  BY <1>2 DEF PoolInv, PlacesInv
<1> HIDE DEF j
<1>4. CASE inUse' = inUse + 1 /\ holding' = holding \cup {j} /\ waiters' = waiters
  <2>1. taken' = taken /\ dispatcher' = dispatcher
    BY <1>4 DEF DispatchReceives, j
  <2>2. IsFiniteSet(holding')
    BY <1>4, FS_AddElement DEF PoolInv, PlacesInv
  <2>3. PlacesInv'
    <3>1. /\ Queued' \cap (taken' \cup holding' \cup ended' \cup refused' \cup dropped') = {}
          /\ taken' = {}
      BY <1>1, <1>2, <1>4, <2>1 DEF PoolInv, PlacesInv
    <3>2. holding' \cap (ended' \cup refused' \cup dropped') = {}
      BY <1>1, <1>3, <1>4 DEF PoolInv, PlacesInv
    <3>3. ended' = ended /\ refused' = refused /\ dropped' = dropped
      BY <1>1
    <3>4. /\ ended \cap (refused \cup dropped) = {} /\ refused \cap dropped = {}
          /\ IsFiniteSet(ended) /\ IsFiniteSet(refused) /\ IsFiniteSet(dropped)
      BY DEF PoolInv, PlacesInv
    <3> QED BY <1>2, <2>2, <3>1, <3>2, <3>3, <3>4 DEF PlacesInv
  <2>4. NumbersInv'
    <3>1. inUse' \in Nat /\ limit' \in 1..MaxLimit
      <4>1. inUse \in Nat /\ limit \in 1..MaxLimit
        BY DEF PoolInv, NumbersInv
      <4>2. inUse' \in Nat
        BY <1>4, <4>1
      <4> QED BY <1>1, <4>1, <4>2
    <3>2. holding' \subseteq Job
      BY <1>2, <1>4 DEF PoolInv, NumbersInv
    <3>3. ended' \subseteq Job /\ refused' \subseteq Job /\ dropped' \subseteq Job
      BY <1>1 DEF PoolInv, NumbersInv
    <3> QED BY <1>1, <1>2, <2>1, <3>1, <3>2, <3>3 DEF PoolInv, NumbersInv
  <2>5. DispatcherInv' /\ ShutdownInv'
    BY <1>1, <1>4, <2>1 DEF PoolInv, DispatcherInv, ShutdownInv, Cancelled, Closed
  <2> QED BY <2>3, <2>4, <2>5 DEF PoolInv
<1>5. CASE waiters' = Append(waiters, j) /\ inUse' = inUse /\ holding' = holding
  <2>1. taken' = {j} /\ dispatcher' = "acquire"
    BY <1>3, <1>5 DEF DispatchReceives, j
  <2>2. waiters' = <<j>>
    BY <1>1, <1>5
  <2>3. PlacesInv'
    BY <1>1, <1>2, <1>3, <1>5, <2>1 DEF PoolInv, PlacesInv
  <2>4. NumbersInv'
    BY <1>1, <1>2, <1>5, <2>1 DEF PoolInv, NumbersInv
  <2>5. DispatcherInv'
    BY <1>1, <1>2, <2>1, <2>2 DEF DispatcherInv, Waits
  <2>6. ShutdownInv'
    BY <1>1, <1>5, <2>1 DEF PoolInv, ShutdownInv, Cancelled, Closed
  <2> QED BY <2>3, <2>4, <2>5, <2>6 DEF PoolInv
<1> QED BY <1>4, <1>5 DEF DispatchReceives, Slots!Acquire, j

\* The dispatcher's place in the limiter while it holds a job.
LEMMA TakenByDispatcher ==
  ASSUME PoolInv, NEW j \in taken
  PROVE  /\ taken = {j} /\ j \in Job /\ dispatcher = "acquire" /\ (Waits(j) \/ Reserved(j))
         /\ j \notin Queued \cup holding \cup ended \cup refused \cup dropped
<1>1. PICK k \in Job : taken = {k} /\ dispatcher = "acquire" /\ (Waits(k) \/ Reserved(k))
  BY DEF PoolInv, DispatcherInv
<1>2. k = j
  BY <1>1
<1>3. j \notin Queued \cup holding \cup ended \cup refused \cup dropped
  BY DEF PoolInv, PlacesInv
<1> QED BY <1>1, <1>2, <1>3

LEMMA StartsKeeps ==
  ASSUME PoolInv, NEW j \in Job, DispatchStarts(j)
  PROVE  PoolInv'
<1>1. /\ j \in taken /\ j \in woken /\ j \notin leaving /\ woken' = woken \ {j} /\ holding' = holding \cup {j}
      /\ taken' = {} /\ dispatcher' = "receive"
      /\ UNCHANGED <<limit, inUse, waiters, leaving, queue, ended, refused, dropped, shutdown>>
  BY DEF DispatchStarts, Slots!Wake
<1>2. /\ taken = {j} /\ dispatcher = "acquire" /\ (Waits(j) \/ Reserved(j))
      /\ j \notin Queued \cup holding \cup ended \cup refused \cup dropped
  BY <1>1, TakenByDispatcher
<1>3. waiters = <<>> /\ woken = {j}
  BY <1>1, <1>2 DEF Waits, Reserved
<1>4. Queued' = Queued
  BY <1>1 DEF Queued
<1>5. IsFiniteSet(holding')
  BY <1>1, FS_AddElement DEF PoolInv, PlacesInv
<1>6. PlacesInv'
  BY <1>1, <1>2, <1>4, <1>5 DEF PoolInv, PlacesInv
<1>7. NumbersInv'
  BY <1>1 DEF PoolInv, NumbersInv
<1>8. leaving' = {}
  BY <1>1, <1>2 DEF PoolInv, DispatcherInv
<1>9. DispatcherInv'
  BY <1>1, <1>3, <1>8 DEF DispatcherInv
<1>10. shutdown # "clean"
  BY <1>2 DEF PoolInv, ShutdownInv
<1>11. ShutdownInv'
  BY <1>1, <1>8, <1>10 DEF PoolInv, ShutdownInv
<1> QED BY <1>6, <1>7, <1>9, <1>11 DEF PoolInv

LEMMA CancelledKeeps ==
  ASSUME PoolInv, NEW j \in Job, AcquireCancelled(j)
  PROVE  PoolInv'
<1>1. /\ j \in taken /\ Cancelled /\ leaving' = leaving \cup {j}
      /\ UNCHANGED <<limit, inUse, waiters, woken, holding,
                     queue, taken, dispatcher, ended, refused, dropped, shutdown>>
  BY DEF AcquireCancelled, Slots!Cancel
<1>2. Queued' = Queued
  BY <1>1 DEF Queued
<1>3. NumbersInv' /\ PlacesInv'
  BY <1>1, <1>2 DEF PoolInv, NumbersInv, PlacesInv
<1>4. DispatcherInv'
  BY <1>1 DEF PoolInv, DispatcherInv, Waits, Reserved
<1>5. ShutdownInv'
  BY <1>1 DEF PoolInv, ShutdownInv, Cancelled, Closed
<1> QED BY <1>3, <1>4, <1>5 DEF PoolInv

LEMMA LimitIsNatural ==
  ASSUME PoolInv
  PROVE  limit \in Nat /\ inUse \in Nat /\ Slots!Given(inUse) \in Nat
<1>1. MaxLimit \in Nat /\ limit \in 1..MaxLimit /\ inUse \in Nat
  BY DEF PoolInv, NumbersInv, Bounds
<1>2. limit \in Nat
  BY <1>1
<1>3. Slots!Given(inUse) \in Nat
  BY <1>1 DEF Slots!Given
<1> QED BY <1>1, <1>2, <1>3

\* Dropping needs a cancelled pool, and the dispatcher is not gone, so it is the
\* shutdown that timed out.
LEMMA DropsKeeps ==
  ASSUME PoolInv, NEW j \in Job, DispatchDrops(j)
  PROVE  PoolInv'
<1>1. /\ j \in taken /\ j \in leaving /\ leaving' = leaving \ {j}
      /\ taken' = {} /\ dropped' = dropped \cup {j} /\ dispatcher' = "gone"
      /\ UNCHANGED <<limit, holding, queue, ended, refused, shutdown>>
  BY DEF DispatchDrops, Slots!Abandon
<1>2. /\ taken = {j} /\ dispatcher = "acquire" /\ (Waits(j) \/ Reserved(j))
      /\ j \notin Queued \cup holding \cup ended \cup refused \cup dropped
  BY <1>1, TakenByDispatcher
<1>3. leaving' = {}
  BY <1>1, <1>2 DEF PoolInv, DispatcherInv
<1>4. inUse' \in Nat /\ waiters' = <<>> /\ woken' = {}
  <2>1. CASE Waits(j)
    <3>1. waiters = <<j>> /\ woken = {}
      BY <2>1 DEF Waits
    <3>2. j \in Slots!Waiting
      BY <3>1 DEF Slots!Waiting
    <3>3. waiters' = Slots!Without(waiters, j) /\ inUse' = inUse /\ woken' = woken
      BY <3>2 DEF DispatchDrops, Slots!Abandon
    <3>4. Slots!Without(waiters, j) = <<>>
      <4>1. Len(waiters) - 1 = 0
        BY <3>1
      <4> DEFINE gone == CHOOSE i \in DOMAIN waiters : waiters[i] = j
                 rest == [i \in 1..0 |-> IF i < gone THEN waiters[i] ELSE waiters[i + 1]]
      <4>2. Slots!Without(waiters, j) = rest
        BY <4>1 DEF Slots!Without
      <4>3. rest \in Seq(Job) /\ Len(rest) = 0
        <5>1. rest \in [1..0 -> Job]
          OBVIOUS
        <5> HIDE DEF rest
        <5> QED BY <5>1
      <4> HIDE DEF rest
      <4> QED BY <4>2, <4>3, EmptySeq
    <3> QED BY <3>1, <3>3, <3>4, LimitIsNatural
  <2>2. CASE Reserved(j)
    <3>1. waiters = <<>> /\ woken = {j}
      BY <2>2 DEF Reserved
    <3>2. j \notin Slots!Waiting
      BY <3>1 DEF Slots!Waiting
    <3>3. Slots!AdmitLocked(Slots!Given(inUse), limit, waiters, woken \ {j})
      BY <3>2 DEF DispatchDrops, Slots!Abandon
    <3>4. inUse' \in Nat /\ waiters' = <<>> /\ woken' = woken \ {j}
      BY <3>1, <3>3, LimitIsNatural, AdmitsAtMostOne
    <3> QED BY <3>1, <3>4
  <2> QED BY <1>2, <2>1, <2>2
<1>5. Queued' = Queued
  BY <1>1 DEF Queued
<1>6. IsFiniteSet(dropped')
  BY <1>1, FS_AddElement DEF PoolInv, PlacesInv
<1>7. PlacesInv'
  BY <1>1, <1>2, <1>5, <1>6 DEF PoolInv, PlacesInv
<1>8. NumbersInv'
  BY <1>1, <1>4 DEF PoolInv, NumbersInv
<1>9. DispatcherInv'
  BY <1>1, <1>3, <1>4 DEF DispatcherInv
<1>10. shutdown = "timed out"
  BY <1>1, <1>2 DEF PoolInv, ShutdownInv, Cancelled
<1>11. ShutdownInv'
  BY <1>1, <1>3, <1>10 DEF ShutdownInv, Closed
<1> QED BY <1>7, <1>8, <1>9, <1>11 DEF PoolInv

LEMMA FinishKeeps ==
  ASSUME PoolInv, NEW j \in Job, FinishJob(j)
  PROVE  PoolInv'
<1>1. /\ j \in holding /\ holding' = holding \ {j} /\ ended' = ended \cup {j}
      /\ Slots!AdmitLocked(Slots!Given(inUse), limit, waiters, woken)
      /\ UNCHANGED <<limit, leaving, queue, taken, dispatcher, refused, dropped, shutdown>>
  BY DEF FinishJob, Slots!Release
<1>2. DispatcherInv' /\ inUse' \in Nat
  BY <1>1, LimitIsNatural, AdmitKeepsDispatcher
<1>3. Queued' = Queued
  BY <1>1 DEF Queued
<1>4. IsFiniteSet(holding') /\ IsFiniteSet(ended')
  BY <1>1, FS_AddElement, FS_Subset DEF PoolInv, PlacesInv
<1>5. PlacesInv'
  BY <1>1, <1>3, <1>4 DEF PoolInv, PlacesInv
<1>6. NumbersInv'
  BY <1>1, <1>2 DEF PoolInv, NumbersInv
<1>7. ShutdownInv'
  BY <1>1 DEF PoolInv, ShutdownInv, Cancelled, Closed
<1> QED BY <1>2, <1>5, <1>6, <1>7 DEF PoolInv

LEMMA SetConcurrencyKeeps ==
  ASSUME PoolInv, NEW n \in 1..MaxLimit, SetConcurrency(n)
  PROVE  PoolInv'
<1>1. /\ limit' = n /\ Slots!AdmitLocked(inUse, n, waiters, woken)
      /\ UNCHANGED <<leaving, holding, queue, taken, dispatcher, ended, refused, dropped, shutdown>>
  BY DEF SetConcurrency, Slots!SetLimit
<1>2. DispatcherInv' /\ inUse' \in Nat
  BY <1>1, LimitIsNatural, AdmitKeepsDispatcher
<1>3. Queued' = Queued
  BY <1>1 DEF Queued
<1>4. PlacesInv' /\ NumbersInv'
  BY <1>1, <1>2, <1>3 DEF PoolInv, PlacesInv, NumbersInv
<1>5. ShutdownInv'
  BY <1>1 DEF PoolInv, ShutdownInv, Cancelled, Closed
<1> QED BY <1>2, <1>4, <1>5 DEF PoolInv

LEMMA ShutdownKeeps ==
  ASSUME PoolInv, ShutdownBegins \/ ShutdownReturns
  PROVE  PoolInv'
<1>1. UNCHANGED <<limiterVars, queue, taken, dispatcher, ended, refused, dropped>>
  BY DEF ShutdownBegins, ShutdownReturns
<1>2. Queued' = Queued
  BY <1>1 DEF Queued
<1>3. NumbersInv' /\ PlacesInv'
  BY <1>1, <1>2 DEF PoolInv, NumbersInv, PlacesInv, limiterVars, ShutdownBegins, ShutdownReturns
<1>4. DispatcherInv'
  BY <1>1 DEF PoolInv, DispatcherInv, Waits, Reserved, limiterVars
<1>5. ShutdownInv'
  BY <1>1 DEF PoolInv, ShutdownInv, Cancelled, Closed, Drained, limiterVars, ShutdownBegins, ShutdownReturns
<1> QED BY <1>3, <1>4, <1>5 DEF PoolInv

LEMMA PoolStep ==
  PoolInv /\ [Next]_vars => PoolInv'
<1> SUFFICES ASSUME PoolInv, [Next]_vars PROVE PoolInv'
  OBVIOUS
<1>1. CASE UNCHANGED vars
  <2>1. Queued' = Queued
    BY <1>1 DEF Queued, vars
  <2>2. Bounds'
    BY DEF PoolInv, Bounds
  <2> QED BY <1>1, <2>1, <2>2 DEF PoolInv, NumbersInv, PlacesInv, DispatcherInv, ShutdownInv, Waits, Reserved,
             Cancelled, Closed, vars, limiterVars
<1> QED BY <1>1, SubmitKeeps, StartsKeeps, CancelledKeeps, DropsKeeps, FinishKeeps, StopsKeeps,
           ReceivesKeeps, SetConcurrencyKeeps, ShutdownKeeps DEF Next

LEMMA InitPool ==
  Bounds /\ Init => PoolInv
<1> SUFFICES ASSUME Bounds, Init PROVE PoolInv
  OBVIOUS
<1>1. IsFiniteSet({})
  BY FS_EmptySet
<1>2. Queued = {} /\ Len(queue) = 0 /\ queue \in Seq(Job)
  BY DEF Init, Queued
<1>3. PlacesInv
  BY <1>1, <1>2 DEF Init, Slots!Init, PlacesInv
<1>4. NumbersInv /\ DispatcherInv /\ ShutdownInv
  BY <1>2 DEF Init, Slots!Init, NumbersInv, DispatcherInv, ShutdownInv
<1> QED BY <1>3, <1>4 DEF PoolInv

LEMMA PoolInvHolds ==
  ASSUME Bounds
  PROVE  Spec => []PoolInv
<1>1. Init => PoolInv
  BY InitPool
<1> QED BY <1>1, PoolStep, PTL DEF Spec

LEMMA UnionCounted ==
  ASSUME NEW S, NEW T, IsFiniteSet(S), IsFiniteSet(T), S \cap T = {}
  PROVE  /\ IsFiniteSet(S \cup T) /\ Cardinality(S \cup T) = Cardinality(S) + Cardinality(T)
         /\ Cardinality(S) \in Nat /\ Cardinality(T) \in Nat
<1>1. Cardinality(S) \in Nat /\ Cardinality(T) \in Nat /\ Cardinality(S \cap T) = 0
  BY FS_CardinalityType, FS_EmptySet
<1>2. IsFiniteSet(S \cup T) /\ Cardinality(S \cup T) = Cardinality(S) + Cardinality(T) - Cardinality(S \cap T)
  BY FS_Union
<1> QED BY <1>1, <1>2

LEMMA PlacesCounted ==
  PoolInv => EachJobOnce
<1> SUFFICES ASSUME PoolInv PROVE EachJobOnce
  OBVIOUS
<1>1. IsFiniteSet(Queued) /\ Cardinality(Queued) = Len(queue)
  BY ChannelCounted
<1>2. IsFiniteSet(taken)
  <2>1. taken = {} \/ \E j \in Job : taken = {j}
    BY DEF PoolInv, DispatcherInv
  <2>2. CASE taken = {}
    BY <2>2, FS_EmptySet
  <2>3. ASSUME NEW j \in Job, taken = {j}
        PROVE  IsFiniteSet(taken)
    <3>1. IsFiniteSet({j})
      BY FS_Singleton
    <3> QED BY <2>3, <3>1
  <2> QED BY <2>1, <2>2, <2>3
<1>3. /\ IsFiniteSet(holding) /\ IsFiniteSet(ended) /\ IsFiniteSet(refused) /\ IsFiniteSet(dropped)
      /\ Queued \cap taken = {} /\ (Queued \cup taken) \cap holding = {}
      /\ (Queued \cup taken \cup holding) \cap ended = {}
      /\ (Queued \cup taken \cup holding \cup ended) \cap refused = {}
      /\ (Queued \cup taken \cup holding \cup ended \cup refused) \cap dropped = {}
  BY DEF PoolInv, PlacesInv
<1>4. /\ IsFiniteSet(Queued \cup taken)
      /\ Cardinality(Queued \cup taken) = Len(queue) + Cardinality(taken)
  BY <1>1, <1>2, <1>3, UnionCounted
<1>5. /\ IsFiniteSet(Queued \cup taken \cup holding)
      /\ Cardinality(Queued \cup taken \cup holding) = Len(queue) + Cardinality(taken) + Cardinality(holding)
  BY <1>3, <1>4, UnionCounted
<1>6. /\ IsFiniteSet(Queued \cup taken \cup holding \cup ended)
      /\ Cardinality(Queued \cup taken \cup holding \cup ended) =
           Len(queue) + Cardinality(taken) + Cardinality(holding) + Cardinality(ended)
  BY <1>3, <1>5, UnionCounted
<1>7. /\ IsFiniteSet(Queued \cup taken \cup holding \cup ended \cup refused)
      /\ Cardinality(Queued \cup taken \cup holding \cup ended \cup refused) =
           Len(queue) + Cardinality(taken) + Cardinality(holding) + Cardinality(ended) + Cardinality(refused)
  BY <1>3, <1>6, UnionCounted
<1>8. Cardinality(Submitted) = Len(queue) + Cardinality(taken) + Cardinality(holding)
         + Cardinality(ended) + Cardinality(refused) + Cardinality(dropped)
  BY <1>3, <1>7, UnionCounted DEF Submitted
<1> QED BY <1>8 DEF EachJobOnce, PoolInv, ShutdownInv

----------------------------------------------------------------------------
\* A job is in one place only, whatever the limit, cancellations and shutdown
\* do, and is dropped only by a shutdown that timed out (pool.go, Submit,
\* dispatch, runJob).
THEOREM JobsRunOnce ==
  ASSUME Bounds
  PROVE  Spec => []EachJobOnce
<1> QED BY PoolInvHolds, PlacesCounted, PTL

\* A shutdown that returns without an error has run every job accepted
\* (pool.go, Shutdown).
THEOREM ShutdownDrains ==
  ASSUME Bounds
  PROVE  Spec => []CleanShutdownDrained
<1>1. PoolInv => CleanShutdownDrained
  <2> SUFFICES ASSUME PoolInv, shutdown = "clean" PROVE Submitted = ended \cup refused
    BY DEF CleanShutdownDrained
  <2>1. dispatcher = "gone" /\ holding = {} /\ queue = <<>> /\ dropped = {}
    BY DEF PoolInv, ShutdownInv
  <2>2. Queued = {}
    BY <2>1 DEF Queued
  <2>3. taken = {}
    BY <2>1 DEF PoolInv, DispatcherInv
  <2> QED BY <2>1, <2>2, <2>3 DEF Submitted
<1> QED BY PoolInvHolds, <1>1, PTL
=============================================================================
