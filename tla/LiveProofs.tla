----------------------------- MODULE LiveProofs -----------------------------
(***************************************************************************)
(* Proofs about the composition MCLive, for every value of its constants:   *)
(* whatever the pool does to its limiter is the limiter's own behaviour,    *)
(* Redis is probed once at a time, telemetry events add up, and every part  *)
(* keeps its types.                                                         *)
(***************************************************************************)
EXTENDS MCLive, LimiterProofs, SequenceTheorems

\* Every part moves by its own steps or not at all.
LEMMA PartsMove ==
  ASSUME [PartsNext]_allVars
  PROVE  /\ [Queue!Next]_queueVars /\ [Redis!Next]_redisVars /\ [Settings!Next]_settingsVars
         /\ [Reports!Next]_reportsVars /\ [Flow!Next]_telemetryVars /\ [Claims!Next]_claimsVars
         /\ \/ Next /\ UNCHANGED poolVars
            \/ Pool!Next
            \/ UNCHANGED <<limiterVars, poolVars>>
  BY DEF PartsNext, allVars

----------------------------------------------------------------------------
(* The limiter and the pool. *)

\* The pool's limiter is the limiter.
LEMMA SameLimiter ==
  /\ Pool!Slots!TypeOK <=> TypeOK
  /\ Pool!Slots!Init <=> Init
  /\ \A c : /\ Pool!Slots!Acquire(c) <=> Acquire(c)
            /\ Pool!Slots!Wake(c) <=> Wake(c)
            /\ Pool!Slots!Cancel(c) <=> Cancel(c)
  BY DEF Pool!Slots!TypeOK, TypeOK, Pool!Slots!Init, Init, Pool!Slots!Waiting, Waiting,
         Pool!Slots!Distinct, Distinct, Pool!Slots!Idle, Idle,
         Pool!Slots!Acquire, Acquire, Pool!Slots!Wake, Wake, Pool!Slots!Cancel, Cancel

LEMMA SameAdmission ==
  \A used, newLimit, ws, asleep :
    Pool!Slots!AdmitLocked(used, newLimit, ws, asleep) <=> AdmitLocked(used, newLimit, ws, asleep)
  BY DEF Pool!Slots!AdmitLocked, AdmitLocked, Pool!Slots!Room, Room

LEMMA SameHandsOn ==
  /\ \A c : /\ Pool!Slots!Abandon(c) <=> Abandon(c)
            /\ Pool!Slots!Release(c) <=> Release(c)
  /\ \A n : Pool!Slots!SetLimit(n) <=> SetLimit(n)
<1>1. \A ws, c : Pool!Slots!Without(ws, c) = Without(ws, c)
  BY DEF Pool!Slots!Without, Without
<1>2. \A used : Pool!Slots!Given(used) = Given(used)
  BY DEF Pool!Slots!Given, Given
<1>3. Pool!Slots!Waiting = Waiting
  BY DEF Pool!Slots!Waiting, Waiting
<1>4. \A c : Pool!Slots!Abandon(c) <=> Abandon(c)
  BY <1>1, <1>2, <1>3, SameAdmission DEF Pool!Slots!Abandon, Abandon
<1>5. \A c : Pool!Slots!Release(c) <=> Release(c)
  BY <1>2, SameAdmission DEF Pool!Slots!Release, Release
<1>6. \A n : Pool!Slots!SetLimit(n) <=> SetLimit(n)
  BY SameAdmission DEF Pool!Slots!SetLimit, SetLimit
<1> QED BY <1>4, <1>5, <1>6

\* What the pool keeps beside its limiter.
PoolTypes ==
  /\ queue \in Seq(Caller) /\ Len(queue) <= QueueCap
  /\ taken \subseteq Caller
  /\ dispatcher \in {"receive", "acquire", "gone"}
  /\ ended \subseteq Caller /\ refused \subseteq Caller /\ dropped \subseteq Caller
  /\ shutdown \in {"no", "draining", "clean", "timed out"}

LEMMA PoolTypeParts == Pool!TypeOK <=> TypeOK /\ PoolTypes
  BY SameLimiter DEF Pool!TypeOK, PoolTypes

PoolLimiterInv == Inv /\ PoolTypes

\* Whatever step the pool takes, the limiter inside it takes one of its own.
LEMMA PoolStepsTheLimiter ==
  ASSUME PoolLimiterInv, Pool!Next
  PROVE  [Next]_limiterVars
<1>1. /\ queue \in Seq(Caller) /\ taken \subseteq Caller /\ holding \subseteq Caller
      /\ woken \subseteq Caller
  BY DEF PoolLimiterInv, PoolTypes, Inv, TypeOK
<1>2. CASE UNCHANGED limiterVars
  BY <1>2
<1>3. ASSUME NEW j \in Caller, Pool!DispatchStarts(j) PROVE Next
  BY <1>3, SameLimiter DEF Pool!DispatchStarts, Next
<1>4. ASSUME NEW j \in Caller, Pool!AcquireCancelled(j) PROVE Next
  BY <1>4, SameLimiter DEF Pool!AcquireCancelled, Next
<1>5. ASSUME NEW j \in Caller, Pool!DispatchDrops(j) PROVE Next
  BY <1>5, SameHandsOn DEF Pool!DispatchDrops, Next
<1>6. ASSUME NEW j \in Caller, Pool!FinishJob(j) PROVE Next
  BY <1>6, SameHandsOn DEF Pool!FinishJob, Next
<1>7. ASSUME Pool!DispatchReceives PROVE Next
  <2>1. queue # <<>> /\ Acquire(Head(queue))
    BY <1>7, SameLimiter DEF Pool!DispatchReceives
  <2>2. Head(queue) \in Caller
    BY <1>1, <2>1
  <2> QED BY <2>1, <2>2 DEF Next
<1>8. ASSUME NEW n \in 1..MaxLimit, Pool!SetConcurrency(n) PROVE Next
  BY <1>8, SameHandsOn DEF Pool!SetConcurrency, Next
<1>9. ASSUME NEW j \in Caller, Pool!Submit(j) PROVE UNCHANGED limiterVars
  BY <1>9 DEF Pool!Submit, Pool!limiterVars, limiterVars
<1>10. ASSUME Pool!DispatchStops \/ Pool!ShutdownBegins \/ Pool!ShutdownReturns
       PROVE UNCHANGED limiterVars
  BY <1>10 DEF Pool!DispatchStops, Pool!ShutdownBegins, Pool!ShutdownReturns, Pool!limiterVars, limiterVars
<1> QED BY <1>3, <1>4, <1>5, <1>6, <1>7, <1>8, <1>9, <1>10 DEF Pool!Next

\* And the pool's own state keeps its types.
LEMMA PoolStepTypes ==
  ASSUME PoolLimiterInv, Pool!Next
  PROVE  PoolTypes'
<1>1. /\ PoolTypes /\ holding \subseteq Caller /\ QueueCap \in Nat
  BY LiveAssumption DEF PoolLimiterInv, Inv, TypeOK
<1>0. queue \in Seq(Caller) /\ Len(queue) \in Nat /\ Len(queue) <= QueueCap
  <2>1. queue \in Seq(Caller) /\ Len(queue) <= QueueCap
    BY <1>1 DEF PoolTypes
  <2> QED BY <2>1, LenProperties
<1>2. ASSUME NEW j \in Caller, Pool!Submit(j) PROVE PoolTypes'
  <2>1. CASE Len(queue) < QueueCap
    <3>1. queue' = Append(queue, j) /\ refused' = refused
      BY <1>2, <2>1 DEF Pool!Submit
    <3>2. queue' \in Seq(Caller) /\ Len(queue') = Len(queue) + 1
      BY <1>0, <3>1, AppendProperties
    <3>3. Len(queue') <= QueueCap
      BY <1>0, <1>1, <2>1, <3>2
    <3> QED BY <1>1, <1>2, <3>1, <3>2, <3>3 DEF Pool!Submit, PoolTypes
  <2>2. CASE ~(Len(queue) < QueueCap)
    BY <1>1, <1>2, <2>2 DEF Pool!Submit, PoolTypes
  <2> QED BY <2>1, <2>2
<1>3. ASSUME NEW j \in Caller, Pool!DispatchStarts(j) PROVE PoolTypes'
  BY <1>1, <1>3 DEF Pool!DispatchStarts, PoolTypes
<1>4. ASSUME NEW j \in Caller, Pool!AcquireCancelled(j) PROVE PoolTypes'
  BY <1>1, <1>4 DEF Pool!AcquireCancelled, PoolTypes
<1>5. ASSUME NEW j \in Caller, Pool!DispatchDrops(j) PROVE PoolTypes'
  BY <1>1, <1>5 DEF Pool!DispatchDrops, PoolTypes
<1>6. ASSUME NEW j \in Caller, Pool!FinishJob(j) PROVE PoolTypes'
  BY <1>1, <1>6 DEF Pool!FinishJob, PoolTypes
<1>7. ASSUME Pool!DispatchReceives PROVE PoolTypes'
  <2>1. /\ queue # <<>> /\ queue' = Tail(queue)
        /\ UNCHANGED <<ended, refused, dropped, shutdown>>
        /\ \/ UNCHANGED <<taken, dispatcher>>
           \/ taken' = {Head(queue)} /\ dispatcher' = "acquire"
    BY <1>7 DEF Pool!DispatchReceives
  <2>2. Head(queue) \in Caller /\ queue' \in Seq(Caller) /\ Len(queue') = Len(queue) - 1 /\ Len(queue) \in Nat
    BY <1>0, <2>1, HeadTailProperties
  <2>3. Len(queue') <= QueueCap
    BY <1>0, <1>1, <2>2
  <2> QED BY <1>1, <2>1, <2>2, <2>3 DEF PoolTypes
<1>8. ASSUME NEW n \in 1..MaxLimit, Pool!SetConcurrency(n) PROVE PoolTypes'
  BY <1>1, <1>8 DEF Pool!SetConcurrency, PoolTypes
<1>9. ASSUME Pool!DispatchStops \/ Pool!ShutdownBegins \/ Pool!ShutdownReturns PROVE PoolTypes'
  BY <1>1, <1>9 DEF Pool!DispatchStops, Pool!ShutdownBegins, Pool!ShutdownReturns, PoolTypes
<1> QED BY <1>2, <1>3, <1>4, <1>5, <1>6, <1>7, <1>8, <1>9 DEF Pool!Next

LEMMA PoolLimiterStep ==
  PoolLimiterInv /\ [PartsNext]_allVars => PoolLimiterInv' /\ [Next]_limiterVars
<1> SUFFICES ASSUME PoolLimiterInv, [PartsNext]_allVars PROVE PoolLimiterInv' /\ [Next]_limiterVars
  OBVIOUS
<1>1. Inv /\ PoolTypes
  BY DEF PoolLimiterInv
<1>2. [Next]_limiterVars /\ PoolTypes'
  <2>1. CASE Next /\ UNCHANGED poolVars
    BY <1>1, <2>1 DEF PoolTypes, poolVars
  <2>2. CASE Pool!Next
    BY <2>2, PoolStepsTheLimiter, PoolStepTypes
  <2>3. CASE UNCHANGED <<limiterVars, poolVars>>
    BY <1>1, <2>3 DEF PoolTypes, poolVars
  <2> QED BY <2>1, <2>2, <2>3, PartsMove
<1> QED BY <1>1, <1>2, InvStep DEF PoolLimiterInv

LEMMA PoolLimiterInit == PartsInit => PoolLimiterInv
<1> SUFFICES ASSUME PartsInit PROVE PoolLimiterInv
  OBVIOUS
<1>1. Init /\ Pool!Init
  BY DEF PartsInit
<1>2. PoolTypes
  BY <1>1, LiveAssumption DEF Pool!Init, PoolTypes
<1> QED BY <1>1, <1>2, InitInv DEF PoolLimiterInv

LEMMA PoolLimiterHolds == PartsFairSpec => []PoolLimiterInv
  BY PoolLimiterInit, PoolLimiterStep, PTL DEF PartsFairSpec

\* A pool drives its limiter as the limiter promises to be driven: what a
\* dispatcher, its jobs, a shutdown and the settings do to it are calls of its
\* own (pool.go over limiter.go).
THEOREM PoolKeepsToItsLimiter == PartsFairSpec => Spec
<1>1. PartsInit => Init
  BY DEF PartsInit
<1>2. PoolLimiterInv /\ [PartsNext]_allVars => [Next]_limiterVars
  BY PoolLimiterStep
<1> QED BY <1>1, <1>2, PoolLimiterHolds, PTL DEF PartsFairSpec, Spec

\* So what was proved of the limiter alone holds of the one under the pool.
THEOREM PooledLimitHolds ==
  PartsFairSpec => [](SlotsAccounted /\ NoLostWakeup) /\ NoOvercommit /\ LongestWaitingFirst
<1> QED BY PoolKeepsToItsLimiter, NoSlotLeaks, WakeupsAreNeverLost, NeverOvercommits, FirstComeFirstServed, PTL

----------------------------------------------------------------------------
(* The Redis breaker. *)

\* The probe that was let through has pushed the probe time ahead, and no call
\* under way may swap it again.
RedisInv ==
  /\ Redis!TypeOK /\ probes \in {0, 1}
  /\ probes = 1 => wait # 0 /\ \A c \in Call : ~call[c].same

LEMMA RedisInit == PartsInit => RedisInv
<1> SUFFICES ASSUME PartsInit PROVE RedisInv
  OBVIOUS
<1>1. /\ up \in BOOLEAN /\ down = FALSE /\ wait = 0 /\ probes = 0
      /\ call = [c \in Call |-> [step |-> "free", same |-> FALSE, until |-> 0]]
  BY DEF PartsInit, Redis!Init, Redis!Free
<1>2. 0 \in 0..RetryAfter
  BY LiveAssumption
<1>3. Redis!TypeOK
  BY <1>1, <1>2 DEF Redis!TypeOK
<1>4. probes = 0
  BY <1>1
<1> QED BY <1>3, <1>4 DEF RedisInv

\* A call is one of these records throughout.
CallRecord == [step: {"free", "due", "sent", "failed", "stored"}, same: BOOLEAN, until: 0..RetryAfter]

LEMMA CallRecords ==
  ASSUME RedisInv
  PROVE  /\ call \in [Call -> CallRecord] /\ RetryAfter \in Nat \ {0}
         /\ wait \in 0..RetryAfter /\ up \in BOOLEAN /\ down \in BOOLEAN
         /\ Redis!Free \in CallRecord
         /\ [Redis!Free EXCEPT !.step = "sent"] \in CallRecord
         /\ [Redis!Free EXCEPT !.step = "stored"] \in CallRecord
         /\ [Redis!Free EXCEPT !.step = "failed", !.until = RetryAfter] \in CallRecord
         /\ ~Redis!Free.same
<1>1. 0 \in 0..RetryAfter /\ RetryAfter \in 0..RetryAfter /\ RetryAfter \in Nat \ {0}
  BY LiveAssumption
<1> QED BY <1>1 DEF RedisInv, Redis!TypeOK, Redis!Free, CallRecord

LEMMA WrittenCalls ==
  ASSUME RedisInv
  PROVE  /\ Redis!Written(call) \in [Call -> CallRecord]
         /\ \A c \in Call : ~Redis!Written(call)[c].same
<1>1. call \in [Call -> CallRecord]
  BY CallRecords
<1>2. \A c \in Call : [call[c] EXCEPT !.same = FALSE] \in CallRecord /\ ~[call[c] EXCEPT !.same = FALSE].same
  BY <1>1 DEF CallRecord
<1> QED BY <1>2 DEF Redis!Written

\* What has to be shown of a step.
LEMMA RedisKept ==
  ASSUME up' \in BOOLEAN, down' \in BOOLEAN, wait' \in 0..RetryAfter, call' \in [Call -> CallRecord],
         probes' \in {0, 1}, probes' = 1 => wait' # 0 /\ \A c \in Call : ~call'[c].same
  PROVE  RedisInv'
  BY DEF RedisInv, Redis!TypeOK, CallRecord

LEMMA RedisStep == RedisInv /\ [PartsNext]_allVars => RedisInv'
<1> SUFFICES ASSUME RedisInv, [PartsNext]_allVars PROVE RedisInv'
  OBVIOUS
<1>0. /\ call \in [Call -> CallRecord] /\ RetryAfter \in Nat \ {0} /\ wait \in 0..RetryAfter
      /\ up \in BOOLEAN /\ down \in BOOLEAN /\ probes \in {0, 1}
      /\ probes = 1 => wait # 0 /\ \A c \in Call : ~call[c].same
  BY CallRecords DEF RedisInv
<1>1. CASE Redis!Tick
  <2>1. wait' \in 0..RetryAfter /\ probes' = 0 /\ up' = up /\ down' = down
    BY <1>0, <1>1 DEF Redis!Tick, Redis!Less
  <2>2. \A c \in Call : [call[c] EXCEPT !.until = Redis!Less(@)] \in CallRecord
    BY <1>0 DEF CallRecord, Redis!Less
  <2>3. call' \in [Call -> CallRecord]
    BY <1>1, <2>2 DEF Redis!Tick
  <2> QED BY <1>0, <2>1, <2>3, RedisKept
<1>2. CASE Redis!RedisChanges
  BY <1>0, <1>2, RedisKept DEF Redis!RedisChanges
<1>3. ASSUME NEW c \in Call, Redis!Begin(c) PROVE RedisInv'
  <2>1. up' = up /\ down' = down /\ wait' = wait /\ probes' = probes /\ call[c] = Redis!Free
    BY <1>3 DEF Redis!Begin
  <2>2. CASE call' = [call EXCEPT ![c].step = "sent"]
    <3>1. [call[c] EXCEPT !.step = "sent"] \in CallRecord /\ [call[c] EXCEPT !.step = "sent"].same = call[c].same
      BY <1>0 DEF CallRecord
    <3>2. call' \in [Call -> CallRecord] /\ \A k \in Call : call'[k].same = call[k].same
      BY <1>0, <2>2, <3>1
    <3> QED BY <1>0, <2>1, <3>2, RedisKept
  <2>3. CASE wait = 0 /\ call' = [call EXCEPT ![c] = [@ EXCEPT !.step = "due", !.same = TRUE]]
    <3>1. [call[c] EXCEPT !.step = "due", !.same = TRUE] \in CallRecord
      BY <1>0 DEF CallRecord
    <3>2. call' \in [Call -> CallRecord] /\ probes = 0
      BY <1>0, <2>3, <3>1
    <3> QED BY <1>0, <2>1, <3>2, RedisKept
  <2> QED BY <1>3, <2>2, <2>3 DEF Redis!Begin
<1>4. ASSUME NEW c \in Call, Redis!ProbeSwap(c) PROVE RedisInv'
  <2>1. CASE call[c].same
    <3>1. /\ wait' = RetryAfter /\ probes' = probes + 1 /\ up' = up /\ down' = down
          /\ call' = [Redis!Written(call) EXCEPT ![c] = [Redis!Free EXCEPT !.step = "sent"]]
      BY <1>4, <2>1 DEF Redis!ProbeSwap
    <3>2. probes' = 1 /\ wait' \in 0..RetryAfter /\ wait' # 0
      BY <1>0, <2>1, <3>1
    <3>3. [Redis!Free EXCEPT !.step = "sent"] \in CallRecord /\ ~[Redis!Free EXCEPT !.step = "sent"].same
      BY CallRecords DEF Redis!Free
    <3>4. call' \in [Call -> CallRecord] /\ \A k \in Call : ~call'[k].same
      BY <3>1, <3>3, WrittenCalls
    <3> QED BY <1>0, <3>1, <3>2, <3>4, RedisKept
  <2>2. CASE ~call[c].same
    <3>1. call' = [call EXCEPT ![c] = Redis!Free] /\ wait' = wait /\ probes' = probes /\ up' = up /\ down' = down
      BY <1>4, <2>2 DEF Redis!ProbeSwap
    <3>2. call' \in [Call -> CallRecord] /\ \A k \in Call : call'[k].same => call[k].same
      BY <1>0, <3>1, CallRecords
    <3> QED BY <1>0, <3>1, <3>2, RedisKept
  <2> QED BY <2>1, <2>2
<1>5. ASSUME NEW c \in Call, Redis!Succeed(c) \/ Redis!CancelCall(c) \/ Redis!RaiseFlag(c) PROVE RedisInv'
  <2>1. /\ call' = [call EXCEPT ![c] = Redis!Free] /\ wait' = wait /\ probes' = probes /\ up' = up
        /\ down' \in BOOLEAN
    BY <1>0, <1>5 DEF Redis!Succeed, Redis!CancelCall, Redis!RaiseFlag
  <2>2. call' \in [Call -> CallRecord] /\ \A k \in Call : call'[k].same => call[k].same
    BY <1>0, <2>1, CallRecords
  <2> QED BY <1>0, <2>1, <2>2, RedisKept
<1>6. ASSUME NEW c \in Call, Redis!Fail(c) PROVE RedisInv'
  <2>1. /\ call' = [call EXCEPT ![c] = [Redis!Free EXCEPT !.step = "failed", !.until = RetryAfter]]
        /\ wait' = wait /\ probes' = probes /\ up' = up /\ down' = down
    BY <1>6 DEF Redis!Fail
  <2>2. ~[Redis!Free EXCEPT !.step = "failed", !.until = RetryAfter].same
    BY DEF Redis!Free
  <2>3. call' \in [Call -> CallRecord] /\ \A k \in Call : call'[k].same => call[k].same
    BY <1>0, <2>1, <2>2, CallRecords
  <2> QED BY <1>0, <2>1, <2>3, RedisKept
<1>7. ASSUME NEW c \in Call, Redis!StoreProbeTime(c) PROVE RedisInv'
  <2>1. /\ wait' = call[c].until /\ probes' = 0 /\ up' = up /\ down' = down
        /\ call' = [Redis!Written(call) EXCEPT ![c] = [Redis!Free EXCEPT !.step = "stored"]]
    BY <1>7 DEF Redis!StoreProbeTime
  <2>2. wait' \in 0..RetryAfter
    BY <1>0, <2>1 DEF CallRecord
  <2>3. call' \in [Call -> CallRecord]
    BY <2>1, CallRecords, WrittenCalls
  <2> QED BY <1>0, <2>1, <2>2, <2>3, RedisKept
<1>8. ASSUME NEW c \in Call, Redis!Ping(c) PROVE RedisInv'
  <2>1. /\ call' = [call EXCEPT ![c].step = "sent"]
        /\ wait' = wait /\ probes' = probes /\ up' = up /\ down' = down
    BY <1>8 DEF Redis!Ping
  <2>2. [call[c] EXCEPT !.step = "sent"] \in CallRecord /\ [call[c] EXCEPT !.step = "sent"].same = call[c].same
    BY <1>0 DEF CallRecord
  <2>3. call' \in [Call -> CallRecord] /\ \A k \in Call : call'[k].same = call[k].same
    BY <1>0, <2>1, <2>2
  <2> QED BY <1>0, <2>1, <2>3, RedisKept
<1>9. CASE UNCHANGED redisVars
  BY <1>0, <1>9, RedisKept DEF redisVars
<1> QED BY <1>1, <1>2, <1>3, <1>4, <1>5, <1>6, <1>7, <1>8, <1>9, PartsMove DEF Redis!Next

LEMMA RedisHolds == PartsFairSpec => []RedisInv
  BY RedisInit, RedisStep, PTL DEF PartsFairSpec

\* While Redis is down one call probes it each time a probe is due, for any
\* number of calls under way and any pause (redis.go, begin and observe).
THEOREM ProbesComeSingly == PartsFairSpec => []Redis!OneProbeAtATime
<1>1. RedisInv => Redis!OneProbeAtATime
  BY DEF RedisInv, Redis!OneProbeAtATime
<1> QED BY <1>1, RedisHolds, PTL

----------------------------------------------------------------------------
(* The live settings. *)

\* Every notification announces a change of its own.
SettingsInv == Settings!TypeOK /\ notices <= table

\* What a goroutine that reloads is at.
LoaderRecord == [at: {"idle", "reload", "read", "publish", "apply"}, value: (0..MaxChanges) \cup {-1}]

LEMMA LoaderRecords ==
  /\ Settings!Idle \in LoaderRecord
  /\ \A at \in {"reload", "read", "publish", "apply"}, v \in (0..MaxChanges) \cup {-1} :
       [at |-> at, value |-> v] \in LoaderRecord
  /\ Settings!Defaults = -1
  BY DEF LoaderRecord, Settings!Idle, Settings!Defaults

LEMMA SettingsParts ==
  Settings!TypeOK <=>
    /\ table \in 0..MaxChanges /\ notices \in 0..MaxChanges /\ listens \in BOOLEAN /\ wired \in BOOLEAN
    /\ loader \in [Settings!Loader -> LoaderRecord]
    /\ snap \in (0..MaxChanges) \cup {-1} /\ limits \in (0..MaxChanges) \cup {-1}
<1>1. Settings!Change = 0..MaxChanges /\ Settings!Defaults = -1
  BY DEF Settings!Change, Settings!Defaults
<1>2. {listens, wired} \subseteq BOOLEAN <=> listens \in BOOLEAN /\ wired \in BOOLEAN
  OBVIOUS
<1> QED BY <1>1, <1>2 DEF Settings!TypeOK, LoaderRecord

LEMMA SettingsInit == PartsInit => SettingsInv
<1> SUFFICES ASSUME PartsInit PROVE SettingsInv
  OBVIOUS
<1>1. /\ table = 0 /\ snap \in {0, -1} /\ limits = snap /\ listens = FALSE /\ notices = 0 /\ wired = FALSE
      /\ loader = [g \in Settings!Loader |-> Settings!Idle]
  BY LoaderRecords DEF PartsInit, Settings!Init
<1>2. 0 \in 0..MaxChanges
  BY LiveAssumption
<1>3. loader \in [Settings!Loader -> LoaderRecord]
  BY <1>1, LoaderRecords
<1>4. snap \in (0..MaxChanges) \cup {-1} /\ limits \in (0..MaxChanges) \cup {-1}
  BY <1>1, <1>2
<1>5. Settings!TypeOK
  BY <1>1, <1>2, <1>3, <1>4, SettingsParts
<1>6. notices <= table
  BY <1>1
<1> QED BY <1>5, <1>6 DEF SettingsInv

\* Where a goroutine goes, its record stays one.
LEMMA LoaderGoes ==
  ASSUME SettingsInv, NEW g \in Settings!Loader,
         \/ loader' = [loader EXCEPT ![g] = Settings!Idle]
         \/ \E at \in {"reload", "read", "publish", "apply"}, v \in (0..MaxChanges) \cup {-1} :
              Settings!Goes(g, at, v)
  PROVE  loader' \in [Settings!Loader -> LoaderRecord]
<1>1. loader \in [Settings!Loader -> LoaderRecord]
  BY SettingsParts DEF SettingsInv
<1>2. CASE loader' = [loader EXCEPT ![g] = Settings!Idle]
  BY <1>1, <1>2, LoaderRecords
<1>3. ASSUME NEW at \in {"reload", "read", "publish", "apply"}, NEW v \in (0..MaxChanges) \cup {-1},
             Settings!Goes(g, at, v)
      PROVE  loader' \in [Settings!Loader -> LoaderRecord]
  <2>1. [at |-> at, value |-> v] \in LoaderRecord
    BY LoaderRecords
  <2>2. loader' = [loader EXCEPT ![g] = [at |-> at, value |-> v]]
    BY <1>3 DEF Settings!Goes
  <2> QED BY <1>1, <2>1, <2>2
<1> QED BY <1>2, <1>3

\* A step of a goroutine leaves the table, the connection and its notifications
\* as they are.
LEMMA SettingsKept ==
  ASSUME SettingsInv, loader' \in [Settings!Loader -> LoaderRecord],
         UNCHANGED <<table, listens, notices>>, wired' \in BOOLEAN,
         snap' \in (0..MaxChanges) \cup {-1}, limits' \in (0..MaxChanges) \cup {-1}
  PROVE  SettingsInv'
<1>1. /\ table \in 0..MaxChanges /\ notices \in 0..MaxChanges /\ listens \in BOOLEAN /\ notices <= table
  BY SettingsParts DEF SettingsInv
<1>2. Settings!TypeOK'
  BY <1>1, SettingsParts DEF Settings!TypeOK, Settings!Change, Settings!Defaults, LoaderRecord, Settings!Loader
<1> QED BY <1>1, <1>2 DEF SettingsInv

LEMMA SettingsStep == SettingsInv /\ [PartsNext]_allVars => SettingsInv'
<1> SUFFICES ASSUME SettingsInv, [PartsNext]_allVars PROVE SettingsInv'
  OBVIOUS
<1> DEFINE Values == (0..MaxChanges) \cup {-1}
<1>0. /\ table \in 0..MaxChanges /\ notices \in 0..MaxChanges /\ listens \in BOOLEAN /\ wired \in BOOLEAN
      /\ loader \in [Settings!Loader -> LoaderRecord] /\ snap \in Values /\ limits \in Values
      /\ notices <= table /\ MaxChanges \in Nat /\ table \in Values /\ Settings!Defaults \in Values
  BY SettingsParts, LoaderRecords, LiveAssumption DEF SettingsInv
<1>01. \A g \in Settings!Loader : loader[g].value \in Values
  BY <1>0 DEF LoaderRecord
<1>02. "listener" \in Settings!Loader /\ "reconcile" \in Settings!Loader /\ "wiring" \in Settings!Loader
  BY DEF Settings!Loader
<1>03. ASSUME table' \in 0..MaxChanges, notices' \in 0..MaxChanges, listens' \in BOOLEAN, notices' <= table',
              loader' \in [Settings!Loader -> LoaderRecord], UNCHANGED <<snap, wired, limits>>
       PROVE  SettingsInv'
  BY <1>0, <1>03 DEF SettingsInv, Settings!TypeOK, Settings!Change, Settings!Defaults, LoaderRecord, Settings!Loader
<1> HIDE DEF Values
<1>1. CASE Settings!Set
  <2>1. /\ table < MaxChanges /\ table' = table + 1 /\ notices' \in {notices, notices + 1}
        /\ UNCHANGED <<listens, loader, snap, wired, limits>>
    BY <1>1 DEF Settings!Set
  <2>2. table' \in 0..MaxChanges /\ notices' \in 0..MaxChanges /\ notices' <= table'
    BY <1>0, <2>1
  <2> QED BY <1>0, <1>03, <2>1, <2>2
<1>2. CASE Settings!Connect
  <2>1. loader' \in [Settings!Loader -> LoaderRecord]
    BY <1>0, <1>02, <1>2, LoaderGoes DEF Settings!Connect, Values
  <2> QED BY <1>0, <1>03, <1>2, <2>1 DEF Settings!Connect
<1>3. CASE Settings!Disconnect
  <2>1. notices' = 0 /\ listens' = FALSE /\ UNCHANGED <<table, loader, snap, wired, limits>>
    BY <1>3 DEF Settings!Disconnect
  <2>2. notices' \in 0..MaxChanges /\ notices' <= table'
    BY <1>0, <2>1
  <2> QED BY <1>0, <1>03, <2>1, <2>2
<1>4. CASE Settings!Notified
  <2>1. notices > 0 /\ notices' = notices - 1 /\ UNCHANGED <<table, listens, snap, wired, limits>>
    BY <1>4 DEF Settings!Notified
  <2>2. notices' \in 0..MaxChanges /\ notices' <= table'
    BY <1>0, <2>1
  <2>3. loader' \in [Settings!Loader -> LoaderRecord]
    BY <1>0, <1>02, <1>4, LoaderGoes DEF Settings!Notified, Values
  <2> QED BY <1>0, <1>03, <2>1, <2>2, <2>3
<1>5. CASE Settings!Tick
  <2>1. loader' \in [Settings!Loader -> LoaderRecord]
    BY <1>0, <1>02, <1>5, LoaderGoes DEF Settings!Tick, Values
  <2> QED BY <1>0, <1>5, <2>1, SettingsKept DEF Settings!Tick, Values
<1>6. CASE Settings!OnChange
  <2>1. loader' \in [Settings!Loader -> LoaderRecord]
    BY <1>0, <1>02, <1>6, LoaderGoes DEF Settings!OnChange, Values
  <2> QED BY <1>0, <1>6, <2>1, SettingsKept DEF Settings!OnChange, Values
<1>7. ASSUME NEW g \in Settings!Loader, Settings!ReadRows(g) \/ Settings!FailRead(g) PROVE SettingsInv'
  <2>1. loader' \in [Settings!Loader -> LoaderRecord]
    BY <1>0, <1>7, LoaderGoes DEF Settings!ReadRows, Settings!FailRead, Values
  <2> QED BY <1>0, <1>7, <2>1, SettingsKept DEF Settings!ReadRows, Settings!FailRead, Values
<1>8. ASSUME NEW g \in Settings!Loader, Settings!StoreSnapshot(g) PROVE SettingsInv'
  <2>1. loader' \in [Settings!Loader -> LoaderRecord]
    BY <1>0, <1>8, LoaderGoes DEF Settings!StoreSnapshot, Values
  <2> QED BY <1>0, <1>01, <1>8, <2>1, SettingsKept DEF Settings!StoreSnapshot, Values
<1>9. ASSUME NEW g \in Settings!Loader, Settings!Publish(g) PROVE SettingsInv'
  <2>1. loader' \in [Settings!Loader -> LoaderRecord]
    BY <1>0, <1>9, LoaderGoes DEF Settings!Publish, Values
  <2> QED BY <1>0, <1>9, <2>1, SettingsKept DEF Settings!Publish, Values
<1>10. ASSUME NEW g \in Settings!Loader, Settings!ApplySettings(g) PROVE SettingsInv'
  <2>1. loader' \in [Settings!Loader -> LoaderRecord]
    BY <1>0, <1>10, LoaderGoes DEF Settings!ApplySettings, Values
  <2> QED BY <1>0, <1>01, <1>10, <2>1, SettingsKept DEF Settings!ApplySettings, Values
<1>11. CASE UNCHANGED settingsVars
  BY <1>0, <1>03, <1>11 DEF settingsVars
<1> QED BY <1>1, <1>2, <1>3, <1>4, <1>5, <1>6, <1>7, <1>8, <1>9, <1>10, <1>11, PartsMove
        DEF Settings!Next, Settings!Moves

LEMMA SettingsHold == PartsFairSpec => []SettingsInv
  BY SettingsInit, SettingsStep, PTL DEF PartsFairSpec

----------------------------------------------------------------------------
(* The remembered claims. *)

NoteRecord == {[at |-> "idle", issue |-> {}, claimed |-> FALSE, old |-> {}]}
              \cup [at: {"committed", "copied"}, issue: ClaimedIssue, claimed: BOOLEAN, old: SUBSET ClaimedIssue]
RereadRecord == [at: {"waits", "due", "read"}, read: SUBSET ClaimedIssue]

LEMMA ClaimsParts ==
  Claims!TypeOK <=>
    /\ active \subseteq ClaimedIssue /\ changes \in 0..MaxClaims /\ memory \subseteq ClaimedIssue
    /\ rereader \in RereadRecord /\ noting \in [Handler -> NoteRecord]
  BY DEF Claims!TypeOK, NoteRecord, RereadRecord, Claims!Idle

LEMMA ClaimsInit == PartsInit => Claims!TypeOK
<1> SUFFICES ASSUME PartsInit PROVE Claims!TypeOK
  OBVIOUS
<1>1. /\ active = {} /\ changes = 0 /\ memory = {} /\ rereader = [at |-> "due", read |-> {}]
      /\ noting = [h \in Handler |-> [at |-> "idle", issue |-> {}, claimed |-> FALSE, old |-> {}]]
  BY DEF PartsInit, Claims!Init, Claims!Idle
<1>2. 0 \in 0..MaxClaims
  BY LiveAssumption
<1>3. rereader \in RereadRecord
  BY <1>1 DEF RereadRecord
<1>4. noting \in [Handler -> NoteRecord]
  BY <1>1 DEF NoteRecord
<1> QED BY <1>1, <1>2, <1>3, <1>4, ClaimsParts

LEMMA ClaimsStep == Claims!TypeOK /\ [PartsNext]_allVars => Claims!TypeOK'
<1> SUFFICES ASSUME Claims!TypeOK, [PartsNext]_allVars PROVE Claims!TypeOK'
  OBVIOUS
<1>0. /\ active \subseteq ClaimedIssue /\ changes \in 0..MaxClaims /\ memory \subseteq ClaimedIssue
      /\ rereader \in RereadRecord /\ noting \in [Handler -> NoteRecord] /\ MaxClaims \in Nat
  BY ClaimsParts, LiveAssumption
<1>01. ASSUME active' \subseteq ClaimedIssue, changes' \in 0..MaxClaims, memory' \subseteq ClaimedIssue,
              rereader' \in RereadRecord, noting' \in [Handler -> NoteRecord]
       PROVE  Claims!TypeOK'
  BY <1>01 DEF Claims!TypeOK, NoteRecord, RereadRecord, Claims!Idle
<1>02. \A now : Claims!Change(now) => changes' \in 0..MaxClaims /\ active' = now
  BY <1>0 DEF Claims!Change
<1>03. \A h \in Handler : noting[h].at \in {"committed", "copied"} =>
         /\ noting[h] \in [at: {"committed", "copied"}, issue: ClaimedIssue, claimed: BOOLEAN, old: SUBSET ClaimedIssue]
         /\ noting[h].issue \in ClaimedIssue
  BY <1>0 DEF NoteRecord
<1>04. Claims!Idle \in NoteRecord /\ Claims!Waiting \in RereadRecord
  BY DEF Claims!Idle, Claims!Waiting, NoteRecord, RereadRecord
<1>1. ASSUME NEW i \in ClaimedIssue, Claims!ChangeElsewhere(i) PROVE Claims!TypeOK'
  BY <1>0, <1>01, <1>02, <1>1 DEF Claims!ChangeElsewhere
<1>2. ASSUME NEW h \in Handler, NEW i \in ClaimedIssue, Claims!CommitClaim(h, i) PROVE Claims!TypeOK'
  <2>1. /\ changes' \in 0..MaxClaims /\ active' \in {active \cup {i}, active \ {i}}
        /\ memory' = memory /\ rereader' = rereader
        /\ \E claimed \in BOOLEAN :
             noting' = [noting EXCEPT ![h] = [at |-> "committed", issue |-> i, claimed |-> claimed, old |-> {}]]
    BY <1>02, <1>2 DEF Claims!CommitClaim
  <2>2. \A claimed \in BOOLEAN : [at |-> "committed", issue |-> i, claimed |-> claimed, old |-> {}] \in NoteRecord
    BY DEF NoteRecord
  <2>3. noting' \in [Handler -> NoteRecord]
    BY <1>0, <2>1, <2>2
  <2> QED BY <1>0, <1>01, <2>1, <2>3
<1>3. ASSUME NEW h \in Handler, Claims!CopySet(h) PROVE Claims!TypeOK'
  <2>1. /\ noting[h].at = "committed" /\ noting' = [noting EXCEPT ![h].at = "copied", ![h].old = memory]
        /\ UNCHANGED <<active, changes, memory, rereader>>
    BY <1>3 DEF Claims!CopySet
  <2>2. [noting[h] EXCEPT !.at = "copied", !.old = memory] \in NoteRecord
    BY <1>0, <1>03, <2>1 DEF NoteRecord
  <2>3. noting' = [noting EXCEPT ![h] = [noting[h] EXCEPT !.at = "copied", !.old = memory]]
    BY <1>0, <2>1
  <2>4. noting' \in [Handler -> NoteRecord]
    BY <1>0, <2>2, <2>3
  <2> QED BY <1>0, <1>01, <2>1, <2>4
<1>4. ASSUME NEW h \in Handler, Claims!SwapSet(h) PROVE Claims!TypeOK'
  <2>1. noting[h].at = "copied" /\ UNCHANGED <<active, changes, rereader>>
    BY <1>4 DEF Claims!SwapSet
  <2>2. noting[h].issue \in ClaimedIssue
    BY <1>03, <2>1
  <2>3. memory' \subseteq ClaimedIssue
    BY <1>0, <1>4, <2>2 DEF Claims!SwapSet
  <2>4. [noting[h] EXCEPT !.at = "committed", !.old = {}] \in NoteRecord
    BY <1>03, <2>1 DEF NoteRecord
  <2>5. \/ noting' = [noting EXCEPT ![h] = Claims!Idle]
        \/ noting' = [noting EXCEPT ![h].at = "committed", ![h].old = {}]
    BY <1>4 DEF Claims!SwapSet
  <2>6. noting' \in [Handler -> NoteRecord]
    <3>1. CASE noting' = [noting EXCEPT ![h] = Claims!Idle]
      BY <1>0, <1>04, <3>1
    <3>2. CASE noting' = [noting EXCEPT ![h].at = "committed", ![h].old = {}]
      <4>1. noting' = [noting EXCEPT ![h] = [noting[h] EXCEPT !.at = "committed", !.old = {}]]
        BY <1>0, <3>2
      <4> QED BY <1>0, <2>4, <4>1
    <3> QED BY <2>5, <3>1, <3>2
  <2> QED BY <1>0, <1>01, <2>1, <2>3, <2>6
<1>5. CASE Claims!LoopDue \/ Claims!ReadActive \/ Claims!FailRead
  <2>1. UNCHANGED <<active, changes, memory, noting>>
    BY <1>5 DEF Claims!LoopDue, Claims!ReadActive, Claims!FailRead
  <2>2. rereader' \in {[rereader EXCEPT !.at = "due"], [at |-> "read", read |-> active], Claims!Waiting}
    BY <1>5 DEF Claims!LoopDue, Claims!ReadActive, Claims!FailRead
  <2>3. [rereader EXCEPT !.at = "due"] \in RereadRecord /\ [at |-> "read", read |-> active] \in RereadRecord
    BY <1>0 DEF RereadRecord
  <2> QED BY <1>0, <1>01, <1>04, <2>1, <2>2, <2>3
<1>6. CASE Claims!StoreRead
  <2>1. memory' = rereader.read /\ rereader' = Claims!Waiting /\ UNCHANGED <<active, changes, noting>>
    BY <1>6 DEF Claims!StoreRead
  <2>2. rereader.read \subseteq ClaimedIssue
    BY <1>0 DEF RereadRecord
  <2> QED BY <1>0, <1>01, <1>04, <2>1, <2>2
<1>7. CASE UNCHANGED claimsVars
  BY <1>0, <1>01, <1>7 DEF claimsVars
<1> QED BY <1>1, <1>2, <1>3, <1>4, <1>5, <1>6, <1>7, PartsMove DEF Claims!Next

----------------------------------------------------------------------------
(* Reports, themes and hidden targets. *)

Targets == Theme \cup Listing
ThemeStates == {"unborn", "private", "public", "deleted"}
Wearable == Theme \cup {Nothing}
RefreshRecord == [at: {"rest", "due", "read"}, read: SUBSET Targets]

ReportTypes ==
  /\ open \subseteq Member \X Targets /\ upheld \subseteq Targets
  /\ today \in [Member -> 0..PerDay] /\ filed \in 0..MaxReports
  /\ reporting \in [Member -> Targets \cup {Nothing}]
ThemeTypes ==
  /\ theme \in [Theme -> ThemeStates]
  /\ worn \in [Member -> Wearable] /\ dressing \in [Member -> Wearable]
HiddenTypes ==
  /\ refresher \in [Reports!Refresher -> RefreshRecord]
  /\ hidden \subseteq Targets

LEMMA ReportsParts ==
  /\ Reports!TypeOK <=> ReportTypes /\ ThemeTypes /\ HiddenTypes
  /\ Reports!TypeOK' <=> (ReportTypes /\ ThemeTypes /\ HiddenTypes)'
  BY DEF Reports!TypeOK, ReportTypes, ThemeTypes, HiddenTypes, Reports!Target, Targets, ThemeStates,
         Wearable, RefreshRecord

LEMMA ReportsInit == PartsInit => Reports!TypeOK
<1> SUFFICES ASSUME PartsInit PROVE Reports!TypeOK
  OBVIOUS
<1>1. Reports!Init
  BY DEF PartsInit
<1>2. 0 \in 0..PerDay /\ 0 \in 0..MaxReports
  BY LiveAssumption
<1>3. ReportTypes
  BY <1>1, <1>2 DEF Reports!Init, ReportTypes
<1>4. ThemeTypes
  BY <1>1 DEF Reports!Init, ThemeTypes, ThemeStates, Wearable
<1>5. HiddenTypes
  BY <1>1 DEF Reports!Init, HiddenTypes, RefreshRecord, Reports!Resting
<1> QED BY <1>3, <1>4, <1>5, ReportsParts

\* What each half of a step leaves alone keeps its types.
LEMMA ReportsUntouched ==
  /\ ReportTypes /\ UNCHANGED <<open, upheld, today, filed, reporting>> => ReportTypes'
  /\ ThemeTypes /\ UNCHANGED <<theme, worn, dressing>> => ThemeTypes'
  /\ HiddenTypes /\ UNCHANGED <<refresher, hidden>> => HiddenTypes'
  BY DEF ReportTypes, ThemeTypes, HiddenTypes, Reports!Refresher, RefreshRecord, Targets, ThemeStates, Wearable

LEMMA WithdrawnTypes ==
  ASSUME ThemeTypes, NEW t
  PROVE  Reports!Withdrawn(t) \in [Member -> Wearable]
  BY DEF ThemeTypes, Wearable, Reports!Withdrawn

\* Filing, ageing and reviewing reports.
LEMMA ReportingKeeps ==
  ASSUME Reports!TypeOK,
         \/ \E m \in Member, t \in Reports!Target : Reports!FindTarget(m, t)
         \/ \E m \in Member : Reports!Create(m) \/ Reports!RefuseReport(m) \/ Reports!DayPasses(m)
         \/ \E t \in Reports!Target, uphold \in BOOLEAN : Reports!Resolve(t, uphold)
  PROVE  Reports!TypeOK'
<1>0. /\ ReportTypes /\ ThemeTypes /\ HiddenTypes /\ PerDay \in Nat /\ MaxReports \in Nat
      /\ Reports!Target = Targets
  BY ReportsParts, LiveAssumption DEF Reports!Target, Targets
<1>1. ASSUME NEW m \in Member, Reports!Create(m) PROVE Reports!TypeOK'
  <2>1. /\ reporting[m] # Nothing /\ reporting' = [reporting EXCEPT ![m] = Nothing]
        /\ today[m] < PerDay /\ filed < MaxReports /\ filed' = filed + 1 /\ upheld' = upheld
        /\ open' = open \cup {<<m, reporting[m]>>} /\ today' = [today EXCEPT ![m] = @ + 1]
        /\ UNCHANGED <<theme, worn, dressing, refresher, hidden>>
    BY <1>1 DEF Reports!Create, Reports!themeVars
  <2>2. today[m] + 1 \in 0..PerDay /\ filed + 1 \in 0..MaxReports /\ reporting[m] \in Targets
    BY <1>0, <2>1 DEF ReportTypes
  <2>3. ReportTypes'
    BY <1>0, <2>1, <2>2 DEF ReportTypes
  <2> QED BY <1>0, <2>1, <2>3, ReportsParts, ReportsUntouched
<1>2. ASSUME NEW m \in Member, Reports!DayPasses(m) PROVE Reports!TypeOK'
  <2>1. /\ today[m] > 0 /\ today' = [today EXCEPT ![m] = @ - 1]
        /\ UNCHANGED <<open, upheld, filed, reporting, theme, worn, dressing, refresher, hidden>>
    BY <1>2 DEF Reports!DayPasses, Reports!themeVars
  <2>2. today[m] - 1 \in 0..PerDay
    BY <1>0, <2>1 DEF ReportTypes
  <2>3. ReportTypes'
    BY <1>0, <2>1, <2>2 DEF ReportTypes
  <2> QED BY <1>0, <2>1, <2>3, ReportsParts, ReportsUntouched
<1>3. ASSUME NEW t \in Targets, NEW uphold \in BOOLEAN, Reports!Resolve(t, uphold) PROVE Reports!TypeOK'
  <2>1. /\ open' = open \ (Member \X {t}) /\ upheld' \in {upheld \cup {t}, upheld \ {t}}
        /\ UNCHANGED <<today, filed, reporting, dressing, hidden>>
        /\ refresher' = [refresher EXCEPT !["moderator"].at = "due"]
    BY <1>3 DEF Reports!Resolve
  <2>2. ReportTypes'
    BY <1>0, <2>1 DEF ReportTypes
  <2>3. HiddenTypes'
    <3>1. [refresher["moderator"] EXCEPT !.at = "due"] \in RefreshRecord
      BY <1>0 DEF HiddenTypes, RefreshRecord, Reports!Refresher
    <3>2. refresher' = [refresher EXCEPT !["moderator"] = [refresher["moderator"] EXCEPT !.at = "due"]]
      BY <1>0, <2>1 DEF HiddenTypes
    <3>3. refresher' \in [Reports!Refresher -> RefreshRecord]
      BY <1>0, <3>1, <3>2 DEF HiddenTypes
    <3> QED BY <1>0, <2>1, <3>3 DEF HiddenTypes, Reports!Refresher, RefreshRecord, Targets
  <2>4. ThemeTypes'
    <3>1. CASE uphold /\ t \in Theme
      <4>1. /\ theme' = [theme EXCEPT ![t] = IF @ = "public" THEN "private" ELSE @]
            /\ worn' = Reports!Withdrawn(t)
        BY <1>3, <3>1 DEF Reports!Resolve
      <4>2. theme' \in [Theme -> ThemeStates]
        BY <1>0, <4>1 DEF ThemeTypes, ThemeStates
      <4> QED BY <1>0, <2>1, <4>1, <4>2, WithdrawnTypes DEF ThemeTypes, ThemeStates, Wearable
    <3>2. CASE ~(uphold /\ t \in Theme)
      <4>1. UNCHANGED <<theme, worn>>
        BY <1>3, <3>2 DEF Reports!Resolve
      <4> QED BY <1>0, <2>1, <4>1, ReportsUntouched
    <3> QED BY <3>1, <3>2
  <2> QED BY <2>2, <2>3, <2>4, ReportsParts
<1>4. ASSUME NEW m \in Member, NEW t \in Targets \cup {Nothing},
             reporting' = [reporting EXCEPT ![m] = t],
             UNCHANGED <<open, upheld, today, filed, theme, worn, dressing, refresher, hidden>>
      PROVE  Reports!TypeOK'
  <2>1. ReportTypes'
    BY <1>0, <1>4 DEF ReportTypes
  <2> QED BY <1>0, <1>4, <2>1, ReportsParts, ReportsUntouched
<1>5. ASSUME NEW m \in Member, NEW t \in Targets, Reports!FindTarget(m, t) PROVE Reports!TypeOK'
  BY <1>4, <1>5 DEF Reports!FindTarget, Reports!themeVars
<1>6. ASSUME NEW m \in Member, Reports!RefuseReport(m) PROVE Reports!TypeOK'
  BY <1>4, <1>6 DEF Reports!RefuseReport, Reports!themeVars
<1> QED BY <1>0, <1>1, <1>2, <1>3, <1>5, <1>6

\* The two refreshers.
LEMMA RefreshingKeeps ==
  ASSUME Reports!TypeOK,
         \/ Reports!LoopDue
         \/ \E r \in Reports!Refresher : Reports!ReadHidden(r) \/ Reports!FailRefresh(r) \/ Reports!StoreHidden(r)
  PROVE  Reports!TypeOK'
<1>0. ReportTypes /\ ThemeTypes /\ HiddenTypes
  BY ReportsParts
<1>1. UNCHANGED <<open, upheld, today, filed, reporting, theme, worn, dressing>>
  BY DEF Reports!LoopDue, Reports!ReadHidden, Reports!FailRefresh, Reports!StoreHidden, Reports!reportVars, Reports!themeVars
<1>2. HiddenTypes'
  <2>1. /\ refresher \in [Reports!Refresher -> RefreshRecord] /\ hidden \subseteq Targets
        /\ Reports!Resting \in RefreshRecord /\ "loop" \in Reports!Refresher
    BY <1>0 DEF HiddenTypes, RefreshRecord, Reports!Resting, Reports!Refresher
  <2>2. ASSUME refresher' \in [Reports!Refresher -> RefreshRecord], hidden' \subseteq Targets PROVE HiddenTypes'
    BY <2>2 DEF HiddenTypes, Reports!Refresher, RefreshRecord, Targets
  <2>3. CASE Reports!LoopDue
    <3>1. refresher' = [refresher EXCEPT !["loop"].at = "due"] /\ hidden' = hidden
      BY <2>3 DEF Reports!LoopDue
    <3>2. [refresher["loop"] EXCEPT !.at = "due"] \in RefreshRecord
      BY <2>1 DEF RefreshRecord
    <3>3. refresher' = [refresher EXCEPT !["loop"] = [refresher["loop"] EXCEPT !.at = "due"]]
      BY <2>1, <3>1
    <3> QED BY <2>1, <2>2, <3>1, <3>2, <3>3
  <2>4. ASSUME NEW r \in Reports!Refresher, Reports!ReadHidden(r) PROVE HiddenTypes'
    <3>1. refresher' = [refresher EXCEPT ![r] = [at |-> "read", read |-> Reports!Hidden]] /\ hidden' = hidden
      BY <2>4 DEF Reports!ReadHidden
    <3>2. [at |-> "read", read |-> Reports!Hidden] \in RefreshRecord
      BY DEF RefreshRecord, Reports!Hidden, Reports!Target, Targets
    <3> QED BY <2>1, <2>2, <3>1, <3>2
  <2>5. ASSUME NEW r \in Reports!Refresher, Reports!FailRefresh(r) PROVE HiddenTypes'
    BY <2>1, <2>2, <2>5 DEF Reports!FailRefresh
  <2>6. ASSUME NEW r \in Reports!Refresher, Reports!StoreHidden(r) PROVE HiddenTypes'
    <3>1. refresher[r].read \subseteq Targets
      BY <2>1 DEF RefreshRecord
    <3> QED BY <2>1, <2>2, <2>6, <3>1 DEF Reports!StoreHidden
  <2> QED BY <2>3, <2>4, <2>5, <2>6
<1> QED BY <1>0, <1>1, <1>2, ReportsParts, ReportsUntouched

\* Publishing and wearing themes.
LEMMA DressingKeeps ==
  ASSUME Reports!TypeOK,
         \/ \E m \in Member : \/ Reports!SetActive(m) \/ Reports!ClearActive(m)
                              \/ \E t \in Theme : Reports!FindTheme(m, t)
         \/ \E t \in Theme : \/ Reports!DeleteTheme(t)
                             \/ \E as \in {"private", "public"} : Reports!CreateTheme(t, as) \/ Reports!UpdateTheme(t, as)
  PROVE  Reports!TypeOK'
<1>0. ReportTypes /\ ThemeTypes /\ HiddenTypes
  BY ReportsParts
<1>1. UNCHANGED <<open, upheld, today, filed, reporting, refresher, hidden>>
  BY DEF Reports!SetActive, Reports!ClearActive, Reports!FindTheme, Reports!DeleteTheme, Reports!CreateTheme,
         Reports!UpdateTheme, Reports!reportVars
<1>2. ThemeTypes'
  <2>1. /\ theme \in [Theme -> ThemeStates] /\ worn \in [Member -> Wearable] /\ dressing \in [Member -> Wearable]
        /\ Nothing \in Wearable /\ Theme \subseteq Wearable /\ {"private", "public", "deleted"} \subseteq ThemeStates
    BY <1>0 DEF ThemeTypes, Wearable, ThemeStates
  <2>2. ASSUME theme' \in [Theme -> ThemeStates], worn' \in [Member -> Wearable], dressing' \in [Member -> Wearable]
        PROVE  ThemeTypes'
    BY <2>2 DEF ThemeTypes, ThemeStates, Wearable
  <2>3. ASSUME NEW m \in Member, Reports!SetActive(m) PROVE ThemeTypes'
    BY <2>1, <2>2, <2>3 DEF Reports!SetActive
  <2>4. ASSUME NEW m \in Member, Reports!ClearActive(m) PROVE ThemeTypes'
    BY <2>1, <2>2, <2>4 DEF Reports!ClearActive
  <2>5. ASSUME NEW m \in Member, NEW t \in Theme, Reports!FindTheme(m, t) PROVE ThemeTypes'
    BY <2>1, <2>2, <2>5 DEF Reports!FindTheme
  <2>6. ASSUME NEW t \in Theme, Reports!DeleteTheme(t) PROVE ThemeTypes'
    BY <2>1, <2>2, <2>6 DEF Reports!DeleteTheme
  <2>7. ASSUME NEW t \in Theme, NEW as \in {"private", "public"}, Reports!CreateTheme(t, as) PROVE ThemeTypes'
    BY <2>1, <2>2, <2>7 DEF Reports!CreateTheme
  <2>8. ASSUME NEW t \in Theme, NEW as \in {"private", "public"}, Reports!UpdateTheme(t, as) PROVE ThemeTypes'
    BY <1>0, <2>1, <2>2, <2>8, WithdrawnTypes DEF Reports!UpdateTheme
  <2> QED BY <2>3, <2>4, <2>5, <2>6, <2>7, <2>8
<1> QED BY <1>0, <1>1, <1>2, ReportsParts, ReportsUntouched

LEMMA ReportsStep == Reports!TypeOK /\ [PartsNext]_allVars => Reports!TypeOK'
<1> SUFFICES ASSUME Reports!TypeOK, [PartsNext]_allVars PROVE Reports!TypeOK'
  OBVIOUS
<1>1. CASE Reports!Next
  BY <1>1, ReportingKeeps, RefreshingKeeps, DressingKeeps DEF Reports!Next
<1>2. CASE UNCHANGED reportsVars
  BY <1>2, ReportsParts, ReportsUntouched DEF reportsVars
<1> QED BY <1>1, <1>2, PartsMove

----------------------------------------------------------------------------
(* The telemetry. *)

LEMMA ProductIsNatural == \A a, b \in Nat : a * b \in Nat
  OBVIOUS

LEMMA ProductGrows ==
  ASSUME NEW a \in Nat, NEW b \in Nat, NEW c \in Nat, a <= b
  PROVE  c * a \in Nat /\ c * b \in Nat /\ c * a <= c * b
<1>1. PICK d \in Nat : b = a + d
  <2>1. b - a \in Nat /\ b = a + (b - a)
    OBVIOUS
  <2> QED BY <2>1
<1>2. c * b = c * a + c * d /\ c * d \in Nat /\ c * a \in Nat
  BY <1>1
<1> QED BY <1>2

\* The relay may come to count n events and those of the batches w within b:
\* s tells how many it will have counted, at most, with each batch.
Countable(w, n, b) ==
  \E s \in [0..Len(w) -> 0..b] : n <= s[0] /\ \A i \in 1..Len(w) : s[i - 1] + w[i] <= s[i]

LEMMA CountableBounds ==
  ASSUME NEW w \in Seq(Nat), NEW n \in Nat, NEW b \in Nat, Countable(w, n, b)
  PROVE  n <= b
<1>1. PICK s \in [0..Len(w) -> 0..b] : n <= s[0]
  BY DEF Countable
<1>2. 0 \in 0..Len(w)
  BY LenProperties
<1> QED BY <1>1, <1>2

LEMMA CountableWidens ==
  ASSUME NEW w \in Seq(Nat), NEW n \in Nat, NEW b \in Nat, Countable(w, n, b),
         NEW more \in Nat, b <= more, NEW fewer \in Nat, fewer <= n
  PROVE  Countable(w, fewer, more)
<1>1. PICK s \in [0..Len(w) -> 0..b] : n <= s[0] /\ \A i \in 1..Len(w) : s[i - 1] + w[i] <= s[i]
  BY DEF Countable
<1>2. s \in [0..Len(w) -> 0..more] /\ Len(w) \in Nat
  BY <1>1, LenProperties
<1>3. fewer <= s[0]
  <2>1. s[0] \in Nat
    BY <1>2
  <2> QED BY <1>1, <2>1
<1> QED BY <1>1, <1>2, <1>3 DEF Countable

\* Batches that are lost are not counted.
LEMMA CountableLoses ==
  ASSUME NEW w \in Seq(Nat), NEW n \in Nat, NEW b \in Nat, Countable(w, n, b)
  PROVE  /\ Countable(<<>>, n, b)
         /\ w # <<>> => Countable(<<Head(w)>>, n, b)
<1>1. PICK s \in [0..Len(w) -> 0..b] : n <= s[0] /\ \A i \in 1..Len(w) : s[i - 1] + w[i] <= s[i]
  BY DEF Countable
<1>2. Len(w) \in Nat
  BY LenProperties
<1>3. Countable(<<>>, n, b)
  <2> DEFINE t == [i \in 0..0 |-> s[0]]
  <2>1. t \in [0..0 -> 0..b] /\ t[0] = s[0]
    BY <1>1, <1>2
  <2>2. Len(<<>>) = 0
    OBVIOUS
  <2>3. 1..Len(<<>>) = {}
    BY <2>2
  <2> HIDE DEF t
  <2> QED BY <1>1, <2>1, <2>2, <2>3 DEF Countable
<1>4. ASSUME w # <<>> PROVE Countable(<<Head(w)>>, n, b)
  <2> DEFINE v == <<Head(w)>>
             t == [i \in 0..1 |-> s[i]]
  <2>1. Len(w) >= 1 /\ Head(w) = w[1]
    BY <1>2, <1>4, HeadTailProperties
  <2>2. t \in [0..1 -> 0..b] /\ t[0] = s[0] /\ t[1] = s[1]
    <3>1. \A i \in 0..1 : i \in 0..Len(w)
      BY <1>2, <2>1
    <3>2. \A i \in 0..1 : s[i] \in 0..b
      BY <1>1, <3>1
    <3>3. 0 \in 0..1 /\ 1 \in 0..1
      OBVIOUS
    <3> QED BY <3>2, <3>3
  <2>3. Len(v) = 1 /\ v[1] = w[1]
    BY <2>1
  <2>4. s[0] + w[1] <= s[1]
    <3>1. 1 \in 1..Len(w)
      BY <1>2, <2>1
    <3>2. s[1 - 1] + w[1] <= s[1]
      BY <1>1, <3>1
    <3> QED BY <3>2
  <2> HIDE DEF v, t
  <2>5. \A i \in 1..Len(v) : t[i - 1] + v[i] <= t[i]
    BY <2>2, <2>3, <2>4
  <2>6. n <= t[0] /\ t \in [0..Len(v) -> 0..b]
    BY <1>1, <2>2, <2>3
  <2>7. Countable(v, n, b)
    BY <2>5, <2>6 DEF Countable
  <2> QED BY <2>7 DEF v
<1> QED BY <1>3, <1>4

\* One event of the first batch is counted.
LEMMA CountableCounts ==
  ASSUME NEW w \in Seq(Nat \ {0}), w # <<>>, NEW n \in Nat, NEW b \in Nat, Countable(w, n, b)
  PROVE  /\ Countable(Tail(w), n + 1, b)
         /\ Head(w) > 1 => Countable([w EXCEPT ![1] = @ - 1], n + 1, b)
<1>1. PICK s \in [0..Len(w) -> 0..b] : n <= s[0] /\ \A i \in 1..Len(w) : s[i - 1] + w[i] <= s[i]
  BY DEF Countable
<1>2. /\ Len(w) \in Nat /\ Len(w) >= 1 /\ Head(w) = w[1] /\ w \in [1..Len(w) -> Nat \ {0}]
      /\ Len(Tail(w)) = Len(w) - 1
      /\ \A i \in 1..(Len(w) - 1) : Tail(w)[i] = w[i + 1]
  BY LenProperties, HeadTailProperties
<1>3. s[0] + w[1] <= s[1] /\ s[0] \in Nat /\ s[1] \in Nat /\ w[1] \in Nat \ {0}
  <2>1. 1 \in 1..Len(w) /\ 0 \in 0..Len(w) /\ 1 \in 0..Len(w)
    BY <1>2
  <2>2. s[1 - 1] + w[1] <= s[1]
    BY <1>1, <2>1
  <2> QED BY <1>1, <1>2, <2>1, <2>2
<1>4. Countable(Tail(w), n + 1, b)
  <2> DEFINE t == [i \in 0..(Len(w) - 1) |-> s[i + 1]]
             v == Tail(w)
  <2>1. t \in [0..Len(v) -> 0..b]
    BY <1>1, <1>2
  <2>2. n + 1 <= t[0]
    <3>1. t[0] = s[1]
      BY <1>2
    <3> QED BY <1>1, <1>3, <3>1
  <2>3. ASSUME NEW i \in 1..Len(v) PROVE t[i - 1] + v[i] <= t[i]
    <3>1. i + 1 \in 1..Len(w) /\ v[i] = w[i + 1] /\ t[i] = s[i + 1] /\ t[i - 1] = s[(i + 1) - 1]
      BY <1>2, <2>3
    <3> QED BY <1>1, <3>1
  <2> HIDE DEF t, v
  <2>4. Countable(v, n + 1, b)
    BY <2>1, <2>2, <2>3 DEF Countable
  <2> QED BY <2>4 DEF v
<1>5. ASSUME Head(w) > 1 PROVE Countable([w EXCEPT ![1] = @ - 1], n + 1, b)
  <2> DEFINE v == [w EXCEPT ![1] = @ - 1]
             t == [s EXCEPT ![0] = s[0] + 1]
  <2>1. Len(v) = Len(w) /\ v[1] = w[1] - 1 /\ \A i \in 2..Len(w) : v[i] = w[i]
    BY <1>2, ExceptSeq
  <2>2. s[0] + 1 \in 0..b
    <3>1. 1 \in 0..Len(w)
      BY <1>2
    <3>2. s[1] <= b
      BY <1>1, <3>1
    <3> QED BY <1>3, <3>2
  <2>3. t \in [0..Len(v) -> 0..b] /\ t[0] = s[0] + 1 /\ \A i \in 1..Len(w) : t[i] = s[i]
    BY <1>1, <1>2, <2>1, <2>2
  <2>4. n + 1 <= t[0]
    BY <1>1, <1>3, <2>3
  <2>5. ASSUME NEW i \in 1..Len(v) PROVE t[i - 1] + v[i] <= t[i]
    <3> HIDE DEF v, t
    <3>1. CASE i = 1
      <4>1. 1 \in 1..Len(w)
        BY <1>2
      <4>2. t[1] = s[1] /\ t[1 - 1] = s[0] + 1 /\ v[1] = w[1] - 1
        BY <2>1, <2>3, <4>1
      <4> QED BY <1>3, <3>1, <4>2
    <3>2. CASE i # 1
      <4>1. i \in 2..Len(w) /\ i - 1 \in 1..Len(w) /\ i \in 1..Len(w)
        BY <1>2, <2>1, <3>2
      <4> QED BY <1>1, <2>1, <2>3, <4>1
    <3> QED BY <3>1, <3>2
  <2> HIDE DEF t, v
  <2>6. Countable(v, n + 1, b)
    BY <2>3, <2>4, <2>5, <2>1 DEF Countable
  <2> QED BY <2>6 DEF v
<1> QED BY <1>4, <1>5

\* A batch sent k times over makes room for as many events.
LEMMA CountableSends ==
  ASSUME NEW w \in Seq(Nat), NEW n \in Nat, NEW b \in Nat, Countable(w, n, b),
         NEW k \in Nat, NEW m \in Nat
  PROVE  Countable(w \o [c \in 1..k |-> m], n, b + k * m)
<1> DEFINE l == Len(w)
           more == [c \in 1..k |-> m]
           v == w \o more
<1>1. PICK s \in [0..l -> 0..b] : n <= s[0] /\ \A i \in 1..l : s[i - 1] + w[i] <= s[i]
  BY DEF Countable
<1>2. l \in Nat /\ more \in Seq(Nat) /\ Len(more) = k
  <2>1. l \in Nat
    BY LenProperties
  <2>2. more \in Seq(Nat) /\ Len(more) = k
    OBVIOUS
  <2> QED BY <2>1, <2>2
<1>3. Len(v) = l + k /\ (\A i \in 1..l : v[i] = w[i]) /\ \A i \in (l + 1)..(l + k) : v[i] = m
  <2>1. Len(v) = l + k /\ \A i \in 1..(l + k) : v[i] = IF i <= l THEN w[i] ELSE more[i - l]
    BY <1>2, ConcatProperties
  <2>2. \A i \in 1..l : v[i] = w[i]
    BY <1>2, <2>1
  <2>3. \A i \in (l + 1)..(l + k) : i \in 1..(l + k) /\ ~(i <= l) /\ i - l \in 1..k
    BY <1>2
  <2>4. \A i \in (l + 1)..(l + k) : v[i] = m
    BY <2>1, <2>3
  <2> QED BY <2>1, <2>2, <2>4
<1> DEFINE t == [i \in 0..(l + k) |-> IF i <= l THEN s[i] ELSE s[l] + (i - l) * m]
<1>4. s[l] \in 0..b
  BY <1>1, <1>2
<1>5. \A i \in (l + 1)..(l + k) : i - l \in Nat /\ (i - l) * m \in Nat /\ (i - l) * m <= k * m
  <2>1. ASSUME NEW i \in (l + 1)..(l + k) PROVE i - l \in Nat /\ (i - l) * m \in Nat /\ (i - l) * m <= k * m
    <3>1. i - l \in Nat /\ i - l <= k
      BY <1>2
    <3>2. m * (i - l) <= m * k /\ m * (i - l) \in Nat
      BY <3>1, ProductGrows
    <3>3. m * (i - l) = (i - l) * m /\ m * k = k * m
      BY <3>1
    <3> QED BY <3>1, <3>2, <3>3
  <2> QED BY <2>1
<1>6. k * m \in Nat
  BY ProductIsNatural, Zenon
<1>7. t \in [0..Len(v) -> 0..(b + k * m)]
  <2>1. ASSUME NEW i \in 0..(l + k) PROVE t[i] \in 0..(b + k * m)
    <3> DEFINE km == k * m
    <3>0. km \in Nat
      BY <1>6
    <3>1. CASE i <= l
      <4>1. t[i] = s[i]
        BY <3>1, Zenon
      <4> HIDE DEF km, t
      <4>2. i \in 0..l
        BY <1>2, <3>1
      <4>3. s[i] \in 0..b
        BY <1>1, <4>2
      <4>4. t[i] \in 0..(b + km)
        BY <3>0, <4>1, <4>3
      <4> QED BY <4>4 DEF km
    <3>2. CASE ~(i <= l)
      <4> DEFINE d == (i - l) * m
      <4>1. t[i] = s[l] + d /\ d \in Nat /\ d <= km
        BY <1>2, <1>5, <3>2
      <4> HIDE DEF km, d, t
      <4>2. t[i] \in 0..(b + km)
        BY <1>4, <3>0, <4>1
      <4> QED BY <4>2 DEF km
    <3> QED BY <3>1, <3>2
  <2> QED BY <1>3, <2>1
<1>8. n <= t[0]
  <2>1. t[0] = s[0]
    BY <1>2
  <2> QED BY <1>1, <2>1
<1>9. ASSUME NEW i \in 1..Len(v) PROVE t[i - 1] + v[i] <= t[i]
  <2>0. i \in 1..(l + k)
    BY <1>3
  <2>1. CASE i <= l
    <3>1. t[i] = s[i] /\ t[i - 1] = s[i - 1] /\ v[i] = w[i] /\ i \in 1..l
      BY <1>2, <1>3, <2>0, <2>1
    <3> QED BY <1>1, <3>1
  <2>2. CASE ~(i <= l)
    <3>1. i \in (l + 1)..(l + k) /\ v[i] = m /\ i - l \in Nat \ {0}
      BY <1>2, <1>3, <2>0, <2>2
    <3> DEFINE d == i - l
    <3>2. t[i] = s[l] + d * m
      BY <2>0, <2>2
    <3>3. t[i - 1] = s[l] + (d - 1) * m
      <4>1. CASE d = 1
        <5>1. i - 1 = l /\ l \in 0..(l + k)
          BY <1>2, <2>0, <4>1
        <5>2. t[i - 1] = s[l]
          BY <5>1
        <5>3. (d - 1) * m = 0
          BY <4>1
        <5> QED BY <1>4, <5>2, <5>3
      <4>2. CASE d # 1
        <5>1. i - 1 \in 0..(l + k) /\ ~(i - 1 <= l) /\ (i - 1) - l = d - 1
          BY <1>2, <2>0, <3>1, <4>2
        <5> QED BY <5>1
      <4> QED BY <4>1, <4>2
    <3>4. d * m = (d - 1) * m + m /\ (d - 1) * m \in Nat
      <4>1. PICK e \in Nat : d = e + 1
        <5>1. d - 1 \in Nat /\ d = (d - 1) + 1
          BY <3>1
        <5> QED BY <5>1
      <4> HIDE DEF d
      <4>2. (e + 1) * m = e * m + m /\ e * m \in Nat /\ (e + 1) - 1 = e
        OBVIOUS
      <4> QED BY <4>1, <4>2
    <3> HIDE DEF d, t
    <3>5. t[i - 1] + m = t[i] /\ t[i] \in Nat
      BY <1>4, <3>2, <3>3, <3>4
    <3> QED BY <3>1, <3>5
  <2> QED BY <2>1, <2>2
<1> HIDE DEF t, v
<1>10. Countable(v, n, b + k * m)
  BY <1>7, <1>8, <1>9 DEF Countable
<1> QED BY <1>10 DEF v, more

\* The publisher: what is in its hands, and what it has counted.
PublisherInv ==
  /\ emitted \in 0..MaxEvents /\ waking \subseteq Emitter
  /\ buf \in 0..BufferSize /\ batch \in 0..BufferSize
  /\ wake \in BOOLEAN /\ stopping \in BOOLEAN
  /\ run \in {"waits", "woken", "publishes", "stopped"}
  /\ run = "publishes" <=> batch # 0
  /\ tally \in [{"published", "dropped", "cut"} -> 0..MaxEvents]
  /\ emitted = tally["published"] + tally["dropped"] + tally["cut"] + buf + batch
  /\ tally["cut"] > 0 => stopping

\* What the publisher may have sent, each batch MaxCopies times.
Sendable == MaxCopies * (tally["published"] + tally["dropped"] + tally["cut"])

\* The relay: it counts no more than was sent.
WireInv ==
  /\ wire \in Seq(1..BufferSize) /\ ingesting \in BOOLEAN
  /\ ingesting => wire # <<>>
  /\ counted \in Nat /\ Countable(wire, counted, Sendable)
  /\ tokens \in 0..Rate

ViewersInv ==
  /\ lines = [v \in DOMAIN lines |-> lines[v]]
  /\ DOMAIN lines \subseteq Viewer
  /\ IsFiniteSet(DOMAIN lines) /\ Cardinality(DOMAIN lines) <= MaxViewers
  /\ \A v \in DOMAIN lines : lines[v] \in 0..BufferSize

FlowInv == PublisherInv /\ WireInv /\ ViewersInv

LEMMA FlowBounds ==
  MaxEvents \in Nat /\ BufferSize \in Nat /\ MaxCopies \in Nat /\ Rate \in Nat /\ MaxViewers \in Nat
  BY LiveAssumption

LEMMA WireTypes ==
  ASSUME NEW w \in Seq(1..BufferSize)
  PROVE  /\ w \in Seq(Nat \ {0}) /\ w \in Seq(Nat) /\ Len(w) \in Nat
         /\ w # <<>> => Head(w) \in 1..BufferSize /\ Tail(w) \in Seq(1..BufferSize)
<1>1. 1..BufferSize \subseteq Nat \ {0} /\ Nat \ {0} \subseteq Nat
  BY FlowBounds
<1>2. w \in Seq(Nat \ {0})
  BY <1>1, SeqMonotonic
<1>3. w \in Seq(Nat)
  BY <1>1, <1>2, SeqMonotonic
<1> QED BY <1>2, <1>3, LenProperties, HeadTailProperties

LEMMA SendableIs ==
  ASSUME PublisherInv
  PROVE  /\ tally["published"] \in Nat /\ tally["dropped"] \in Nat /\ tally["cut"] \in Nat
         /\ Sendable \in Nat /\ Sendable <= MaxCopies * MaxEvents
<1>1. /\ tally["published"] \in Nat /\ tally["dropped"] \in Nat /\ tally["cut"] \in Nat /\ buf \in Nat /\ batch \in Nat
      /\ emitted = tally["published"] + tally["dropped"] + tally["cut"] + buf + batch /\ emitted <= MaxEvents
  BY FlowBounds DEF PublisherInv
<1> DEFINE sum == tally["published"] + tally["dropped"] + tally["cut"]
<1>2. sum \in Nat /\ sum <= MaxEvents
  BY <1>1, FlowBounds
<1>3. MaxCopies * sum \in Nat /\ MaxCopies * sum <= MaxCopies * MaxEvents
  BY <1>2, FlowBounds, ProductGrows
<1> QED BY <1>1, <1>3 DEF Sendable

\* The relay's own steps leave what the publisher sent.
LEMMA SendableStays ==
  ASSUME UNCHANGED tally
  PROVE  Sendable' = Sendable
  BY DEF Sendable

LEMMA PublisherStays ==
  ASSUME PublisherInv, UNCHANGED <<emitted, waking, buf, wake, stopping, run, batch, tally>>
  PROVE  PublisherInv' /\ Sendable' = Sendable
  BY DEF PublisherInv, Sendable

LEMMA ViewersStay ==
  ASSUME ViewersInv, UNCHANGED lines
  PROVE  ViewersInv'
  BY DEF ViewersInv

\* Whether a batch counts is a matter of what it is.
LEMMA CountablePrimed ==
  Countable(wire, counted, Sendable)' <=> Countable(wire', counted', Sendable')
  BY DEF Countable

LEMMA FlowInit == PartsInit => FlowInv
<1> SUFFICES ASSUME PartsInit PROVE FlowInv
  OBVIOUS
<1>1. Flow!Init
  BY DEF PartsInit
<1>2. /\ emitted = 0 /\ waking = {} /\ buf = 0 /\ wake = FALSE /\ stopping = FALSE
      /\ run = "waits" /\ batch = 0 /\ tally = [published |-> 0, dropped |-> 0, cut |-> 0]
      /\ wire = <<>> /\ ingesting = FALSE /\ counted = 0 /\ tokens = Rate /\ lines = <<>>
  BY <1>1 DEF Flow!Init
<1>3. 0 \in 0..MaxEvents /\ 0 \in 0..BufferSize /\ Rate \in 0..Rate
  BY FlowBounds
<1>4. /\ tally["published"] = 0 /\ tally["dropped"] = 0 /\ tally["cut"] = 0
      /\ tally \in [{"published", "dropped", "cut"} -> 0..MaxEvents]
  BY <1>2, <1>3
<1>5. PublisherInv
  <2>1. emitted = tally["published"] + tally["dropped"] + tally["cut"] + buf + batch
    BY <1>2, <1>4
  <2>2. ~(tally["cut"] > 0)
    BY <1>4
  <2>3. stopping \in BOOLEAN
    BY <1>2
  <2> QED BY <1>2, <1>3, <1>4, <2>1, <2>2, <2>3 DEF PublisherInv
<1>6. WireInv
  <2>1. Sendable \in Nat /\ 0 \in 0..Sendable
    BY <1>5, SendableIs
  <2>2. Countable(<<>>, 0, Sendable)
    <3> DEFINE s == [i \in 0..0 |-> 0]
    <3>1. s \in [0..0 -> 0..Sendable] /\ s[0] = 0
      BY <2>1
    <3>2. Len(<<>>) = 0 /\ 1..Len(<<>>) = {}
      OBVIOUS
    <3> HIDE DEF s
    <3> QED BY <3>1, <3>2 DEF Countable
  <2>3. wire \in Seq(1..BufferSize)
    BY <1>2
  <2> QED BY <1>2, <1>3, <2>2, <2>3 DEF WireInv
<1>7. ViewersInv
  <2>1. DOMAIN lines = {} /\ lines = [v \in DOMAIN lines |-> lines[v]]
    BY <1>2
  <2>2. IsFiniteSet({}) /\ Cardinality({}) = 0
    BY FS_EmptySet
  <2> QED BY <2>1, <2>2, FlowBounds DEF ViewersInv
<1> QED BY <1>5, <1>6, <1>7 DEF FlowInv

\* What the publisher does beside sending leaves the relay as it was.
LEMMA RelayStays ==
  ASSUME FlowInv, PublisherInv', Sendable <= Sendable',
         UNCHANGED <<wire, ingesting, counted, tokens, lines>>
  PROVE  FlowInv'
<1>1. Sendable \in Nat /\ Sendable' \in Nat
  <2>1. Sendable \in Nat
    BY SendableIs DEF FlowInv
  <2>2. /\ tally'["published"] \in Nat /\ tally'["dropped"] \in Nat /\ tally'["cut"] \in Nat
    BY FlowBounds DEF PublisherInv
  <2>3. tally'["published"] + tally'["dropped"] + tally'["cut"] \in Nat
    BY <2>2
  <2>4. MaxCopies * (tally'["published"] + tally'["dropped"] + tally'["cut"]) \in Nat
    BY <2>3, FlowBounds, ProductGrows
  <2> QED BY <2>1, <2>4 DEF Sendable
<1>2. wire \in Seq(Nat) /\ counted \in Nat /\ Countable(wire, counted, Sendable)
  <2>1. wire \in Seq(1..BufferSize) /\ counted \in Nat /\ Countable(wire, counted, Sendable)
    BY DEF FlowInv, WireInv
  <2> QED BY <2>1, WireTypes
<1>3. Countable(wire, counted, Sendable')
  BY <1>1, <1>2, CountableWidens
<1>4. Countable(wire, counted, Sendable)'
  BY <1>3, CountablePrimed
<1>5. WireInv'
  BY <1>4 DEF FlowInv, WireInv
<1>6. ViewersInv'
  BY ViewersStay DEF FlowInv
<1> QED BY <1>5, <1>6 DEF FlowInv

\* Emitting and flushing.
LEMMA PublisherKeeps ==
  ASSUME FlowInv, \/ \E e \in Emitter : Flow!Enqueue(e) \/ Flow!Wake(e)
                  \/ Flow!RunWakes \/ Flow!EndContext \/ Flow!Exit \/ Flow!TakeBuffer
  PROVE  FlowInv'
<1>0. PublisherInv /\ Sendable \in Nat /\ tally["published"] \in Nat /\ tally["dropped"] \in Nat /\ tally["cut"] \in Nat
  BY SendableIs DEF FlowInv
<1>01. UNCHANGED <<wire, ingesting, counted, tokens, lines>>
  BY DEF Flow!Enqueue, Flow!Wake, Flow!RunWakes, Flow!EndContext, Flow!Exit, Flow!TakeBuffer, Flow!relayVars
<1>1. ASSUME NEW e \in Emitter, Flow!Enqueue(e) PROVE FlowInv'
  <2>1. emitted < MaxEvents /\ emitted' = emitted + 1 /\ UNCHANGED <<wake, stopping, run, batch>>
    BY <1>1 DEF Flow!Enqueue
  <2>2. CASE buf >= BufferSize
    <3>1. tally' = [tally EXCEPT !["dropped"] = @ + 1] /\ UNCHANGED <<buf, waking>>
      BY <1>1, <2>2 DEF Flow!Enqueue
    <3>2. tally["dropped"] + 1 \in 0..MaxEvents
      <4>1. emitted = tally["published"] + tally["dropped"] + tally["cut"] + buf + batch /\ buf \in Nat /\ batch \in Nat
            /\ emitted \in Nat
        BY <1>0, FlowBounds DEF PublisherInv
      <4> QED BY <1>0, <2>1, <4>1, FlowBounds
    <3>3. /\ tally' \in [{"published", "dropped", "cut"} -> 0..MaxEvents]
          /\ tally'["published"] = tally["published"] /\ tally'["dropped"] = tally["dropped"] + 1
          /\ tally'["cut"] = tally["cut"]
      BY <1>0, <3>1, <3>2 DEF PublisherInv
    <3>4. PublisherInv'
      <4>1. emitted' = tally'["published"] + tally'["dropped"] + tally'["cut"] + buf' + batch'
        <5>1. emitted = tally["published"] + tally["dropped"] + tally["cut"] + buf + batch /\ buf \in Nat /\ batch \in Nat
          BY <1>0, FlowBounds DEF PublisherInv
        <5> QED BY <1>0, <2>1, <3>1, <3>3, <5>1
      <4>2. emitted' \in 0..MaxEvents
        BY <1>0, <2>1, FlowBounds DEF PublisherInv
      <4> QED BY <1>0, <2>1, <3>1, <3>3, <4>1, <4>2 DEF PublisherInv
    <3>5. Sendable <= Sendable'
      <4>1. tally["published"] + tally["dropped"] + tally["cut"] <= tally'["published"] + tally'["dropped"] + tally'["cut"]
            /\ tally["published"] + tally["dropped"] + tally["cut"] \in Nat /\ tally'["published"] + tally'["dropped"] + tally'["cut"] \in Nat
        BY <1>0, <3>3
      <4>2. MaxCopies * (tally["published"] + tally["dropped"] + tally["cut"]) <= MaxCopies * (tally'["published"] + tally'["dropped"] + tally'["cut"])
        BY <4>1, FlowBounds, ProductGrows
      <4> QED BY <4>2 DEF Sendable
    <3> QED BY <1>01, <3>4, <3>5, RelayStays
  <2>3. CASE ~(buf >= BufferSize)
    <3>1. buf' = buf + 1 /\ waking' = waking \cup {e} /\ tally' = tally
      BY <1>1, <2>3 DEF Flow!Enqueue
    <3>2. buf' \in 0..BufferSize /\ emitted' \in 0..MaxEvents
      BY <1>0, <2>1, <2>3, <3>1, FlowBounds DEF PublisherInv
    <3>3. emitted' = tally'["published"] + tally'["dropped"] + tally'["cut"] + buf' + batch'
      <4>1. emitted = tally["published"] + tally["dropped"] + tally["cut"] + buf + batch /\ buf \in Nat /\ batch \in Nat
        BY <1>0, FlowBounds DEF PublisherInv
      <4> QED BY <1>0, <2>1, <3>1, <4>1
    <3>4. PublisherInv'
      BY <1>0, <2>1, <3>1, <3>2, <3>3 DEF PublisherInv
    <3>5. Sendable <= Sendable'
      BY <1>0, <3>1, SendableStays
    <3> QED BY <1>01, <3>4, <3>5, RelayStays
  <2> QED BY <2>2, <2>3
<1>2. ASSUME NEW e \in Emitter, Flow!Wake(e) PROVE FlowInv'
  <2>1. waking' = waking \ {e} /\ wake' = TRUE /\ UNCHANGED <<emitted, buf, stopping, run, batch, tally>>
    BY <1>2 DEF Flow!Wake
  <2>2. PublisherInv'
    BY <1>0, <2>1 DEF PublisherInv
  <2> QED BY <1>0, <1>01, <2>1, <2>2, RelayStays, SendableStays
<1>3. ASSUME Flow!RunWakes PROVE FlowInv'
  <2>1. run = "waits" /\ run' = "woken" /\ wake' = FALSE
        /\ UNCHANGED <<emitted, waking, buf, stopping, batch, tally>>
    BY <1>3 DEF Flow!RunWakes
  <2>2. PublisherInv'
    BY <1>0, <2>1 DEF PublisherInv
  <2> QED BY <1>0, <1>01, <2>1, <2>2, RelayStays, SendableStays
<1>4. ASSUME Flow!TakeBuffer PROVE FlowInv'
  <2>1. /\ run = "woken" /\ batch' = buf /\ buf' = 0 /\ UNCHANGED <<emitted, waking, wake, stopping, tally>>
        /\ run' = IF buf = 0 THEN "waits" ELSE "publishes"
    BY <1>4 DEF Flow!TakeBuffer
  <2>2. batch = 0 /\ buf \in 0..BufferSize /\ emitted = tally["published"] + tally["dropped"] + tally["cut"] + buf + batch
    BY <1>0, <2>1 DEF PublisherInv
  <2>3. /\ buf' \in 0..BufferSize /\ batch' \in 0..BufferSize
        /\ emitted' = tally'["published"] + tally'["dropped"] + tally'["cut"] + buf' + batch'
    BY <1>0, <2>1, <2>2, FlowBounds
  <2>4. run' \in {"waits", "woken", "publishes", "stopped"} /\ (run' = "publishes" <=> batch' # 0)
    BY <2>1
  <2>5. PublisherInv'
    BY <1>0, <2>1, <2>3, <2>4 DEF PublisherInv
  <2> QED BY <1>0, <1>01, <2>1, <2>5, RelayStays, SendableStays
<1>5. ASSUME Flow!EndContext PROVE FlowInv'
  <2>1. stopping' = TRUE /\ UNCHANGED <<emitted, waking, buf, wake, run, batch, tally>>
    BY <1>5 DEF Flow!EndContext
  <2>2. PublisherInv'
    BY <1>0, <2>1 DEF PublisherInv
  <2> QED BY <1>0, <1>01, <2>1, <2>2, RelayStays, SendableStays
<1>6. ASSUME Flow!Exit PROVE FlowInv'
  <2>1. run = "waits" /\ run' = "stopped" /\ UNCHANGED <<emitted, waking, buf, wake, stopping, batch, tally>>
    BY <1>6 DEF Flow!Exit
  <2>2. PublisherInv'
    BY <1>0, <2>1 DEF PublisherInv
  <2> QED BY <1>0, <1>01, <2>1, <2>2, RelayStays, SendableStays
<1> QED BY <1>1, <1>2, <1>3, <1>4, <1>5, <1>6

\* Publishing: every copy of the batch is paid for by what is counted as
\* published or dropped, or was cut off.
LEMMA PublishKeeps ==
  ASSUME FlowInv, Flow!Publish
  PROVE  FlowInv'
<1>0. /\ PublisherInv /\ WireInv /\ ViewersInv
      /\ Sendable \in Nat /\ tally["published"] \in Nat /\ tally["dropped"] \in Nat /\ tally["cut"] \in Nat
  BY SendableIs DEF FlowInv
<1>1. /\ run = "publishes" /\ run' = "waits" /\ batch' = 0
      /\ UNCHANGED <<emitted, waking, buf, wake, stopping, ingesting, counted, tokens, lines>>
  BY DEF Flow!Publish
<1>2. PICK copies \in 0..MaxCopies :
        /\ wire' = wire \o [c \in 1..copies |-> batch]
        /\ \/ tally' = [tally EXCEPT !["published"] = @ + batch]
           \/ tally' = [tally EXCEPT !["dropped"] = @ + batch]
           \/ stopping /\ tally' = [tally EXCEPT !["cut"] = @ + batch]
  BY DEF Flow!Publish, Flow!Sent
<1>3. /\ batch \in 1..BufferSize /\ batch \in Nat /\ buf \in Nat /\ emitted \in Nat /\ emitted <= MaxEvents
      /\ emitted = tally["published"] + tally["dropped"] + tally["cut"] + buf + batch
  BY <1>0, <1>1, FlowBounds DEF PublisherInv
<1>4. /\ tally' \in [{"published", "dropped", "cut"} -> 0..MaxEvents]
      /\ tally'["published"] + tally'["dropped"] + tally'["cut"] = tally["published"] + tally["dropped"] + tally["cut"] + batch
      /\ tally'["cut"] > 0 => stopping
  <2>1. /\ tally["published"] + batch \in 0..MaxEvents /\ tally["dropped"] + batch \in 0..MaxEvents
        /\ tally["cut"] + batch \in 0..MaxEvents
    BY <1>0, <1>3, FlowBounds
  <2>2. tally \in [{"published", "dropped", "cut"} -> 0..MaxEvents] /\ (tally["cut"] > 0 => stopping)
    BY <1>0 DEF PublisherInv
  <2>3. CASE tally' = [tally EXCEPT !["published"] = @ + batch]
    <3>1. /\ tally' \in [{"published", "dropped", "cut"} -> 0..MaxEvents]
          /\ tally'["published"] = tally["published"] + batch /\ tally'["dropped"] = tally["dropped"]
          /\ tally'["cut"] = tally["cut"]
      BY <2>1, <2>2, <2>3
    <3> QED BY <1>0, <1>3, <2>2, <3>1
  <2>4. CASE tally' = [tally EXCEPT !["dropped"] = @ + batch]
    <3>1. /\ tally' \in [{"published", "dropped", "cut"} -> 0..MaxEvents]
          /\ tally'["dropped"] = tally["dropped"] + batch /\ tally'["published"] = tally["published"]
          /\ tally'["cut"] = tally["cut"]
      BY <2>1, <2>2, <2>4
    <3> QED BY <1>0, <1>3, <2>2, <3>1
  <2>5. CASE stopping /\ tally' = [tally EXCEPT !["cut"] = @ + batch]
    <3>1. /\ tally' \in [{"published", "dropped", "cut"} -> 0..MaxEvents]
          /\ tally'["cut"] = tally["cut"] + batch /\ tally'["published"] = tally["published"]
          /\ tally'["dropped"] = tally["dropped"]
      BY <2>1, <2>2, <2>5
    <3> QED BY <1>0, <1>3, <2>5, <3>1
  <2> QED BY <1>2, <2>3, <2>4, <2>5
<1>5. PublisherInv'
  <2>1. emitted' = tally'["published"] + tally'["dropped"] + tally'["cut"] + buf' + batch'
    <3>1. tally'["published"] \in Nat /\ tally'["dropped"] \in Nat /\ tally'["cut"] \in Nat
      BY <1>4, FlowBounds
    <3> QED BY <1>0, <1>1, <1>3, <1>4, <3>1
  <2>2. 0 \in 0..BufferSize
    BY FlowBounds
  <2>3. stopping' \in BOOLEAN /\ (tally'["cut"] > 0 => stopping')
    <3>1. stopping \in BOOLEAN /\ stopping' = stopping
      BY <1>0, <1>1 DEF PublisherInv
    <3> QED BY <1>4, <3>1, Zenon
  <2> QED BY <1>0, <1>1, <1>4, <2>1, <2>2, <2>3 DEF PublisherInv
<1>6. Sendable' = Sendable + MaxCopies * batch /\ MaxCopies * batch \in Nat
  <2> DEFINE sum == tally["published"] + tally["dropped"] + tally["cut"]
  <2>1. sum \in Nat /\ tally'["published"] + tally'["dropped"] + tally'["cut"] = sum + batch
    BY <1>0, <1>4
  <2> HIDE DEF sum
  <2>2. MaxCopies * (sum + batch) = MaxCopies * sum + MaxCopies * batch /\ MaxCopies * batch \in Nat
    BY <1>3, <2>1, FlowBounds
  <2> QED BY <2>1, <2>2 DEF Sendable, sum
<1>7. Countable(wire', counted, Sendable')
  <2>1. wire \in Seq(Nat) /\ counted \in Nat /\ Countable(wire, counted, Sendable)
    <3>1. wire \in Seq(1..BufferSize)
      BY <1>0 DEF WireInv
    <3> QED BY <1>0, <3>1, WireTypes DEF WireInv
  <2>2. copies \in Nat /\ copies <= MaxCopies
    BY <1>2, FlowBounds
  <2>3. Countable(wire', counted, Sendable + copies * batch)
    BY <1>0, <1>2, <1>3, <2>1, <2>2, CountableSends
  <2>4. copies * batch \in Nat /\ Sendable + copies * batch \in Nat /\ Sendable + copies * batch <= Sendable'
    <3>1. batch * copies <= batch * MaxCopies /\ batch * copies \in Nat
      BY <1>3, <2>2, FlowBounds, ProductGrows
    <3>2. batch * copies = copies * batch /\ batch * MaxCopies = MaxCopies * batch
      BY <1>3, <2>2, FlowBounds
    <3> QED BY <1>0, <1>6, <3>1, <3>2
  <2>5. wire' \in Seq(Nat)
    <3>1. [c \in 1..copies |-> batch] \in Seq(Nat)
      BY <1>3, <2>2
    <3> QED BY <1>2, <2>1, <3>1, ConcatProperties
  <2>6. Sendable' \in Nat
    BY <1>0, <1>6
  <2> QED BY <2>1, <2>3, <2>4, <2>5, <2>6, CountableWidens
<1>8. wire' \in Seq(1..BufferSize) /\ (wire # <<>> => wire' # <<>>)
  <2> DEFINE more == [c \in 1..copies |-> batch]
  <2>1. copies \in Nat
    BY <1>2, FlowBounds
  <2>2. more \in Seq(1..BufferSize)
    BY <1>3, <2>1
  <2>3. wire \in Seq(1..BufferSize)
    BY <1>0 DEF WireInv
  <2>4. wire' = wire \o more
    BY <1>2
  <2> HIDE DEF more
  <2>5. wire' \in Seq(1..BufferSize) /\ Len(wire') = Len(wire) + Len(more)
    BY <2>2, <2>3, <2>4, ConcatProperties
  <2>6. Len(wire) \in Nat /\ Len(more) \in Nat
    BY <2>2, <2>3, LenProperties
  <2>7. wire # <<>> => Len(wire) > 0
    BY <2>3, EmptySeq, <2>6
  <2>8. Len(wire') > 0 => wire' # <<>>
    BY <2>5, EmptySeq
  <2> QED BY <2>5, <2>6, <2>7, <2>8
<1>9. Countable(wire, counted, Sendable)'
  BY <1>1, <1>7, CountablePrimed
<1>10. WireInv'
  BY <1>0, <1>1, <1>8, <1>9 DEF WireInv
<1>11. ViewersInv'
  BY <1>0, <1>1, ViewersStay
<1> QED BY <1>5, <1>10, <1>11 DEF FlowInv

\* A step of the relay leaves the publisher alone.
LEMMA RelayMoves ==
  ASSUME FlowInv, UNCHANGED <<emitted, waking, buf, wake, stopping, run, batch, tally>>,
         wire' \in Seq(1..BufferSize), ingesting' \in BOOLEAN, ingesting' => wire' # <<>>,
         counted' \in Nat, Countable(wire', counted', Sendable), tokens' \in 0..Rate, ViewersInv'
  PROVE  FlowInv'
<1>1. PublisherInv' /\ Sendable' = Sendable
  BY PublisherStays DEF FlowInv
<1>2. Countable(wire, counted, Sendable)'
  BY <1>1, CountablePrimed
<1>3. WireInv'
  BY <1>2 DEF WireInv
<1> QED BY <1>1, <1>3 DEF FlowInv

LEMMA WireOf ==
  ASSUME FlowInv
  PROVE  /\ wire \in Seq(1..BufferSize) /\ wire \in Seq(Nat \ {0}) /\ wire \in Seq(Nat)
         /\ wire # <<>> => Head(wire) \in 1..BufferSize /\ Tail(wire) \in Seq(1..BufferSize)
         /\ ingesting \in BOOLEAN /\ (ingesting => wire # <<>>)
         /\ counted \in Nat /\ Sendable \in Nat /\ Countable(wire, counted, Sendable)
         /\ tokens \in 0..Rate /\ Rate \in Nat /\ BufferSize \in Nat
         /\ ViewersInv
<1>1. WireInv /\ Sendable \in Nat /\ ViewersInv
  BY SendableIs DEF FlowInv
<1>2. wire \in Seq(1..BufferSize)
  BY <1>1 DEF WireInv
<1> QED BY <1>1, <1>2, WireTypes, FlowBounds DEF WireInv

LEMMA LoseKeeps ==
  ASSUME FlowInv, Flow!LoseSubscription
  PROVE  FlowInv'
<1>1. /\ wire' = (IF ingesting THEN <<Head(wire)>> ELSE <<>>)
      /\ UNCHANGED <<emitted, waking, buf, wake, stopping, run, batch, tally, ingesting, counted, tokens, lines>>
  BY DEF Flow!LoseSubscription, Flow!publisherVars
<1>2. ViewersInv'
  BY <1>1, ViewersStay, WireOf
<1>3. CASE ingesting
  <2>1. wire # <<>> /\ wire' = <<Head(wire)>> /\ Head(wire) \in 1..BufferSize
    BY <1>1, <1>3, WireOf
  <2>2. Countable(wire', counted', Sendable)
    BY <1>1, <2>1, WireOf, CountableLoses
  <2>3. wire' \in Seq(1..BufferSize) /\ wire' # <<>>
    BY <2>1
  <2> QED BY <1>1, <1>2, <2>2, <2>3, WireOf, RelayMoves
<1>4. CASE ~ingesting
  <2>1. wire' = <<>> /\ ~ingesting'
    BY <1>1, <1>4
  <2>2. Countable(wire', counted', Sendable)
    BY <1>1, <2>1, WireOf, CountableLoses
  <2>3. wire' \in Seq(1..BufferSize)
    BY <2>1
  <2> QED BY <1>1, <1>2, <2>1, <2>2, <2>3, WireOf, RelayMoves
<1> QED BY <1>3, <1>4

LEMMA BroadcastKeeps ==
  ASSUME ViewersInv, Flow!Broadcast
  PROVE  ViewersInv'
<1>1. /\ lines' = [v \in DOMAIN lines |-> IF lines[v] < BufferSize THEN lines[v] + 1 ELSE lines[v]]
      /\ DOMAIN lines' = DOMAIN lines
  BY DEF Flow!Broadcast
<1>2. \A v \in DOMAIN lines' : lines'[v] \in 0..BufferSize
  <2>1. \A v \in DOMAIN lines : lines[v] \in 0..BufferSize
    BY DEF ViewersInv
  <2> QED BY <1>1, <2>1, FlowBounds
<1>3. lines' = [v \in DOMAIN lines' |-> lines'[v]]
  BY <1>1
<1>4. DOMAIN lines' \subseteq Viewer /\ IsFiniteSet(DOMAIN lines') /\ Cardinality(DOMAIN lines') <= MaxViewers
  BY <1>1 DEF ViewersInv
<1> QED BY <1>2, <1>3, <1>4 DEF ViewersInv

LEMMA IngestKeeps ==
  ASSUME FlowInv, Flow!Ingest
  PROVE  FlowInv'
<1>1. /\ wire # <<>> /\ counted' = counted + 1 /\ ingesting' = (Head(wire) > 1)
      /\ wire' = IF ingesting' THEN [wire EXCEPT ![1] = @ - 1] ELSE Tail(wire)
      /\ UNCHANGED <<emitted, waking, buf, wake, stopping, run, batch, tally>>
  BY DEF Flow!Ingest, Flow!Advance, Flow!publisherVars
<1>2. \/ tokens > 0 /\ tokens' = tokens - 1 /\ Flow!Broadcast
      \/ UNCHANGED <<tokens, lines>>
  BY DEF Flow!Ingest
<1>3. tokens' \in 0..Rate
  BY <1>2, WireOf
<1>4. ViewersInv'
  BY <1>2, WireOf, ViewersStay, BroadcastKeeps
<1>5. counted' \in Nat /\ counted + 1 \in Nat
  BY <1>1, WireOf
<1>6. CASE Head(wire) > 1
  <2>1. ingesting' = TRUE /\ wire' = [wire EXCEPT ![1] = @ - 1]
    BY <1>1, <1>6
  <2>2. Countable(wire', counted', Sendable)
    BY <1>1, <1>6, <2>1, WireOf, CountableCounts
  <2>3. /\ 1 \in 1..Len(wire) /\ wire[1] = Head(wire) /\ wire[1] - 1 \in 1..BufferSize
        /\ Len(wire) \in Nat
    <3>1. Len(wire) \in Nat /\ Head(wire) = wire[1] /\ Head(wire) \in 1..BufferSize /\ Len(wire) # 0
      BY <1>1, WireOf, LenProperties, HeadTailProperties, EmptySeq
    <3> QED BY <1>6, <3>1, FlowBounds
  <2>4. wire' \in Seq(1..BufferSize) /\ Len(wire') = Len(wire)
    BY <2>1, <2>3, WireOf, ExceptSeq
  <2>5. wire' # <<>>
    BY <2>3, <2>4, EmptySeq
  <2> QED BY <1>1, <1>3, <1>4, <1>5, <2>1, <2>2, <2>4, <2>5, RelayMoves
<1>7. CASE ~(Head(wire) > 1)
  <2>1. ~ingesting' /\ wire' = Tail(wire)
    <3>1. ingesting' <=> Head(wire) > 1
      BY <1>1
    <3> QED BY <1>1, <1>7, <3>1
  <2>2. Countable(wire', counted', Sendable)
    BY <1>1, <2>1, WireOf, CountableCounts
  <2>3. wire' \in Seq(1..BufferSize)
    BY <1>1, <2>1, WireOf
  <2>4. ingesting' \in BOOLEAN
    BY <1>1
  <2> QED BY <1>1, <1>3, <1>4, <1>5, <2>1, <2>2, <2>3, <2>4, RelayMoves
<1> QED BY <1>6, <1>7

LEMMA RelayClockKeeps ==
  ASSUME FlowInv, Flow!Refill \/ Flow!FlushDensity
  PROVE  FlowInv'
<1>1. CASE Flow!Refill
  <2>1. /\ tokens' \in (tokens + 1)..Rate
        /\ UNCHANGED <<emitted, waking, buf, wake, stopping, run, batch, tally, wire, ingesting, counted, lines>>
    BY <1>1 DEF Flow!Refill, Flow!publisherVars
  <2>2. tokens' \in 0..Rate
    BY <2>1, WireOf
  <2>3. ViewersInv'
    BY <2>1, WireOf, ViewersStay
  <2> QED BY <2>1, <2>2, <2>3, WireOf, RelayMoves
<1>2. CASE Flow!FlushDensity
  <2>1. /\ ~ingesting /\ Flow!Broadcast /\ counted' = 0
        /\ UNCHANGED <<emitted, waking, buf, wake, stopping, run, batch, tally, wire, ingesting, tokens>>
    BY <1>2 DEF Flow!FlushDensity, Flow!publisherVars
  <2>2. Countable(wire, 0, Sendable)
    BY WireOf, CountableWidens
  <2>3. ViewersInv'
    BY <2>1, WireOf, BroadcastKeeps
  <2> QED BY <2>1, <2>2, <2>3, WireOf, RelayMoves
<1> QED BY <1>1, <1>2

\* A viewer joins behind a buffer of its own, reads from it, and leaves.
LEMMA ViewingKeeps ==
  ASSUME FlowInv, NEW u \in Viewer, Flow!Join(u) \/ Flow!Leave(u) \/ Flow!Serve(u)
  PROVE  FlowInv'
<1>0. UNCHANGED <<emitted, waking, buf, wake, stopping, run, batch, tally, wire, ingesting, counted, tokens>>
  BY DEF Flow!Join, Flow!Leave, Flow!Serve, Flow!publisherVars
<1>1. /\ DOMAIN lines \subseteq Viewer /\ IsFiniteSet(DOMAIN lines) /\ Cardinality(DOMAIN lines) <= MaxViewers
      /\ \A v \in DOMAIN lines : lines[v] \in 0..BufferSize
      /\ lines = [v \in DOMAIN lines |-> lines[v]]
  BY WireOf DEF ViewersInv
<1>2. Cardinality(DOMAIN lines) \in Nat /\ 0 \in 0..BufferSize
  BY <1>1, FS_CardinalityType, FlowBounds
<1>3. ViewersInv'
  <2>1. CASE Flow!Join(u)
    <3>1. /\ u \notin DOMAIN lines /\ Flow!Cardinality(DOMAIN lines) < MaxViewers
          /\ lines' = [w \in DOMAIN lines \cup {u} |-> IF w = u THEN 0 ELSE lines[w]]
      BY <2>1 DEF Flow!Join
    <3>2. Cardinality(DOMAIN lines) < MaxViewers
      BY <3>1 DEF Flow!Cardinality, Cardinality
    <3>3. DOMAIN lines' = DOMAIN lines \cup {u}
      BY <3>1
    <3>4. IsFiniteSet(DOMAIN lines') /\ Cardinality(DOMAIN lines') = Cardinality(DOMAIN lines) + 1
      BY <1>1, <3>1, <3>3, FS_AddElement
    <3>5. Cardinality(DOMAIN lines') <= MaxViewers
      BY <1>2, <3>2, <3>4, FlowBounds
    <3>6. \A v \in DOMAIN lines' : lines'[v] \in 0..BufferSize
      BY <1>1, <1>2, <3>1
    <3>7. lines' = [v \in DOMAIN lines' |-> lines'[v]]
      BY <3>1
    <3> QED BY <1>1, <3>3, <3>4, <3>5, <3>6, <3>7 DEF ViewersInv
  <2>2. CASE Flow!Leave(u)
    <3>1. u \in DOMAIN lines /\ lines' = [w \in DOMAIN lines \ {u} |-> lines[w]]
      BY <2>2 DEF Flow!Leave
    <3>2. DOMAIN lines' = DOMAIN lines \ {u}
      BY <3>1
    <3>3. IsFiniteSet(DOMAIN lines') /\ Cardinality(DOMAIN lines') = Cardinality(DOMAIN lines) - 1
      BY <1>1, <3>1, <3>2, FS_RemoveElement
    <3>4. Cardinality(DOMAIN lines') <= MaxViewers
      BY <1>1, <1>2, <3>3, FlowBounds
    <3>5. \A v \in DOMAIN lines' : lines'[v] \in 0..BufferSize
      BY <1>1, <3>1
    <3>6. lines' = [v \in DOMAIN lines' |-> lines'[v]]
      BY <3>1
    <3> QED BY <1>1, <3>2, <3>3, <3>4, <3>5, <3>6 DEF ViewersInv
  <2>3. CASE Flow!Serve(u)
    <3>1. u \in DOMAIN lines /\ lines[u] > 0 /\ lines' = [lines EXCEPT ![u] = @ - 1]
      BY <2>3 DEF Flow!Serve
    <3>2. DOMAIN lines' = DOMAIN lines
      BY <3>1
    <3>3. \A v \in DOMAIN lines' : lines'[v] \in 0..BufferSize
      <4>1. lines[u] - 1 \in 0..BufferSize
        BY <1>1, <3>1, FlowBounds
      <4> QED BY <1>1, <3>1, <4>1
    <3>4. lines' = [v \in DOMAIN lines' |-> lines'[v]]
      BY <3>1
    <3> QED BY <1>1, <3>2, <3>3, <3>4 DEF ViewersInv
  <2> QED BY <2>1, <2>2, <2>3
<1> QED BY <1>0, <1>3, WireOf, RelayMoves

LEMMA FlowStep == FlowInv /\ [PartsNext]_allVars => FlowInv'
<1> SUFFICES ASSUME FlowInv, [PartsNext]_allVars PROVE FlowInv'
  OBVIOUS
<1>1. CASE UNCHANGED telemetryVars
  <2>1. UNCHANGED <<emitted, waking, buf, wake, stopping, run, batch, tally, wire, ingesting, counted, tokens, lines>>
    BY <1>1 DEF telemetryVars
  <2>2. ViewersInv'
    BY <2>1, WireOf, ViewersStay
  <2> QED BY <2>1, <2>2, WireOf, RelayMoves
<1> QED BY <1>1, PartsMove, PublisherKeeps, PublishKeeps, LoseKeeps, IngestKeeps, RelayClockKeeps, ViewingKeeps
        DEF Flow!Next

LEMMA FlowHolds == PartsFairSpec => []FlowInv
  BY FlowInit, FlowStep, PTL DEF PartsFairSpec

\* Every event is counted once, as published or as dropped, when it leaves, but
\* for those of a publish that the end of its process cut off, for any buffer,
\* any number of emitters and however often a publish is repeated
\* (publisher.go, enqueue and Flush).
THEOREM EventsAlwaysAddUp == PartsFairSpec => []Flow!EventsAddUp
<1>1. FlowInv => Flow!EventsAddUp
  BY DEF FlowInv, PublisherInv, Flow!EventsAddUp
<1> QED BY <1>1, FlowHolds, PTL

LEMMA FlowTypes == FlowInv => Flow!TypeOK
<1> SUFFICES ASSUME FlowInv PROVE Flow!TypeOK
  OBVIOUS
<1>1. PublisherInv /\ WireInv /\ ViewersInv
  BY DEF FlowInv
<1>2. counted \in 0..(MaxCopies * MaxEvents)
  <2>1. counted <= Sendable
    BY WireOf, CountableBounds
  <2>2. Sendable <= MaxCopies * MaxEvents /\ Sendable \in Nat /\ MaxCopies * MaxEvents \in Nat
    BY <1>1, SendableIs, FlowBounds
  <2> QED BY <2>1, <2>2, WireOf
<1>3. Flow!Cardinality(DOMAIN lines) <= MaxViewers
  BY <1>1 DEF ViewersInv, Flow!Cardinality, Cardinality
<1> QED BY <1>1, <1>2, <1>3 DEF PublisherInv, WireInv, ViewersInv, Flow!TypeOK

----------------------------------------------------------------------------
(* The crawl queue under a page cap: the types of IngestQueueProofs, shown   *)
(* again of the queue that moves here.                                       *)

LEMMA NoCopyType == Queue!NoCopy \in Queue!Copy
  BY QueueAssumption DEF Queue!NoCopy, Queue!Copy

LEMMA AbsentRowType == Queue!AbsentRow \in Queue!JobRow
  BY QueueAssumption DEF Queue!AbsentRow, Queue!JobRow

\* The row a copy stands for is a row of the table.
LEMMA BusyType ==
  ASSUME Queue!TypeOK, NEW s \in Slot, Queue!Busy(s)
  PROVE  /\ held[s] \in Queue!Copy /\ held[s].job \in Queue!Job
         /\ jobs[held[s].job] \in Queue!JobRow
  BY QueueAssumption DEF Queue!TypeOK, Queue!Busy, Queue!Copy, Queue!Job

LEMMA UnleasedType ==
  ASSUME NEW row \in Queue!JobRow, NEW status \in {"pending", "failed", "done"}
  PROVE  Queue!Unleased(row, status) \in Queue!JobRow
  BY DEF Queue!Unleased, Queue!JobRow

LEMMA ClaimedType ==
  ASSUME NEW row \in Queue!JobRow, NEW o \in Owner
  PROVE  [row EXCEPT !.status = "running", !.owner = o, !.lapsed = FALSE] \in Queue!JobRow
  BY DEF Queue!JobRow

LEMMA LapsedType ==
  ASSUME NEW row \in Queue!JobRow
  PROVE  [row EXCEPT !.lapsed = TRUE] \in Queue!JobRow
  BY DEF Queue!JobRow

LEMMA NewRowType ==
  ASSUME nextId \in Queue!Job, NEW r \in Repo, NEW since \in 0..MaxJobs
  PROVE  Queue!NewRow(r, since) \in Queue!JobRow
<1>1. nextId \in 0..MaxJobs /\ 0 \in 0..MaxJobs
  BY QueueAssumption DEF Queue!Job
<1> QED BY <1>1, AbsentRowType DEF Queue!NewRow, Queue!JobRow

LEMMA ProgressType ==
  ASSUME NEW c \in Queue!Copy, NEW a \in BOOLEAN, NEW b \in BOOLEAN
  PROVE  Queue!Progress(c, a, b) \in [pages: Nat, openDone: BOOLEAN, closedDone: BOOLEAN]
  BY DEF Queue!Progress, Queue!Copy

LEMMA StoredType ==
  ASSUME NEW row \in Queue!JobRow,
         NEW p \in [pages: Nat, openDone: BOOLEAN, closedDone: BOOLEAN]
  PROVE  Queue!Stored(row, p) \in Queue!JobRow
  BY DEF Queue!Stored, Queue!JobRow

\* The table stays a table under CompleteOrRequeue.
LEMMA RequeuedType ==
  ASSUME Queue!TypeOK, NEW s \in Slot, Queue!Busy(s),
         NEW p \in [pages: Nat, openDone: BOOLEAN, closedDone: BOOLEAN],
         Queue!HandsOff(held[s], p) => nextId \in Queue!Job
  PROVE  Queue!Requeued(held[s], p) \in [Queue!Job -> Queue!JobRow]
<1> DEFINE c == held[s]
           row == jobs[c.job]
<1>0. c.job \in Queue!Job /\ row \in Queue!JobRow /\ jobs \in [Queue!Job -> Queue!JobRow]
  BY BusyType DEF Queue!TypeOK
<1>1. Queue!Stored(Queue!Unleased(row, "done"), p) \in Queue!JobRow
  BY <1>0, UnleasedType, StoredType
<1>2. CASE ~Queue!MorePages(p)
  BY <1>0, <1>1, <1>2 DEF Queue!Requeued
<1>3. CASE Queue!MorePages(p) /\ row.type = "deep"
  <2>1. Queue!Stored(Queue!Unleased(row, "pending"), p) \in Queue!JobRow
    BY <1>0, UnleasedType, StoredType
  <2>2. [Queue!Stored(Queue!Unleased(row, "pending"), p) EXCEPT !.attempts = 0] \in Queue!JobRow
    BY <2>1 DEF Queue!JobRow
  <2> QED BY <1>0, <1>3, <2>2 DEF Queue!Requeued
<1>4. CASE Queue!MorePages(p) /\ row.type # "deep"
  <2> DEFINE deep == [Queue!Stored(Queue!AbsentRow, p) EXCEPT !.repo = row.repo, !.type = "deep",
                        !.status = "pending", !.since = row.since, !.pass = row.pass]
             finished == [jobs EXCEPT ![c.job] = Queue!Stored(Queue!Unleased(@, "done"), p)]
  <2>1. Queue!Stored(Queue!AbsentRow, p) \in Queue!JobRow
    BY AbsentRowType, StoredType
  <2>2. deep \in Queue!JobRow
    BY <1>0, <2>1 DEF Queue!JobRow
  <2>3. finished \in [Queue!Job -> Queue!JobRow]
    BY <1>0, <1>1
  <2>4. Queue!Inserted(finished, deep) \in [Queue!Job -> Queue!JobRow]
    BY <2>2, <2>3 DEF Queue!Inserted
  <2> QED BY <1>4, <2>4 DEF Queue!Requeued
<1> QED BY <1>2, <1>3, <1>4

\* Every step keeps the types.
LEMMA QueueTypeStep == Queue!TypeOK /\ [Queue!Next]_queueVars => Queue!TypeOK'
<1> SUFFICES ASSUME Queue!TypeOK, [Queue!Next]_queueVars PROVE Queue!TypeOK'
  OBVIOUS
<1> USE QueueAssumption
<1>1. ASSUME NEW r \in Repo, Queue!EnqueueInitial(r) PROVE Queue!TypeOK'
  <2>1. Queue!NewRow(r, 0) \in Queue!JobRow
    BY <1>1, NewRowType DEF Queue!EnqueueInitial
  <2> QED BY <1>1, <2>1 DEF Queue!EnqueueInitial, Queue!TypeOK, Queue!repoVars, Queue!historyVars, Queue!Job
<1>2. ASSUME NEW r \in Repo, Queue!EnqueueFreshness(r) PROVE Queue!TypeOK'
  <2>1. Queue!NewRow(r, through[r]) \in Queue!JobRow
    BY <1>2, NewRowType DEF Queue!EnqueueFreshness, Queue!TypeOK
  <2> QED BY <1>2, <2>1 DEF Queue!EnqueueFreshness, Queue!Inserted, Queue!TypeOK, Queue!repoVars, Queue!historyVars, Queue!Job
<1>3. ASSUME NEW r \in Repo, Queue!EnqueuePriority(r) PROVE Queue!TypeOK'
  <2>1. Queue!NewRow(r, 0) \in Queue!JobRow
    BY <1>3, NewRowType DEF Queue!EnqueuePriority
  <2> QED BY <1>3, <2>1 DEF Queue!EnqueuePriority, Queue!TypeOK, Queue!repoVars, Queue!historyVars, Queue!Job
<1>4. ASSUME NEW o \in Owner, NEW s \in Slot, NEW j \in Queue!Job, Queue!Claim(o, s, j) PROVE Queue!TypeOK'
  <2>1. [jobs[j] EXCEPT !.status = "running", !.owner = o, !.lapsed = FALSE] \in Queue!JobRow
    BY ClaimedType DEF Queue!TypeOK
  <2>2. [job |-> j, owner |-> o, pages |-> jobs[j].pages,
         openDone |-> jobs[j].openDone, closedDone |-> jobs[j].closedDone,
         attempts |-> jobs[j].attempts, reclaimed |-> FALSE] \in Queue!Copy
    BY DEF Queue!TypeOK, Queue!JobRow, Queue!Copy, Queue!Job
  <2>3. jobs' \in [Queue!Job -> Queue!JobRow]
    BY <1>4, <2>1 DEF Queue!Claim, Queue!TypeOK
  <2>4. held' \in [Slot -> Queue!Copy]
    BY <1>4, <2>2 DEF Queue!Claim, Queue!TypeOK
  <2> QED BY <1>4, <2>3, <2>4 DEF Queue!Claim, Queue!TypeOK, Queue!repoVars, Queue!historyVars
<1>5. ASSUME NEW j \in Queue!Job, Queue!LeaseLapses(j) PROVE Queue!TypeOK'
  <2>1. jobs' \in [Queue!Job -> Queue!JobRow]
    BY <1>5, LapsedType DEF Queue!LeaseLapses, Queue!TypeOK
  <2> QED BY <1>5, <2>1 DEF Queue!LeaseLapses, Queue!TypeOK, Queue!repoVars, Queue!historyVars
<1>6. ASSUME Queue!ReclaimExpiredLeases PROVE Queue!TypeOK'
  <2>1. jobs' \in [Queue!Job -> Queue!JobRow]
    BY <1>6, UnleasedType DEF Queue!ReclaimExpiredLeases, Queue!TypeOK
  <2>2. \A s \in Slot : [held[s] EXCEPT !.reclaimed = TRUE] \in Queue!Copy
    BY DEF Queue!TypeOK, Queue!Copy
  <2>3. held' \in [Slot -> Queue!Copy]
    BY <1>6, <2>2 DEF Queue!ReclaimExpiredLeases, Queue!TypeOK
  <2> QED BY <1>6, <2>1, <2>3 DEF Queue!ReclaimExpiredLeases, Queue!TypeOK, Queue!repoVars, Queue!historyVars
<1>7. ASSUME NEW s \in Slot, Queue!ReleaseJob(s) PROVE Queue!TypeOK'
  <2>1. jobs' \in [Queue!Job -> Queue!JobRow]
    BY <1>7, BusyType, UnleasedType DEF Queue!ReleaseJob, Queue!TypeOK
  <2> QED BY <1>7, <2>1, NoCopyType DEF Queue!ReleaseJob, Queue!TypeOK, Queue!repoVars, Queue!historyVars
<1>8. ASSUME NEW s \in Slot, Queue!FailJob(s) PROVE Queue!TypeOK'
  <2> DEFINE attempt == held[s].attempts + 1
             status == IF attempt >= MaxAttempts THEN "failed" ELSE "pending"
             row == jobs[held[s].job]
  <2>1. held[s] \in Queue!Copy /\ held[s].job \in Queue!Job /\ row \in Queue!JobRow /\ attempt \in Nat
    BY <1>8, BusyType DEF Queue!FailJob, Queue!Copy
  <2>2. Queue!Unleased(row, status) \in Queue!JobRow
    BY <2>1, UnleasedType
  <2>3. [Queue!Unleased(row, status) EXCEPT !.attempts = attempt] \in Queue!JobRow
    BY <2>1, <2>2 DEF Queue!JobRow
  <2>4. jobs' \in [Queue!Job -> Queue!JobRow]
    BY <1>8, <2>1, <2>3 DEF Queue!FailJob, Queue!TypeOK
  <2>5. errors' \in [Queue!Job -> 0..MaxAttempts]
    BY <1>8, <2>1 DEF Queue!FailJob, Queue!TypeOK
  <2> QED BY <1>8, <2>4, <2>5, NoCopyType DEF Queue!FailJob, Queue!TypeOK, Queue!repoVars
<1>9. ASSUME NEW s \in Slot, Queue!MarkUnavailable(s) PROVE Queue!TypeOK'
  <2>1. held[s].job \in Queue!Job /\ jobs[held[s].job] \in Queue!JobRow
    BY <1>9, BusyType DEF Queue!MarkUnavailable
  <2>2. jobs' \in [Queue!Job -> Queue!JobRow]
    BY <1>9, <2>1, UnleasedType DEF Queue!MarkUnavailable, Queue!TypeOK
  <2>3. eligibility' \in [Repo -> {"eligible", "below", "not_found", "duplicate"}]
    <3>1. PICK reason \in {"not_found", "below"} :
            eligibility' = [eligibility EXCEPT ![jobs[held[s].job].repo] = reason]
      BY <1>9 DEF Queue!MarkUnavailable
    <3> QED BY <3>1 DEF Queue!TypeOK
  <2>4. errors' \in [Queue!Job -> 0..MaxAttempts]
    <3>1. errors' = [errors EXCEPT ![held[s].job] = MaxAttempts]
      BY <1>9 DEF Queue!MarkUnavailable
    <3>2. errors \in [Queue!Job -> 0..MaxAttempts] /\ MaxAttempts \in 0..MaxAttempts
      BY DEF Queue!TypeOK
    <3> QED BY <3>1, <3>2
  <2> QED BY <1>9, <2>2, <2>3, <2>4, NoCopyType DEF Queue!MarkUnavailable, Queue!TypeOK
<1>10. ASSUME NEW s \in Slot, Queue!LoseLease(s) PROVE Queue!TypeOK'
  BY <1>10, NoCopyType DEF Queue!LoseLease, Queue!TypeOK, Queue!repoVars, Queue!historyVars
<1>11. ASSUME NEW s \in Slot, Queue!Abandon(s) PROVE Queue!TypeOK'
  BY <1>11, NoCopyType DEF Queue!Abandon, Queue!TypeOK, Queue!repoVars, Queue!historyVars
<1>12. ASSUME NEW s \in Slot, Queue!CommitPage(s) PROVE Queue!TypeOK'
  <2>1. Queue!Busy(s) /\ held[s] \in Queue!Copy /\ held[s].job \in Queue!Job /\ jobs[held[s].job] \in Queue!JobRow
    BY <1>12, BusyType DEF Queue!CommitPage
  <2>2. PICK p \in [pages: Nat, openDone: BOOLEAN, closedDone: BOOLEAN],
             duplicate \in BOOLEAN : Queue!StorePage(s, p, duplicate)
    BY <1>12, <2>1, ProgressType DEF Queue!CommitPage
  <2>3. jobs' \in [Queue!Job -> Queue!JobRow]
    BY <2>1, <2>2, RequeuedType DEF Queue!StorePage
  <2>4. rows' \in [Queue!Job -> SUBSET Nat]
    BY <2>2 DEF Queue!StorePage, Queue!TypeOK
  <2>5. jobs[held[s].job].pass \in 0..MaxJobs
    BY <2>1 DEF Queue!JobRow
  <2>6. through' \in [Repo -> 0..MaxJobs]
    BY <2>2, <2>5 DEF Queue!StorePage, Queue!TypeOK, Queue!Watermark
  <2>7. eligibility' \in [Repo -> {"eligible", "below", "not_found", "duplicate"}]
    <3>1. \/ eligibility' = eligibility
          \/ eligibility' = [eligibility EXCEPT ![jobs[held[s].job].repo] = "duplicate"]
      BY <2>2, Zenon DEF Queue!StorePage
    <3> QED BY <3>1 DEF Queue!TypeOK
  <2>8. held' \in [Slot -> Queue!Copy]
    BY <2>2, NoCopyType DEF Queue!StorePage, Queue!TypeOK
  <2>9. synced' \in [Repo -> BOOLEAN] /\ nextId' \in Nat
    <3>1. /\ synced' = [synced EXCEPT ![jobs[held[s].job].repo] = TRUE]
          /\ nextId' = nextId \/ nextId' = nextId + 1
      BY <2>2, Zenon DEF Queue!StorePage
    <3>2. synced \in [Repo -> BOOLEAN] /\ nextId \in Nat
      BY DEF Queue!TypeOK
    <3>3. synced' \in [Repo -> BOOLEAN]
      BY <3>1, <3>2
    <3>4. nextId' \in Nat
      BY <3>1, <3>2
    <3> QED BY <3>3, <3>4
  <2>10. process' = process /\ errors' = errors
    BY <2>2 DEF Queue!StorePage
  <2> QED BY <2>3, <2>4, <2>6, <2>7, <2>8, <2>9, <2>10 DEF Queue!TypeOK
<1>13. ASSUME Queue!RecomputeEligibility PROVE Queue!TypeOK'
  BY <1>13 DEF Queue!RecomputeEligibility, Queue!TypeOK, Queue!historyVars
<1>14. ASSUME NEW r \in Repo, Queue!Rediscover(r) PROVE Queue!TypeOK'
  BY <1>14 DEF Queue!Rediscover, Queue!TypeOK, Queue!historyVars
<1>15. ASSUME NEW o \in Owner, Queue!Start(o) PROVE Queue!TypeOK'
  BY <1>15 DEF Queue!Start, Queue!TypeOK, Queue!repoVars, Queue!historyVars
<1>16. ASSUME NEW o \in Owner, Queue!Crash(o) PROVE Queue!TypeOK'
  BY <1>16, NoCopyType DEF Queue!Crash, Queue!TypeOK, Queue!repoVars, Queue!historyVars
<1>17. CASE UNCHANGED queueVars
  BY <1>17 DEF queueVars, Queue!TypeOK
<1> QED
  BY <1>1, <1>2, <1>3, <1>4, <1>5, <1>6, <1>7, <1>8, <1>9, <1>10, <1>11, <1>12,
     <1>13, <1>14, <1>15, <1>16, <1>17 DEF Queue!Next, Queue!Enqueue, Queue!Process

LEMMA QueueInitType == Queue!Init => Queue!TypeOK
  BY QueueAssumption, AbsentRowType, NoCopyType DEF Queue!Init, Queue!TypeOK

----------------------------------------------------------------------------
(* All of them together. *)

LiveTypesInv ==
  PoolLimiterInv /\ Queue!TypeOK /\ RedisInv /\ SettingsInv /\ Reports!TypeOK /\ FlowInv /\ Claims!TypeOK

LEMMA LiveTypesInit == PartsInit => LiveTypesInv
<1> SUFFICES ASSUME PartsInit PROVE LiveTypesInv
  OBVIOUS
<1>1. Queue!TypeOK
  BY QueueInitType DEF PartsInit
<1> QED BY <1>1, PoolLimiterInit, RedisInit, SettingsInit, ReportsInit, FlowInit, ClaimsInit DEF LiveTypesInv

LEMMA LiveTypesStep == LiveTypesInv /\ [PartsNext]_allVars => LiveTypesInv'
<1> SUFFICES ASSUME LiveTypesInv, [PartsNext]_allVars PROVE LiveTypesInv'
  OBVIOUS
<1>1. /\ PoolLimiterInv /\ Queue!TypeOK /\ RedisInv /\ SettingsInv /\ Reports!TypeOK /\ FlowInv /\ Claims!TypeOK
  BY DEF LiveTypesInv
<1>2. Queue!TypeOK'
  BY <1>1, PartsMove, QueueTypeStep
<1> QED BY <1>1, <1>2, PoolLimiterStep, RedisStep, SettingsStep, ReportsStep, FlowStep, ClaimsStep DEF LiveTypesInv

LEMMA LiveTypesShown == LiveTypesInv => PartsTypeOK
<1> SUFFICES ASSUME LiveTypesInv PROVE PartsTypeOK
  OBVIOUS
<1>1. /\ PoolLimiterInv /\ Queue!TypeOK /\ RedisInv /\ SettingsInv /\ Reports!TypeOK /\ FlowInv /\ Claims!TypeOK
  BY DEF LiveTypesInv
<1>2. Pool!TypeOK
  BY <1>1, PoolTypeParts DEF PoolLimiterInv, Inv
<1> QED BY <1>1, <1>2, FlowTypes DEF PartsTypeOK, RedisInv, SettingsInv

\* The parts that must go on keep their types, for any callers, jobs, calls,
\* events, viewers, members and bounds.
THEOREM LivePartsKeepTypes == PartsFairSpec => []PartsTypeOK
<1> QED BY LiveTypesInit, LiveTypesStep, LiveTypesShown, PTL DEF PartsFairSpec
=============================================================================
