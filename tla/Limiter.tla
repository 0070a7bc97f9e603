------------------------------ MODULE Limiter ------------------------------
(***************************************************************************)
(* The resizable concurrency limit of the worker pools                      *)
(* (backend/internal/worker/limiter.go).  Every critical section of its     *)
(* mutex is one step; a caller blocked in Acquire's select is woken, or     *)
(* chooses its cancelled context and only then takes the mutex to abandon   *)
(* its place, so a slot may be reserved for it in between.                  *)
(***************************************************************************)
EXTENDS Naturals, Sequences, FiniteSets

CONSTANTS
  Caller,    \* calls of Acquire that may be in progress or hold a slot
  MaxLimit   \* bound on the concurrency settings

ASSUME CallerAssumption == IsFiniteSet(Caller)
ASSUME LimitAssumption == MaxLimit \in Nat \ {0}

VARIABLES
  limit,     \* Limiter.limit
  inUse,     \* Limiter.inUse
  waiters,   \* Limiter.waiters, a channel named by its caller
  woken,     \* callers whose channel is closed and that have not returned
  leaving,   \* callers whose select chose ctx.Done, before they take the mutex
  holding    \* callers whose Acquire returned nil and that have not released

limiterVars == <<limit, inUse, waiters, woken, leaving, holding>>

Waiting == {waiters[i] : i \in DOMAIN waiters}
Idle == Caller \ (Waiting \cup woken \cup leaving \cup holding)

Distinct(ws) == \A i, j \in DOMAIN ws : ws[i] = ws[j] => i = j

TypeOK ==
  /\ limit \in 1..MaxLimit
  /\ inUse \in Nat
  /\ waiters \in Seq(Caller) /\ Distinct(waiters)
  /\ woken \subseteq Caller \ Waiting
  /\ leaving \subseteq Waiting \cup woken
  /\ holding \subseteq Caller \ (Waiting \cup woken)

Init ==
  /\ limit \in 1..MaxLimit
  /\ inUse = 0
  /\ waiters = <<>>
  /\ woken = {} /\ leaving = {} /\ holding = {}

----------------------------------------------------------------------------
\* How many waiters there is now room for.
Room(used, newLimit, ws) ==
  IF used >= newLimit THEN 0
  ELSE IF newLimit - used < Len(ws) THEN newLimit - used ELSE Len(ws)

\* Mutants: a woken waiter stays in the queue; the newest waiter is woken
\* first.
Mutant_AdmitKeepsQueue(used, newLimit, ws, asleep) ==
  LET k == Room(used, newLimit, ws) IN
  /\ inUse' = used + k
  /\ waiters' = ws
  /\ woken' = asleep \cup {ws[i] : i \in 1..k}
Mutant_AdmitLast(used, newLimit, ws, asleep) ==
  LET k == Room(used, newLimit, ws) IN
  /\ inUse' = used + k
  /\ waiters' = SubSeq(ws, 1, Len(ws) - k)
  /\ woken' = asleep \cup {ws[i] : i \in (Len(ws) - k + 1)..Len(ws)}

\* admitLocked: the longest waiting get the free slots, reserved for them
\* before they run.
AdmitLocked(used, newLimit, ws, asleep) ==
  LET k == Room(used, newLimit, ws) IN
  /\ inUse' = used + k
  /\ waiters' = SubSeq(ws, k + 1, Len(ws))
  /\ woken' = asleep \cup {ws[i] : i \in 1..k}

Given(used) == IF used > 0 THEN used - 1 ELSE used

\* Mutant: a caller never waits.
Mutant_AcquireAlways(c) ==
  /\ c \in Idle
  /\ inUse' = inUse + 1 /\ holding' = holding \cup {c} /\ UNCHANGED waiters
  /\ UNCHANGED <<limit, woken, leaving>>

\* Acquire, up to its select: a free slot is taken, or the caller queues.
Acquire(c) ==
  /\ c \in Idle
  /\ IF inUse < limit
     THEN inUse' = inUse + 1 /\ holding' = holding \cup {c} /\ UNCHANGED waiters
     ELSE waiters' = Append(waiters, c) /\ UNCHANGED <<inUse, holding>>
  /\ UNCHANGED <<limit, woken, leaving>>

\* The select receives from the closed channel: Acquire returns nil.
Wake(c) ==
  /\ c \in woken \ leaving
  /\ woken' = woken \ {c}
  /\ holding' = holding \cup {c}
  /\ UNCHANGED <<limit, inUse, waiters, leaving>>

\* The select chooses ctx.Done, as it may even with the channel closed.
Cancel(c) ==
  /\ c \in (Waiting \cup woken) \ leaving
  /\ leaving' = leaving \cup {c}
  /\ UNCHANGED <<limit, inUse, waiters, woken, holding>>

Without(ws, c) ==
  LET k == CHOOSE i \in DOMAIN ws : ws[i] = c IN
  [i \in 1..(Len(ws) - 1) |-> IF i < k THEN ws[i] ELSE ws[i + 1]]

\* Mutant: an abandoned slot is not given back.
Mutant_AbandonLeaks(c) ==
  /\ c \in leaving
  /\ leaving' = leaving \ {c}
  /\ IF c \in Waiting
     THEN waiters' = Without(waiters, c) /\ UNCHANGED <<inUse, woken>>
     ELSE woken' = woken \ {c} /\ UNCHANGED <<inUse, waiters>>
  /\ UNCHANGED <<limit, holding>>

\* abandon: the caller leaves the queue; if it is no longer there a slot was
\* reserved for it, and is handed on.
Abandon(c) ==
  /\ c \in leaving
  /\ leaving' = leaving \ {c}
  /\ IF c \in Waiting
     THEN waiters' = Without(waiters, c) /\ UNCHANGED <<inUse, woken>>
     ELSE AdmitLocked(Given(inUse), limit, waiters, woken \ {c})
  /\ UNCHANGED <<limit, holding>>

Release(c) ==
  /\ c \in holding
  /\ holding' = holding \ {c}
  /\ AdmitLocked(Given(inUse), limit, waiters, woken)
  /\ UNCHANGED <<limit, leaving>>

\* Mutant: a raised limit wakes nobody.
Mutant_SetLimitOnly(n) ==
  /\ limit # n
  /\ limit' = n
  /\ UNCHANGED <<inUse, waiters, woken, leaving, holding>>

SetLimit(n) ==
  /\ limit # n
  /\ limit' = n
  /\ AdmitLocked(inUse, n, waiters, woken)
  /\ UNCHANGED <<leaving, holding>>

Next ==
  \/ \E c \in Caller : Acquire(c) \/ Wake(c) \/ Cancel(c) \/ Abandon(c) \/ Release(c)
  \/ \E n \in 1..MaxLimit : SetLimit(n)

Spec == Init /\ [][Next]_limiterVars

\* The goroutines in the limiter run, and a slot is held only as long as a
\* job runs: every job has deadlines of its own.
Fairness ==
  \A c \in Caller : /\ WF_limiterVars(Wake(c)) /\ WF_limiterVars(Abandon(c))
                    /\ WF_limiterVars(Release(c))

FairSpec == Spec /\ Fairness

----------------------------------------------------------------------------
\* No slot leaks and none is held twice: inUse counts exactly the callers
\* that hold a slot or have one reserved, however cancellations, releases and
\* resizes race.
SlotsAccounted == inUse = Cardinality(holding) + Cardinality(woken)

\* Nobody waits beside a free slot: every step that frees a slot or raises the
\* limit hands the room on.
NoLostWakeup == waiters # <<>> => inUse >= limit

\* A slot is only ever given out under the limit in force; lowering the limit
\* below what is in use admits nobody until usage has drained.
NoOvercommit == [][inUse' > inUse => inUse' <= limit']_limiterVars

\* Slots go to the longest waiting: whoever gets one leaves nobody behind that
\* was queued before it, and a newcomer never overtakes the queue.
LongestWaitingFirst ==
  [][\A c \in (holding' \cup woken') \ (holding \cup woken) :
       \A i \in DOMAIN waiters :
         (\E j \in DOMAIN waiters' : waiters'[j] = waiters[i]) =>
           \E k \in 1..(i - 1) : waiters[k] = c]_limiterVars

\* Every caller gets out of the queue, by a slot or by giving up, whatever is
\* done to the limit.
NobodyWaitsForever == \A c \in Caller : []<>(c \notin Waiting)
=============================================================================
