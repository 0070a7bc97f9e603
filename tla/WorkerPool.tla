---------------------------- MODULE WorkerPool -----------------------------
(***************************************************************************)
(* A worker pool of the ingester (backend/internal/worker/pool.go): the     *)
(* bounded job channel, the dispatcher that starts each job once the        *)
(* limiter grants it a slot, the jobs, and a graceful shutdown.  The        *)
(* limiter is Limiter's; the dispatcher acquires for a job and the job's    *)
(* goroutine releases, so a caller of the limiter is a job.                 *)
(*                                                                          *)
(* Submit and Shutdown are the coordinator's (coordinator.go): its loop has *)
(* ended before it shuts a pool down, so no Submit runs beside a Shutdown.  *)
(***************************************************************************)
EXTENDS Naturals, Sequences, FiniteSets

CONSTANTS
  Job,       \* jobs ever submitted
  MaxLimit,  \* bound on the concurrency settings
  QueueCap   \* capacity of the job channel

VARIABLES
  limit, inUse, waiters, woken, leaving, holding,  \* the limiter
  queue,       \* the job channel
  taken,       \* the job the dispatcher has received and not started, or none
  dispatcher,  \* "receive", "acquire" (in Limiter.Acquire) or "gone"
  ended,       \* jobs that returned, failed or panicked
  refused,     \* jobs Submit returned an error for
  dropped,     \* jobs received and never started
  shutdown     \* "no", "draining", "clean" or "timed out"

limiterVars == <<limit, inUse, waiters, woken, leaving, holding>>
vars == <<limiterVars, queue, taken, dispatcher, ended, refused, dropped, shutdown>>

Slots == INSTANCE Limiter WITH Caller <- Job

Queued == {queue[i] : i \in DOMAIN queue}
Submitted == Queued \cup taken \cup holding \cup ended \cup refused \cup dropped

Closed == shutdown # "no"    \* Pool.closed

\* Mutant: a shutdown cancels the jobs' context before they have drained.
Mutant_CancelledAtOnce == shutdown # "no"

\* Pool.ctx is done.
Cancelled == shutdown \in {"clean", "timed out"}

TypeOK ==
  /\ Slots!TypeOK
  /\ queue \in Seq(Job) /\ Len(queue) <= QueueCap
  /\ taken \subseteq Job
  /\ dispatcher \in {"receive", "acquire", "gone"}
  /\ ended \subseteq Job /\ refused \subseteq Job /\ dropped \subseteq Job
  /\ shutdown \in {"no", "draining", "clean", "timed out"}

Init ==
  /\ Slots!Init
  /\ queue = <<>> /\ taken = {}
  /\ dispatcher = "receive"
  /\ ended = {} /\ refused = {} /\ dropped = {}
  /\ shutdown = "no"

----------------------------------------------------------------------------
\* Mutant: a full channel takes the job all the same.
Mutant_SubmitUnbounded(j) ==
  /\ ~Closed
  /\ j \notin Submitted
  /\ queue' = Append(queue, j)
  /\ UNCHANGED <<limiterVars, taken, dispatcher, ended, refused, dropped, shutdown>>

\* Submit: never blocks; a full channel refuses the job, which its caller
\* then releases.
Submit(j) ==
  /\ ~Closed
  /\ j \notin Submitted
  /\ IF Len(queue) < QueueCap
     THEN queue' = Append(queue, j) /\ UNCHANGED refused
     ELSE refused' = refused \cup {j} /\ UNCHANGED queue
  /\ UNCHANGED <<limiterVars, taken, dispatcher, ended, dropped, shutdown>>

\* Mutant: the dispatcher returns as soon as the channel is closed.
Mutant_DispatchStopsClosed ==
  /\ dispatcher = "receive"
  /\ Closed
  /\ dispatcher' = "gone"
  /\ UNCHANGED <<limiterVars, queue, taken, ended, refused, dropped, shutdown>>

\* dispatch: the context is done, or the channel is closed and drained.
DispatchStops ==
  /\ dispatcher = "receive"
  /\ Cancelled \/ (Closed /\ queue = <<>>)
  /\ dispatcher' = "gone"
  /\ UNCHANGED <<limiterVars, queue, taken, ended, refused, dropped, shutdown>>

\* dispatch receives a job and calls Acquire, which may take a slot at once.
DispatchReceives ==
  /\ dispatcher = "receive" /\ queue # <<>>
  /\ queue' = Tail(queue)
  /\ Slots!Acquire(Head(queue))
  /\ IF Head(queue) \in holding'
     THEN UNCHANGED <<taken, dispatcher>>
     ELSE taken' = {Head(queue)} /\ dispatcher' = "acquire"
  /\ UNCHANGED <<ended, refused, dropped, shutdown>>

\* Acquire returns with a slot reserved for it and the job is started.
DispatchStarts(j) ==
  /\ j \in taken
  /\ Slots!Wake(j)
  /\ taken' = {} /\ dispatcher' = "receive"
  /\ UNCHANGED <<queue, ended, refused, dropped, shutdown>>

AcquireCancelled(j) ==
  /\ j \in taken /\ Cancelled
  /\ Slots!Cancel(j)
  /\ UNCHANGED <<queue, taken, dispatcher, ended, refused, dropped, shutdown>>

\* Acquire returns the context's error: the dispatcher returns with the job it
\* had received.
DispatchDrops(j) ==
  /\ j \in taken
  /\ Slots!Abandon(j)
  /\ taken' = {} /\ dropped' = dropped \cup {j} /\ dispatcher' = "gone"
  /\ UNCHANGED <<queue, ended, refused, shutdown>>

\* Mutant: the slot is not released, as after a panic nobody recovers.
Mutant_FinishJobLeaks(j) ==
  /\ j \in holding
  /\ holding' = holding \ {j}
  /\ ended' = ended \cup {j}
  /\ UNCHANGED <<limit, inUse, waiters, woken, leaving,
                 queue, taken, dispatcher, refused, dropped, shutdown>>

\* runJob returns, with an error or after a panic too, and the slot is
\* released.
FinishJob(j) ==
  /\ Slots!Release(j)
  /\ ended' = ended \cup {j}
  /\ UNCHANGED <<queue, taken, dispatcher, refused, dropped, shutdown>>

SetConcurrency(n) ==
  /\ Slots!SetLimit(n)
  /\ UNCHANGED <<queue, taken, dispatcher, ended, refused, dropped, shutdown>>

ShutdownBegins ==
  /\ ~Closed
  /\ shutdown' = "draining"
  /\ UNCHANGED <<limiterVars, queue, taken, dispatcher, ended, refused, dropped>>

\* The WaitGroup counts the dispatcher and the jobs it started.
Drained == dispatcher = "gone" /\ holding = {}

ShutdownReturns ==
  /\ shutdown = "draining"
  /\ shutdown' \in (IF Drained THEN {"clean", "timed out"} ELSE {"timed out"})
  /\ UNCHANGED <<limiterVars, queue, taken, dispatcher, ended, refused, dropped>>

Next ==
  \/ \E j \in Job : \/ Submit(j) \/ DispatchStarts(j) \/ AcquireCancelled(j)
                    \/ DispatchDrops(j) \/ FinishJob(j)
  \/ DispatchStops \/ DispatchReceives
  \/ \E n \in 1..MaxLimit : SetConcurrency(n)
  \/ ShutdownBegins \/ ShutdownReturns

Spec == Init /\ [][Next]_vars

\* The dispatcher runs, every job ends at its deadlines, and Shutdown has a
\* timeout.  Nothing forces a shutdown.
Fairness ==
  /\ \A j \in Job : /\ WF_vars(DispatchStarts(j)) /\ WF_vars(AcquireCancelled(j))
                    /\ WF_vars(DispatchDrops(j)) /\ WF_vars(FinishJob(j))
  /\ WF_vars(DispatchStops) /\ WF_vars(DispatchReceives)
  /\ WF_vars(ShutdownReturns)

FairSpec == Spec /\ Fairness

----------------------------------------------------------------------------
\* A job is in one place only: refused, in the channel, with the dispatcher,
\* running, ended or dropped; it never runs twice, and is only dropped by a
\* shutdown that timed out.
EachJobOnce ==
  /\ Cardinality(Submitted) = Len(queue) + Cardinality(taken) + Cardinality(holding)
       + Cardinality(ended) + Cardinality(refused) + Cardinality(dropped)
  /\ dropped # {} => shutdown = "timed out"

\* A shutdown that says it drained the pool did: every job accepted has ended,
\* none waits in the channel or with the dispatcher.
CleanShutdownDrained == shutdown = "clean" => Submitted = ended \cup refused

\* Every accepted job is run in the end, unless a shutdown times out.
AcceptedJobsEnd ==
  \A j \in Job : []<>(j \notin Queued \cup taken \cup holding \/ shutdown = "timed out")
=============================================================================
