------------------------------- MODULE MCLive -------------------------------
(* The parts of the processes that must go on: the limiter, alone and under *)
(* a job pool, the queue under a page cap, the Redis breaker, the telemetry, *)
(* the live settings, reports with the hidden targets, and the remembered    *)
(* claims.  Other than the pool and its limiter they share no state, so a    *)
(* behaviour moves one part and their states add up.                         *)
EXTENDS Limiter

CONSTANTS
  QueueCap,
  Repo, Owner, Slot, Null, MaxJobs, LastPage, PageCap, MaxAttempts,
  Call, RetryAfter,
  Emitter, MaxEvents, BufferSize, MaxCopies, Rate, Viewer, MaxViewers,
  MaxChanges,
  ClaimedIssue, Handler, MaxClaims,
  Member, Author, Theme, Listing, PerDay, HideAfter, MaxPerUser, MaxReports, Nothing

\* The settings are validated to be numbers, pauses and attempts not zero, and
\* the bounds are numbers too (settings/registry.go, redis.go).
ASSUME QueueAssumption ==
  /\ Null \notin Repo \cup Owner /\ MaxJobs \in Nat /\ LastPage \in Nat \ {0}
  /\ PageCap \in Nat /\ MaxAttempts \in Nat \ {0}
ASSUME LiveAssumption ==
  /\ QueueCap \in Nat /\ RetryAfter \in Nat \ {0} /\ MaxChanges \in Nat /\ MaxClaims \in Nat
  /\ {MaxEvents, BufferSize, MaxCopies, Rate, MaxViewers} \subseteq Nat
  /\ {PerDay, MaxReports} \subseteq Nat

VARIABLES
  part,   \* the part that moves
  queue, taken, dispatcher, ended, refused, dropped, shutdown,
  eligibility, synced, through, jobs, nextId, held, process, rows, errors,
  up, down, wait, call, probes,
  emitted, waking, buf, wake, stopping, run, batch, tally, wire, ingesting, counted, tokens, lines,
  active, changes, memory, rereader, noting,
  table, listens, notices, loader, snap, wired, limits,
  open, upheld, today, filed, reporting, theme, worn, dressing, refresher, hidden

Pool == INSTANCE WorkerPool WITH Job <- Caller
Queue == INSTANCE IngestQueue
Redis == INSTANCE RedisBreaker
Settings == INSTANCE LiveSettings
Reports == INSTANCE Moderation
Flow == INSTANCE FlowRelay
Claims == INSTANCE ClaimedList

poolVars == <<queue, taken, dispatcher, ended, refused, dropped, shutdown>>
queueVars == <<eligibility, synced, through, jobs, nextId, held, process, rows, errors>>
redisVars == <<up, down, wait, call, probes>>
settingsVars == <<table, listens, notices, loader, snap, wired, limits>>
reportsVars == <<open, upheld, today, filed, reporting, theme, worn, dressing, refresher, hidden>>
telemetryVars == <<emitted, waking, buf, wake, stopping, run, batch, tally,
                   wire, ingesting, counted, tokens, lines>>
claimsVars == <<active, changes, memory, rereader, noting>>
allVars == <<part, limiterVars, poolVars, queueVars, redisVars, settingsVars, reportsVars,
             telemetryVars, claimsVars>>

\* A part that does not move starts in one state only.
PartsInit ==
  /\ part \in {"limiter", "pool", "queue", "redis", "settings", "reports", "telemetry", "claims"}
  /\ Init /\ Pool!Init /\ Queue!Init /\ Redis!Init /\ Settings!Init /\ Reports!Init
  /\ Flow!Init /\ Claims!Init
  /\ part \notin {"limiter", "pool"} => limit = 1
  /\ part # "queue" => eligibility = [r \in Repo |-> "below"]
  /\ part # "redis" => up
  /\ part # "settings" => snap = table

PartsNext ==
  /\ UNCHANGED part
  /\ \/ /\ part = "limiter" /\ Next
        /\ UNCHANGED <<poolVars, queueVars, redisVars, settingsVars, reportsVars, telemetryVars, claimsVars>>
     \/ /\ part = "pool" /\ Pool!Next
        /\ UNCHANGED <<queueVars, redisVars, settingsVars, reportsVars, telemetryVars, claimsVars>>
     \/ /\ part = "queue" /\ Queue!Next
        /\ UNCHANGED <<limiterVars, poolVars, redisVars, settingsVars, reportsVars, telemetryVars, claimsVars>>
     \/ /\ part = "redis" /\ Redis!Next
        /\ UNCHANGED <<limiterVars, poolVars, queueVars, settingsVars, reportsVars, telemetryVars, claimsVars>>
     \/ /\ part = "settings" /\ Settings!Next
        /\ UNCHANGED <<limiterVars, poolVars, queueVars, redisVars, reportsVars, telemetryVars, claimsVars>>
     \/ /\ part = "reports" /\ Reports!Next
        /\ UNCHANGED <<limiterVars, poolVars, queueVars, redisVars, settingsVars, telemetryVars, claimsVars>>
     \/ /\ part = "telemetry" /\ Flow!Next
        /\ UNCHANGED <<limiterVars, poolVars, queueVars, redisVars, settingsVars, reportsVars, claimsVars>>
     \/ /\ part = "claims" /\ Claims!Next
        /\ UNCHANGED <<limiterVars, poolVars, queueVars, redisVars, settingsVars, reportsVars, telemetryVars>>

\* The part that moves does so under the fairness of its module.
PartsFairness ==
  \/ []<>(part = "limiter") /\ Fairness
  \/ []<>(part = "pool") /\ Pool!Fairness
  \/ []<>(part = "queue") /\ Queue!Fairness
  \/ []<>(part = "redis") /\ Redis!Fairness
  \/ []<>(part = "settings") /\ Settings!Fairness
  \/ []<>(part = "reports") /\ Reports!Fairness
  \/ []<>(part = "telemetry") /\ Flow!Fairness
  \/ []<>(part = "claims") /\ Claims!Fairness

PartsFairSpec == PartsInit /\ [][PartsNext]_allVars /\ PartsFairness

----------------------------------------------------------------------------
\* Every part keeps its types (pool.go, queue.go, redis.go, live.go,
\* hidden.go, publisher.go, relay.go, claims.go).
PartsTypeOK ==
  /\ Pool!TypeOK /\ Queue!TypeOK /\ Redis!TypeOK /\ Settings!TypeOK /\ Reports!TypeOK
  /\ Flow!TypeOK /\ Claims!TypeOK

\* A job handed to a pool is in one place at a time, is dropped only by a
\* shutdown that timed out, and has ended when a shutdown says it drained the
\* pool; and every job accepted is run in the end, whatever is done to the
\* limit, unless a shutdown times out (pool.go, Submit, dispatch, Shutdown).
PoolServes == []Pool!EachJobOnce /\ []Pool!CleanShutdownDrained /\ Pool!AcceptedJobsEnd

\* A claimed job does not stay claimed, whatever crashed (coordinator.go,
\* reclaimLeases).
LeasesSelfHeal == Queue!LeasesSelfHeal

\* While Redis is down one call probes it each time a probe is due, and once it
\* is up again calls are let through again (redis.go, begin, Ping and observe);
\* and an event for it is published, or dropped and counted, until its process
\* stops, and goes through the relay, whoever stops answering or reading
\* (publisher.go, enqueue, Run and Flush; relay.go).
NobodyWaitsForRedis ==
  /\ []Redis!OneProbeAtATime /\ Redis!OutageEnds
  /\ []Flow!EventsAddUp /\ Flow!EventsLeave

\* Once nothing is changed any more, the process runs on the last settings,
\* lists hide what the last decisions hide, and they show who has claimed what,
\* for good, though reads overtake each other and what is noted beside them,
\* fail and go unannounced (live.go, reload; hidden.go; claims.go).
MemoryCatchesUp ==
  Settings!SettingsCatchUp /\ Reports!HiddenCatchesUp /\ Claims!ClaimsCatchUp
=============================================================================
