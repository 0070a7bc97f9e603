---------------------------- MODULE IngestQueue ----------------------------
(***************************************************************************)
(* The crawl queue of the ingester: the rows of ingest_jobs and the parts   *)
(* of repositories the queue reads and writes, the coordinators that fill,  *)
(* claim and reclaim it, and the pool workers that finish one page of a     *)
(* job at a time (backend/internal/ingest/queue.go, worker.go and the       *)
(* queue part of coordinator.go).                                           *)
(*                                                                          *)
(* A job id also stands for the time the row was inserted, so               *)
(* pass_started_at is the id of the initial job that opened the pass, and   *)
(* issues_synced_through is such an id too; 0 is SQL's NULL.  Both cursors  *)
(* of a pass advance in lockstep, one page per commit, so pages_done stands *)
(* for them.  next_retry_at is left out: a pending job may be claimed at    *)
(* any time, which allows every order that FIFO and backoff allow.          *)
(***************************************************************************)
EXTENDS Naturals, FiniteSets

CONSTANTS
  Repo,         \* repositories of the catalog
  Owner,        \* lease owners: one per coordinator process ever started
  Slot,         \* in-flight copies of jobs: pool workers and pool queues
  Null,         \* SQL's NULL
  MaxJobs,      \* bound on the rows ever inserted
  LastPage,     \* bound on the pages GitHub has of one connection
  PageCap,      \* ingest.max_pages_per_repo, 0 for unlimited
  MaxAttempts   \* ingest.max_attempts

ASSUME NullAssumption == Null \notin Repo \cup Owner
ASSUME BoundsAssumption == MaxJobs \in Nat /\ LastPage \in Nat \ {0}
ASSUME SettingsAssumption == PageCap \in Nat /\ MaxAttempts \in Nat \ {0}

VARIABLES
  eligibility,  \* repositories.is_eligible and eligibility_reason
  synced,       \* repositories.last_synced_at IS NOT NULL
  through,      \* repositories.issues_synced_through
  jobs,         \* the rows of ingest_jobs
  nextId,       \* the id sequence of ingest_jobs
  held,         \* the in-flight copy in each slot of a pool
  process,      \* the coordinator processes
  rows,         \* history: the pages of each pass whose rows are committed
  errors        \* history: failed fetches recorded on each job

vars == <<eligibility, synced, through, jobs, nextId, held, process, rows, errors>>
repoVars == <<eligibility, synced, through>>
historyVars == <<rows, errors>>

Job == 1..MaxJobs

JobRow == [repo: Repo \cup {Null},
           type: {"initial", "deep"},
           status: {"absent", "pending", "running", "done", "failed"},
           owner: Owner \cup {Null},
           lapsed: BOOLEAN,              \* lease_expires_at < now()
           since: 0..MaxJobs,
           pass: 0..MaxJobs,
           pages: Nat,
           openDone: BOOLEAN,
           closedDone: BOOLEAN,
           attempts: Nat]

\* What ClaimJobs hands to a worker: the row as it was claimed.  "reclaimed"
\* is history: the lease of this very claim was taken back since.
Copy == [job: 0..MaxJobs,
         owner: Owner \cup {Null},
         pages: Nat,
         openDone: BOOLEAN,
         closedDone: BOOLEAN,
         attempts: Nat,
         reclaimed: BOOLEAN]

AbsentRow == [repo |-> Null, type |-> "initial", status |-> "absent",
              owner |-> Null, lapsed |-> FALSE, since |-> 0, pass |-> 0,
              pages |-> 0, openDone |-> FALSE, closedDone |-> FALSE, attempts |-> 0]

NoCopy == [job |-> 0, owner |-> Null, pages |-> 0, openDone |-> FALSE,
           closedDone |-> FALSE, attempts |-> 0, reclaimed |-> FALSE]

TypeOK ==
  /\ eligibility \in [Repo -> {"eligible", "below", "not_found", "duplicate"}]
  /\ synced \in [Repo -> BOOLEAN]
  /\ through \in [Repo -> 0..MaxJobs]
  /\ jobs \in [Job -> JobRow]
  /\ nextId \in Nat
  /\ held \in [Slot -> Copy]
  /\ process \in [Owner -> {"new", "up", "gone"}]
  /\ rows \in [Job -> SUBSET Nat]
  /\ errors \in [Job -> 0..MaxAttempts]

----------------------------------------------------------------------------
\* State helpers.

Active(row) == row.status \in {"pending", "running"}
Finished(row) == row.status \in {"done", "failed"}
\* Mutant: only waiting jobs count as active.
Mutant_HasPending(table, r) == \E j \in Job : table[j].repo = r /\ table[j].status = "pending"

HasActive(table, r) == \E j \in Job : table[j].repo = r /\ Active(table[j])

Busy(s) == held[s].job # 0

\* Mutants: the fence forgets the owner; there is no fence.
Mutant_FencedByStatus(c) == jobs[c.job].status = "running"
Mutant_Unfenced(c) == jobs[c.job].status # "absent"

\* fenceJob: the row is still running under the lease the copy was given.
Fenced(c) == jobs[c.job].status = "running" /\ jobs[c.job].owner = c.owner

\* The lease columns every finishing write clears.
Unleased(row, status) ==
  [row EXCEPT !.status = status, !.owner = Null, !.lapsed = FALSE]

\* Mutant: a pass reads what changed after its own start.
Mutant_NewRowSinceNow(r, since) ==
  [AbsentRow EXCEPT !.repo = r, !.status = "pending", !.since = nextId, !.pass = nextId]

NewRow(r, since) ==
  [AbsentRow EXCEPT !.repo = r, !.status = "pending", !.since = since, !.pass = nextId]

\* INSERT ... ON CONFLICT (repository_id) WHERE status IN ('pending',
\* 'running') DO NOTHING.  The sequence moves on whether or not the row is
\* stored.
Inserted(table, row) ==
  IF HasActive(table, row.repo) THEN table ELSE [table EXCEPT ![nextId] = row]

Capped(pages) == PageCap > 0 /\ pages >= PageCap

----------------------------------------------------------------------------
Init ==
  /\ eligibility \in [Repo -> {"eligible", "below"}]
  /\ synced = [r \in Repo |-> FALSE]
  /\ through = [r \in Repo |-> 0]
  /\ jobs = [j \in Job |-> AbsentRow]
  /\ nextId = 1
  /\ held = [s \in Slot |-> NoCopy]
  /\ process = [o \in Owner |-> "new"]
  /\ rows = [j \in Job |-> {}]
  /\ errors = [j \in Job |-> 0]

----------------------------------------------------------------------------
\* Enqueuing.  Each statement inserts a batch; its rows are of different
\* repositories and independent, so a batch is a run of these actions.

\* EnqueueInitialJobs: an eligible repository with no row at all.
EnqueueInitial(r) ==
  /\ nextId \in Job
  /\ eligibility[r] = "eligible"
  /\ \A j \in Job : jobs[j].repo # r
  /\ jobs' = [jobs EXCEPT ![nextId] = NewRow(r, 0)]
  /\ nextId' = nextId + 1
  /\ UNCHANGED <<repoVars, held, process, historyVars>>

\* EnqueueFreshnessJobs: an eligible repository synced before, no active
\* job.  How long ago is left open.
EnqueueFreshness(r) ==
  /\ nextId \in Job
  /\ eligibility[r] = "eligible"
  /\ synced[r]
  /\ ~HasActive(jobs, r)
  /\ jobs' = Inserted(jobs, NewRow(r, through[r]))
  /\ nextId' = nextId + 1
  /\ UNCHANGED <<repoVars, held, process, historyVars>>

\* POST /sync/priority/{id}: a full pass whatever the repository's state; on
\* a conflict it only moves next_retry_at.
EnqueuePriority(r) ==
  /\ nextId \in Job
  /\ ~HasActive(jobs, r)
  /\ jobs' = [jobs EXCEPT ![nextId] = NewRow(r, 0)]
  /\ nextId' = nextId + 1
  /\ UNCHANGED <<repoVars, held, process, historyVars>>

----------------------------------------------------------------------------
\* Claiming and leases.

\* ClaimJobs and Submit: a pending job of an eligible repository becomes
\* running and a copy of it goes into a slot of the owner's pool.  A batch is
\* a run of single claims.
Claim(o, s, j) ==
  /\ process[o] = "up"
  /\ ~Busy(s)
  /\ jobs[j].status = "pending"
  /\ eligibility[jobs[j].repo] = "eligible"
  /\ jobs' = [jobs EXCEPT ![j].status = "running", ![j].owner = o, ![j].lapsed = FALSE]
  /\ held' = [held EXCEPT ![s] =
                [job |-> j, owner |-> o, pages |-> jobs[j].pages,
                 openDone |-> jobs[j].openDone, closedDone |-> jobs[j].closedDone,
                 attempts |-> jobs[j].attempts, reclaimed |-> FALSE]]
  /\ UNCHANGED <<repoVars, nextId, process, historyVars>>

\* Time passes lease_expires_at: the job sat in the pool or ran too long.
LeaseLapses(j) ==
  /\ jobs[j].status = "running"
  /\ ~jobs[j].lapsed
  /\ jobs' = [jobs EXCEPT ![j].lapsed = TRUE]
  /\ UNCHANGED <<repoVars, nextId, held, process, historyVars>>

Expired(row) == row.status = "running" /\ row.lapsed

\* Mutant: a coordinator takes back only the leases of processes still up.
Mutant_ReclaimOfLiveOwners ==
  LET lost(j) == Expired(jobs[j]) /\ process[jobs[j].owner] = "up" IN
  /\ \E o \in Owner : process[o] = "up"
  /\ \E j \in Job : lost(j)
  /\ jobs' = [j \in Job |-> IF lost(j) THEN Unleased(jobs[j], "pending") ELSE jobs[j]]
  /\ UNCHANGED <<repoVars, nextId, held, process, historyVars>>

\* ReclaimExpiredLeases, run by any coordinator that is up.
ReclaimExpiredLeases ==
  /\ \E o \in Owner : process[o] = "up"
  /\ \E j \in Job : Expired(jobs[j])
  /\ jobs' = [j \in Job |-> IF Expired(jobs[j]) THEN Unleased(jobs[j], "pending") ELSE jobs[j]]
  /\ held' = [s \in Slot |-> IF Busy(s) /\ Expired(jobs[held[s].job])
                             THEN [held[s] EXCEPT !.reclaimed = TRUE] ELSE held[s]]
  /\ UNCHANGED <<repoVars, nextId, process, historyVars>>

----------------------------------------------------------------------------
\* What a worker does with its copy.  Every write is fenced.

\* Mutant: a release counts an attempt.
Mutant_ReleaseCountsAttempt(s) ==
  /\ Busy(s) /\ Fenced(held[s])
  /\ LET attempt == held[s].attempts + 1
         status == IF attempt >= MaxAttempts THEN "failed" ELSE "pending"
     IN  jobs' = [jobs EXCEPT ![held[s].job] =
                    [Unleased(@, status) EXCEPT !.attempts = attempt]]
  /\ held' = [held EXCEPT ![s] = NoCopy]
  /\ UNCHANGED <<repoVars, nextId, process, historyVars>>

\* ReleaseJob: the pool refused the copy, or the budget is spent.
ReleaseJob(s) ==
  /\ Busy(s) /\ Fenced(held[s])
  /\ jobs' = [jobs EXCEPT ![held[s].job] = Unleased(@, "pending")]
  /\ held' = [held EXCEPT ![s] = NoCopy]
  /\ UNCHANGED <<repoVars, nextId, process, historyVars>>

\* FailJob: a failed fetch, or a rate limit, counts an attempt; the last one
\* gives the job up.
FailJob(s) ==
  /\ Busy(s) /\ Fenced(held[s])
  /\ LET attempt == held[s].attempts + 1
         status == IF attempt >= MaxAttempts THEN "failed" ELSE "pending"
     IN  jobs' = [jobs EXCEPT ![held[s].job] =
                    [Unleased(@, status) EXCEPT !.attempts = attempt]]
  /\ errors' = [errors EXCEPT ![held[s].job] = IF @ < MaxAttempts THEN @ + 1 ELSE @]
  /\ held' = [held EXCEPT ![s] = NoCopy]
  /\ UNCHANGED <<repoVars, nextId, process, rows>>

\* MarkUnavailable: GitHub says NOT_FOUND, or the stored name is invalid (a
\* reason the eligibility recompute judges again).
MarkUnavailable(s) ==
  /\ Busy(s) /\ Fenced(held[s])
  /\ jobs' = [jobs EXCEPT ![held[s].job] = Unleased(@, "failed")]
  /\ \E reason \in {"not_found", "below"} :
       eligibility' = [eligibility EXCEPT ![jobs[held[s].job].repo] = reason]
  /\ errors' = [errors EXCEPT ![held[s].job] = MaxAttempts]
  /\ held' = [held EXCEPT ![s] = NoCopy]
  /\ UNCHANGED <<synced, through, nextId, process, rows>>

\* A write whose fence does not hold: ErrLeaseLost, everything rolls back.
LoseLease(s) ==
  /\ Busy(s) /\ ~Fenced(held[s])
  /\ held' = [held EXCEPT ![s] = NoCopy]
  /\ UNCHANGED <<repoVars, jobs, nextId, process, historyVars>>

\* No token, or the transaction fails: the copy is gone and the job is left
\* running until its lease expires.
Abandon(s) ==
  /\ Busy(s)
  /\ held' = [held EXCEPT ![s] = NoCopy]
  /\ UNCHANGED <<repoVars, jobs, nextId, process, historyVars>>

\* Where the pass stands after the page: each connection is done once GitHub
\* has no next page of it; closed issues are only read on an incremental pass.
Progress(c, openMore, closedMore) ==
  [pages |-> c.pages + 1,
   openDone |-> c.openDone \/ ~openMore,
   closedDone |-> c.closedDone \/ jobs[c.job].since = 0 \/ ~closedMore]

\* Mutant: the pass ends with the open issues.
Mutant_MoreOpenPages(p) == ~Capped(p.pages) /\ ~p.openDone

MorePages(p) == ~Capped(p.pages) /\ ~(p.openDone /\ p.closedDone)

\* Mutant: the stored cursor is one page ahead.
Mutant_StoredAhead(row, p) ==
  [row EXCEPT !.pages = p.pages + 1, !.openDone = p.openDone, !.closedDone = p.closedDone]

\* The columns CompleteOrRequeue stores of a page's progress.
Stored(row, p) ==
  [row EXCEPT !.pages = p.pages, !.openDone = p.openDone, !.closedDone = p.closedDone]

\* Mutant: the pass is stamped with the time it ended.
Mutant_WatermarkNow(old, pass) == IF nextId > old THEN nextId ELSE old

\* GREATEST(issues_synced_through, pass_started_at)
Watermark(old, pass) == IF pass > old THEN pass ELSE old

\* CompleteOrRequeue, the job side: done; a deep job back to pending; or an
\* initial job done and its pass handed to a new deep job.
Requeued(c, p) ==
  LET row == jobs[c.job] IN
  IF ~MorePages(p) THEN [jobs EXCEPT ![c.job] = Stored(Unleased(@, "done"), p)]
  ELSE IF row.type = "deep"
    THEN [jobs EXCEPT ![c.job] = [Stored(Unleased(@, "pending"), p) EXCEPT !.attempts = 0]]
    ELSE Inserted([jobs EXCEPT ![c.job] = Stored(Unleased(@, "done"), p)],
                  [Stored(AbsentRow, p) EXCEPT !.repo = row.repo, !.type = "deep",
                     !.status = "pending", !.since = row.since, !.pass = row.pass])

HandsOff(c, p) == MorePages(p) /\ jobs[c.job].type = "initial"

\* The transaction of a fetched page: its issues and closings, last_synced_at
\* and the watermark, the job, and on the first page the repository's GitHub
\* id, which may show the row to be a duplicate.
StorePage(s, p, duplicate) ==
  LET c == held[s]
      r == jobs[c.job].repo
      pass == jobs[c.job].pass
  IN  /\ duplicate => c.pages = 0
      /\ HandsOff(c, p) => nextId \in Job
      /\ jobs' = Requeued(c, p)
      /\ nextId' = IF HandsOff(c, p) THEN nextId + 1 ELSE nextId
      /\ rows' = [rows EXCEPT ![pass] = @ \cup {p.pages}]
      /\ synced' = [synced EXCEPT ![r] = TRUE]
      /\ through' = IF MorePages(p) THEN through
                    ELSE [through EXCEPT ![r] = Watermark(@, pass)]
      /\ eligibility' = IF duplicate THEN [eligibility EXCEPT ![r] = "duplicate"]
                        ELSE eligibility
      /\ held' = [held EXCEPT ![s] = NoCopy]
      /\ UNCHANGED <<process, errors>>

\* What GitHub answers for one page: whether each connection has a next page.
CommitPage(s) ==
  /\ Busy(s) /\ Fenced(held[s])
  /\ \E openMore, closedMore, duplicate \in BOOLEAN :
       /\ openMore \/ closedMore => held[s].pages + 1 < LastPage
       /\ StorePage(s, Progress(held[s], openMore, closedMore), duplicate)

----------------------------------------------------------------------------
\* Repositories.

\* RecomputeEligibility re-judges every repository except the ones GitHub
\* rejected and the duplicates; the facts it judges by are left open.
RecomputeEligibility ==
  /\ \E judged \in [Repo -> {"eligible", "below"}] :
       eligibility' = [r \in Repo |-> IF eligibility[r] \in {"not_found", "duplicate"}
                                      THEN eligibility[r] ELSE judged[r]]
  /\ UNCHANGED <<synced, through, jobs, nextId, held, process, historyVars>>

\* refreshKnownTx: search shows the repository again, so 'not_found' is
\* cleared and the next recompute judges it.
Rediscover(r) ==
  /\ eligibility[r] = "not_found"
  /\ eligibility' = [eligibility EXCEPT ![r] = "below"]
  /\ UNCHANGED <<synced, through, jobs, nextId, held, process, historyVars>>

----------------------------------------------------------------------------
\* Coordinator processes.  A restarted process is a new owner.

Start(o) ==
  /\ process[o] = "new"
  /\ process' = [process EXCEPT ![o] = "up"]
  /\ UNCHANGED <<repoVars, jobs, nextId, held, historyVars>>

\* The process ends with copies in its pools; one that may still start is
\* kept, so the service is always restarted.
Crash(o) ==
  /\ process[o] = "up"
  /\ \E spare \in Owner \ {o} : process[spare] # "gone"
  /\ process' = [process EXCEPT ![o] = "gone"]
  /\ held' = [s \in Slot |-> IF held[s].owner = o THEN NoCopy ELSE held[s]]
  /\ UNCHANGED <<repoVars, jobs, nextId, historyVars>>

----------------------------------------------------------------------------
Enqueue(r) == EnqueueInitial(r) \/ EnqueueFreshness(r) \/ EnqueuePriority(r)

Process(s) ==
  \/ ReleaseJob(s)
  \/ FailJob(s)
  \/ MarkUnavailable(s)
  \/ LoseLease(s)
  \/ Abandon(s)
  \/ CommitPage(s)

Next ==
  \/ \E r \in Repo : Enqueue(r) \/ Rediscover(r)
  \/ \E o \in Owner, s \in Slot, j \in Job : Claim(o, s, j)
  \/ \E j \in Job : LeaseLapses(j)
  \/ ReclaimExpiredLeases
  \/ \E s \in Slot : Process(s)
  \/ RecomputeEligibility
  \/ \E o \in Owner : Start(o) \/ Crash(o)

Spec == Init /\ [][Next]_vars

\* Time passes every lease, a process is always started again, and its cycle
\* reclaims, even while the disk guard pauses enqueuing and claiming.
Fairness ==
  /\ \A j \in Job : WF_vars(LeaseLapses(j))
  /\ WF_vars(ReclaimExpiredLeases)
  /\ \A o \in Owner : WF_vars(Start(o))

FairSpec == Spec /\ Fairness

----------------------------------------------------------------------------
\* Safety.

\* At most one pending or running job per repository, whoever enqueues,
\* reclaims or hands off (the partial unique index, 00003:78-83, is a guard
\* of the inserts only: no update may make a second row active).
OneActiveJobPerRepo ==
  \A j, k \in Job :
    Active(jobs[j]) /\ Active(jobs[k]) /\ jobs[j].repo = jobs[k].repo => j = k

\* A cursor never stands past a page whose rows are not committed, in the
\* table or in a worker's copy, across hand-offs, retries and stale workers.
CursorBehindRows ==
  /\ \A j \in Job : jobs[j].status # "absent" =>
                     1..jobs[j].pages \subseteq rows[jobs[j].pass]
  /\ \A s \in Slot : Busy(s) => 1..held[s].pages \subseteq rows[jobs[held[s].job].pass]

\* The watermark of a repository is the start of a pass of that repository
\* which read both connections to the end, or to the page cap, and whose every
\* page is committed.
WatermarkEarned ==
  \A r \in Repo : through[r] # 0 =>
    \E j \in Job :
      /\ jobs[j].repo = r /\ jobs[j].pass = through[r] /\ jobs[j].status = "done"
      /\ Capped(jobs[j].pages) \/ (jobs[j].openDone /\ jobs[j].closedDone)
      /\ 1..jobs[j].pages \subseteq rows[jobs[j].pass]

\* A pass still in the queue started after everything the watermark covers,
\* and reads from a watermark the repository has reached: nothing between two
\* passes is skipped, and no pass is counted before it ends.
PassAfterWatermark ==
  \A j \in Job : Active(jobs[j]) =>
    /\ jobs[j].since <= through[jobs[j].repo]
    /\ through[jobs[j].repo] < jobs[j].pass

\* What the invariants above rest on: a row that exists has an id already
\* drawn, a repository and a pass; a copy is a copy of such a row; and no
\* watermark is ahead of the sequence.
RowsExist ==
  /\ \A j \in Job : jobs[j].status # "absent" =>
       j < nextId /\ jobs[j].repo \in Repo /\ jobs[j].pass \in Job /\ jobs[j].pass < nextId
  /\ \A s \in Slot : Busy(s) => jobs[held[s].job].status # "absent"
  /\ \A r \in Repo : through[r] < nextId

SafetyInv ==
  /\ RowsExist
  /\ OneActiveJobPerRepo
  /\ CursorBehindRows
  /\ WatermarkEarned
  /\ PassAfterWatermark

\* A job is only given up after ingest.max_attempts failed fetches of its own,
\* or because GitHub has no such repository: releases, lost leases and
\* reclaims never use up its attempts.
GivenUpOnlyAfterMaxAttempts ==
  \A j \in Job : jobs[j].status = "failed" => errors[j] >= MaxAttempts

\* While a job runs under a lease that has not lapsed, only a copy its owner
\* holds can change it.
OnlyTheLeaseOwnerFinishes ==
  [][\A j \in Job :
       jobs[j].status = "running" /\ ~jobs[j].lapsed /\ jobs'[j].status # "running" =>
         \E s \in Slot : /\ held[s].job = j /\ held[s].owner = jobs[j].owner
                         /\ held'[s] = NoCopy]_vars

\* A finished row is never touched again, by whichever late worker.
FinishedStaysFinished ==
  [][\A j \in Job : Finished(jobs[j]) => jobs'[j] = jobs[j]]_vars

\* A job is taken to its end by a copy its lease allows to, what has ended
\* stays ended, and a job is given up only after all its attempts (queue.go,
\* fenceJob, CompleteJob, FailJob, ReleaseJob).
LeasesAreHonoured ==
  OnlyTheLeaseOwnerFinishes /\ FinishedStaysFinished /\ []GivenUpOnlyAfterMaxAttempts

\* A claimed job does not stay claimed: a crash, a stall or a lost result
\* heals through the lease.
LeasesSelfHeal == \A j \in Job : []<>(jobs[j].status # "running")

----------------------------------------------------------------------------
\* Refinement.

\* The job that stands for a repository's pass; 0 when none is in progress.
ActiveJob(r) == CHOOSE j \in Job : jobs[j].repo = r /\ Active(jobs[j])
PassOf(r) == IF HasActive(jobs, r) THEN jobs[ActiveJob(r)].pass ELSE 0
SinceOf(r) == IF HasActive(jobs, r) THEN jobs[ActiveJob(r)].since ELSE 0
PagesOf(r) == IF HasActive(jobs, r) THEN jobs[ActiveJob(r)].pages ELSE 0

Ledger == INSTANCE PassLedger WITH
  Time <- Job,
  clock <- nextId,
  pass <- [r \in Repo |-> PassOf(r)],
  since <- [r \in Repo |-> SinceOf(r)],
  reached <- [r \in Repo |-> PagesOf(r)]

\* Jobs, hand-offs, leases, retries and stale workers all together give each
\* repository nothing but a sequence of passes (CompleteOrRequeue's GREATEST
\* never has an older pass to reject).
ImplementsPassLedger == Ledger!Spec

----------------------------------------------------------------------------
\* What the comments and the documentation say, refuted by the code.

\* coordinator.go:811-813: "every job write is fenced on lease_owner, so a
\* stalled worker that wakes up after its job was reclaimed gets ErrLeaseLost
\* instead of a write."
ReclaimedWorkerNeverWrites ==
  [][\A s \in Slot : held[s].reclaimed /\ held'[s] # held[s] =>
       jobs'[held[s].job] = jobs[held[s].job]]_vars

\* ARCHITECTURE.md:76: "Every eligible repository is crawled."  An eligible
\* repository never synced yet either has no job row, so EnqueueInitialJobs
\* will queue it, or has a job in the queue.
NoRepositoryStranded ==
  \A r \in Repo : eligibility[r] = "eligible" /\ ~synced[r] =>
    HasActive(jobs, r) \/ \A j \in Job : jobs[j].repo # r
=============================================================================
