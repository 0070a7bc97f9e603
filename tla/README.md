# SkillIssues: a verification project

SkillIssues keeps a catalog of open GitHub issues that newcomers can work on.
An ingester (`backend/cmd/ingestd`) crawls the issues of eligible repositories
into Postgres, keeps them fresh from GH Archive's hourly event files, searches
GitHub for new repositories, checks the issues users saved and reads users'
pull requests. An API server (`backend/cmd/api`) serves the catalog, with
sign-in, saved issues, claims, XP, learning paths, reports, themes and
recommendations. A web application, a desktop shell and an installer sit on top.

This directory holds TLA+ modules for the parts of that system whose
correctness depends on interleavings, failures and the order of events, TLC
configurations that check them on small instances, and TLAPS proofs of the most
important results for every size.

## 1. Inventory

### 1.1 The ingester

| Part | State | Operations | Interacts with |
|---|---|---|---|
| Crawl queue (`ingest/queue.go`, `worker.go`, `coordinator.go`) | `ingest_jobs`; `repositories.last_synced_at`, `issues_synced_through`, `is_eligible`, `eligibility_reason` | enqueue initial, freshness and priority jobs; claim; release; fail; mark unavailable; commit a page; reclaim leases; recompute eligibility | pools run its jobs; catalog rows commit with its cursors |
| Issue catalog (`upsert.go`, `prune.go`, `archive.go`, `tracked.go`, `cmd/api/handlers_webhook.go`) | `issues`, `saved_issues` | upsert a page, mark closed, apply archive batches, apply a webhook, apply live states, prune closed and excluded | written by crawl, archive, webhooks and tracked checks, all at once |
| Archive hour queue (`archive.go`) | `archive_hours` | seed, claim, complete, release, fail, mark missing, reclaim, covered-until | slows the freshness crawl while it keeps up |
| Archive candidates (`archive.go`, `github/lookup.go`) | `repo_candidates` | name, select due, look up, store, prune | stores repositories the crawl then finds |
| Discovery sweeps (`discovery.go`) | `discovery_sweeps`, `discovery_windows` | start, claim, split, page, fail, complete, retry | stores repositories the crawl then finds |
| Repository identity (`identity.go`, `discovery.go`, `cmd/repoimport`) | `repositories.github_database_id`, `full_name`, `is_eligible` | record id, rename, mark duplicate, import, judge | crawl's first page, discovery, candidates |
| GitHub budget (`budget.go`) | `github_budget` | record telemetry, secondary limit, may proceed | every call to GitHub |
| Pull request sync (`prs.go`, `github/pulls.go`) | `pr_sync`, `pull_requests` | request, read a page, fail, award | XP ledger, learning paths, claims |
| Bodies, statistics (`bodies.go`, `stats.go`, migration 00043) | `issue_bodies`; `catalog_stats`, its deltas | fetch, trim; delta, roll up, recount | read the catalog; served by the API |
| Worker pools (`worker/limiter.go`, `pool.go`) | limit, slots in use, waiters; the job channel | acquire, release, resize; submit, dispatch, shut down | run the jobs of all the queues above |

### 1.2 The API and the rest

| Part | State | Operations |
|---|---|---|
| XP (`xp/xp.go`, `quests.go`) | `xp_events` | plan and write awards |
| Claims (`claim`, `cmd/api/claims.go`) | `issue_claims`; the claimed issues each process remembers | claim, release; re-read, note |
| Learning paths (`learnpath`) | `learning_paths` and their steps | start, swap, give up, mark done, pay |
| Feeds (`issue/browse.go`, `shuffle.go`, `foryou.go`, `pick.go`) | a cursor per reader, the For you chunks kept in Redis | page |
| Reports and themes (`report`, `theme`, `cmd/api/hidden.go`) | `reports`, `themes`, `users.active_theme_id`; the hidden targets each process remembers | report, decide, re-read; publish, withdraw, apply |
| Live settings (`settings`) | the `settings` table; each process's snapshot | notify, reload, reconcile, apply |
| Redis client (`cache/redis.go`) | the breaker's two atomics, the limiter's counters | begin, observe, count |
| Telemetry (`flow`, `flowd`) | a process's buffer, the relay's tokens and viewers | emit, flush, ingest, broadcast |

Sessions, notifications, profiles and sign-in are handlers over Postgres, mostly one
SQL statement each. The desktop shell, the installer, the web application and
the deployment files hold no shared state that these properties are about.
`PROJECT.json` lists every part as a component, with the reason for what is not
modelled.

### 1.3 What is hard

* **A stalled worker is not a dead one.** Every queue hands out leases and
  fences its writes; a worker past its lease may still be running while another
  copy of its job runs. The fence names the process, not the claim.
* **Read now, write later.** A page of issues, a search result, a pull request
  list or an issue's state is fetched outside any transaction and written after
  it; the archive, another worker, a prune, a webhook or the user may write in
  between.
* **A watermark must not run ahead.** `issues_synced_through`, a sweep's end,
  `pr_sync.synced_through` and the archive's coverage each say what never needs
  to be read again, and what follows trusts them blindly.
* **Crashes between steps.** A process may end between claiming and committing,
  or between two batches of an archive hour.
* **Memory beside a table.** Settings, hidden targets and claimed issues are
  re-read by a timer and noted by handlers or listeners, unsynchronised: the
  older read may be stored last.
* **Counts and caps under concurrency.** Catalog totals, claims per person,
  misses per caller, XP per day, the interactive reserve.
* **Lists that move under a cursor.** Pages are cut while rows change their place.
* **The pool is resized while it works**, and `select` may choose a cancelled
  context when a slot was already granted.

### 1.4 What makes each part correct

* Queue: one active job per repository; no cursor past rows that are not
  stored; a watermark only from a pass read to its end; a finished job stays
  finished; a claimed job never stays claimed.
* Catalog: an open issue that the watermark covers is shown as it is; a closed
  one is not shown open; no row shows a state GitHub never had.
* Limiter: `inUse` is exact; nobody waits beside a free slot; FIFO.
* Pool: each job once; a clean shutdown lost nothing.
* Archive hours: an hour counts as covered only when applied or never
  published; coverage never goes back. Candidates: activity is never forgotten.
* Discovery: the windows of a sweep always cover its range exactly; the
  discovery watermark only moves over ranges searched to the end.
* Identity: of two rows that are one repository, one is crawled.
* Budget: the reserve for interactive reads is not spent by the crawl.
* Pull requests: no change is skipped. XP: caps and once-only rules hold over
  the whole ledger, in whatever order pull requests arrive.
* Totals: the sum with the deltas still to fold is exact at all times.
* Claims, misses: the caps hold however many requests run at once.
* Feeds: what stands still is shown exactly once.
* Memory: it catches up with its table, for good.

## 2. Modules

| Module | Models | Extends or uses |
|---|---|---|
| `IngestQueue` | the crawl queue, its workers and coordinator processes | `PassLedger` (refined) |
| `PassLedger` | what the queue promises of each repository: passes one after another | |
| `IngestQueueProofs` | proofs about `IngestQueue`: its safety, its leases, and that it implements `PassLedger` | `IngestQueue`, TLAPS |
| `CatalogSync` | one repository's issues: GitHub, crawl, archive, webhooks, tracked checks, prunes, catalog | uses the queue only as `PassLedger` describes it |
| `CatalogSyncProofs` | proofs about `CatalogSync`: types, history, and `IssuesReflected` | `CatalogSync`, TLAPS |
| `ArchiveHours` | the queue of archive hours and the coverage taken from it | |
| `RepoCandidates` | repositories the archive names, their lookup and pruning | |
| `DiscoverySweep` | sweeps and their windows, and the discovery watermark | |
| `DiscoverySweepProofs` | proofs about `DiscoverySweep` | `DiscoverySweep`, TLAPS |
| `RepositoryIdentity` | which row is which GitHub repository, while names move | |
| `GitHubBudget` | GitHub's points and what the two lanes know of them | |
| `PullRequestSync` | reading one person's pull requests, pass by pass | |
| `XPLedger` | what pull requests and quests earn | |
| `CatalogStats` | deltas, totals, rollups and recounts | |
| `IssueBodies` | the body cache: misses, fetches, trimming | |
| `IssueClaims` | claim transactions and their cap | |
| `ClaimedList` | the claimed issues a process remembers | |
| `LearningPath` | a person's paths: start, swap, awards | |
| `ShuffledFeed` | paging the shuffled, For you and Pick feeds | |
| `CatalogBrowse` | paging the easiest and newest sorts | |
| `Moderation` | reports, decisions, hidden targets, themes | |
| `LiveSettings` | a process's settings and the limits that follow them | |
| `RedisBreaker` | the circuit breaker of the Redis client | |
| `FlowRelay` | publisher, Redis, relay and viewers | |
| `Limiter` | the resizable semaphore | |
| `LimiterProofs` | proofs about `Limiter` | `Limiter`, TLAPS |
| `WorkerPool` | channel, dispatcher, jobs and shutdown over the limiter | INSTANCE `Limiter` |
| `WorkerPoolProofs` | proofs about `WorkerPool` | `WorkerPool`, TLAPS |
| `MCIngestQueue`, `MCCatalogSync`, `MCDiscoverySweep` | instances of one module | |
| `MCIngest`, `MCService`, `MCLive` | instances of several modules that share no state | `MCIngest` extends `IngestQueue` for the queue's part |
| `IngestProofs` | proofs about the parts of `MCIngest` | `MCIngest`, `IngestQueueProofs`, TLAPS |
| `ServiceProofs` | proofs about the parts of `MCService` | `MCService`, TLAPS |
| `LiveProofs` | proofs about the parts of `MCLive` | `MCLive`, `LimiterProofs`, TLAPS |

Modules that share no state are checked beside each other:
in `MCIngest`, `MCService` and `MCLive` a variable `part`, chosen at the start,
says which module moves, so a behaviour is one module's and the state counts
add up. In the first two the variables of the others are 0; in `MCLive`, where
fairness is stated per part, the others stay in one initial state. `WorkerPool`
is composed with `Limiter` there: it moves the limiter's variables.
`MCCatalogSync` has a variable `scope` in the same way, for two bounds.

### 2.1 IngestQueue

`jobs` is the table `ingest_jobs`: a row's status, lease owner, whether its
lease has lapsed, `since`, `pass_started_at`, pages, the two "done" flags and
the attempts. A row's id doubles as the time it was inserted, so `pass` and
`through` hold ids and 0 is NULL. Both cursors of a pass move in one
transaction, one page at a time, so `pages` stands for the pair. `held` is what
workers hold: the row as it was claimed, in a pool's channel or being fetched.
`process` is each coordinator process; a restart is a new owner, as the owner
name carries a fresh uuid. `rows` and `errors` are history variables.

Each exported function of `queue.go` is one action: `EnqueueInitial`,
`EnqueueFreshness`, `EnqueuePriority`, `Claim`, `ReclaimExpiredLeases`,
`ReleaseJob`, `FailJob`, `MarkUnavailable`, `CommitPage` (all of the page's
transaction, with `CompleteOrRequeue`), `RecomputeEligibility`. `LoseLease` is
the path where the fence fails, `Abandon` the one where the worker returns and
leaves the job running. `LeaseLapses` is time. Batched statements are runs of
single ones, as their rows are independent.

Left out: `next_retry_at` (a pending job may be claimed at any time, which
allows every order that backoff and FIFO allow) and how long ago a repository
was synced. So nothing is said about how soon anything happens.

### 2.2 PassLedger

The promise: per repository, passes follow one another. A pass starts at a
fresh time, reads from nothing or from the watermark, commits a page only after
all before it (perhaps again: a stale copy may move the cursor back, and
another may go on from further ahead), and ends by making its start the
watermark or by being given up. No job, lease, worker or process is mentioned. The
mapping in `IngestQueue` takes the pass, since and pages from the one active
job of a repository.

### 2.3 CatalogSync

`now` counts the changes made to the repository's issues on GitHub; an issue's
`updated_at` is the number of its last change, and archive hour `h` holds
`HourLen` consecutive changes. An issue may also be deleted or transferred away
("NONE"). The crawl is a pass with its two cursors (a cursor
is a time, as GitHub lists newest first) and what each worker holds: a page
claimed, or fetched and not yet written. The archive applies an hour in
batches, in any order, after a failure again, and under the disk guard as
updates only. `tracking` is what the tracked check read from GitHub of the
saved issues and has yet to apply (`FetchIssueStates`,
`ApplyTrackedStates`); an issue that is gone is stored as closed. `DeliverWebhook` is
an event of an installed repository, delivered at any time after its change, or
never. `PruneClosedIssues`, `PruneExcludedIssues` and eligibility changes may
come at any moment. `irregular` records history that some properties set apart:
"reseeded" (a full pass over rows stored before), "disordered" (an hour after a
newer one), "skipped" (an hour read while the repository was ineligible),
"late" (a webhook delivered after its issue changed again), "pruned" and
"undercut" (open issues pruned, or pruned during a pass).

Left out: the page cap (unlimited by default; a capped pass stamps the watermark
though it has not read everything, by design), retention times, two readers of
one archive hour at once, everything in a row other than state and time, and a
repository that GitHub keeps out of reach for a while: the tracked check closes
its saved issues (`tracked.go:55-56`), and those that were open stay closed in
the catalog until they next change. A deleted issue does not come back in the
model, so its properties say nothing of that repository.

### 2.4 ArchiveHours and RepoCandidates

`hours` is the table `archive_hours`; `held` is what each pool worker was
handed and how far it is: claimed, its file open or absent, its batches
applied. The owner of a lease is always this process (one coordinator runs),
so the fence is that the row is still running: a worker past its lease may
end another's claim, and the model says so. `crawled` is the oldest completed
pass, where the first seeding starts. `Current` is `runArchive`'s decision
that the archive stands in for the daily crawl. Left out: `next_retry_at`, the
lease's time, and what an hour writes (`CatalogSync`).

`RepoCandidates` has a clock, hours of `HourLen` instants, the rows that hours
name (`ApplyHour`), the batch being looked up (`LookUp` reads GitHub, then one
`StoreCandidate` per transaction, or `AbandonLookup`), and the prune. Left out:
the batch's size, and renames between naming and lookup (`RepositoryIdentity`).

### 2.5 DiscoverySweep

`sweeps` and `windows` are the tables `discovery_sweeps` and
`discovery_windows`; `held` is the windows that workers hold, as they were
claimed and with the page GitHub answered. Times are whole seconds, as the
search's bounds are. `begun` and `seen` stand for a window's cursor: what it
stands past. Each exported function of `discovery.go` is one action;
`processDiscoveryWindow` is `SearchDense` or `Search`, the call, and
`SplitWindow` or `CommitPage`, the transaction after it. `Abandon` is every way
a worker returns without writing: a lost lease, a crash, a failed transaction.

GitHub is external: a page holds some of what matches and the cursor does not
stand past, and how many matches GitHub reports is left open, so a window may
be found too dense whenever the code asks. Assumed of GitHub is that a
window it did not report as too dense is listed to the end, and that a cursor
stays behind what was returned before it.

Left out: when a sweep or a retry is due, `next_retry_at` and the lease's time
(a window may be claimed, or its lease taken back, at any time), renames and
duplicates among what is found (`RepositoryIdentity`), and repositories that
come to qualify without a push.

### 2.6 RepositoryIdentity and GitHubBudget

`title` and `resolves` are GitHub: each repository's name, and which repository
a name leads to, its own or one renamed away from it. `rows` is the table
`repositories` with its two unique indexes. A page of the crawl (`page`) and a
search result (`hit`) are fetched and stored later; in between names move, rows
are imported and eligibility is recomputed. `StorePage` is `recordIdentityTx`
with the page's transaction; `UpdateById`, `UpdateByName` and
`InsertDiscovered` are the branches of `upsertDiscoveredTx`, with `renameTx`. Left out: what makes a repository meet the thresholds (one flag), the
issues of a page, and an answer without a repository id, on which
`RecordRepositoryIDTx` returns at once (`identity.go:39`) and which GitHub does
not give.

`GitHubBudget` has GitHub's count of points per window, `github_budget` with a
row per lane, and each call between its permission and the record of its
answer. Answers are recorded in any order; a read or a write of the row may
fail, and the caller then goes on, which `blind` counts. `under` counts what
the crawl spent below its floor.

### 2.7 PullRequestSync and XPLedger

Time counts the changes of one person's pull requests; GitHub lists newest
first. `prSync` is the row, `reading` what the coordinator process has fetched:
the page and the row as it read it. `ApplyPullsPage` stores, moves the cursor,
or ends the pass by making its high mark `synced_through`; `RequestCheck` is
the user's, `AccountChanges` the login given to another account (the page is
then refused), `FailPRSync` an error. One process reads at a time, as
deployed: nothing leases the row, and with two processes a late page moves the
other's cursor (the hazard's note).

`XPLedger` has the stored pull requests with their links to issues, the ledger,
and the quests paid; `Store` is what a page may leave, in any order, and
`AwardXP` is `awardTx`: `Plan` pays the merges that are due, oldest first, then
the openings, then takes openings back: with the daily cap, the weekly cap of
openings, one opening per issue, one first merge per repository, and backfill
before joining. The loop over sorted pull requests is a function on the sets of
them: what a set leaves is what its last one (`LastOf`) adds to what the others
left. `Total` is a number of points, each counted as a pair of an award and a
number up to its amount. Bonuses that depend on the pull request alone are part
of its worth.

### 2.8 CatalogStats and IssueBodies

A writer's rows and deltas become visible in one step; a rollup begins with a
snapshot and commits on it, or fails if another committed since (REPEATABLE
READ), as `RollupStats` does; a recount replaces the totals. Left out: the
daily and activity rows, folded from the same deltas.

`IssueBodies` has the cached bodies, each at a place in the order they were last
read, the requests of one caller under way, and the caller's counter in Redis
with its expiry: the call that counts and starts the expiry may fail after
either, and the window's end deletes the key. `FetchIssueBody` stores, and
`PruneIssueBodies` trims.

### 2.9 IssueClaims, ClaimedList and LearningPath

A claim is a transaction of several statements: `BeginClaim` (the issue, and
the retirement of an expired claim), `CountClaims` under the person's advisory
lock, `InsertClaim` against the unique index. Claims lapse with time; an open
pull request that closes the issue keeps one active. `ClaimedList` is the set of
claimed issues a process remembers, with the loop's read and store as two
steps, and a handler's note as a copy and a compare-and-swap; the loop stores
outright, whatever was noted after its read.

`LearningPath` has paths with two steps each; a request reads the path, finds
an issue and writes, and the pull request sync marks steps done and pays
between them. The write asks again that the step is still to do. A prune of an
issue drops it from steps and skips.

### 2.10 ShuffledFeed and CatalogBrowse

One reader pages while the catalog changes. `ShuffledFeed` has the shuffle
keys, which a background redraw changes, and for For you the chunk at the
cursor, which Redis may have lost and which is then drawn again; `Pick` starts
anywhere and wraps. A drawn chunk is its repositories in the order of a ranking
chosen from `Draws` (the scores and the noise of `drawForYou`, which differ
for no two, as ids break ties). `CatalogBrowse` has the easiest sort, filled range by range
after a cursor, with preferred languages first, the newest sort, and its
merge of one read per difficulty. The newest sort offers the issues that have a
`created_at` only (`Offered`); no update writes that column, so `created` is
chosen at the start, from `Creations`. `steady` and `still` are history: what
has not moved since the reader began. Left out: which index is read, and filters
that leave the cursor alone.

### 2.11 Moderation and LiveSettings

`Moderation` has open reports, upheld targets, each member's reports of the
day, themes and who wears them. A report finds its target (`FindTarget`) before
the transaction that records it (`Create`), so a theme may be made private or
deleted in between; the transactions of one member are serialised by an advisory
lock. A member has one report under way at a time. `SetActive` is two steps, its snapshot and its write, as the
author's `Update` may commit between them. The hidden targets are read and
stored by the loop and by the moderator's handler, side by side.

`LiveSettings` has the table, the notifications delivered and not yet taken, a
connection that may drop, the listener, the reconcile timer and the wiring of
the coordinator as three goroutines that read, publish and apply, and the
limits the pools run with.

### 2.12 RedisBreaker and FlowRelay

`RedisBreaker` makes each load, store and compare-and-swap of `down` and
`probeAt` a step; time is relative (`wait` is how far `probeAt` lies ahead). A
call may be cancelled, which says nothing of Redis. `Ping`, the health check,
does not ask whether calls are skipped; its result is observed like theirs.

`FlowRelay` counts events: `Enqueue` and `Wake` by the emitters, `RunWakes` and
`TakeBuffer` by the publisher's goroutine, `Publish` to Redis, which may fail and
which the client may repeat (`MaxCopies`), `Ingest` with its broadcast by the
relay, with its token bucket and a channel per viewer, who may stop reading or
leave. A process that is told to stop ends `Run`'s context (`EndContext`): `Run`
returns when its select next takes that branch (`Exit`), what is emitted after
that stays in the buffer, and a publish that fails then is counted neither as
published nor as dropped (`publisher.go:142-145`). `tally.cut` is history and
counts the events of those. Left out: the redaction, the ambient rates, and what events say.

### 2.13 Limiter and WorkerPool

Each critical section of the limiter's mutex is a step. `Cancel` is the
`select` choosing `ctx.Done()`; the mutex is taken only later, in `Abandon`, so
a slot may be granted in between. The pool's dispatcher acquires and the job's
goroutine releases, so a caller of `Limiter` is a job of `WorkerPool`. Left
out: `SubmitWait`, which nothing calls, and what a job does.

## 3. What is checked

### 3.1 Runs

| Run | Shows | Bounds, and why they are enough |
|---|---|---|
| `queue` | safety of the queue; it implements `PassLedger` | one repository, two processes, two copies, three rows, two pages, two attempts: a stale copy beside a live one, a hand-off to a deep job, and a pass after a pass |
| `catalog` | safety of the catalog | scope "two issues": two issues of which one is saved, three changes, one worker, hours of two; scope "two workers": one issue, four changes (open, close, reopen, close), two workers on one pass, the repository eligible throughout: two batches in an hour, an hour before another, a page between two batches, a check of saved issues before a webhook |
| `discovery` | a sweep's windows cover it; the discovery watermark is honest | one repository (repositories do not meet in this module), one copy, two sweeps, the first of two windows of which one is halved, five windows in all |
| `discovery_stale` | no window is split twice or brought back | two copies of one owner, so that a stale one may pass the fence; one sweep of one window, with room for it to be halved twice |
| `ingest` | archive, candidates, pull requests, identity, queue of two repositories, budget | archive: three hours, two readers, two attempts, missing after one hour; candidates: one, seven instants, hours of two; pull requests: three, four changes, pages of one, so that a pass has pages and the list moves under it; identity: two repositories, three names of which one is excluded, two rows, three renames or creations; queue: two repositories and owners, page cap 3 of 4 pages, so that a deep job is requeued and then capped; budget: two crawl calls and one interactive, 7 points, floor 1 and reserve 4, two windows, one failed read or write |
| `service` | totals, ledger, bodies, claims, paths, feeds | totals: two issues, two ingesters, three writes; ledger: three pull requests over three days, two in one repository, two issues, one opening a week; bodies: three of sizes 1, 2, 1 in a cache of 2, two requests, two misses a window; claims: two people, two issues, two transactions, one claim each; paths: two of two steps, three issues, one request; feeds: three repositories, two keys, chunks of two, pages of one or two; three issues, two scores, two times, two of the issues created at one time and one undated |
| `live` | safety and liveness of what must go on | limiter: four callers, limits 1 to 3 (waiters beyond a raise, slots in use above a lowered limit); pool: the same callers as jobs, a channel of two; queue: two repositories, two rows, page cap; breaker: three calls, retry after two ticks; settings: two changes; reports: two members, one theme, hidden after two, two reports (an issue is a target whose look-up cannot fail; `themes_private` has one); telemetry: two emitters, three events, a buffer of two, two viewers of whom one fits, a batch received once or, though its publish failed, once or not at all (that a repeated publish keeps the count is proved, 4); claims: two issues, two handlers, three changes |
| `queue_stale_claim`, `queue_stranded`, `catalog_hours`, `catalog_requalified`, `themes_private` | findings, 3.6 | |

Deadlock is checked in `queue`, `catalog` and both discovery runs: those parts
never stop. It is not in `ingest`, `service` and `live`, where a clock, a number
of writes or of events is bounded, and a part that has used it up has nothing
left to do; there the temporal properties say what must have happened by then.

### 3.2 The queue and the catalog

`OneActiveJobPerRepo`, `CursorBehindRows`, `WatermarkEarned`,
`PassAfterWatermark` are the safety of the crawl. `LeasesAreHonoured` is what
the fence is for, and three properties in one: only the owner of a lease
finishes a job, a finished job stays finished, and no job is given up before its
attempts are used. `LeasesSelfHeal` is liveness, in `live`.

`IssuesReflected` is two. An issue that is open on GitHub and unchanged since the
watermark is in the catalog exactly as it is, unless the repository's issues
were pruned (finding 3). An issue closed by the watermark
is not shown open, or its closing is still to come from the archive; given that
no full pass ran over stored rows, hours came in order, the repository stayed
eligible, and no webhook came late (finding 4 and the next paragraph are why).
`CatalogIsHistory`: a row is always one of the changes of its issue, or says
that it is gone.

A full pass does not ask for closed issues, so after one over rows that the
archive had stored, the watermark covers closings that are not in the catalog;
and a page's closing may overwrite a row that the archive has since seen
reopened (`MarkIssuesClosedTx` compares no times). `ClosingsReflected` sets the
first apart; of the second, `OpenIssuesReflected` says that it is
repaired by the time the watermark covers the reopening. A webhook delivered
late may reopen a closed row until something newer is read (a hazard's note).

### 3.3 Discovery, archive, pull requests, identity, budget

`RangeNeverLost` and `RangeNeverDoubled` are the two halves of what
`splitWindowTx` promises, for all windows of a sweep at all times.
`EndedSweepsAreQuiet`: a sweep that has ended has no window left to search;
there it would stay for ever, as only windows of running sweeps are claimed.
`NothingMissed` is what an incremental sweep relies on: every repository last
pushed before the end of a done sweep, and recently enough to qualify, is
stored, unless GitHub would not list its window in full. `StaleCopiesLoseNothing`
says both of the instance with a stalled copy.

`CoverageIsHonest` is three: while the archive stands in for the daily crawl,
every hour that ended more than the allowed lag ago was applied, or was still
unpublished long after it ended; the coverage never recedes, whatever stale readers write; and the
crawl's watermarks are earned with several repositories and a page cap.
`ActiveCandidateComesDue`: activity after the last lookup is not forgotten
though hours are applied in any order and rows pruned. `ChangesAreReadLater`:
a pull request that is not stored as it stands will be read, by the rest of the
pass or by the next. `TwinStaysRetired`: a row found to be another's repository
is never crawled again, whatever rechecks, imports and searches do.
`ReserveKept` bounds what the crawl takes of the interactive reserve by the
calls it has under way at once and the budget reads and writes that failed.

### 3.4 The service

`TotalsAddUp`: total and deltas together are exact at all times.
`LedgerIsFair`: the caps and once-only rules hold over the whole ledger, and
planning again pays nothing more. `BodiesBounded`: a caller spends no more than
the window's misses and is never locked out for good; trimming keeps the saved
bodies and the last read ones. `FreshClaimsCapped`, `PaidPathsAreEarned`,
`ShownOnce` are about requests that overlap, and lists that move under a reader.

These hold with departures that the code accepts, and which the hazards' notes
describe: an expired claim that an open pull request revives may exceed the cap
(so the property counts claims within their days); a For you chunk drawn again
halfway may repeat or miss its repositories (so they are set apart); a request
for a check during a pass is absorbed by it; a second pause may shorten the first.

### 3.5 What must go on

`SlotsAccounted`, `NoLostWakeup`, `NoOvercommit`, `LongestWaitingFirst` are the
safety of the limiter, and `NobodyWaitsForever` its liveness. `PoolServes`: each
job is in one place, a shutdown that says it drained did, and every accepted
job ends. `NobodyWaitsForRedis`: one probe at a time while Redis is down, the
breaker opens again when it is up, and every event is published or counted as
dropped and leaves, whoever stops reading. When a process stops, the events of
a publish cut off are counted nowhere, and those emitted after `Run` returned
stay behind; both are said in the properties, and nothing else may be lost. `MemoryCatchesUp`: settings, hidden
targets and claimed issues come to what the tables say and stay so.

A property that joins several has a mutant in `PROJECT.json` for one of them;
for the others the modules keep theirs (`Mutant_...`) beside the definition they
change.

### 3.6 Findings

Each is a run whose property states what the repository says, and which TLC
refutes.

1. `queue_stale_claim`: the fence holds for a stalled worker whose job was
   reclaimed and claimed again by its own process; `coordinator.go:811-813` says
   it gets `ErrLeaseLost`. The model shows it is harmless to the other
   properties: the page was read for the same pass and is committed again.
2. `queue_stranded`: an eligible repository whose first job failed for good
   before its first page is never queued again; `ARCHITECTURE.md:76` says every
   eligible repository is crawled.
3. `catalog_requalified`: issues pruned while a repository was excluded or
   archived do not come back when it qualifies again;
   `for-maintainers.md:33` says they do.
4. `catalog_hours`: a closing read before the hour that opened the issue is
   lost; `archive.go:36-40` says hours can be read in any order.
5. `themes_private`: an account that applies a theme while its author makes it
   private goes on wearing it; `theme/store.go:165-166` says it is taken off
   every other account.

### 3.7 Fairness

* Queue: time passes every lease; a process that has ended is started again
  (Docker restarts it); and a process that is up keeps reclaiming, as
  `Coordinator.cycle` does on every tick, even while the disk guard is on.
  Claiming and committing get no fairness: nothing here depends on them.
* Limiter: a caller that was woken returns, one that chose its cancelled context
  takes the mutex, and a slot is released, because every job runs under
  deadlines and `runJob` releases even after a panic.
* Pool: the dispatcher's steps, the end of each job and the return of
  `Shutdown`, which has a timeout. Nothing forces a shutdown.
* Redis breaker: time passes; a call runs on to its next step; requests keep
  coming, and of those let through to a Redis that answers, again and again
  one succeeds (strong fairness: not every probe is cancelled).
* Settings: the reconcile timer fires, and its read succeeds now and then (strong
  fairness, as any single read may fail); goroutines run on; the coordinator
  subscribes. Notifications get none: they may all be lost.
* Reports and claims: the loop's timer fires, its read succeeds now and then, and
  what was read is stored; a handler that has committed notes its change. A
  moderator's own re-read may always fail.
* Telemetry: emitters wake, the publisher's goroutine runs and publishes (or
  counts as dropped), the relay ingests what arrived. Viewers get none, and
  nothing makes a process stop, or makes `Run` return when it does.

The fairness of one part is assumed only of behaviours in which that part moves.

## 4. What is proved

TLAPS checks every theorem for any number of repositories, processes, copies,
rows, sweeps, windows, pages, people, requests, callers and limits. A theorem
about a part of `MCIngest` or `MCService` is one of `PartsSpec`, and about a part
of `MCLive` one of `PartsFairSpec`, whose behaviours are those of the parts.

The assumptions are named, and stand where the constants are given values, so
TLC evaluates them on every run: NULL is neither a repository, a name, a row nor
an owner; bounds are numbers; sets that are counted are finite; a sweep's windows
are at least a second wide. Some say what the code says. Repositories and issues
in `ServiceProofs` are their ids, positive numbers, as the cursors compare them, and
a shuffle key is a number. A chunk has at least one repository (`drawChunk`
takes `max(r.Pool, 1)`), and no draw puts two repositories at the same place
(`drawForYou` breaks ties by id). In the ledger pull requests and issues are
their ids too, days and worths are numbers, a week has days and a quest needs
something. In `MCLive` the retry of Redis and the attempts of a job are at least
one, the minimum that `settings/registry.go` accepts for each, and the number of
events or changes is any number. In `PullsAssumption` there is one coordinator:
`DuePRSync` reads the due people with no lock and no lease, so with two processes
a page stored late would move the cursor of the other's pass, and the
deployment runs one (`compose.prod.yaml` has a single `ingestd`).

`IngestQueueProofs`: `TypeCorrect`, `OneActiveJob`, `NoPageSkipped`,
`WatermarkIsEarned`, `PassesFollow`. None of the four safety properties is
inductive alone: that a new pass starts after the watermark needs that ids are
fresh, that the watermark is earned needs that the cursors are behind the rows,
and that a hand-off keeps one active job needs that the row handed off was the
only one. They are proved together as `SafetyInv`, with `RowsExist` (a row that
exists has an id already drawn, a repository and a pass). Each action has its
own lemma; a lemma about `Requeued` covers the three ways a page ends.

There too, `LeasesHonoured`. Two of its three parts are properties of
steps and follow from `SafetyInv`: the row an insert or a hand-off takes is
absent. That a job is given up only after its attempts is not inductive, since
`FailJob` counts from the copy: `AttemptsInv` says that the attempts of rows and
of copies are covered by the failed fetches recorded.

There too, `QueueImplementsLedger`. Each enqueue maps to `Begin`, a
last failure to `GiveUp`, a page to `ReadPage` or `Complete`, and everything
else leaves the ledger alone. The mapping names a repository's active job with
a CHOOSE; `OneActiveJobPerRepo` makes it that job (`ActiveStands`), whichever
row a hand-off moves it to. `CursorBehindRows` lets the page follow, and
`PassAfterWatermark` is why GREATEST takes the pass's start.

`LimiterProofs`: `TypeCorrect`, `NoSlotLeaks`, `WakeupsAreNeverLost`,
`NeverOvercommits`, `FirstComeFirstServed`. The invariant is `TypeOK`,
`SlotsAccounted` and `NoLostWakeup` together, and its heart is one lemma about
`AdmitLocked`: from any counts, it takes the longest waiting into the room there
is, keeps the rest in order, and leaves no room beside a waiter. The two action
properties follow from the invariant and that lemma.

`DiscoverySweepProofs`: `TypeCorrect`, `RangeKept`, `RangeNotRepeated`,
`EndedIsQuiet`, `WatermarkHonest`. `Shape` adds to the types that rows are
inserted under fresh ids and that what refers to a row refers to one that
exists. Under it a step is one of three: it keeps every row's range (`Ranged`),
it starts a sweep (`Starting`), or it halves a window (`Halving`); the two range
theorems are proved over these, the start by division (second t is in window
(t - from) \div Width). `NothingMissed` is far from inductive: `Reads` adds what
a cursor stands past is stored, that a copy's page is as old as its search, that
a last page with what is behind the cursor is all that matches, and that what a
sweep does not read an earlier one has stored. Its argument is that a repository
which is due for a sweep was not pushed since the sweep started
(`BeforeUnpushed`), so that what a page said of it is still so when the page is
committed. A repository that is due has its second in some window that was not
split (`RangeNeverLost`), that window is done (`EndedSweepsAreQuiet`), and so it
is stored. `StaleCopiesAreHarmless` is the same for the two properties at once
that the run with a stalled copy checks.

`CatalogSyncProofs`: `TypeCorrect`, `RowsAreHistory`. That a row is a state its
issue had rests on GitHub's own history (`GitHubInv`) and on the same of
everything in flight: pages, answers about saved issues, hours being applied
(`CopiesInv`). The newest event of an hour exists because a non-empty set of
times has a maximum, from the library's theorem that < is well founded.

There too, `CatalogReflectsGitHub`, which is `IssuesReflected`. What
makes it inductive is per issue. An open issue (`OpenInv`) is stored as it is
once the watermark or the pass's cursor covers it; between the pass's cursor and
that of a page in hand, the page has it; and an answer of the saved issues'
check that is out of date is of an issue that neither covers: claims wait for the
check, so a page in hand is older than the answer. A closing the archive has read
and the catalog shows open (`ClosedInv`) is ahead of the watermark, and the pass
in progress has it still to list, holds it in a page, or started before it. Under
both lies the order of things (`OrderInv`): a page shows an issue as it is unless
it changed since the pass started, and only hours that are over are read.

`WorkerPoolProofs`: `JobsRunOnce`, `ShutdownDrains`, the safety parts of
`PoolServes`, for any jobs, limits and channel capacity (`Bounds`: the two are
numbers). That the six places a job may be in are disjoint (`PlacesInv`) is not
inductive by itself: the limiter's FIFO and its reserved slots are its own, and
what ties them to the pool is that the only caller inside without a slot is the
dispatcher, for the one job it has taken (`DispatcherInv`). `ShutdownInv` says
when a job may be dropped and when the dispatcher is gone for good.

`IngestProofs`: a theorem for each part of `MCIngest`, and `PartsKeepTypes` for
the types of all. `EachPartInv` joins their invariants.

* `CoverageStaysHonest`. That coverage never recedes is a property of steps, and
  needs to know which hours can be queued at all: from where the crawl left off
  the queued hours have no gap (`ArchiveInv`), because seeding goes on after the
  newest queued hour, and the first one begins where the crawl left off or the
  backfill ends. So an hour that turns up behind the coverage cannot exist. An
  hour is done only if it was
  applied, and missing only if it was late enough when it was given up.
* `ActiveCandidatesComeDue`. `CandidatesInv` says of every instant of activity in
  an applied hour that the last lookup was after the hour began, or the row is
  there and names an hour at least as late; a row is pruned only in the first case.
* `ChangesStayAhead`. A page in hand is described by what may have become of a
  pull request since it was fetched (`FetchedPage`): it has changed and is now
  newer than everything the pass has seen, or the page holds it as it stands, or
  it is outside the page, behind its last entry or ahead of the cursor. Storing
  the page then leaves nothing changed behind the cursor that is not stored.
* `TwinsStayRetired`. `IdentityInv` says that a row which has stored a page holds
  an id or has been set aside, so a search that meets it knows it.
* `ReserveIsKept`. Each concurrent call may spend one point after the budget it
  read was spent, and each may meanwhile open the gate again for the others by
  writing what it read earlier. `TwiceLeft` is a potential: what the calls under
  way can still spend, given how many are about to spend and how many are about
  to reopen. It is at most n(n + 1) and no step raises it, but for a failed read
  or write of the budget, which allows as much again.

`ServiceProofs`: the invariants of the six parts of `MCService`, and
`PartsKeepTypes` for the types of all.

* `TotalsAlwaysAddUp`. A rollup's snapshot stays tied to the catalog by the deltas
  written since (`Snapshot`), until another commits and so fails it
  (`SnapshotsInv`). Counts are cardinalities, of which the library's theorems say
  what a union and a difference add up to.
* `ClaimsStayCapped`. Among one person's transactions only the one with the
  lock has counted, and while it has, there is room (`CountsInv`).
* `PathsAreEarned`. A paid path is finished (`PaidInv`), and neither a start, a
  swap read earlier nor the giving up of a path touches a finished one.
* `BodiesStayBounded`. Misses passed on are counted, and a count that refuses
  expires. Trimming keeps what is read last up to the limit: the running sum of
  sizes in the order of reading grows, so what stays is an end of that order.
* `FeedsShowOnce`. Both kinds of list are a strict order with a cursor in it.
  What stood still since the reader began is either shown or left after the
  cursor, and not both (`BrowseInv`, `ShuffledInv`), so at the end it was shown.
  For the easiest sort what is left runs over the ranges not yet visited; for the
  newest, a page cut from the merge of the difficulties is a page cut from the
  whole. For the For you feed what is left is the rest of the chunk and what is
  after the cursor, round the end and up to the start of the walk; that a drawn
  chunk has each of its repositories once is an argument by pigeonhole on the
  ranks (`InOrderSorts`). When Redis loses a half shown chunk, nothing is promised of
  what was in it. `Pick` starts anywhere, wraps, and leaves out what it has shown:
  of it only that nothing is missed is an invariant, and that nothing is shown
  twice is in its step.
* `LedgerStaysFair`. The plan is a recursive function over the subsets of the pull
  requests that are due. That one exists is `WalkExists`; what it pays follows
  one pull request at a time, by induction over the subsets, which needs no
  operator as a parameter when the induction hypothesis is a set of subsets
  (`SubsetInduction`, from the library's theorem that strict inclusion of finite
  sets is well-founded). The invariant `LedgerInv` has the caps (`CapsKept`), the
  once-only rules (`OnceOnly`), the kinds of award (`Kinds`, `FairAwards`), that
  an award is of a stored pull request (`Grounded`), and `Quiet`: once the plan
  has been written and nothing stored since, every pull request that is still
  unpaid was declined for a reason that stands. An opening that is declined stays
  declined as more is paid (`DeclinedStays`), which is why planning again pays
  nothing; and reversals neither make room under the weekly cap nor free an
  issue (`ReversalsKeep`), as they are awards of their own.
* `PartsKeepTypes` needs one thing more than the invariants above: a place in a
  chunk, and the chunk, fit the pool it was drawn from (`WithinPool`).

`LiveProofs`: the safety of the parts of `MCLive`.

* `PoolKeepsToItsLimiter`. Every step of the pool is a step of the limiter or
  leaves it alone (`PoolStepsTheLimiter`): a job releases a slot it holds, and the
  dispatcher waits for one at a time. So `MCLive`, pool included, implements
  `Limiter`, and `PooledLimitHolds` draws from it what `LimiterProofs` shows, the
  two invariants and the two properties of steps.
* `ProbesComeSingly`. Two calls may have loaded the same `probeAt`, but the
  compare-and-swap of one moves it ahead, and the other then finds it changed
  (`RedisInv`). A failing call, a health check's too, stores its time late and may
  set the probe time back; the probes are counted anew from every such store.
  Letting a health check through is no probe and writes no time.
* `EventsAlwaysAddUp`. That each event is counted once when it leaves is inductive
  with the publisher's own places for one (`PublisherInv`); what a stopping
  process cut off is the only exception. The types need more: a
  batch on its way, and the relay's count, stay bounded although a publish may be
  repeated. `Countable` gives each batch on the wire a number that the relay will
  at most have counted with it, none above `MaxCopies` times what was
  published, dropped or cut off (`WireInv`).
* `LivePartsKeepTypes`: the types of all parts. A notice under way was of a change
  of the table (`SettingsInv`). The queue's types are proved here again, since
  the facts of `IngestQueueProofs` are about other constants and variables, and
  what an instantiated module proves cannot be cited.

Only model-checked is what must eventually happen, since TLAPS has no `ENABLED`
and so no rule for fairness: `NobodyWaitsForever`, `LeasesSelfHeal`,
`MemoryCatchesUp`, and the parts of `PoolServes` and `NobodyWaitsForRedis` that
say a job ends, an outage ends and an event leaves. Each safety invariant and
action property of a passing run is a theorem.

### Not modelled

* Notifications and profiles: one SQL statement per handler, with no state read
  before and used after.
* Sessions, sign-in and GitHub App tokens: their steps are cookies and tokens
  of an outside service; a property of them would be about that service.
* The GitHub clients: requests, retries and parsing. What they promise is
  modelled where it is used (pages, cursors, limits, lookups, answers in error).
* The schedule of catalog jobs, metrics, and the disk guard's measurement: the
  jobs run at any time in the models, and the guard is on or off.
* Facets, search by text and display: reads of one snapshot.
* Configuration, the programs' start, migrations (but 00043's triggers),
  the desktop shell, the installer, the web application and the deployment.

## 5. Plan

What would come next, in order of weight:

1. Sessions, as far as they keep state of their own.
2. The two hazards that no property covers (`PROJECT.json`): an initial enqueue
   beside a priority one, and a catalog job that fails every time.
