------------------------------ MODULE MCIngest ------------------------------
(* What the ingester reads and counts as read, besides discovery: the        *)
(* archive hours, the candidates they name, the pull requests of a person,   *)
(* the identity of repositories, the crawl queue of several repositories     *)
(* under a page cap, and the GitHub budget.  The parts share no state here,  *)
(* so a behaviour is one part's, the variables of the others are off, and    *)
(* their states add up.  The queue is extended, the others are instances, so *)
(* that what is proved of the queue can be cited about this module.          *)
EXTENDS IngestQueue, Integers, TLC

CONSTANTS
  LastHour, Reader, MaxBackfill, MissingAfter, MaxLag, ReadAttempts,
  Candidate, MaxTime, HourLen, Recheck,
  Pull, PullsMax, PageSize, Coordinator,
  Project, Name, RowId, Excluded, MaxMoves,
  Crawl, Interactive, Limit, Floor, Reserve, WindowLen, Pauses, MaxClock, MaxBlind

ASSUME ArchiveAssumption ==
  /\ LastHour \in Nat \ {0} /\ MaxBackfill \in Nat /\ MissingAfter \in Nat
  /\ MaxLag \in Nat /\ ReadAttempts \in Nat
ASSUME CandidatesAssumption == MaxTime \in Nat \ {0} /\ HourLen \in Nat \ {0} /\ Recheck \in Nat
ASSUME PullsAssumption ==
  /\ IsFiniteSet(Pull) /\ PullsMax \in Nat /\ PageSize \in Nat \ {0}
  /\ \A c, d \in Coordinator : c = d
ASSUME IdentityAssumption == Null \notin Project \cup Name \cup RowId /\ MaxMoves \in Nat
ASSUME BudgetAssumption ==
  /\ IsFiniteSet(Crawl) /\ Limit \in Nat /\ Floor \in Nat /\ Reserve \in Nat
  /\ WindowLen \in Nat \ {0} /\ MaxClock \in Nat /\ MaxBlind \in Nat /\ Pauses \subseteq Nat

VARIABLES
  part,   \* the part that moves
  now, published, oldestPass, hours, readers, seeded, taken,
  time, qualified, active, applied, candidates, stored, lookup, answered,
  pullTime, onGitHub, account, pulls, prSync, reading,
  title, resolves, moves, repoRows, page, hit, crawled,
  clock, left, budget, calls, blind, under

Archive == INSTANCE ArchiveHours
  WITH crawled <- oldestPass, held <- readers, MaxAttempts <- ReadAttempts
Candidates == INSTANCE RepoCandidates
Pulls == INSTANCE PullRequestSync
Identity == INSTANCE RepositoryIdentity WITH Repo <- Project, rows <- repoRows
Budget == INSTANCE GitHubBudget

archiveVars == <<now, published, oldestPass, hours, readers, seeded, taken>>
candidateVars == <<time, qualified, active, applied, candidates, stored, lookup, answered>>
pullVars == <<pullTime, onGitHub, account, pulls, prSync, reading>>
identityVars == <<title, resolves, moves, repoRows, page, hit, crawled>>
queueVars == vars
budgetVars == <<clock, left, budget, calls, blind, under>>
allVars == <<part, archiveVars, candidateVars, pullVars, identityVars, queueVars, budgetVars>>

Off(v) == v = 0

PartsInit ==
  /\ part \in {"archive", "candidates", "pulls", "identity", "queue", "budget"}
  /\ IF part = "archive" THEN Archive!Init
     ELSE /\ Off(now) /\ Off(published) /\ Off(oldestPass) /\ Off(hours)
          /\ Off(readers) /\ Off(seeded) /\ Off(taken)
  /\ IF part = "candidates" THEN Candidates!Init
     ELSE /\ Off(time) /\ Off(qualified) /\ Off(active) /\ Off(applied)
          /\ Off(candidates) /\ Off(stored) /\ Off(lookup) /\ Off(answered)
  /\ IF part = "pulls" THEN Pulls!Init
     ELSE /\ Off(pullTime) /\ Off(onGitHub) /\ Off(account) /\ Off(pulls)
          /\ Off(prSync) /\ Off(reading)
  /\ IF part = "identity" THEN Identity!Init
     ELSE /\ Off(title) /\ Off(resolves) /\ Off(moves) /\ Off(repoRows)
          /\ Off(page) /\ Off(hit) /\ Off(crawled)
  /\ IF part = "queue" THEN Init
     ELSE /\ Off(eligibility) /\ Off(synced) /\ Off(through) /\ Off(jobs) /\ Off(nextId)
          /\ Off(held) /\ Off(process) /\ Off(rows) /\ Off(errors)
  /\ IF part = "budget" THEN Budget!Init
     ELSE /\ Off(clock) /\ Off(left) /\ Off(budget) /\ Off(calls)
          /\ Off(blind) /\ Off(under)

PartsNext ==
  /\ UNCHANGED part
  /\ \/ /\ part = "archive" /\ Archive!Next
        /\ UNCHANGED <<candidateVars, pullVars, identityVars, queueVars, budgetVars>>
     \/ /\ part = "candidates" /\ Candidates!Next
        /\ UNCHANGED <<archiveVars, pullVars, identityVars, queueVars, budgetVars>>
     \/ /\ part = "pulls" /\ Pulls!Next
        /\ UNCHANGED <<archiveVars, candidateVars, identityVars, queueVars, budgetVars>>
     \/ /\ part = "identity" /\ Identity!Next
        /\ UNCHANGED <<archiveVars, candidateVars, pullVars, queueVars, budgetVars>>
     \/ /\ part = "queue" /\ Next
        /\ UNCHANGED <<archiveVars, candidateVars, pullVars, identityVars, budgetVars>>
     \/ /\ part = "budget" /\ Budget!Next
        /\ UNCHANGED <<archiveVars, candidateVars, pullVars, identityVars, queueVars>>

PartsSpec == PartsInit /\ [][PartsNext]_allVars

\* The cfg gives Reader, Repo, Owner and Crawl the same model values, so that one
\* permutation swaps them all.
Symmetry == Permutations(Reader)

----------------------------------------------------------------------------
\* The part that moves keeps its types (archive.go, prs.go,
\* identity.go, queue.go, budget.go).
PartsTypeOK ==
  CASE part = "archive" -> Archive!TypeOK
    [] part = "candidates" -> Candidates!TypeOK
    [] part = "pulls" -> Pulls!TypeOK
    [] part = "identity" -> Identity!TypeOK
    [] part = "queue" -> TypeOK
    [] part = "budget" -> Budget!TypeOK

\* What counts as read was read: the archive is current only up to hours it
\* applied or may skip, its coverage never recedes, and a crawl pass moves the
\* watermark of its own repository only once it ended, or met the page cap,
\* with several repositories in the queue (archive.go; coordinator.go,
\* runArchive; queue.go, CompleteOrRequeue).
CoverageIsHonest ==
  /\ [](part = "archive" => Archive!CurrentMeansRead)
  /\ [][part = "archive" => Archive!CoveredUntil' >= Archive!CoveredUntil]_allVars
  /\ [](part = "queue" => WatermarkEarned)

\* A repository that qualifies and was active since its last lookup comes due
\* again, in whatever order hours are applied and rows pruned (archive.go,
\* DueRepoCandidates).
ActiveCandidateComesDue == part = "candidates" => Candidates!ActiveCandidateComesDue

\* A change of a pull request is stored or will be read, though pull requests
\* move to the head of the list during a pass (prs.go, ApplyPullsPage).
ChangesAreReadLater == part = "pulls" => Pulls!ChangesAreReadLater

\* Of two rows that are one repository one is crawled once that is known,
\* whatever rechecks, searches and imports follow (identity.go; queue.go,
\* RecomputeEligibility).
TwinStaysRetired == part = "identity" => Identity!TwinStaysRetired

\* The crawl spends at most what its own concurrent calls, and budget reads
\* and writes that failed, explain of the interactive reserve (budget.go).
ReserveKept == part = "budget" => Budget!ReserveKept
=============================================================================
