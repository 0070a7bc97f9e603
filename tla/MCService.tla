----------------------------- MODULE MCService ------------------------------
(* What the API serves and pays, with the catalog totals the ingester keeps  *)
(* for it: the totals, the XP ledger, issue bodies, claims, learning paths   *)
(* and the two feeds.  The parts share no state here, so a behaviour is one  *)
(* part's, the variables of the others are off, and their states add up.     *)
EXTENDS Integers, FiniteSets

CONSTANTS
  Entry, Ingester, MaxWrites,
  PullRequest, Issue, Links, RepoOf, CreatedOn, LastDay, Joined, Worth, FirstMerge,
  Backfill, DailyCap, Opened, WeeklyCap, WeekLen, QuestNeed,
  Text, SizeOf, MaxBytes, Request, MissLimit, MaxCount,
  Person, Task, Try, MaxActive, Nobody,
  Lesson, Position, PathId, Visit, Dropped,
  Project, Key, MaxLimit, Pool, Draws,
  Listed, Score, Time, MaxPage, Preferred, Creations

ASSUME StatsAssumption == IsFiniteSet(Entry) /\ MaxWrites \in Nat
ASSUME LedgerAssumption ==
  /\ IsFiniteSet(PullRequest) /\ PullRequest \subseteq Nat
  /\ Issue \subseteq Nat \ {0} /\ Links \subseteq SUBSET Issue
  /\ LastDay \in Nat /\ CreatedOn \in [PullRequest -> 0..LastDay] /\ Joined \in Nat /\ WeekLen \in Nat \ {0}
  /\ Worth \in [PullRequest -> Nat] /\ {FirstMerge, Backfill, DailyCap, Opened, WeeklyCap} \subseteq Nat
  /\ \A q \in DOMAIN QuestNeed : QuestNeed[q] \in Nat \ {0}
ASSUME ClaimsAssumption == IsFiniteSet(Task) /\ MaxActive \in Nat /\ Nobody \notin Person
ASSUME BodiesAssumption ==
  /\ IsFiniteSet(Text) /\ Text # {} /\ SizeOf \in [Text -> Nat]
  /\ MaxBytes \in Nat /\ MissLimit \in Nat /\ MaxCount \in Nat
ASSUME ShuffledAssumption ==
  /\ IsFiniteSet(Project) /\ Project \subseteq Nat \ {0} /\ Key \subseteq Nat
  /\ MaxLimit \in Nat /\ Pool \in Nat \ {0}
  /\ \A draw \in Draws : /\ draw \in [Project -> Nat]
                         /\ \A p, q \in Project : draw[p] = draw[q] => p = q
ASSUME BrowseAssumption ==
  /\ IsFiniteSet(Listed) /\ Listed \subseteq Nat \ {0} /\ Score \subseteq Nat \ {0}
  /\ Time \subseteq Nat /\ MaxPage \in Nat /\ Creations \subseteq [Listed -> Nat]

VARIABLES
  part,   \* the part that moves
  catalog, deltas, totals, rollup, history,
  stored, ledger, quests, settled,
  bodies, saved, request, redis, spent, refused,
  open, claims, pulls, try,
  paths, merged, paid, visit, award,
  key, matching, feed, kept, shown, steady,
  created, issue, reader, seen, still

Stats == INSTANCE CatalogStats
Ledger == INSTANCE XPLedger
IssueTexts == INSTANCE IssueBodies
Claims == INSTANCE IssueClaims
Paths == INSTANCE LearningPath
Shuffled == INSTANCE ShuffledFeed
Browse == INSTANCE CatalogBrowse

statsVars == <<catalog, deltas, totals, rollup, history>>
ledgerVars == <<stored, ledger, quests, settled>>
bodiesVars == <<bodies, saved, request, redis, spent, refused>>
claimsVars == <<open, claims, pulls, try>>
pathsVars == <<paths, merged, paid, visit, award>>
shuffledVars == <<key, matching, feed, kept, shown, steady>>
browseVars == <<created, issue, reader, seen, still>>
allVars == <<part, statsVars, ledgerVars, bodiesVars, claimsVars,
             pathsVars, shuffledVars, browseVars>>

Off(v) == v = 0

PartsInit ==
  /\ part \in {"stats", "ledger", "bodies", "claims", "paths", "shuffled", "browse"}
  /\ IF part = "stats" THEN Stats!Init
     ELSE /\ Off(catalog) /\ Off(deltas) /\ Off(totals) /\ Off(rollup) /\ Off(history)
  /\ IF part = "ledger" THEN Ledger!Init
     ELSE /\ Off(stored) /\ Off(ledger) /\ Off(quests) /\ Off(settled)
  /\ IF part = "bodies" THEN IssueTexts!Init
     ELSE /\ Off(bodies) /\ Off(saved) /\ Off(request) /\ Off(redis)
          /\ Off(spent) /\ Off(refused)
  /\ IF part = "claims" THEN Claims!Init
     ELSE /\ Off(open) /\ Off(claims) /\ Off(pulls) /\ Off(try)
  /\ IF part = "paths" THEN Paths!Init
     ELSE /\ Off(paths) /\ Off(merged) /\ Off(paid) /\ Off(visit) /\ Off(award)
  /\ IF part = "shuffled" THEN Shuffled!Init
     ELSE /\ Off(key) /\ Off(matching) /\ Off(feed) /\ Off(kept)
          /\ Off(shown) /\ Off(steady)
  /\ IF part = "browse" THEN Browse!Init
     ELSE /\ Off(created) /\ Off(issue) /\ Off(reader) /\ Off(seen) /\ Off(still)

PartsNext ==
  /\ UNCHANGED part
  /\ \/ /\ part = "stats" /\ Stats!Next
        /\ UNCHANGED <<ledgerVars, bodiesVars, claimsVars, pathsVars,
                       shuffledVars, browseVars>>
     \/ /\ part = "ledger" /\ Ledger!Next
        /\ UNCHANGED <<statsVars, bodiesVars, claimsVars, pathsVars,
                       shuffledVars, browseVars>>
     \/ /\ part = "bodies" /\ IssueTexts!Next
        /\ UNCHANGED <<statsVars, ledgerVars, claimsVars, pathsVars,
                       shuffledVars, browseVars>>
     \/ /\ part = "claims" /\ Claims!Next
        /\ UNCHANGED <<statsVars, ledgerVars, bodiesVars, pathsVars,
                       shuffledVars, browseVars>>
     \/ /\ part = "paths" /\ Paths!Next
        /\ UNCHANGED <<statsVars, ledgerVars, bodiesVars, claimsVars,
                       shuffledVars, browseVars>>
     \/ /\ part = "shuffled" /\ Shuffled!Next
        /\ UNCHANGED <<statsVars, ledgerVars, bodiesVars, claimsVars,
                       pathsVars, browseVars>>
     \/ /\ part = "browse" /\ Browse!Next
        /\ UNCHANGED <<statsVars, ledgerVars, bodiesVars, claimsVars,
                       pathsVars, shuffledVars>>

PartsSpec == PartsInit /\ [][PartsNext]_allVars

\* Values for the cfg: the sizes of the bodies, the orders of a chunk, the
\* issues' creation, and the pull requests and quests of the ledger.
Sizes == <<1, 2, 1>>
TheDraws == {[p \in Project |-> p], [p \in Project |-> 4 - p]}
TheCreations == {<<2, 0, 2>>}
Repos == <<1, 1, 2>>
Created == <<1, 2, 2>>
Worths == <<10, 8, 6>>
Needs == [merges |-> 1, repos |-> 2]
TheLinks == {{}, {1, 2}, {2}}

----------------------------------------------------------------------------
\* The part that moves keeps its types (stats.go, xp.go, bodies.go,
\* claim.go, learnpath.go, shuffle.go, browse.go).
PartsTypeOK ==
  CASE part = "stats" -> Stats!TypeOK
    [] part = "ledger" -> Ledger!TypeOK
    [] part = "bodies" -> IssueTexts!TypeOK
    [] part = "claims" -> Claims!TypeOK
    [] part = "paths" -> Paths!TypeOK
    [] part = "shuffled" -> Shuffled!TypeOK
    [] part = "browse" -> Browse!TypeOK

\* The totals and the deltas still to be folded count every issue once,
\* however rollups, recounts and writers interleave (stats.go).
TotalsAddUp == part = "stats" => Stats!TotalsAddUp

\* Caps and once-only rules hold over the whole ledger however pull requests
\* arrive, and planning the awards again pays nothing more (xp.go, Plan).
LedgerIsFair == part = "ledger" => Ledger!RulesHoldOverTheLedger /\ Ledger!AwardsSettle

\* No caller spends more than its misses of the server's GitHub budget, nor is
\* locked out for good, and trimming deletes the least recently read bodies
\* first and never a saved one (handlers_issues.go, redis.go; bodies.go).
BodiesBounded ==
  /\ [](part = "bodies" => IssueTexts!MissesCapped)
  /\ [][part = "bodies" => IssueTexts!OldestReadTrimmed]_allVars

\* Nobody holds more claims within their days than they may, however many
\* requests run at once (claim.go, Claim).
FreshClaimsCapped == part = "claims" => Claims!FreshClaimsCapped

\* A path is paid for steps closed by merges, whatever a swap that read it
\* earlier does (learnpath.go).
PaidPathsAreEarned == part = "paths" => Paths!PaidPathsAreEarned

\* What stands still while somebody pages through a feed is shown exactly
\* once, however the pages are cut and whatever moves around it (shuffle.go,
\* foryou.go; browse.go, segmentsAfter).
ShownOnce ==
  /\ part = "shuffled" => Shuffled!StandingShownOnce
  /\ part = "browse" => Browse!StillSeenOnce
=============================================================================
