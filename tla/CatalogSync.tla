---------------------------- MODULE CatalogSync ----------------------------
(***************************************************************************)
(* How one repository's issues on GitHub reach the issues table: crawl      *)
(* passes, which read pages and write them later (worker.go, queue.go,      *)
(* github/issues.go), the GH Archive reader, which applies the events of    *)
(* whole hours (archive.go), the check of saved issues (tracked.go),        *)
(* webhooks (handlers_webhook.go), and the prunes that delete rows          *)
(* (prune.go).  The queue is used only through what PassLedger promises:    *)
(* one pass of a repository at a time, its pages committed with its         *)
(* cursors, its start the watermark once it completes.                      *)
(*                                                                          *)
(* Time counts the changes of the repository's issues, so no two changes    *)
(* share a time and an issue's updated_at names one change.  A GitHub page  *)
(* is ordered by updated_at, newest first, so a cursor is a time too: the   *)
(* next page holds only issues updated before it.                           *)
(***************************************************************************)
EXTENDS Naturals, FiniteSets

CONSTANTS
  Issue,    \* issue numbers of the repository
  Saved,    \* issues in someone's saved_issues
  Worker,   \* pool workers that may hold a fetched page of the repository
  MaxTime,  \* bound on the changes of its issues
  HourLen   \* changes per archive hour

ASSUME BoundsAssumption == MaxTime \in Nat /\ HourLen \in Nat \ {0} /\ Saved \subseteq Issue

VARIABLES
  now,          \* the time of the last change
  github,       \* each issue on GitHub
  changes,      \* what changed at each time: GH Archive's events
  catalog,      \* each issue in the issues table
  eligible,     \* repositories.is_eligible
  through,      \* repositories.issues_synced_through, 0 for NULL
  synced,       \* repositories.last_synced_at IS NOT NULL
  pass,         \* the pass in the queue
  page,         \* the page each worker has claimed or fetched
  reading,      \* what is left to write of each archive hour being applied
  applied,      \* the archive hours applied to the end
  tracking,     \* what GitHub answered for the due saved issues, not yet applied
  newestHour,   \* history: the newest hour any event was applied of
  irregular     \* history: what happened that some properties set apart

syncVars == <<eligible, through, synced, pass, page>>
archiveVars == <<reading, applied, newestHour>>
githubVars == <<now, github, changes>>
vars == <<githubVars, catalog, syncVars, archiveVars, tracking, irregular>>

Time == 1..MaxTime
Hour == 0..(MaxTime \div HourLen)
HourOf(t) == t \div HourLen
EventsOf(h) == {t \in Time : HourOf(t) = h}

\* "NONE" on GitHub is also an issue deleted or transferred away.
States == {"NONE", "OPEN", "CLOSED"}
Snapshot == [state: States, at: 0..MaxTime]
Absent == [state |-> "NONE", at |-> 0]

\* The start of a list, and of a cursor before its first page.
Newest == MaxTime + 1

\* A pass as its job's row holds it; "deep" after the hand-off to a deep job.
\* The cursor of an exhausted connection means nothing.
Pass == [active: BOOLEAN, deep: BOOLEAN, start: 0..MaxTime, since: 0..MaxTime,
         openCursor: 1..Newest, openDone: BOOLEAN,
         closedCursor: 1..Newest, closedDone: BOOLEAN]
NoPass == [active |-> FALSE, deep |-> FALSE, start |-> 0, since |-> 0,
           openCursor |-> Newest, openDone |-> FALSE,
           closedCursor |-> Newest, closedDone |-> FALSE]

\* A worker's page: the pass as it was claimed, and once fetched the
\* updated_at of each issue the page lists and where the pass stands after it.
Nothing == [i \in Issue |-> 0]
Page == [stage: {"none", "claimed", "fetched"},
         open: [Issue -> 0..MaxTime], closed: [Issue -> 0..MaxTime], after: Pass]
NoPage == [stage |-> "none", open |-> Nothing, closed |-> Nothing, after |-> NoPass]

\* The answer that lists no issue and has no next page.
LastPage == [issues |-> Nothing, cursor |-> Newest, more |-> FALSE]

Reading == [left: SUBSET Issue, updateOnly: BOOLEAN]
NotReading == [left |-> {}, updateOnly |-> FALSE]

\* A full pass over rows an earlier pass wrote; an archive hour applied after
\* a newer one; one read while the repository was ineligible; open issues
\* pruned with it, or pruned while a pass was in progress; a webhook delivered
\* after the issue changed again.
Irregularities == {"reseeded", "disordered", "skipped", "pruned", "undercut", "late"}

TypeOK ==
  /\ now \in 0..MaxTime
  /\ github \in [Issue -> Snapshot]
  /\ changes \in [Time -> [issue: Issue, state: States] \cup {Absent}]
  /\ catalog \in [Issue -> Snapshot]
  /\ eligible \in BOOLEAN /\ synced \in BOOLEAN
  /\ through \in 0..MaxTime
  /\ pass \in Pass
  /\ page \in [Worker -> Page]
  /\ reading \in [Hour -> Reading]
  /\ applied \subseteq Hour
  /\ newestHour \in Hour
  /\ DOMAIN tracking \subseteq Saved /\ \A i \in DOMAIN tracking : tracking[i] \in Snapshot
  /\ irregular \subseteq Irregularities

Init ==
  /\ now = 0
  /\ github = [i \in Issue |-> Absent]
  /\ changes = [t \in Time |-> Absent]
  /\ catalog = [i \in Issue |-> Absent]
  /\ eligible = TRUE
  /\ through = 0 /\ synced = FALSE
  /\ pass = NoPass
  /\ page = [w \in Worker |-> NoPage]
  /\ reading = [h \in Hour |-> NotReading]
  /\ applied = {} /\ newestHour = 0
  /\ tracking = <<>>
  /\ irregular = {}

----------------------------------------------------------------------------
\* GitHub: an issue is opened, closed, reopened, or commented on.  Deleting it
\* (Delete) is no event of the archive, and for good here: a repository that is
\* out of reach for a while, whose saved issues the check then closes until they
\* next change, is left out.

Change(i) ==
  /\ now < MaxTime
  /\ github[i].state = "NONE" => github[i].at = 0
  /\ \E state \in {"OPEN", "CLOSED"} :
       /\ github[i].state = "NONE" => state = "OPEN"
       /\ github' = [github EXCEPT ![i] = [state |-> state, at |-> now + 1]]
       /\ changes' = [changes EXCEPT ![now + 1] = [issue |-> i, state |-> state]]
  /\ now' = now + 1
  /\ UNCHANGED <<catalog, syncVars, archiveVars, tracking, irregular>>

Delete(i) ==
  /\ now < MaxTime /\ i \in Saved /\ github[i].state # "NONE"
  /\ github' = [github EXCEPT ![i] = [state |-> "NONE", at |-> now + 1]]
  /\ now' = now + 1
  /\ UNCHANGED <<changes, catalog, syncVars, archiveVars, tracking, irregular>>

----------------------------------------------------------------------------
\* The crawl.

\* A pass enters the queue, starting now: a full one (EnqueueInitialJobs, POST
\* /sync/priority) or one from the watermark (EnqueueFreshnessJobs).
BeginPass(since) ==
  /\ ~pass.active
  /\ pass' = [NoPass EXCEPT !.active = TRUE, !.start = now, !.since = since]
  /\ irregular' = irregular \cup (IF since = 0 /\ synced THEN {"reseeded"} ELSE {})
  /\ UNCHANGED <<githubVars, catalog, eligible, through, synced, page, archiveVars, tracking>>

BeginFullPass == BeginPass(0)
BeginFreshnessPass == tracking = <<>> /\ eligible /\ synced /\ BeginPass(through)

\* Mutant: closed issues are never listed.
Mutant_ListedOpenOnly(state, since, cursor) ==
  {i \in Issue : /\ state = "OPEN" /\ github[i].state = state
                 /\ github[i].at >= since /\ github[i].at < cursor}

\* What one connection lists: issues in the given state, updated since the
\* watermark and before the cursor.
Listed(state, since, cursor) ==
  {i \in Issue : github[i].state = state /\ github[i].at >= since /\ github[i].at < cursor}

\* Mutant: the cursor is one change too far.
Mutant_CursorTooFar(state, since, cursor) ==
  {[LastPage EXCEPT !.cursor = github[i].at - 1, !.more = TRUE] :
     i \in Listed(state, since, cursor)}

\* The pages GitHub may answer with: the newest of the list, at least one if
\* there are any.  The cursor of the next page is the last one's time.
PagesOf(state, since, cursor) ==
  LET listed == Listed(state, since, cursor)
      downTo(oldest) == {i \in listed : github[i].at >= oldest}
      answer(oldest) ==
        [issues |-> [i \in Issue |-> IF i \in downTo(oldest) THEN github[i].at ELSE 0],
         cursor |-> oldest,
         more |-> downTo(oldest) # listed]
  IN  IF listed = {} THEN {LastPage} ELSE {answer(github[i].at) : i \in listed}

\* Mutant: claims go on beside the check of saved issues.
Mutant_ClaimBesideTheCheck(w) ==
  /\ pass.active /\ eligible
  /\ page[w] = NoPage
  /\ page' = [page EXCEPT ![w] = [NoPage EXCEPT !.stage = "claimed", !.after = pass]]
  /\ UNCHANGED <<githubVars, catalog, eligible, through, synced, pass, archiveVars, tracking, irregular>>

\* ClaimJobs hands the worker a copy of the job.  The lease of another copy
\* may have lapsed and been taken back.  The coordinator's cycle claims, so not
\* while it checks saved issues.
ClaimPage(w) ==
  /\ tracking = <<>> /\ pass.active /\ eligible
  /\ page[w] = NoPage
  /\ page' = [page EXCEPT ![w] = [NoPage EXCEPT !.stage = "claimed", !.after = pass]]
  /\ UNCHANGED <<githubVars, catalog, eligible, through, synced, pass, archiveVars, tracking, irregular>>

\* FetchRepositoryIssues: one page of each connection not yet exhausted.
\* Closed issues are only asked for on an incremental pass.
FetchPage(w) ==
  /\ page[w].stage = "claimed"
  /\ LET copy == page[w].after
         fetched(state, done, cursor) ==
           IF done THEN {LastPage} ELSE PagesOf(state, copy.since, cursor)
     IN  \E open \in fetched("OPEN", copy.openDone, copy.openCursor),
            closed \in fetched("CLOSED", copy.closedDone \/ copy.since = 0, copy.closedCursor) :
           page' = [page EXCEPT ![w] =
             [stage |-> "fetched", open |-> open.issues, closed |-> closed.issues,
              after |-> [copy EXCEPT !.deep = TRUE,
                           !.openCursor = open.cursor, !.openDone = ~open.more,
                           !.closedCursor = closed.cursor, !.closedDone = ~closed.more]]]
  /\ UNCHANGED <<githubVars, catalog, eligible, through, synced, pass, archiveVars, tracking, irregular>>

\* Mutant: a closing keeps the row's updated_at.
Mutant_WrittenKeepsTime(p) ==
  [i \in Issue |->
     IF p.open[i] # 0 THEN [state |-> "OPEN", at |-> p.open[i]]
     ELSE IF p.closed[i] # 0 /\ catalog[i].state = "OPEN"
       THEN [catalog[i] EXCEPT !.state = "CLOSED"]
       ELSE catalog[i]]

\* UpsertIssueTx writes whatever is stored; MarkIssuesClosedTx only closes
\* what is stored OPEN.
Written(p) ==
  [i \in Issue |->
     IF p.open[i] # 0 THEN [state |-> "OPEN", at |-> p.open[i]]
     ELSE IF p.closed[i] # 0 /\ catalog[i].state = "OPEN"
       THEN [state |-> "CLOSED", at |-> p.closed[i]]
       ELSE catalog[i]]

\* Mutant: the watermark is the time of the last page, not of the pass's start.
Mutant_CommitStampsNow(w) ==
  /\ page[w].stage = "fetched"
  /\ catalog' = Written(page[w])
  /\ synced' = TRUE
  /\ LET after == page[w].after
         ends == after.openDone /\ after.closedDone
     IN  /\ pass' = IF ends THEN NoPass ELSE after
         /\ through' = IF ends THEN now ELSE through
         /\ page' = IF ends \/ ~pass.deep THEN [v \in Worker |-> NoPage]
                    ELSE [page EXCEPT ![w] = NoPage]
  /\ UNCHANGED <<githubVars, eligible, archiveVars, tracking, irregular>>

\* The page's transaction.  Two workers may hold pages of one job: a lease
\* that lapsed and was claimed again by the same process keeps its fence.  A
\* page fetched for a job that has ended, the initial one included, lost its
\* lease and is not written.
CommitPage(w) ==
  /\ page[w].stage = "fetched"
  /\ catalog' = Written(page[w])
  /\ synced' = TRUE
  /\ LET after == page[w].after
         ends == after.openDone /\ after.closedDone
     IN  /\ pass' = IF ends THEN NoPass ELSE after
         /\ through' = IF ends /\ after.start > through THEN after.start ELSE through
         /\ page' = IF ends \/ ~pass.deep THEN [v \in Worker |-> NoPage]
                    ELSE [page EXCEPT ![w] = NoPage]
  /\ UNCHANGED <<githubVars, eligible, archiveVars, tracking, irregular>>

\* The fetch or the commit failed, the process ended, or the lease was lost.
DropPage(w) ==
  /\ page[w] # NoPage
  /\ page' = [page EXCEPT ![w] = NoPage]
  /\ UNCHANGED <<githubVars, catalog, eligible, through, synced, pass, archiveVars, tracking, irregular>>

\* The pass's job failed for good (FailJob, MarkUnavailable); pages still in
\* flight have lost their lease.
GiveUpPass ==
  /\ pass.active
  /\ pass' = NoPass
  /\ page' = [w \in Worker |-> NoPage]
  /\ UNCHANGED <<githubVars, catalog, eligible, through, synced, archiveVars, tracking, irregular>>

----------------------------------------------------------------------------
\* The archive.

\* readArchiveHour: the newest event of the hour for each issue.
NewestOf(h, i) ==
  LET times == {t \in EventsOf(h) : changes[t] # Absent /\ changes[t].issue = i}
  IN  IF times = {} THEN 0 ELSE CHOOSE t \in times : \A u \in times : u <= t

\* Mutant: an event is written over any row, older or not.
Mutant_ArchiveWriteAlways(i, t, updateOnly) ==
  LET event == [state |-> changes[t].state, at |-> t] IN
  IF catalog[i].state = "NONE" /\ (updateOnly \/ event.state = "CLOSED")
  THEN catalog[i] ELSE event

\* applyArchiveIssues: an event is written only over an older row; a closing,
\* or any event while the disk guard is on, never inserts.
ArchiveWrite(i, t, updateOnly) ==
  LET event == [state |-> changes[t].state, at |-> t] IN
  IF catalog[i].state = "NONE"
  THEN IF updateOnly \/ event.state = "CLOSED" THEN catalog[i] ELSE event
  ELSE IF catalog[i].at < t THEN event ELSE catalog[i]

\* processArchiveHour reads an hour that has ended and looks the repository
\* up: of an ineligible one nothing is written.  Hours are read side by side.
BeginArchiveHour(h) ==
  /\ EventsOf(h) # {} /\ \A t \in EventsOf(h) : t <= now
  /\ h \notin applied /\ reading[h] = NotReading
  /\ LET issues == {i \in Issue : NewestOf(h, i) # 0} IN
     IF eligible
     THEN /\ \E updateOnly \in BOOLEAN :
               reading' = [reading EXCEPT ![h] = [left |-> issues, updateOnly |-> updateOnly]]
          /\ UNCHANGED <<applied, irregular>>
     ELSE /\ applied' = applied \cup {h}
          /\ irregular' = irregular \cup {"skipped"}
          /\ UNCHANGED reading
  /\ UNCHANGED <<githubVars, catalog, syncVars, newestHour, tracking>>

\* applyArchiveIssues: one batch of the hour is committed; after the last the
\* hour is done.
ApplyArchiveBatch(h) ==
  \E batch \in SUBSET reading[h].left :
    /\ batch # {}
    /\ catalog' = [i \in Issue |->
         IF i \in batch THEN ArchiveWrite(i, NewestOf(h, i), reading[h].updateOnly)
         ELSE catalog[i]]
    /\ IF batch = reading[h].left
       THEN /\ reading' = [reading EXCEPT ![h] = NotReading]
            /\ applied' = applied \cup {h}
       ELSE /\ reading' = [reading EXCEPT ![h].left = @ \ batch]
            /\ UNCHANGED applied
    /\ newestHour' = IF h > newestHour THEN h ELSE newestHour
    /\ irregular' = irregular \cup (IF h < newestHour THEN {"disordered"} ELSE {})
    /\ UNCHANGED <<githubVars, syncVars, tracking>>

\* A batch failed, the process ended, or the hour's lease was lost: what the
\* earlier batches wrote stays and the hour will be read again.
FailArchiveHour(h) ==
  /\ reading[h] # NotReading
  /\ reading' = [reading EXCEPT ![h] = NotReading]
  /\ UNCHANGED <<githubVars, catalog, syncVars, applied, newestHour, tracking, irregular>>

----------------------------------------------------------------------------
\* Saved issues: checkTrackedIssues, a step of the coordinator's cycle.

\* DueTrackedIssues and FetchIssueStates: a batch of the issues stored OPEN.
FetchIssueStates ==
  /\ tracking = <<>>
  /\ \E due \in SUBSET {i \in Saved : catalog[i].state = "OPEN"} :
       /\ due # {}
       /\ tracking' = [i \in due |-> github[i]]
  /\ UNCHANGED <<githubVars, catalog, syncVars, archiveVars, irregular>>

\* An issue GitHub no longer has is closed, with its time left alone; one
\* closed since by another path is left alone.
Tracked(i) ==
  IF catalog[i].state # "OPEN" THEN catalog[i]
  ELSE IF tracking[i].state = "NONE" THEN [catalog[i] EXCEPT !.state = "CLOSED"]
  ELSE tracking[i]

ApplyTrackedStates ==
  /\ tracking # <<>>
  /\ catalog' = [i \in Issue |-> IF i \in DOMAIN tracking THEN Tracked(i) ELSE catalog[i]]
  /\ tracking' = <<>>
  /\ UNCHANGED <<githubVars, syncVars, archiveVars, irregular>>

\* The fetch or the write failed, or the process ended.
DropTrackedStates ==
  /\ tracking # <<>> /\ tracking' = <<>>
  /\ UNCHANGED <<githubVars, catalog, syncVars, archiveVars, irregular>>

----------------------------------------------------------------------------
\* Webhooks, where the GitHub App is installed.

\* An event of type closed or reopened.
Turns(t) ==
  \E u \in 1..(t - 1) :
    /\ changes[u] # Absent /\ changes[u].issue = changes[t].issue /\ changes[u].state # changes[t].state
    /\ \A v \in (u + 1)..(t - 1) : changes[v] = Absent \/ changes[v].issue # changes[t].issue

\* SetStateByRepoAndNumber: the event arrives, perhaps late or again, and is
\* written over an older row only.
DeliverWebhook(t) ==
  /\ changes[t] # Absent /\ Turns(t)
  /\ LET i == changes[t].issue IN
     /\ catalog[i].state # "NONE" /\ catalog[i].at < t
     /\ catalog' = [catalog EXCEPT ![i] = [state |-> changes[t].state, at |-> t]]
     /\ irregular' = irregular \cup (IF t < github[i].at THEN {"late"} ELSE {})
  /\ UNCHANGED <<githubVars, syncVars, archiveVars, tracking>>

----------------------------------------------------------------------------
\* Prunes and eligibility.

\* PruneClosedIssues, for any closed issue: the retention is not modelled.
PruneClosedIssues ==
  /\ \E i \in Issue :
       /\ catalog[i].state = "CLOSED" /\ i \notin Saved
       /\ catalog' = [catalog EXCEPT ![i] = Absent]
  /\ UNCHANGED <<githubVars, syncVars, archiveVars, tracking, irregular>>

\* PruneExcludedIssues: the repository is excluded, archived or a duplicate.
PruneExcludedIssues ==
  /\ ~eligible
  /\ \E gone \in SUBSET {i \in Issue \ Saved : catalog[i] # Absent} :
       /\ gone # {}
       /\ catalog' = [i \in Issue |-> IF i \in gone THEN Absent ELSE catalog[i]]
  /\ irregular' = irregular \cup {"pruned"} \cup (IF pass.active THEN {"undercut"} ELSE {})
  /\ UNCHANGED <<githubVars, syncVars, archiveVars, tracking>>

\* RecomputeEligibility: the repository is archived or excluded, or no longer.
RecomputeEligibility ==
  /\ eligible' = ~eligible
  /\ UNCHANGED <<githubVars, catalog, through, synced, pass, page, archiveVars, tracking, irregular>>

Next ==
  \/ \E i \in Issue : Change(i) \/ Delete(i)
  \/ BeginFullPass
  \/ BeginFreshnessPass
  \/ \E w \in Worker : ClaimPage(w) \/ FetchPage(w) \/ CommitPage(w) \/ DropPage(w)
  \/ GiveUpPass
  \/ \E h \in Hour : BeginArchiveHour(h) \/ ApplyArchiveBatch(h) \/ FailArchiveHour(h)
  \/ FetchIssueStates
  \/ ApplyTrackedStates
  \/ DropTrackedStates
  \/ \E t \in Time : DeliverWebhook(t)
  \/ PruneClosedIssues
  \/ PruneExcludedIssues
  \/ RecomputeEligibility

Spec == Init /\ [][Next]_vars

----------------------------------------------------------------------------
\* Safety.

\* An issue open on GitHub, unchanged since the watermark, is in the catalog
\* as it is: late commits, archive hours in any order and prunes of closed
\* issues never lose it.
OpenIssuesReflected ==
  "pruned" \notin irregular =>
    \A i \in Issue : github[i].state = "OPEN" /\ github[i].at <= through =>
      catalog[i] = github[i]

\* An issue closed on GitHub by the watermark is not shown as open, unless
\* the archive has still to bring the closing; given that no full pass ran
\* over stored rows, every hour was read in order and while eligible, and no
\* webhook came late.
ClosingsReflected ==
  irregular = {} =>
    \A i \in Issue :
      github[i].state = "CLOSED" /\ github[i].at <= through /\ catalog[i].state = "OPEN" =>
        HourOf(github[i].at) \notin applied

\* Up to the watermark the catalog shows what GitHub has, whichever of the
\* crawl, the archive, the saved issues' check and the prunes wrote last: open
\* issues as they are, and no closed one as open once its hour was applied
\* (queue.go, archive.go, tracked.go, prune.go).
IssuesReflected == OpenIssuesReflected /\ ClosingsReflected

\* The catalog never shows a state GitHub never had: a row is one of the
\* changes of its issue, or the issue is gone.
CatalogIsHistory ==
  \A i \in Issue : catalog[i] # Absent =>
    /\ catalog[i].at \in 1..now
    /\ \/ changes[catalog[i].at] = [issue |-> i, state |-> catalog[i].state]
       \/ catalog[i].state = "CLOSED" /\ github[i].state = "NONE"

----------------------------------------------------------------------------
\* What the comments and the documentation say, refuted by the code.

\* archive.go:36-40: events are applied "only when newer than what is stored,
\* so hours can be read in any order and read again."  Once every hour is
\* applied and no pass is running, no closed issue is left open.
HoursInAnyOrder ==
  /\ \A t \in 1..now : HourOf(t) \in applied
  /\ irregular \subseteq {"disordered"} /\ ~pass.active
  /\ \A w \in Worker : page[w] = NoPage
  => \A i \in Issue : github[i].state = "CLOSED" => catalog[i].state # "OPEN"

\* web/content/docs/for-maintainers.md:33: "If it qualifies again later, it
\* comes back": a pass that ends while the repository is eligible, and was not
\* undercut by a prune, leaves every issue open at its start in the catalog.
RequalifiedComesBack ==
  [][\A w \in Worker :
       CommitPage(w) /\ eligible /\ ~pass'.active /\ "undercut" \notin irregular =>
         \A i \in Issue : github[i].state = "OPEN" /\ github[i].at <= pass.start =>
           catalog'[i].state = "OPEN"]_vars
=============================================================================
