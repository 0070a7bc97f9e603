------------------------- MODULE CatalogSyncProofs -------------------------
(***************************************************************************)
(* Proofs about CatalogSync, for every value of its constants: the types,   *)
(* that whatever is stored, fetched or read of an issue is one of its       *)
(* changes, and that the catalog comes to reflect them.                     *)
(***************************************************************************)
EXTENDS CatalogSync, TLAPS, WellFoundedInduction

\* Issue i changed to this state at this time.
IsChange(i, at, state) ==
  at \in 1..now /\ changes[at] # Absent /\ changes[at].issue = i /\ changes[at].state = state

\* GitHub's own history: every change is past, and no issue is older than its
\* last one.
GitHubInv ==
  /\ \A t \in Time : changes[t] # Absent =>
       /\ changes[t] \in [issue: Issue, state: {"OPEN", "CLOSED"}]
       /\ t <= now /\ t <= github[changes[t].issue].at
  /\ \A i \in Issue : /\ github[i].at <= now
                      /\ github[i].state # "NONE" => IsChange(i, github[i].at, github[i].state)

\* What was taken from GitHub is history: stored rows, whose state may also be
\* that of an issue that is gone; pages; what was read of saved issues; and the
\* issues an archive hour has still to write.
IsRow(i, row) ==
  row # Absent =>
    /\ row.state # "NONE" /\ row.at \in 1..now
    /\ changes[row.at] # Absent /\ changes[row.at].issue = i
    /\ changes[row.at].state = row.state \/ (row.state = "CLOSED" /\ github[i].state = "NONE")
RowsInv == \A i \in Issue : IsRow(i, catalog[i])
PagesInv ==
  \A w \in Worker, i \in Issue :
    /\ page[w].open[i] # 0 => IsChange(i, page[w].open[i], "OPEN")
    /\ page[w].closed[i] # 0 => IsChange(i, page[w].closed[i], "CLOSED")
AnswersInv ==
  \A i \in DOMAIN tracking :
    \/ tracking[i].state = "NONE" /\ github[i].state = "NONE" /\ github[i].at # 0
    \/ tracking[i].state # "NONE" /\ IsChange(i, tracking[i].at, tracking[i].state)
HoursInv ==
  \A h \in Hour : \A i \in reading[h].left :
    \E t \in EventsOf(h) : changes[t] # Absent /\ changes[t].issue = i

CopiesInv == RowsInv /\ PagesInv /\ AnswersInv /\ HoursInv

HistoryInv == GitHubInv /\ CopiesInv

LEMMA MaxExists ==
  ASSUME NEW N \in Nat, NEW T \in SUBSET (1..N), T # {}
  PROVE  \E t \in T : \A u \in T : u <= t
<1> DEFINE S == {N - t : t \in T}
           R == OpToRel(<, Nat)
<1>1. \A t \in T : t \in 1..N /\ N - t \in Nat
  OBVIOUS
<1>2. IsWellFoundedOn(R, Nat)
  BY NatLessThanWellFounded
<1> HIDE DEF R
<1>3. S \subseteq Nat /\ S # {}
  BY <1>1
<1>4. \A u \in T : N - u \in S
  OBVIOUS
<1> HIDE DEF S
<1>5. PICK x \in S : \A y \in S : ~(<<y, x>> \in R)
  BY <1>2, <1>3, WFMin
<1>6. \A y \in S : ~(y < x)
  BY <1>3, <1>5 DEF R, OpToRel
<1>7. PICK t \in T : x = N - t
  BY DEF S
<1>8. ASSUME NEW u \in T PROVE u <= t
  <2>1. ~(N - u < N - t)
    BY <1>4, <1>6, <1>7
  <2> QED BY <1>1, <2>1
<1> QED BY <1>8

\* What readArchiveHour keeps of an issue is the newest event of the hour.
HasEvent(h, i) == \E t \in EventsOf(h) : changes[t] # Absent /\ changes[t].issue = i

LEMMA NewestIsNewest ==
  ASSUME NEW h \in Hour, NEW i \in Issue, HasEvent(h, i)
  PROVE  /\ NewestOf(h, i) \in EventsOf(h) /\ NewestOf(h, i) \in Time
         /\ changes[NewestOf(h, i)] # Absent /\ changes[NewestOf(h, i)].issue = i
         /\ \A t \in EventsOf(h) : changes[t] # Absent /\ changes[t].issue = i => t <= NewestOf(h, i)
<1> DEFINE times == {t \in EventsOf(h) : changes[t] # Absent /\ changes[t].issue = i}
<1>1. times # {} /\ times \in SUBSET (1..MaxTime) /\ MaxTime \in Nat
  BY BoundsAssumption DEF HasEvent, EventsOf, Time
<1>2. \E t \in times : \A u \in times : u <= t
  <2> HIDE DEF times
  <2> QED BY <1>1, MaxExists
<1>3. NewestOf(h, i) = CHOOSE t \in times : \A u \in times : u <= t
  BY <1>1 DEF NewestOf
<1>4. NewestOf(h, i) \in times /\ \A u \in times : u <= NewestOf(h, i)
  <2> HIDE DEF times
  <2> QED BY <1>2, <1>3
<1> QED BY <1>4 DEF EventsOf

LEMMA NewestNone ==
  ASSUME NEW h \in Hour, NEW i \in Issue, ~HasEvent(h, i)
  PROVE  NewestOf(h, i) = 0
<1> DEFINE times == {t \in EventsOf(h) : changes[t] # Absent /\ changes[t].issue = i}
<1>1. times = {}
  BY DEF HasEvent
<1> QED BY <1>1 DEF NewestOf

----------------------------------------------------------------------------
\* Types.

LEMMA AbsentType == Absent \in Snapshot
  BY BoundsAssumption DEF Absent, Snapshot, States

LEMMA NewestType == Newest \in 1..Newest /\ 0 \in 0..MaxTime /\ 0..MaxTime \subseteq 0..Newest
  BY BoundsAssumption DEF Newest

LEMMA NoPassType == NoPass \in Pass
  BY NewestType DEF NoPass, Pass

LEMMA NoPageType == NoPage \in Page
  BY NewestType, NoPassType DEF NoPage, Page, Nothing

\* An answer of one connection: the issues it lists, and where it ends.
Answer == [issues: [Issue -> 0..MaxTime], cursor: 1..Newest, more: BOOLEAN]

LEMMA AnswerType ==
  ASSUME TypeOK, GitHubInv, NEW state \in {"OPEN", "CLOSED"}, NEW since, NEW cursor,
         NEW a \in PagesOf(state, since, cursor)
  PROVE  a \in Answer
<1>1. LastPage \in Answer
  BY NewestType DEF LastPage, Answer, Nothing
<1>2. CASE Listed(state, since, cursor) = {}
  BY <1>1, <1>2 DEF PagesOf
<1>3. CASE Listed(state, since, cursor) # {}
  <2> DEFINE listed == Listed(state, since, cursor)
             downTo(oldest) == {i \in listed : github[i].at >= oldest}
             answer(oldest) ==
               [issues |-> [i \in Issue |-> IF i \in downTo(oldest) THEN github[i].at ELSE 0],
                cursor |-> oldest,
                more |-> downTo(oldest) # listed]
  <2>1. PICK i \in listed : a = answer(github[i].at)
    BY <1>3 DEF PagesOf
  <2>2. i \in Issue /\ github[i].state # "NONE"
    BY DEF Listed
  <2>3. github[i].at \in 1..Newest /\ \A j \in Issue : github[j].at \in 0..MaxTime
    BY <2>2, BoundsAssumption DEF TypeOK, GitHubInv, IsChange, Snapshot, Newest
  <2>4. [j \in Issue |-> IF j \in downTo(github[i].at) THEN github[j].at ELSE 0] \in [Issue -> 0..MaxTime]
    BY <2>3, NewestType
  <2> HIDE DEF listed, downTo
  <2> QED BY <2>1, <2>3, <2>4 DEF Answer
<1> QED BY <1>2, <1>3

\* Most actions leave most variables alone.
TypedGitHub ==
  /\ now \in 0..MaxTime /\ github \in [Issue -> Snapshot]
  /\ changes \in [Time -> [issue: Issue, state: States] \cup {Absent}]
TypedSync == eligible \in BOOLEAN /\ synced \in BOOLEAN /\ through \in 0..MaxTime /\ pass \in Pass
TypedArchive == reading \in [Hour -> Reading] /\ applied \subseteq Hour /\ newestHour \in Hour
TypedTracking == DOMAIN tracking \subseteq Saved /\ \A i \in DOMAIN tracking : tracking[i] \in Snapshot

LEMMA TypeParts ==
  TypeOK <=> /\ TypedGitHub /\ catalog \in [Issue -> Snapshot] /\ TypedSync
             /\ page \in [Worker -> Page] /\ TypedArchive /\ TypedTracking
             /\ irregular \subseteq Irregularities
  BY DEF TypeOK, TypedGitHub, TypedSync, TypedArchive, TypedTracking

LEMMA NotReadingType == NotReading \in Reading /\ NoPass.active = FALSE
  BY DEF NotReading, Reading, NoPass

LEMMA EmptyTracking == DOMAIN <<>> = {}
  OBVIOUS

LEMMA ChangeTypes ==
  ASSUME TypeOK, NEW i \in Issue, Change(i)
  PROVE  TypedGitHub'
<1>1. PICK state \in {"OPEN", "CLOSED"} :
        /\ github' = [github EXCEPT ![i] = [state |-> state, at |-> now + 1]]
        /\ changes' = [changes EXCEPT ![now + 1] = [issue |-> i, state |-> state]]
  BY DEF Change
<1>2. now' = now + 1 /\ now + 1 \in 0..MaxTime
  BY BoundsAssumption DEF Change, TypeOK
<1>3. [state |-> state, at |-> now + 1] \in Snapshot
  BY <1>2 DEF Snapshot, States
<1>4. [issue |-> i, state |-> state] \in [issue: Issue, state: States]
  BY DEF States
<1> QED BY <1>1, <1>2, <1>3, <1>4 DEF TypedGitHub, TypeOK

\* The page a worker ends up with.
LEMMA FetchTypes ==
  ASSUME TypeOK, GitHubInv, NEW w \in Worker, FetchPage(w)
  PROVE  page' \in [Worker -> Page]
<1> DEFINE copy == page[w].after
           fetched(state, done, cursor) ==
             IF done THEN {LastPage} ELSE PagesOf(state, copy.since, cursor)
<1>1. PICK open \in fetched("OPEN", copy.openDone, copy.openCursor),
           closed \in fetched("CLOSED", copy.closedDone \/ copy.since = 0, copy.closedCursor) :
        page' = [page EXCEPT ![w] =
             [stage |-> "fetched", open |-> open.issues, closed |-> closed.issues,
              after |-> [copy EXCEPT !.deep = TRUE,
                           !.openCursor = open.cursor, !.openDone = ~open.more,
                           !.closedCursor = closed.cursor, !.closedDone = ~closed.more]]]
  BY DEF FetchPage
<1>2. LastPage \in Answer
  BY NewestType DEF LastPage, Answer, Nothing
<1>3. open \in Answer
  BY <1>2, AnswerType
<1>4. closed \in Answer
  BY <1>2, AnswerType
<1>5. copy \in Pass
  BY DEF TypeOK, Page
<1>6. /\ open.issues \in [Issue -> 0..MaxTime] /\ open.cursor \in 1..Newest /\ (~open.more) \in BOOLEAN
      /\ closed.issues \in [Issue -> 0..MaxTime] /\ closed.cursor \in 1..Newest /\ (~closed.more) \in BOOLEAN
  BY <1>3, <1>4 DEF Answer
<1>7. [copy EXCEPT !.deep = TRUE, !.openCursor = open.cursor, !.openDone = ~open.more,
                   !.closedCursor = closed.cursor, !.closedDone = ~closed.more] \in Pass
  BY <1>5, <1>6 DEF Pass
<1>8. [stage |-> "fetched", open |-> open.issues, closed |-> closed.issues,
       after |-> [copy EXCEPT !.deep = TRUE,
                           !.openCursor = open.cursor, !.openDone = ~open.more,
                           !.closedCursor = closed.cursor, !.closedDone = ~closed.more]] \in Page
  BY <1>6, <1>7 DEF Page
<1> QED BY <1>1, <1>8 DEF TypeOK

LEMMA WrittenTypes ==
  ASSUME TypeOK, NEW w \in Worker
  PROVE  Written(page[w]) \in [Issue -> Snapshot]
<1>1. /\ page[w].open \in [Issue -> 0..MaxTime] /\ page[w].closed \in [Issue -> 0..MaxTime]
      /\ catalog \in [Issue -> Snapshot]
  BY DEF TypeOK, Page
<1> QED BY <1>1 DEF Written, Snapshot, States

LEMMA CommitTypes ==
  ASSUME TypeOK, NEW w \in Worker, CommitPage(w)
  PROVE  /\ catalog' \in [Issue -> Snapshot] /\ TypedSync' /\ page' \in [Worker -> Page]
<1>1. catalog' \in [Issue -> Snapshot]
  BY WrittenTypes DEF CommitPage
<1>2. page[w] \in Page /\ page[w].after \in Pass /\ page[w].after.start \in 0..MaxTime
  BY DEF TypeOK, Page, Pass
<1>3. TypedSync'
  BY <1>2, NoPassType DEF CommitPage, TypedSync, TypeOK
<1>4. page' \in [Worker -> Page]
  BY NoPageType DEF CommitPage, TypeOK
<1> QED BY <1>1, <1>3, <1>4

LEMMA EventType ==
  ASSUME TypeOK, GitHubInv, NEW t \in Time, changes[t] # Absent
  PROVE  [state |-> changes[t].state, at |-> t] \in Snapshot
  BY BoundsAssumption DEF GitHubInv, Snapshot, States, Time

LEMMA BatchTypes ==
  ASSUME TypeOK, HistoryInv, NEW h \in Hour, ApplyArchiveBatch(h)
  PROVE  /\ catalog' \in [Issue -> Snapshot] /\ TypedArchive' /\ irregular' \subseteq Irregularities
<1>1. PICK batch \in SUBSET reading[h].left :
        /\ batch # {}
        /\ catalog' = [i \in Issue |->
             IF i \in batch THEN ArchiveWrite(i, NewestOf(h, i), reading[h].updateOnly)
             ELSE catalog[i]]
        /\ IF batch = reading[h].left
           THEN /\ reading' = [reading EXCEPT ![h] = NotReading]
                /\ applied' = applied \cup {h}
           ELSE /\ reading' = [reading EXCEPT ![h].left = @ \ batch]
                /\ UNCHANGED applied
        /\ newestHour' = IF h > newestHour THEN h ELSE newestHour
        /\ irregular' = irregular \cup (IF h < newestHour THEN {"disordered"} ELSE {})
  BY DEF ApplyArchiveBatch
<1>2. reading[h] \in Reading /\ [reading[h] EXCEPT !.left = @ \ batch] \in Reading
  BY DEF TypeOK, Reading
<1>3. ASSUME NEW i \in Issue, i \in batch
      PROVE  ArchiveWrite(i, NewestOf(h, i), reading[h].updateOnly) \in Snapshot
  <2>1. HasEvent(h, i)
    BY <1>3 DEF HistoryInv, CopiesInv, HoursInv, HasEvent
  <2>2. [state |-> changes[NewestOf(h, i)].state, at |-> NewestOf(h, i)] \in Snapshot
    BY <2>1, NewestIsNewest, EventType DEF HistoryInv
  <2>3. catalog[i] \in Snapshot
    BY DEF TypeOK
  <2> QED BY <2>2, <2>3 DEF ArchiveWrite
<1>4. catalog' \in [Issue -> Snapshot]
  BY <1>1, <1>3 DEF TypeOK
<1>5. TypedArchive'
  BY <1>1, <1>2, NotReadingType DEF TypedArchive, TypeOK
<1>6. irregular' \subseteq Irregularities
  BY <1>1 DEF TypeOK, Irregularities
<1> QED BY <1>4, <1>5, <1>6

LEMMA BeginHourTypes ==
  ASSUME TypeOK, NEW h \in Hour, BeginArchiveHour(h)
  PROVE  TypedArchive' /\ irregular' \subseteq Irregularities
<1>1. \A updateOnly \in BOOLEAN :
        [left |-> {i \in Issue : NewestOf(h, i) # 0}, updateOnly |-> updateOnly] \in Reading
  BY DEF Reading
<1>2. TypedArchive'
  BY <1>1 DEF BeginArchiveHour, TypedArchive, TypeOK
<1>3. irregular' \subseteq Irregularities
  BY DEF BeginArchiveHour, TypeOK, Irregularities
<1> QED BY <1>2, <1>3

LEMMA TrackedTypes ==
  ASSUME TypeOK, ApplyTrackedStates
  PROVE  catalog' \in [Issue -> Snapshot] /\ TypedTracking'
<1>1. \A i \in Issue : i \in DOMAIN tracking => Tracked(i) \in Snapshot
  BY DEF Tracked, TypeOK, Snapshot, States
<1> QED BY <1>1, EmptyTracking DEF ApplyTrackedStates, TypedTracking, TypeOK

LEMMA FetchStatesTypes ==
  ASSUME TypeOK, FetchIssueStates
  PROVE  TypedTracking'
<1>1. PICK due \in SUBSET {i \in Saved : catalog[i].state = "OPEN"} : tracking' = [i \in due |-> github[i]]
  BY DEF FetchIssueStates
<1> QED BY <1>1, BoundsAssumption DEF TypedTracking, TypeOK

LEMMA TypeStep ==
  TypeOK /\ HistoryInv /\ [Next]_vars => TypeOK'
<1> SUFFICES ASSUME TypeOK, HistoryInv, [Next]_vars PROVE TypeOK'
  OBVIOUS
<1>1. TypeOK <=> /\ TypedGitHub /\ catalog \in [Issue -> Snapshot] /\ TypedSync
                 /\ page \in [Worker -> Page] /\ TypedArchive /\ TypedTracking
                 /\ irregular \subseteq Irregularities
  BY TypeParts
<1>2. TypeOK' <=> /\ TypedGitHub' /\ catalog' \in [Issue -> Snapshot] /\ TypedSync'
                  /\ page' \in [Worker -> Page] /\ TypedArchive' /\ TypedTracking'
                  /\ irregular' \subseteq Irregularities
  BY DEF TypeOK, TypedGitHub, TypedSync, TypedArchive, TypedTracking
<1>3. UNCHANGED githubVars => TypedGitHub'
  BY <1>1 DEF TypedGitHub, githubVars
<1>4. UNCHANGED syncVars => TypedSync' /\ page' \in [Worker -> Page]
  BY <1>1 DEF TypedSync, syncVars
<1>5. UNCHANGED archiveVars => TypedArchive'
  BY <1>1 DEF TypedArchive, archiveVars
<1>6. UNCHANGED tracking => TypedTracking'
  BY <1>1 DEF TypedTracking
<1>7. UNCHANGED <<eligible, through, synced, pass>> => TypedSync'
  BY <1>1 DEF TypedSync
<1>a. CASE UNCHANGED vars
  BY <1>1, <1>2, <1>3, <1>4, <1>5, <1>6, <1>a DEF vars
<1>b. ASSUME NEW i \in Issue, Change(i) PROVE TypeOK'
  BY <1>1, <1>2, <1>4, <1>5, <1>6, <1>b, ChangeTypes DEF Change
<1>c. ASSUME NEW i \in Issue, Delete(i) PROVE TypeOK'
  <2>1. TypedGitHub'
    BY <1>c, BoundsAssumption DEF Delete, TypeOK, TypedGitHub, Snapshot, States
  <2> QED BY <1>1, <1>2, <1>4, <1>5, <1>6, <1>c, <2>1 DEF Delete
<1>d. ASSUME NEW since \in 0..MaxTime, BeginPass(since) PROVE TypeOK'
  <2>1. TypedSync'
    BY <1>d, NoPassType DEF BeginPass, TypeOK, TypedSync, Pass
  <2>2. irregular' \subseteq Irregularities
    BY <1>d DEF BeginPass, TypeOK, Irregularities
  <2> QED BY <1>1, <1>2, <1>3, <1>5, <1>6, <1>d, <2>1, <2>2 DEF BeginPass
<1>e. CASE BeginFullPass
  BY <1>d, <1>e, NewestType DEF BeginFullPass
<1>f. CASE BeginFreshnessPass
  BY <1>d, <1>f DEF BeginFreshnessPass, TypeOK
<1>g. ASSUME NEW w \in Worker, ClaimPage(w) PROVE TypeOK'
  <2>1. [NoPage EXCEPT !.stage = "claimed", !.after = pass] \in Page
    BY NoPageType DEF TypeOK, Page
  <2>2. page' \in [Worker -> Page]
    BY <1>g, <2>1 DEF ClaimPage, TypeOK
  <2> QED BY <1>1, <1>2, <1>3, <1>5, <1>6, <1>7, <1>g, <2>2 DEF ClaimPage
<1>h. ASSUME NEW w \in Worker, FetchPage(w) PROVE TypeOK'
  BY <1>1, <1>2, <1>3, <1>5, <1>6, <1>7, <1>h, FetchTypes DEF FetchPage, HistoryInv
<1>i. ASSUME NEW w \in Worker, CommitPage(w) PROVE TypeOK'
  BY <1>1, <1>2, <1>3, <1>5, <1>6, <1>i, CommitTypes DEF CommitPage
<1>j. ASSUME NEW w \in Worker, DropPage(w) PROVE TypeOK'
  <2>1. page' \in [Worker -> Page]
    BY <1>j, NoPageType DEF DropPage, TypeOK
  <2> QED BY <1>1, <1>2, <1>3, <1>5, <1>6, <1>7, <1>j, <2>1 DEF DropPage
<1>k. CASE GiveUpPass
  <2>1. page' \in [Worker -> Page] /\ TypedSync'
    BY <1>k, NoPageType, NoPassType DEF GiveUpPass, TypeOK, TypedSync
  <2> QED BY <1>1, <1>2, <1>3, <1>5, <1>6, <1>k, <2>1 DEF GiveUpPass
<1>l. ASSUME NEW h \in Hour, BeginArchiveHour(h) PROVE TypeOK'
  BY <1>1, <1>2, <1>3, <1>4, <1>6, <1>l, BeginHourTypes DEF BeginArchiveHour
<1>m. ASSUME NEW h \in Hour, ApplyArchiveBatch(h) PROVE TypeOK'
  BY <1>1, <1>2, <1>3, <1>4, <1>6, <1>m, BatchTypes DEF ApplyArchiveBatch
<1>n. ASSUME NEW h \in Hour, FailArchiveHour(h) PROVE TypeOK'
  <2>1. TypedArchive'
    BY <1>n, NotReadingType DEF FailArchiveHour, TypeOK, TypedArchive
  <2> QED BY <1>1, <1>2, <1>3, <1>4, <1>6, <1>n, <2>1 DEF FailArchiveHour
<1>o. CASE FetchIssueStates
  BY <1>1, <1>2, <1>3, <1>4, <1>5, <1>o, FetchStatesTypes DEF FetchIssueStates
<1>p. CASE ApplyTrackedStates
  BY <1>1, <1>2, <1>3, <1>4, <1>5, <1>p, TrackedTypes DEF ApplyTrackedStates
<1>q. CASE DropTrackedStates
  <2>1. TypedTracking'
    BY <1>q, EmptyTracking DEF DropTrackedStates, TypedTracking
  <2> QED BY <1>1, <1>2, <1>3, <1>4, <1>5, <1>q, <2>1 DEF DropTrackedStates
<1>r. ASSUME NEW t \in Time, DeliverWebhook(t) PROVE TypeOK'
  <2>1. catalog' \in [Issue -> Snapshot]
    BY <1>r, EventType DEF DeliverWebhook, TypeOK, HistoryInv
  <2>2. irregular' \subseteq Irregularities
    BY <1>r DEF DeliverWebhook, TypeOK, Irregularities
  <2> QED BY <1>1, <1>2, <1>3, <1>4, <1>5, <1>6, <1>r, <2>1, <2>2 DEF DeliverWebhook
<1>s. CASE PruneClosedIssues
  <2>1. catalog' \in [Issue -> Snapshot]
    BY <1>s, AbsentType DEF PruneClosedIssues, TypeOK
  <2> QED BY <1>1, <1>2, <1>3, <1>4, <1>5, <1>6, <1>s, <2>1 DEF PruneClosedIssues
<1>t. CASE PruneExcludedIssues
  <2>1. catalog' \in [Issue -> Snapshot]
    BY <1>t, AbsentType DEF PruneExcludedIssues, TypeOK
  <2>2. irregular' \subseteq Irregularities
    BY <1>t DEF PruneExcludedIssues, TypeOK, Irregularities
  <2> QED BY <1>1, <1>2, <1>3, <1>4, <1>5, <1>6, <1>t, <2>1, <2>2 DEF PruneExcludedIssues
<1>u. CASE RecomputeEligibility
  <2>1. TypedSync' /\ page' \in [Worker -> Page]
    BY <1>u DEF RecomputeEligibility, TypeOK, TypedSync
  <2> QED BY <1>1, <1>2, <1>3, <1>5, <1>6, <1>u, <2>1 DEF RecomputeEligibility
<1> QED BY <1>a, <1>b, <1>c, <1>e, <1>f, <1>g, <1>h, <1>i, <1>j, <1>k, <1>l, <1>m, <1>n, <1>o, <1>p,
           <1>q, <1>r, <1>s, <1>t, <1>u DEF Next

----------------------------------------------------------------------------
\* History.

LEMMA GitHubStep ==
  TypeOK /\ GitHubInv /\ [Next]_vars => GitHubInv'
<1> SUFFICES ASSUME TypeOK, GitHubInv, [Next]_vars PROVE GitHubInv'
  OBVIOUS
<1>1. CASE UNCHANGED githubVars
  BY <1>1 DEF GitHubInv, IsChange, githubVars
<1>2. ASSUME NEW i \in Issue, Change(i) PROVE GitHubInv'
  <2>1. PICK state \in {"OPEN", "CLOSED"} :
          /\ github' = [github EXCEPT ![i] = [state |-> state, at |-> now + 1]]
          /\ changes' = [changes EXCEPT ![now + 1] = [issue |-> i, state |-> state]]
    BY <1>2 DEF Change
  <2>2. now' = now + 1 /\ now \in Nat /\ now + 1 \in Time
    BY <1>2, BoundsAssumption DEF Change, TypeOK, Time
  <2>3. /\ \A t \in Time : changes'[t] = IF t = now + 1 THEN [issue |-> i, state |-> state] ELSE changes[t]
        /\ \A j \in Issue : github'[j] = IF j = i THEN [state |-> state, at |-> now + 1] ELSE github[j]
    BY <2>1 DEF TypeOK
  <2>4. ASSUME NEW t \in Time, changes'[t] # Absent
        PROVE  /\ changes'[t] \in [issue: Issue, state: {"OPEN", "CLOSED"}]
               /\ t <= now' /\ t <= github'[changes'[t].issue].at
    <3>1. CASE t = now + 1
      BY <2>2, <2>3, <3>1
    <3>2. CASE t # now + 1
      <4>1. /\ changes[t] # Absent /\ changes'[t] = changes[t]
            /\ changes[t] \in [issue: Issue, state: {"OPEN", "CLOSED"}]
            /\ t <= now /\ t <= github[changes[t].issue].at
        BY <2>3, <2>4, <3>2 DEF GitHubInv
      <4>2. changes[t].issue \in Issue /\ t \in Nat
        BY <4>1 DEF Time
      <4> QED BY <2>2, <2>3, <4>1, <4>2
    <3> QED BY <3>1, <3>2
  <2>5. ASSUME NEW j \in Issue
        PROVE  /\ github'[j].at <= now'
               /\ github'[j].state # "NONE" =>
                    /\ github'[j].at \in 1..now' /\ changes'[github'[j].at] # Absent
                    /\ changes'[github'[j].at].issue = j /\ changes'[github'[j].at].state = github'[j].state
    <3>1. CASE j = i
      <4>1. [issue |-> i, state |-> state] # Absent
        BY DEF Absent
      <4> QED BY <2>2, <2>3, <3>1, <4>1
    <3>2. CASE j # i
      <4>1. github'[j] = github[j] /\ github[j].at \in 0..MaxTime /\ github[j].at <= now
        BY <2>3, <3>2 DEF GitHubInv, TypeOK, Snapshot
      <4>2. github[j].state # "NONE" =>
              /\ github[j].at \in 1..now /\ changes[github[j].at] # Absent
              /\ changes[github[j].at].issue = j /\ changes[github[j].at].state = github[j].state
        BY DEF GitHubInv, IsChange
      <4>3. github[j].at \in 1..now => changes'[github[j].at] = changes[github[j].at]
        BY <2>2, <2>3, BoundsAssumption DEF Time
      <4> QED BY <2>2, <4>1, <4>2, <4>3, BoundsAssumption
    <3> QED BY <3>1, <3>2
  <2> QED BY <2>4, <2>5 DEF GitHubInv, IsChange
<1>3. ASSUME NEW i \in Issue, Delete(i) PROVE GitHubInv'
  <2>1. /\ now' = now + 1 /\ now \in Nat /\ changes' = changes
        /\ \A j \in Issue : github'[j] = IF j = i THEN [state |-> "NONE", at |-> now + 1] ELSE github[j]
    BY <1>3, BoundsAssumption DEF Delete, TypeOK
  <2>2. \A j \in Issue : github[j].at \in Nat
    BY BoundsAssumption DEF TypeOK, Snapshot
  <2>3. \A t \in Time : t \in Nat
    BY DEF Time
  <2> QED BY <2>1, <2>2, <2>3 DEF GitHubInv, IsChange
<1> QED
  BY <1>1, <1>2, <1>3 DEF Next, vars, BeginFullPass, BeginFreshnessPass, BeginPass, ClaimPage, FetchPage,
     CommitPage, DropPage, GiveUpPass, BeginArchiveHour, ApplyArchiveBatch, FailArchiveHour,
     FetchIssueStates, ApplyTrackedStates, DropTrackedStates, DeliverWebhook, PruneClosedIssues,
     PruneExcludedIssues, RecomputeEligibility

\* What a change of GitHub leaves as it was: the past, and an issue that is gone
\* unless it never was.
LEMMA PastStays ==
  ASSUME TypeOK, GitHubInv, NEW i \in Issue, Change(i) \/ Delete(i)
  PROVE  /\ now' = now + 1 /\ now \in Nat /\ 1..now \subseteq Time
         /\ \A t \in 1..now : changes'[t] = changes[t]
         /\ \A t \in Time : changes[t] # Absent => changes'[t] = changes[t]
         /\ \A j \in Issue : github[j].at <= github'[j].at /\ (github[j].at # 0 => github'[j].at # 0)
         /\ \A j \in Issue : github[j].state = "NONE" /\ github[j].at # 0 => github'[j].state = "NONE"
<1>1. CASE Change(i)
  <2>1. PICK state \in {"OPEN", "CLOSED"} :
          /\ github' = [github EXCEPT ![i] = [state |-> state, at |-> now + 1]]
          /\ changes' = [changes EXCEPT ![now + 1] = [issue |-> i, state |-> state]]
    BY <1>1 DEF Change
  <2>2. now' = now + 1 /\ now \in Nat /\ now + 1 \in Time /\ 1..now \subseteq Time
    BY <1>1, BoundsAssumption DEF Change, TypeOK, Time
  <2>3. /\ \A t \in Time : changes'[t] = IF t = now + 1 THEN [issue |-> i, state |-> state] ELSE changes[t]
        /\ \A j \in Issue : github'[j] = IF j = i THEN [state |-> state, at |-> now + 1] ELSE github[j]
    BY <2>1 DEF TypeOK
  <2>4. \A t \in Time : changes[t] # Absent => t <= now /\ t \in Nat
    BY DEF GitHubInv, Time
  <2>5. \A j \in Issue : github[j].at <= now /\ github[j].at \in Nat
    BY BoundsAssumption DEF GitHubInv, TypeOK, Snapshot
  <2>6. github[i].state = "NONE" => github[i].at = 0
    BY <1>1 DEF Change
  <2>7. \A t \in 1..now : changes'[t] = changes[t]
    BY <2>2, <2>3
  <2>8. \A t \in Time : changes[t] # Absent => changes'[t] = changes[t]
    BY <2>2, <2>3, <2>4
  <2> QED BY <2>2, <2>3, <2>5, <2>6, <2>7, <2>8
<1>2. CASE Delete(i)
  <2>1. /\ now' = now + 1 /\ now \in Nat /\ changes' = changes /\ 1..now \subseteq Time
        /\ \A j \in Issue : github'[j] = IF j = i THEN [state |-> "NONE", at |-> now + 1] ELSE github[j]
    BY <1>2, BoundsAssumption DEF Delete, TypeOK, Time
  <2>2. \A j \in Issue : github[j].at <= now /\ github[j].at \in Nat
    BY BoundsAssumption DEF GitHubInv, TypeOK, Snapshot
  <2> QED BY <2>1, <2>2
<1> QED BY <1>1, <1>2

LEMMA CopiesStay ==
  ASSUME TypeOK, HistoryInv, NEW i \in Issue, Change(i) \/ Delete(i)
  PROVE  CopiesInv'
<1>1. /\ now' = now + 1 /\ now \in Nat /\ 1..now \subseteq Time
      /\ \A t \in 1..now : changes'[t] = changes[t]
      /\ \A t \in Time : changes[t] # Absent => changes'[t] = changes[t]
      /\ \A j \in Issue : github[j].at <= github'[j].at /\ (github[j].at # 0 => github'[j].at # 0)
      /\ \A j \in Issue : github[j].state = "NONE" /\ github[j].at # 0 => github'[j].state = "NONE"
  BY PastStays DEF HistoryInv
<1>2. catalog' = catalog /\ page' = page /\ tracking' = tracking /\ reading' = reading
  BY DEF Change, Delete, syncVars, archiveVars
<1>3. ASSUME NEW at, NEW j, NEW state, IsChange(j, at, state)
      PROVE  at \in 1..now' /\ changes'[at] # Absent /\ changes'[at].issue = j /\ changes'[at].state = state
  BY <1>1, <1>3 DEF IsChange
<1>4. RowsInv'
  <2>1. ASSUME NEW j \in Issue, catalog[j] # Absent
        PROVE  /\ catalog[j].state # "NONE" /\ catalog[j].at \in 1..now'
               /\ changes'[catalog[j].at] # Absent /\ changes'[catalog[j].at].issue = j
               /\ \/ changes'[catalog[j].at].state = catalog[j].state
                  \/ catalog[j].state = "CLOSED" /\ github'[j].state = "NONE"
    <3>1. /\ catalog[j].state # "NONE" /\ catalog[j].at \in 1..now
          /\ changes[catalog[j].at] # Absent /\ changes[catalog[j].at].issue = j
          /\ \/ changes[catalog[j].at].state = catalog[j].state
             \/ catalog[j].state = "CLOSED" /\ github[j].state = "NONE"
      BY <2>1 DEF HistoryInv, CopiesInv, RowsInv, IsRow
    <3>2. catalog[j].at <= github[j].at /\ catalog[j].at \in 1..now
      BY <1>1, <3>1 DEF HistoryInv, GitHubInv
    <3>3. github[j].at # 0
      BY <1>1, <3>2
    <3>4. catalog[j].at \in 1..now' /\ changes'[catalog[j].at] = changes[catalog[j].at]
      BY <1>1, <3>2
    <3> QED BY <1>1, <3>1, <3>3, <3>4
  <2> QED BY <1>2, <2>1 DEF RowsInv, IsRow
<1>5. PagesInv'
  <2>1. \A w \in Worker, j \in Issue :
          /\ page[w].open[j] # 0 => IsChange(j, page[w].open[j], "OPEN")
          /\ page[w].closed[j] # 0 => IsChange(j, page[w].closed[j], "CLOSED")
    BY DEF HistoryInv, CopiesInv, PagesInv
  <2> QED BY <1>2, <1>3, <2>1 DEF PagesInv, IsChange
<1>6. AnswersInv'
  <2>1. \A j \in DOMAIN tracking : j \in Issue
    BY BoundsAssumption DEF TypeOK
  <2>2. \A j \in DOMAIN tracking :
          \/ tracking[j].state = "NONE" /\ github[j].state = "NONE" /\ github[j].at # 0
          \/ tracking[j].state # "NONE" /\ IsChange(j, tracking[j].at, tracking[j].state)
    BY DEF HistoryInv, CopiesInv, AnswersInv
  <2> QED BY <1>1, <1>2, <1>3, <2>1, <2>2 DEF AnswersInv, IsChange
<1>7. HoursInv'
  <2>1. \A h \in Hour : EventsOf(h) \subseteq Time
    BY DEF EventsOf
  <2> QED BY <1>1, <1>2, <2>1 DEF HistoryInv, CopiesInv, HoursInv
<1> QED BY <1>4, <1>5, <1>6, <1>7 DEF CopiesInv

\* A page lists issues as they are, and every listed issue it did not list is
\* still ahead of its cursor.
LEMMA PageLists ==
  ASSUME TypeOK, NEW state \in {"OPEN", "CLOSED"}, NEW since, NEW cursor,
         NEW a \in PagesOf(state, since, cursor), NEW i \in Issue
  PROVE  /\ a.issues[i] # 0 => github[i].state = state /\ a.issues[i] = github[i].at
         /\ i \in Listed(state, since, cursor) /\ (~a.more \/ github[i].at >= a.cursor) =>
              a.issues[i] = github[i].at
<1>1. CASE Listed(state, since, cursor) = {}
  BY <1>1 DEF PagesOf, LastPage, Nothing
<1>2. CASE Listed(state, since, cursor) # {}
  <2> DEFINE listed == Listed(state, since, cursor)
             downTo(oldest) == {j \in listed : github[j].at >= oldest}
             answer(oldest) ==
               [issues |-> [j \in Issue |-> IF j \in downTo(oldest) THEN github[j].at ELSE 0],
                cursor |-> oldest,
                more |-> downTo(oldest) # listed]
  <2>1. PICK last \in listed : a = answer(github[last].at)
    BY <1>2 DEF PagesOf
  <2>2. a.issues[i] = IF i \in downTo(github[last].at) THEN github[i].at ELSE 0
    BY <2>1
  <2>3. i \in listed => github[i].state = state
    BY DEF Listed
  <2>4. ~a.more => downTo(github[last].at) = listed
    BY <2>1
  <2>5. a.cursor = github[last].at
    BY <2>1
  <2> QED BY <2>2, <2>3, <2>4, <2>5
<1> QED BY <1>1, <1>2

LEMMA LastPageLists ==
  ASSUME NEW i \in Issue
  PROVE  LastPage.issues[i] = 0 /\ ~LastPage.more
  BY DEF LastPage, Nothing

\* What FetchPage does, with each connection's answer named.
FetchedBy(w, open, closed) ==
  LET copy == page[w].after IN
  /\ open \in IF copy.openDone THEN {LastPage} ELSE PagesOf("OPEN", copy.since, copy.openCursor)
  /\ closed \in IF copy.closedDone \/ copy.since = 0 THEN {LastPage}
                ELSE PagesOf("CLOSED", copy.since, copy.closedCursor)
  /\ page' = [page EXCEPT ![w] =
       [stage |-> "fetched", open |-> open.issues, closed |-> closed.issues,
        after |-> [copy EXCEPT !.deep = TRUE,
                     !.openCursor = open.cursor, !.openDone = ~open.more,
                     !.closedCursor = closed.cursor, !.closedDone = ~closed.more]]]

LEMMA FetchAnswers ==
  ASSUME NEW w \in Worker, FetchPage(w)
  PROVE  \E open, closed : FetchedBy(w, open, closed)
  BY DEF FetchPage, FetchedBy

LEMMA FetchedLists ==
  ASSUME TypeOK, NEW w \in Worker, NEW open, NEW closed, FetchedBy(w, open, closed), NEW i \in Issue
  PROVE  /\ open.issues[i] # 0 => github[i].state = "OPEN" /\ open.issues[i] = github[i].at
         /\ closed.issues[i] # 0 => github[i].state = "CLOSED" /\ closed.issues[i] = github[i].at
  BY PageLists, LastPageLists DEF FetchedBy

LEMMA FetchHistory ==
  ASSUME TypeOK, HistoryInv, NEW w \in Worker, FetchPage(w)
  PROVE  PagesInv'
<1>1. PICK open, closed : FetchedBy(w, open, closed)
  BY FetchAnswers
<1>2. ASSUME NEW i \in Issue
      PROVE  /\ open.issues[i] # 0 => IsChange(i, open.issues[i], "OPEN")
             /\ closed.issues[i] # 0 => IsChange(i, closed.issues[i], "CLOSED")
  BY <1>1, FetchedLists DEF HistoryInv, GitHubInv
<1>3. \A v \in Worker :
        /\ page'[v].open = IF v = w THEN open.issues ELSE page[v].open
        /\ page'[v].closed = IF v = w THEN closed.issues ELSE page[v].closed
  BY <1>1 DEF FetchedBy, TypeOK
<1>4. now' = now /\ changes' = changes
  BY DEF FetchPage, githubVars
<1> QED BY <1>2, <1>3, <1>4 DEF PagesInv, IsChange, HistoryInv, CopiesInv

\* Between changes of GitHub, rows that are history are history afterwards.
LEMMA RowsStay ==
  ASSUME UNCHANGED githubVars, \A i \in Issue : IsRow(i, catalog'[i])
  PROVE  RowsInv'
  BY DEF RowsInv, IsRow, githubVars

LEMMA AbsentIsRow == \A i \in Issue : IsRow(i, Absent)
  BY DEF IsRow

LEMMA ChangeIsRow ==
  ASSUME TypeOK, GitHubInv, NEW i \in Issue, NEW at, NEW state, IsChange(i, at, state)
  PROVE  IsRow(i, [state |-> state, at |-> at]) /\ state \in {"OPEN", "CLOSED"}
<1>1. at \in Time
  BY BoundsAssumption DEF IsChange, TypeOK, Time
<1> QED BY <1>1 DEF IsRow, IsChange, GitHubInv

LEMMA CommitHistory ==
  ASSUME TypeOK, HistoryInv, NEW w \in Worker, CommitPage(w)
  PROVE  RowsInv' /\ PagesInv'
<1>1. ASSUME NEW i \in Issue PROVE IsRow(i, Written(page[w])[i])
  <2>1. Written(page[w])[i] \in {[state |-> "OPEN", at |-> page[w].open[i]],
                                 [state |-> "CLOSED", at |-> page[w].closed[i]], catalog[i]}
    BY DEF Written
  <2>2. Written(page[w])[i] = [state |-> "OPEN", at |-> page[w].open[i]] =>
          page[w].open[i] # 0 \/ Written(page[w])[i] = catalog[i]
    BY DEF Written
  <2>3. Written(page[w])[i] = [state |-> "CLOSED", at |-> page[w].closed[i]] =>
          page[w].closed[i] # 0 \/ Written(page[w])[i] = catalog[i]
    BY DEF Written
  <2> QED BY <2>1, <2>2, <2>3, ChangeIsRow DEF HistoryInv, CopiesInv, RowsInv, PagesInv
<1>2. RowsInv'
  BY <1>1, RowsStay DEF CommitPage
<1>3. \A v \in Worker : page'[v] \in {page[v], NoPage}
  BY DEF CommitPage, TypeOK
<1>4. \A i \in Issue : NoPage.open[i] = 0 /\ NoPage.closed[i] = 0
  BY DEF NoPage, Nothing
<1>5. PagesInv'
  BY <1>3, <1>4 DEF PagesInv, IsChange, HistoryInv, CopiesInv, CommitPage, githubVars
<1> QED BY <1>2, <1>5

LEMMA ArchiveRow ==
  ASSUME TypeOK, HistoryInv, NEW h \in Hour, NEW i \in reading[h].left, NEW updateOnly \in BOOLEAN
  PROVE  IsRow(i, ArchiveWrite(i, NewestOf(h, i), updateOnly))
<1>1. HasEvent(h, i) /\ i \in Issue
  BY DEF HistoryInv, CopiesInv, HoursInv, HasEvent, TypeOK, Reading
<1>2. IsChange(i, NewestOf(h, i), changes[NewestOf(h, i)].state)
  BY <1>1, NewestIsNewest DEF HistoryInv, GitHubInv, IsChange, Time
<1> QED BY <1>1, <1>2, ChangeIsRow DEF ArchiveWrite, HistoryInv, CopiesInv, RowsInv

LEMMA BatchHistory ==
  ASSUME TypeOK, HistoryInv, NEW h \in Hour, ApplyArchiveBatch(h)
  PROVE  RowsInv' /\ HoursInv'
<1>1. PICK batch \in SUBSET reading[h].left :
        /\ catalog' = [i \in Issue |->
             IF i \in batch THEN ArchiveWrite(i, NewestOf(h, i), reading[h].updateOnly)
             ELSE catalog[i]]
        /\ IF batch = reading[h].left
           THEN reading' = [reading EXCEPT ![h] = NotReading]
           ELSE reading' = [reading EXCEPT ![h].left = @ \ batch]
  BY DEF ApplyArchiveBatch
<1>2. reading[h].updateOnly \in BOOLEAN /\ reading[h] \in Reading
  BY DEF TypeOK, Reading
<1>3. \A i \in Issue : IsRow(i, catalog'[i])
  BY <1>1, <1>2, ArchiveRow DEF HistoryInv, CopiesInv, RowsInv
<1>4. RowsInv'
  BY <1>3, RowsStay DEF ApplyArchiveBatch
<1>5. \A g \in Hour : reading'[g].left \subseteq reading[g].left
  BY <1>1, <1>2 DEF TypeOK, NotReading, Reading
<1>6. HoursInv'
  BY <1>5 DEF ApplyArchiveBatch, HoursInv, HistoryInv, CopiesInv, githubVars
<1> QED BY <1>4, <1>6

LEMMA BeginHourHistory ==
  ASSUME TypeOK, HistoryInv, NEW h \in Hour, BeginArchiveHour(h)
  PROVE  HoursInv'
<1>1. ASSUME NEW i \in Issue, NewestOf(h, i) # 0 PROVE HasEvent(h, i)
  BY <1>1, NewestNone
<1>2. ASSUME NEW g \in Hour, NEW i \in reading'[g].left
      PROVE  \E t \in EventsOf(g) : changes[t] # Absent /\ changes[t].issue = i
  <2>1. reading'[g].left \subseteq reading[g].left \/ (g = h /\ i \in Issue /\ NewestOf(h, i) # 0)
    BY <1>2 DEF BeginArchiveHour, TypeOK
  <2> QED BY <1>1, <1>2, <2>1 DEF HasEvent, HistoryInv, CopiesInv, HoursInv
<1> QED BY <1>2 DEF HoursInv, BeginArchiveHour, githubVars

LEMMA OpenIsRow ==
  ASSUME TypeOK, HistoryInv, NEW i \in Issue, catalog[i].state = "OPEN"
  PROVE  catalog[i].at \in 1..now /\ catalog[i].at <= github[i].at /\ github[i].at # 0
<1>1. catalog[i] # Absent
  BY DEF Absent
<1>2. /\ catalog[i].at \in 1..now /\ changes[catalog[i].at] # Absent /\ changes[catalog[i].at].issue = i
  BY <1>1 DEF HistoryInv, CopiesInv, RowsInv, IsRow
<1>3. catalog[i].at \in Time /\ now \in Nat /\ github[i].at \in Nat
  BY <1>2, BoundsAssumption DEF TypeOK, Time, Snapshot
<1>4. catalog[i].at <= github[i].at
  BY <1>2, <1>3 DEF HistoryInv, GitHubInv
<1> QED BY <1>2, <1>3, <1>4

LEMMA FetchStatesHistory ==
  ASSUME TypeOK, HistoryInv, FetchIssueStates
  PROVE  AnswersInv'
<1>1. PICK due \in SUBSET {i \in Saved : catalog[i].state = "OPEN"} : tracking' = [i \in due |-> github[i]]
  BY DEF FetchIssueStates
<1>2. ASSUME NEW i \in due
      PROVE  \/ github[i].state = "NONE" /\ github[i].at # 0
             \/ github[i].state # "NONE" /\ IsChange(i, github[i].at, github[i].state)
  BY OpenIsRow, BoundsAssumption DEF HistoryInv, GitHubInv
<1> QED BY <1>1, <1>2 DEF AnswersInv, IsChange, FetchIssueStates, githubVars

LEMMA TrackedHistory ==
  ASSUME TypeOK, HistoryInv, ApplyTrackedStates
  PROVE  RowsInv' /\ AnswersInv'
<1>1. ASSUME NEW i \in DOMAIN tracking PROVE IsRow(i, Tracked(i))
  <2>1. i \in Issue /\ tracking[i] \in Snapshot /\ catalog[i] \in Snapshot
    BY BoundsAssumption DEF TypeOK
  <2>2. CASE catalog[i].state # "OPEN"
    BY <2>1, <2>2 DEF Tracked, HistoryInv, CopiesInv, RowsInv
  <2>3. CASE catalog[i].state = "OPEN" /\ tracking[i].state = "NONE"
    <3>1. github[i].state = "NONE" /\ catalog[i] # Absent
      BY <2>3 DEF HistoryInv, CopiesInv, AnswersInv, Absent
    <3>2. /\ Tracked(i).state = "CLOSED" /\ Tracked(i).at = catalog[i].at
      BY <2>1, <2>3 DEF Tracked, Snapshot
    <3>3. IsRow(i, catalog[i])
      BY <2>1 DEF HistoryInv, CopiesInv, RowsInv
    <3> QED BY <3>1, <3>2, <3>3 DEF IsRow
  <2>4. CASE catalog[i].state = "OPEN" /\ tracking[i].state # "NONE"
    <3>1. tracking[i] = [state |-> tracking[i].state, at |-> tracking[i].at]
      BY <2>1 DEF Snapshot
    <3>2. IsChange(i, tracking[i].at, tracking[i].state)
      BY <2>4 DEF HistoryInv, CopiesInv, AnswersInv
    <3> QED BY <2>1, <2>4, <3>1, <3>2, ChangeIsRow DEF Tracked, HistoryInv
  <2> QED BY <2>2, <2>3, <2>4
<1>2. \A i \in Issue : IsRow(i, catalog'[i])
  BY <1>1 DEF ApplyTrackedStates, HistoryInv, CopiesInv, RowsInv
<1>3. RowsInv'
  BY <1>2, RowsStay DEF ApplyTrackedStates
<1>4. AnswersInv'
  BY EmptyTracking DEF ApplyTrackedStates, AnswersInv
<1> QED BY <1>3, <1>4

\* Each part of the history between changes of GitHub, when what it is about
\* does not change.
LEMMA HistoryStays ==
  ASSUME HistoryInv, UNCHANGED githubVars
  PROVE  /\ catalog' = catalog => RowsInv'
         /\ page' = page => PagesInv'
         /\ tracking' = tracking => AnswersInv'
         /\ reading' = reading => HoursInv'
  BY DEF HistoryInv, CopiesInv, RowsInv, IsRow, PagesInv, IsChange, AnswersInv, HoursInv, githubVars

LEMMA PagesDropped ==
  ASSUME HistoryInv, UNCHANGED githubVars,
         \A w \in Worker : page'[w] = page[w] \/ (page'[w].open = Nothing /\ page'[w].closed = Nothing)
  PROVE  PagesInv'
<1>1. \A i \in Issue : Nothing[i] = 0
  BY DEF Nothing
<1> QED BY <1>1 DEF HistoryInv, CopiesInv, PagesInv, IsChange, githubVars

LEMMA CopiesStep ==
  TypeOK /\ HistoryInv /\ [Next]_vars => CopiesInv'
<1> SUFFICES ASSUME TypeOK, HistoryInv, [Next]_vars PROVE CopiesInv'
  OBVIOUS
<1> USE HistoryStays DEF CopiesInv, syncVars, archiveVars
<1>a. CASE UNCHANGED vars
  BY <1>a DEF vars
<1>b. ASSUME NEW i \in Issue, Change(i) \/ Delete(i) PROVE CopiesInv'
  BY <1>b, CopiesStay
<1>c. CASE BeginFullPass \/ BeginFreshnessPass
  BY <1>c DEF BeginFullPass, BeginFreshnessPass, BeginPass
<1>d. ASSUME NEW w \in Worker, ClaimPage(w) PROVE CopiesInv'
  <2>1. \A v \in Worker : page'[v] = page[v] \/ (page'[v].open = Nothing /\ page'[v].closed = Nothing)
    BY <1>d DEF ClaimPage, TypeOK, NoPage
  <2> QED BY <1>d, <2>1, PagesDropped DEF ClaimPage
<1>e. ASSUME NEW w \in Worker, FetchPage(w) PROVE CopiesInv'
  BY <1>e, FetchHistory DEF FetchPage
<1>f. ASSUME NEW w \in Worker, CommitPage(w) PROVE CopiesInv'
  BY <1>f, CommitHistory DEF CommitPage
<1>g. ASSUME NEW w \in Worker, DropPage(w) PROVE CopiesInv'
  <2>1. \A v \in Worker : page'[v] = page[v] \/ (page'[v].open = Nothing /\ page'[v].closed = Nothing)
    BY <1>g DEF DropPage, TypeOK, NoPage
  <2> QED BY <1>g, <2>1, PagesDropped DEF DropPage
<1>h. CASE GiveUpPass
  <2>1. \A v \in Worker : page'[v] = page[v] \/ (page'[v].open = Nothing /\ page'[v].closed = Nothing)
    BY <1>h DEF GiveUpPass, NoPage
  <2> QED BY <1>h, <2>1, PagesDropped DEF GiveUpPass
<1>i. ASSUME NEW h \in Hour, BeginArchiveHour(h) PROVE CopiesInv'
  BY <1>i, BeginHourHistory DEF BeginArchiveHour
<1>j. ASSUME NEW h \in Hour, ApplyArchiveBatch(h) PROVE CopiesInv'
  BY <1>j, BatchHistory DEF ApplyArchiveBatch
<1>k. ASSUME NEW h \in Hour, FailArchiveHour(h) PROVE CopiesInv'
  <2>1. \A g \in Hour : reading'[g] = reading[g] \/ reading'[g].left = {}
    BY <1>k DEF FailArchiveHour, NotReading, TypeOK
  <2>2. HoursInv'
    BY <1>k, <2>1 DEF FailArchiveHour, HoursInv, HistoryInv, githubVars
  <2> QED BY <1>k, <2>2 DEF FailArchiveHour
<1>l. CASE FetchIssueStates
  BY <1>l, FetchStatesHistory DEF FetchIssueStates
<1>m. CASE ApplyTrackedStates
  BY <1>m, TrackedHistory DEF ApplyTrackedStates
<1>n. CASE DropTrackedStates
  <2>1. AnswersInv'
    BY <1>n, EmptyTracking DEF DropTrackedStates, AnswersInv
  <2> QED BY <1>n, <2>1 DEF DropTrackedStates
<1>o. ASSUME NEW t \in Time, DeliverWebhook(t) PROVE CopiesInv'
  <2>1. changes[t].issue \in Issue /\ IsChange(changes[t].issue, t, changes[t].state)
    BY <1>o DEF DeliverWebhook, HistoryInv, GitHubInv, IsChange, Time
  <2>2. \A i \in Issue : IsRow(i, catalog'[i])
    BY <1>o, <2>1, ChangeIsRow DEF DeliverWebhook, TypeOK, HistoryInv, RowsInv
  <2> QED BY <1>o, <2>2, RowsStay DEF DeliverWebhook
<1>p. CASE PruneClosedIssues
  <2>1. \A i \in Issue : catalog'[i] \in {catalog[i], Absent}
    BY <1>p DEF PruneClosedIssues, TypeOK
  <2>2. \A i \in Issue : IsRow(i, catalog'[i])
    BY <2>1, AbsentIsRow DEF HistoryInv, RowsInv
  <2> QED BY <1>p, <2>2, RowsStay DEF PruneClosedIssues
<1>q. CASE PruneExcludedIssues
  <2>1. \A i \in Issue : catalog'[i] \in {catalog[i], Absent}
    BY <1>q DEF PruneExcludedIssues
  <2>2. \A i \in Issue : IsRow(i, catalog'[i])
    BY <2>1, AbsentIsRow DEF HistoryInv, RowsInv
  <2> QED BY <1>q, <2>2, RowsStay DEF PruneExcludedIssues
<1>r. CASE RecomputeEligibility
  BY <1>r DEF RecomputeEligibility
<1> QED BY <1>a, <1>b, <1>c, <1>d, <1>e, <1>f, <1>g, <1>h, <1>i, <1>j, <1>k, <1>l, <1>m, <1>n, <1>o, <1>p,
           <1>q, <1>r DEF Next

LEMMA HistoryStep ==
  TypeOK /\ HistoryInv /\ [Next]_vars => HistoryInv'
  BY GitHubStep, CopiesStep DEF HistoryInv

LEMMA InitHistory ==
  Init => TypeOK /\ HistoryInv
<1> SUFFICES ASSUME Init PROVE TypeOK /\ HistoryInv
  OBVIOUS
<1>1. TypeOK
  <2>1. /\ TypedGitHub /\ TypedSync
    BY AbsentType, NewestType, NoPassType, BoundsAssumption DEF Init, TypedGitHub, TypedSync
  <2>2. /\ TypedArchive /\ TypedTracking /\ page \in [Worker -> Page]
    BY NotReadingType, NoPageType, EmptyTracking, BoundsAssumption
       DEF Init, TypedArchive, TypedTracking, Hour
  <2> QED BY <2>1, <2>2, AbsentType, TypeParts DEF Init
<1>2. GitHubInv
  BY DEF Init, GitHubInv, Absent
<1>3. CopiesInv
  BY EmptyTracking DEF Init, CopiesInv, RowsInv, IsRow, PagesInv, AnswersInv, HoursInv,
     NoPage, Nothing, NotReading
<1> QED BY <1>1, <1>2, <1>3 DEF HistoryInv

LEMMA TypedHistory == Spec => [](TypeOK /\ HistoryInv)
<1>1. TypeOK /\ HistoryInv /\ [Next]_vars => (TypeOK /\ HistoryInv)'
  BY TypeStep, HistoryStep
<1> QED BY InitHistory, <1>1, PTL DEF Spec

----------------------------------------------------------------------------
\* Every variable keeps its type.
THEOREM TypeCorrect == Spec => []TypeOK
<1> QED BY TypedHistory, PTL

\* Whatever order the crawl, the archive, the saved issues' check and webhooks
\* write in, and whatever they hold when it changes, a stored row is a state
\* GitHub had (UpsertIssueTx, applyArchiveIssues, SetStateByRepoAndNumber).
THEOREM RowsAreHistory == Spec => []CatalogIsHistory
<1>1. TypeOK /\ HistoryInv => CatalogIsHistory
  <2> SUFFICES ASSUME TypeOK, HistoryInv, NEW i \in Issue, catalog[i] # Absent
               PROVE  /\ catalog[i].at \in 1..now
                      /\ \/ changes[catalog[i].at] = [issue |-> i, state |-> catalog[i].state]
                         \/ catalog[i].state = "CLOSED" /\ github[i].state = "NONE"
    BY DEF CatalogIsHistory
  <2>1. IsRow(i, catalog[i])
    BY DEF HistoryInv, CopiesInv, RowsInv
  <2>2. catalog[i].at \in Time
    BY <2>1, BoundsAssumption DEF IsRow, TypeOK, Time
  <2>3. changes[catalog[i].at] \in [issue: Issue, state: {"OPEN", "CLOSED"}]
    BY <2>1, <2>2 DEF IsRow, HistoryInv, GitHubInv
  <2>4. changes[catalog[i].at] = [issue |-> changes[catalog[i].at].issue, state |-> changes[catalog[i].at].state]
    BY <2>3
  <2> QED BY <2>1, <2>4 DEF IsRow
<1> QED BY TypedHistory, <1>1, PTL

-----------------------------------------------------------------------------
(***************************************************************************)
(* IssuesReflected: what a pass, its pages, the archive and the saved       *)
(* issues' check may still owe the catalog, per issue, and that no step     *)
(* loses it.                                                                *)
(***************************************************************************)

Held(w) == page[w].stage # "none"

\* A connection's cursor p has passed the time t.
PastOpen(p, t) == p.openDone \/ t >= p.openCursor
PastClosed(p, t) == p.closedDone \/ t >= p.closedCursor

\* Passes follow one another, what workers hold is of the pass in progress, and
\* hours are read once they are over.
PassInv ==
  /\ through <= now
  /\ IF pass.active THEN pass.since <= through /\ through <= pass.start /\ pass.start <= now
     ELSE pass = NoPass
HeldInv ==
  \A w \in Worker :
    IF Held(w) THEN /\ pass.active /\ page[w].after.active
                    /\ page[w].after.start = pass.start /\ page[w].after.since = pass.since
                    /\ page[w].stage = "claimed" => page[w].open = Nothing /\ page[w].closed = Nothing
    ELSE page[w] = NoPage
HoursOver ==
  \A h \in Hour : h \in applied \/ reading[h] # NotReading => \A t \in EventsOf(h) : t <= now

\* A page shows an issue as it is, unless the issue changed since the pass
\* started.
FreshInv ==
  \A w \in Worker, i \in Issue : Held(w) =>
    /\ page[w].open[i] # 0 =>
         github[i] = [state |-> "OPEN", at |-> page[w].open[i]] \/ github[i].at > pass.start
    /\ page[w].closed[i] # 0 =>
         github[i] = [state |-> "CLOSED", at |-> page[w].closed[i]] \/ github[i].at > pass.start

OrderInv == PassInv /\ HeldInv /\ HoursOver /\ FreshInv

\* Nothing of the pass in progress has been read yet.
Untouched == ~pass.openDone /\ pass.openCursor = Newest /\ \A w \in Worker : ~Held(w)

\* An open issue is stored as it is once the watermark covers it, or the pass's
\* cursor has passed it; a page in hand holds what is between the two; and an
\* answer of the saved issues' check that is out of date is of an issue that
\* neither covers.
OpenStored(i) ==
  \/ github[i].at <= through
  \/ pass.active /\ github[i].at <= pass.start /\ PastOpen(pass, github[i].at)
  => catalog[i] = github[i]
OpenHeld(i) ==
  \A w \in Worker :
    Held(w) /\ github[i].at <= pass.start /\ PastOpen(page[w].after, github[i].at) =>
      catalog[i] = github[i] \/ page[w].open[i] = github[i].at
OpenAnswered(i) ==
  i \in DOMAIN tracking /\ tracking[i] # github[i] =>
    /\ github[i].at > through
    /\ pass.active /\ ~Untouched => github[i].at > pass.start
OpenInv ==
  "pruned" \notin irregular =>
    \A i \in Issue : github[i].state = "OPEN" => OpenStored(i) /\ OpenHeld(i) /\ OpenAnswered(i)

\* The archive has read what closed issue i.
ClosingRead(i) ==
  \/ HourOf(github[i].at) \in applied
  \/ /\ reading[HourOf(github[i].at)] # NotReading
     /\ i \notin reading[HourOf(github[i].at)].left

\* A closed issue shown open after its closing was read: a page of a pass that
\* started before the closing wrote it.
ShownOpen(i) ==
  github[i].state = "CLOSED" /\ catalog[i].state = "OPEN" /\ ClosingRead(i)

\* Such an issue is ahead of the watermark and of whatever the pass will cover,
\* or still to be listed.
ClosingAhead(i) ==
  /\ synced
  /\ github[i].at > through
  /\ pass.active => \/ github[i].at > pass.start
                    \/ pass.since # 0 /\ ~PastClosed(pass, github[i].at)
ClosingHeld(i) ==
  \A w \in Worker : Held(w) =>
    \/ github[i].at > pass.start
    \/ pass.since # 0 /\ ~PastClosed(page[w].after, github[i].at)
    \/ page[w].closed[i] = github[i].at
NewestRead ==
  \A i \in Issue : github[i].state = "CLOSED" /\ ClosingRead(i) => HourOf(github[i].at) <= newestHour
ClosedInv ==
  irregular = {} =>
    NewestRead /\ \A i \in Issue : ShownOpen(i) => ClosingAhead(i) /\ ClosingHeld(i)

Base == TypeOK /\ HistoryInv /\ OrderInv

----------------------------------------------------------------------------
\* The order of passes, pages and hours.

\* The times in a state are numbers.
LEMMA Numbers ==
  ASSUME TypeOK
  PROVE  /\ now \in Nat /\ through \in Nat /\ MaxTime \in Nat
         /\ pass.start \in Nat /\ pass.since \in Nat /\ pass.openCursor \in Nat /\ pass.closedCursor \in Nat
         /\ \A i \in Issue : github[i].at \in 0..MaxTime /\ github[i] = [state |-> github[i].state, at |-> github[i].at]
         /\ \A w \in Worker : page[w] \in Page /\ page[w].after \in Pass
  BY BoundsAssumption DEF TypeOK, Pass, Page, Snapshot, Newest

\* What becomes of the pass and of the pages when one of them is committed.
LEMMA CommitEffect ==
  ASSUME TypeOK, PassInv, HeldInv, NEW w \in Worker, CommitPage(w)
  PROVE  LET after == page[w].after
             ends == after.openDone /\ after.closedDone
         IN  /\ Held(w) /\ pass.active /\ after.active
             /\ after.start = pass.start /\ after.since = pass.since
             /\ IF ends THEN pass' = NoPass /\ ~pass'.active ELSE pass' = after
             /\ through' = IF ends /\ pass.start > through THEN pass.start ELSE through
             /\ \A v \in Worker : IF Held(v)' THEN ~ends /\ page'[v] = page[v] /\ Held(v)
                                  ELSE page'[v] = NoPage
<1>1. page[w].stage = "fetched" /\ Held(w)
  BY DEF CommitPage, Held
<1>2. /\ pass.active /\ page[w].after.active
      /\ page[w].after.start = pass.start /\ page[w].after.since = pass.since
  BY <1>1 DEF HeldInv
<1>3. \A v \in Worker : page'[v] = page[v] \/ page'[v] = NoPage
  BY DEF CommitPage, TypeOK
<1>4. page[w].after.openDone /\ page[w].after.closedDone => \A v \in Worker : page'[v] = NoPage
  BY DEF CommitPage
<1>5. NoPage.stage = "none" /\ ~NoPass.active
  BY DEF NoPage, NoPass
<1>6. \A v \in Worker : ~Held(v) => page[v] = NoPage
  BY DEF HeldInv
<1> QED BY <1>1, <1>2, <1>3, <1>4, <1>5, <1>6 DEF CommitPage, Held

\* What every step but a change of GitHub keeps of the order, when it moves
\* neither the pass nor a page.
LEMMA OrderStays ==
  ASSUME OrderInv, UNCHANGED githubVars
  PROVE  /\ UNCHANGED <<through, pass>> => PassInv'
         /\ UNCHANGED <<pass, page>> => HeldInv' /\ FreshInv'
         /\ UNCHANGED <<applied, reading>> => HoursOver'
  BY DEF OrderInv, PassInv, HeldInv, HoursOver, FreshInv, Held, githubVars

LEMMA ChangeOrder ==
  ASSUME Base, NEW i \in Issue, Change(i) \/ Delete(i)
  PROVE  OrderInv'
<1>1. /\ now' = now + 1 /\ now \in Nat
      /\ through' = through /\ pass' = pass /\ page' = page /\ applied' = applied /\ reading' = reading
  BY PastStays DEF Base, HistoryInv, Change, Delete, syncVars, archiveVars
<1>2. \A j \in Issue : github'[j] = github[j] \/ github'[j].at = now + 1
  BY DEF Base, TypeOK, Change, Delete
<1>3. /\ through \in Nat /\ pass.start \in Nat
  BY Numbers DEF Base
<1>4. PassInv' /\ HeldInv'
  BY <1>1, <1>3 DEF Base, OrderInv, PassInv, HeldInv, Held
<1>5. HoursOver'
  <2>1. \A h \in Hour : \A t \in EventsOf(h) : t \in Nat
    BY DEF EventsOf, Time
  <2> QED BY <1>1, <2>1 DEF Base, OrderInv, HoursOver
<1>6. FreshInv'
  <2>1. \A w \in Worker : Held(w) => pass.active
    BY DEF Base, OrderInv, HeldInv
  <2>2. pass.active => pass.start < now + 1
    BY <1>1, <1>3 DEF Base, OrderInv, PassInv
  <2> QED BY <1>1, <1>2, <2>1, <2>2 DEF Base, OrderInv, FreshInv, Held
<1> QED BY <1>4, <1>5, <1>6 DEF OrderInv

LEMMA BeginOrder ==
  ASSUME Base, NEW since, BeginPass(since), since = 0 \/ since = through
  PROVE  OrderInv'
<1>1. pass' = [NoPass EXCEPT !.active = TRUE, !.start = now, !.since = since]
  BY DEF BeginPass
<1>2. pass'.active /\ pass'.start = now /\ pass'.since = since
  BY <1>1 DEF NoPass
<1>3. PassInv'
  BY <1>2, Numbers DEF Base, OrderInv, PassInv, BeginPass, githubVars
<1>4. \A w \in Worker : ~Held(w) /\ page[w] = NoPage
  BY DEF Base, OrderInv, HeldInv, BeginPass
<1>5. HeldInv' /\ FreshInv'
  BY <1>4 DEF HeldInv, FreshInv, Held, BeginPass
<1> QED BY <1>3, <1>5, OrderStays DEF Base, OrderInv, BeginPass, archiveVars

LEMMA ClaimOrder ==
  ASSUME Base, NEW w \in Worker, ClaimPage(w)
  PROVE  OrderInv'
<1>1. \A v \in Worker :
        page'[v] = IF v = w THEN [NoPage EXCEPT !.stage = "claimed", !.after = pass] ELSE page[v]
  BY DEF ClaimPage, Base, TypeOK
<1>2. /\ page'[w].stage = "claimed" /\ page'[w].after = pass
      /\ page'[w].open = Nothing /\ page'[w].closed = Nothing
  BY <1>1 DEF NoPage
<1>3. HeldInv'
  BY <1>1, <1>2 DEF HeldInv, Held, ClaimPage, Base, OrderInv
<1>4. FreshInv'
  <2>1. \A i \in Issue : Nothing[i] = 0
    BY DEF Nothing
  <2> QED BY <1>1, <1>2, <2>1 DEF FreshInv, Held, ClaimPage, Base, OrderInv, githubVars
<1> QED BY <1>3, <1>4, OrderStays DEF Base, OrderInv, ClaimPage, archiveVars

LEMMA AfterFields ==
  ASSUME NEW copy \in Pass, NEW oc, NEW od, NEW cc, NEW cd
  PROVE  LET after == [copy EXCEPT !.deep = TRUE, !.openCursor = oc, !.openDone = od,
                                   !.closedCursor = cc, !.closedDone = cd]
         IN  /\ after.active = copy.active /\ after.start = copy.start /\ after.since = copy.since
             /\ after.openCursor = oc /\ after.openDone = od
             /\ after.closedCursor = cc /\ after.closedDone = cd
  BY DEF Pass

\* The page a worker has fetched.
LEMMA FetchEffect ==
  ASSUME Base, NEW w \in Worker, NEW open, NEW closed, FetchedBy(w, open, closed), FetchPage(w)
  PROVE  /\ \A v \in Worker : v # w => page'[v] = page[v]
         /\ page'[w].stage = "fetched" /\ page'[w].open = open.issues /\ page'[w].closed = closed.issues
         /\ page'[w].after.active = page[w].after.active
         /\ page'[w].after.start = page[w].after.start /\ page'[w].after.since = page[w].after.since
         /\ page'[w].after.openCursor = open.cursor /\ page'[w].after.openDone = ~open.more
         /\ page'[w].after.closedCursor = closed.cursor /\ page'[w].after.closedDone = ~closed.more
         /\ Held(w) /\ Held(w)'
         /\ page[w].open = Nothing /\ page[w].closed = Nothing
<1> DEFINE od == ~open.more
           cd == ~closed.more
<1>1. page[w].stage = "claimed" /\ page[w].after \in Pass /\ Held(w)
  BY Numbers DEF Base, FetchPage, Held
<1>2. /\ \A v \in Worker : v # w => page'[v] = page[v]
      /\ page'[w] = [stage |-> "fetched", open |-> open.issues, closed |-> closed.issues,
                     after |-> [page[w].after EXCEPT !.deep = TRUE,
                                  !.openCursor = open.cursor, !.openDone = od,
                                  !.closedCursor = closed.cursor, !.closedDone = cd]]
  BY DEF FetchedBy, Base, TypeOK
<1> HIDE DEF od, cd
<1>3. page[w].open = Nothing /\ page[w].closed = Nothing
  BY <1>1 DEF Base, OrderInv, HeldInv
<1>4. /\ page'[w].after.active = page[w].after.active
      /\ page'[w].after.start = page[w].after.start /\ page'[w].after.since = page[w].after.since
      /\ page'[w].after.openCursor = open.cursor /\ page'[w].after.openDone = ~open.more
      /\ page'[w].after.closedCursor = closed.cursor /\ page'[w].after.closedDone = ~closed.more
  <2>1. page'[w].after = [page[w].after EXCEPT !.deep = TRUE, !.openCursor = open.cursor, !.openDone = od,
                            !.closedCursor = closed.cursor, !.closedDone = cd]
    BY <1>2
  <2>2. /\ page'[w].after.active = page[w].after.active
        /\ page'[w].after.start = page[w].after.start /\ page'[w].after.since = page[w].after.since
        /\ page'[w].after.openCursor = open.cursor /\ page'[w].after.openDone = od
        /\ page'[w].after.closedCursor = closed.cursor /\ page'[w].after.closedDone = cd
    BY <1>1, <2>1, AfterFields
  <2> QED BY <2>2, Zenon DEF od, cd
<1>5. /\ page'[w].stage = "fetched" /\ page'[w].open = open.issues /\ page'[w].closed = closed.issues
  BY <1>2
<1> QED BY <1>1, <1>2, <1>3, <1>4, <1>5 DEF Held

LEMMA FetchOrder ==
  ASSUME Base, NEW w \in Worker, FetchPage(w)
  PROVE  OrderInv'
<1>1. PICK open, closed : FetchedBy(w, open, closed)
  BY FetchAnswers
<1>2. /\ \A v \in Worker : v # w => page'[v] = page[v]
      /\ page'[w].stage = "fetched" /\ page'[w].open = open.issues /\ page'[w].closed = closed.issues
      /\ page'[w].after.active = page[w].after.active
      /\ page'[w].after.start = page[w].after.start /\ page'[w].after.since = page[w].after.since
      /\ Held(w) /\ Held(w)'
  BY <1>1, FetchEffect
<1>3. pass' = pass /\ github' = github
  BY DEF FetchPage, githubVars
<1>4. HeldInv'
  BY <1>2, <1>3 DEF HeldInv, Held, Base, OrderInv
<1>5. FreshInv'
  <2>1. ASSUME NEW i \in Issue
        PROVE  /\ open.issues[i] # 0 => github[i] = [state |-> "OPEN", at |-> open.issues[i]]
               /\ closed.issues[i] # 0 => github[i] = [state |-> "CLOSED", at |-> closed.issues[i]]
    BY <1>1, FetchedLists, Numbers DEF Base
  <2> QED BY <1>2, <1>3, <2>1 DEF FreshInv, Held, Base, OrderInv
<1> QED BY <1>4, <1>5, OrderStays DEF Base, OrderInv, FetchPage, archiveVars

LEMMA CommitOrder ==
  ASSUME Base, NEW w \in Worker, CommitPage(w)
  PROVE  OrderInv'
<1> DEFINE after == page[w].after
           ends == after.openDone /\ after.closedDone
<1>1. /\ Held(w) /\ pass.active /\ after.active
      /\ after.start = pass.start /\ after.since = pass.since
      /\ IF ends THEN pass' = NoPass /\ ~pass'.active ELSE pass' = after
      /\ through' = IF ends /\ pass.start > through THEN pass.start ELSE through
      /\ \A v \in Worker : IF Held(v)' THEN ~ends /\ page'[v] = page[v] /\ Held(v)
                           ELSE page'[v] = NoPage
  BY CommitEffect DEF Base, OrderInv
<1> HIDE DEF after, ends
<1>2. now' = now /\ github' = github
  BY DEF CommitPage, githubVars
<1>3. PassInv'
  BY <1>1, <1>2 DEF PassInv, Base, OrderInv
<1>4. HeldInv'
  <2>1. \A v \in Worker : Held(v)' => /\ pass' = after /\ page'[v] = page[v] /\ Held(v)
    BY <1>1
  <2> QED BY <1>1, <2>1 DEF HeldInv, Base, OrderInv
<1>5. FreshInv'
  <2>1. \A v \in Worker : Held(v)' => /\ pass'.start = pass.start /\ page'[v] = page[v] /\ Held(v)
    BY <1>1
  <2> QED BY <1>2, <2>1 DEF FreshInv, Base, OrderInv
<1> QED BY <1>3, <1>4, <1>5, OrderStays DEF Base, OrderInv, CommitPage, archiveVars

LEMMA DropOrder ==
  ASSUME Base, NEW w \in Worker, DropPage(w)
  PROVE  OrderInv'
<1>1. \A v \in Worker : page'[v] = IF v = w THEN NoPage ELSE page[v]
  BY DEF DropPage, Base, TypeOK
<1>2. NoPage.stage = "none"
  BY DEF NoPage
<1>3. HeldInv' /\ FreshInv'
  BY <1>1, <1>2 DEF HeldInv, FreshInv, Held, DropPage, Base, OrderInv, githubVars
<1> QED BY <1>3, OrderStays DEF Base, OrderInv, DropPage, archiveVars

LEMMA GiveUpOrder ==
  ASSUME Base, GiveUpPass
  PROVE  OrderInv'
<1>1. /\ pass' = NoPass /\ ~pass'.active /\ \A v \in Worker : page'[v] = NoPage /\ page'[v].stage = "none"
  BY DEF GiveUpPass, NoPage, NoPass
<1>2. PassInv' /\ HeldInv' /\ FreshInv'
  BY <1>1 DEF PassInv, HeldInv, FreshInv, Held, GiveUpPass, Base, OrderInv, githubVars
<1> QED BY <1>2, OrderStays DEF Base, OrderInv, GiveUpPass, archiveVars

\* Hours: one is begun when it is over, and one applied was begun.
LEMMA HoursOrder ==
  ASSUME Base, NEW h \in Hour, BeginArchiveHour(h) \/ ApplyArchiveBatch(h) \/ FailArchiveHour(h)
  PROVE  OrderInv'
<1>1. ASSUME NEW g \in Hour, g \in applied' \/ reading'[g] # NotReading
      PROVE  \A t \in EventsOf(g) : t <= now
  <2>1. CASE BeginArchiveHour(h)
    <3>1. \A t \in EventsOf(h) : t <= now
      BY <2>1 DEF BeginArchiveHour
    <3>2. g # h => g \in applied \/ reading[g] # NotReading
      BY <1>1, <2>1 DEF BeginArchiveHour, Base, TypeOK
    <3> QED BY <3>1, <3>2 DEF Base, OrderInv, HoursOver
  <2>2. CASE ApplyArchiveBatch(h)
    <3>1. reading[h] # NotReading
      BY <2>2 DEF ApplyArchiveBatch, NotReading
    <3>2. g # h => g \in applied \/ reading[g] # NotReading
      BY <1>1, <2>2 DEF ApplyArchiveBatch, Base, TypeOK
    <3> QED BY <3>1, <3>2 DEF Base, OrderInv, HoursOver
  <2>3. CASE FailArchiveHour(h)
    BY <1>1, <2>3 DEF FailArchiveHour, Base, TypeOK, OrderInv, HoursOver
  <2> QED BY <2>1, <2>2, <2>3
<1>2. UNCHANGED githubVars /\ UNCHANGED <<through, pass, page>>
  BY DEF BeginArchiveHour, ApplyArchiveBatch, FailArchiveHour, syncVars
<1>3. HoursOver'
  BY <1>1, <1>2 DEF HoursOver, githubVars
<1> QED BY <1>2, <1>3, OrderStays DEF Base, OrderInv

LEMMA OrderStep ==
  Base /\ [Next]_vars => OrderInv'
<1> SUFFICES ASSUME Base, [Next]_vars PROVE OrderInv'
  OBVIOUS
<1>1. UNCHANGED githubVars /\ UNCHANGED <<through, pass, page, applied, reading>> => OrderInv'
  BY OrderStays DEF Base, OrderInv
<1>2. CASE UNCHANGED vars
  BY <1>1, <1>2 DEF vars, syncVars, archiveVars
<1>3. CASE BeginFullPass
  BY <1>3, BeginOrder DEF BeginFullPass
<1>4. CASE BeginFreshnessPass
  BY <1>4, BeginOrder DEF BeginFreshnessPass
<1>5. CASE \/ FetchIssueStates \/ ApplyTrackedStates \/ DropTrackedStates
           \/ \E t \in Time : DeliverWebhook(t)
           \/ PruneClosedIssues \/ PruneExcludedIssues \/ RecomputeEligibility
  BY <1>1, <1>5 DEF FetchIssueStates, ApplyTrackedStates, DropTrackedStates, DeliverWebhook,
     PruneClosedIssues, PruneExcludedIssues, RecomputeEligibility, syncVars, archiveVars
<1> QED BY <1>2, <1>3, <1>4, <1>5, ChangeOrder, ClaimOrder, FetchOrder, CommitOrder, DropOrder,
           GiveUpOrder, HoursOrder DEF Next

----------------------------------------------------------------------------
\* Open issues.

OpenIssue(i) == OpenStored(i) /\ OpenHeld(i) /\ OpenAnswered(i)

LEMMA OpenTimes ==
  ASSUME Base, NEW i \in Issue, github[i].state = "OPEN"
  PROVE  /\ github[i].at \in 1..now /\ github[i].at < Newest
         /\ github[i] = [state |-> "OPEN", at |-> github[i].at]
         /\ changes[github[i].at] # Absent
         /\ changes[github[i].at].issue = i /\ changes[github[i].at].state = "OPEN"
<1>1. IsChange(i, github[i].at, "OPEN")
  BY DEF Base, HistoryInv, GitHubInv
<1> QED BY <1>1, Numbers DEF IsChange, Base, Newest

\* A step that moves neither GitHub, the pass nor a page keeps the invariant if
\* it leaves alone every row that is as on GitHub, and no answer replaces one.
LEMMA OpenStays ==
  ASSUME OpenInv, UNCHANGED <<github, through, pass, page>>, tracking' = tracking \/ tracking' = <<>>,
         irregular \subseteq irregular',
         "pruned" \notin irregular' =>
           \A i \in Issue : github[i].state = "OPEN" /\ catalog[i] = github[i] => catalog'[i] = catalog[i]
  PROVE  OpenInv'
<1> SUFFICES ASSUME "pruned" \notin irregular', NEW i \in Issue, github[i].state = "OPEN"
             PROVE  OpenStored(i)' /\ OpenHeld(i)' /\ OpenAnswered(i)'
  BY DEF OpenInv
<1>1. OpenStored(i) /\ OpenHeld(i) /\ OpenAnswered(i)
  BY DEF OpenInv
<1>2. catalog[i] = github[i] => catalog'[i] = github[i]
  OBVIOUS
<1>3. OpenStored(i)' /\ OpenHeld(i)'
  BY <1>1, <1>2 DEF OpenStored, OpenHeld, Held, PastOpen
<1>4. OpenAnswered(i)'
  <2>1. Untouched' <=> Untouched
    BY DEF Untouched, Held
  <2> QED BY <1>1, <2>1, EmptyTracking DEF OpenAnswered
<1> QED BY <1>3, <1>4

LEMMA ChangeOpen ==
  ASSUME Base, OpenInv, NEW i \in Issue, Change(i) \/ Delete(i)
  PROVE  OpenInv'
<1> SUFFICES ASSUME "pruned" \notin irregular, NEW j \in Issue, github'[j].state = "OPEN"
             PROVE  OpenStored(j)' /\ OpenHeld(j)' /\ OpenAnswered(j)'
  BY DEF OpenInv, Change, Delete
<1>1. /\ UNCHANGED <<through, pass, page, catalog, tracking>>
      /\ github'[j] = github[j] \/ github'[j].at = now + 1
  BY DEF Base, TypeOK, Change, Delete, syncVars
<1>2. Untouched' <=> Untouched
  BY <1>1 DEF Untouched, Held
<1>3. CASE github'[j] = github[j]
  <2>1. OpenStored(j) /\ OpenHeld(j) /\ OpenAnswered(j)
    BY <1>3 DEF OpenInv
  <2> QED BY <1>1, <1>2, <1>3, <2>1 DEF OpenStored, OpenHeld, OpenAnswered, Held, PastOpen
<1>4. CASE github'[j].at = now + 1
  <2>1. /\ now + 1 > through /\ (pass.active => now + 1 > pass.start)
        /\ ~(now + 1 <= through) /\ (pass.active => ~(now + 1 <= pass.start))
    BY Numbers DEF Base, OrderInv, PassInv
  <2>2. \A w \in Worker : Held(w) => pass.active
    BY DEF Base, OrderInv, HeldInv
  <2> QED BY <1>1, <1>4, <2>1, <2>2 DEF OpenStored, OpenHeld, OpenAnswered, Held
<1> QED BY <1>1, <1>3, <1>4

LEMMA BeginOpen ==
  ASSUME Base, OpenInv, NEW since, BeginPass(since)
  PROVE  OpenInv'
<1> SUFFICES ASSUME "pruned" \notin irregular, NEW i \in Issue, github[i].state = "OPEN"
             PROVE  OpenStored(i)' /\ OpenHeld(i)' /\ OpenAnswered(i)'
  BY DEF OpenInv, BeginPass, githubVars
<1>1. UNCHANGED <<github, catalog, through, page, tracking>>
  BY DEF BeginPass, githubVars
<1>2. pass' = [NoPass EXCEPT !.active = TRUE, !.start = now, !.since = since]
  BY DEF BeginPass
<1>3. ~pass'.openDone /\ pass'.openCursor = Newest
  BY <1>2 DEF NoPass
<1>4. \A w \in Worker : ~Held(w)
  BY DEF BeginPass, Base, OrderInv, HeldInv
<1>5. OpenStored(i) /\ OpenAnswered(i)
  BY DEF OpenInv
<1>6. ~(github[i].at >= Newest)
  <2>1. github[i].at < Newest
    BY OpenTimes
  <2>2. MaxTime \in Nat /\ github[i].at \in 0..MaxTime
    BY Numbers DEF Base
  <2>3. github[i].at \in Nat /\ Newest \in Nat
    BY <2>2 DEF Newest
  <2> QED BY <2>1, <2>3
<1>7. OpenStored(i)'
  BY <1>1, <1>3, <1>5, <1>6 DEF OpenStored, PastOpen
<1>8. OpenHeld(i)' /\ Untouched'
  BY <1>1, <1>3, <1>4 DEF OpenHeld, Untouched, Held
<1>9. OpenAnswered(i)'
  BY <1>1, <1>5, <1>8 DEF OpenAnswered
<1> QED BY <1>7, <1>8, <1>9

LEMMA ClaimOpen ==
  ASSUME Base, OpenInv, NEW w \in Worker, ClaimPage(w)
  PROVE  OpenInv'
<1> SUFFICES ASSUME "pruned" \notin irregular, NEW i \in Issue, github[i].state = "OPEN"
             PROVE  OpenStored(i)' /\ OpenHeld(i)' /\ OpenAnswered(i)'
  BY DEF OpenInv, ClaimPage, githubVars
<1>1. UNCHANGED <<github, catalog, through, pass, tracking>> /\ tracking = <<>> /\ pass.active
  BY DEF ClaimPage, githubVars
<1>2. /\ \A v \in Worker : v # w => page'[v] = page[v]
      /\ page'[w].after = pass
  BY DEF ClaimPage, Base, TypeOK, NoPage
<1>3. OpenStored(i) /\ OpenHeld(i)
  BY DEF OpenInv
<1>4. OpenStored(i)' /\ OpenAnswered(i)'
  BY <1>1, <1>3, EmptyTracking DEF OpenStored, OpenAnswered, PastOpen
<1>5. OpenHeld(i)'
  BY <1>1, <1>2, <1>3 DEF OpenStored, OpenHeld, Held, PastOpen
<1> QED BY <1>4, <1>5

LEMMA FetchOpen ==
  ASSUME Base, OpenInv, NEW w \in Worker, FetchPage(w)
  PROVE  OpenInv'
<1> SUFFICES ASSUME "pruned" \notin irregular, NEW i \in Issue, github[i].state = "OPEN"
             PROVE  OpenStored(i)' /\ OpenHeld(i)' /\ OpenAnswered(i)'
  BY DEF OpenInv, FetchPage, githubVars
<1>1. UNCHANGED <<github, catalog, through, pass, tracking>>
  BY DEF FetchPage, githubVars
<1>2. PICK open, closed : FetchedBy(w, open, closed)
  BY FetchAnswers
<1>3. /\ \A v \in Worker : v # w => page'[v] = page[v]
      /\ page'[w].open = open.issues
      /\ page'[w].after.openCursor = open.cursor /\ page'[w].after.openDone = ~open.more
      /\ Held(w) /\ Held(w)' /\ page[w].open = Nothing
  BY <1>2, FetchEffect
<1>4. OpenStored(i) /\ OpenHeld(i) /\ OpenAnswered(i)
  BY DEF OpenInv
<1>5. OpenStored(i)' /\ OpenAnswered(i)'
  <2>1. Untouched' <=> Untouched
    BY <1>1, <1>3 DEF Untouched
  <2> QED BY <1>1, <1>4, <2>1 DEF OpenStored, OpenAnswered, PastOpen
<1>6. ASSUME github[i].at <= pass.start, open.more => github[i].at >= open.cursor
      PROVE  catalog[i] = github[i] \/ open.issues[i] = github[i].at
  <2>1. /\ github[i].at \in 1..now /\ github[i].at < Newest /\ now \in Nat
        /\ page[w].after \in Pass
    BY OpenTimes, Numbers DEF Base
  <2>2. page[w].open[i] # github[i].at
    BY <1>3, <2>1 DEF Nothing
  <2>3. CASE PastOpen(page[w].after, github[i].at)
    BY <1>3, <1>4, <1>6, <2>2, <2>3 DEF OpenHeld
  <2>4. CASE ~PastOpen(page[w].after, github[i].at)
    <3>1. ~page[w].after.openDone /\ github[i].at < page[w].after.openCursor
      BY <2>1, <2>4, NewestType, Numbers DEF PastOpen, Pass, Base
    <3>2. open \in PagesOf("OPEN", page[w].after.since, page[w].after.openCursor)
      BY <1>2, <3>1 DEF FetchedBy
    <3>3. CASE github[i].at < page[w].after.since
      <4>1. page[w].after.since <= through
        BY <1>3 DEF Base, OrderInv, HeldInv, PassInv
      <4>2. page[w].after.since \in Nat /\ through \in Nat
        BY <2>1, Numbers DEF Pass, Base
      <4> QED BY <1>4, <2>1, <3>3, <4>1, <4>2 DEF OpenStored
    <3>4. CASE github[i].at >= page[w].after.since
      <4>1. i \in Listed("OPEN", page[w].after.since, page[w].after.openCursor)
        BY <3>1, <3>4 DEF Listed
      <4> QED BY <1>6, <3>2, <4>1, PageLists DEF Base
    <3> QED BY <2>1, <3>3, <3>4, Numbers DEF Pass, Base
  <2> QED BY <2>3, <2>4
<1>7. OpenHeld(i)'
  <2>1. ASSUME NEW v \in Worker, v # w, Held(v)', github[i].at <= pass.start,
               PastOpen(page[v].after, github[i].at)
        PROVE  catalog[i] = github[i] \/ page[v].open[i] = github[i].at
    BY <1>3, <1>4, <2>1 DEF OpenHeld, Held
  <2>2. PastOpen(page'[w].after, github[i].at) => (open.more => github[i].at >= open.cursor)
    BY <1>3 DEF PastOpen
  <2> QED BY <1>1, <1>3, <1>6, <2>1, <2>2 DEF OpenHeld
<1> QED BY <1>5, <1>7

\* What a page writes of an issue open since the pass started.
LEMMA WrittenOpen ==
  ASSUME Base, NEW w \in Worker, Held(w), NEW i \in Issue,
         github[i].state = "OPEN", github[i].at <= pass.start,
         catalog[i] = github[i] \/ page[w].open[i] = github[i].at
  PROVE  Written(page[w])[i] = github[i]
<1>1. /\ github[i] = [state |-> "OPEN", at |-> github[i].at] /\ github[i].at # 0
      /\ ~(github[i].at > pass.start)
  BY OpenTimes, Numbers DEF Base
<1>2. /\ page[w].open[i] # 0 => page[w].open[i] = github[i].at
      /\ page[w].closed[i] = 0
  <2>1. page[w].open[i] # 0 => github[i] = [state |-> "OPEN", at |-> page[w].open[i]]
    BY <1>1 DEF Base, OrderInv, FreshInv
  <2>2. page[w].closed[i] # 0 => github[i] = [state |-> "CLOSED", at |-> page[w].closed[i]]
    BY <1>1 DEF Base, OrderInv, FreshInv
  <2> QED BY <2>1, <2>2
<1> QED BY <1>1, <1>2 DEF Written

LEMMA CommitOpen ==
  ASSUME Base, OpenInv, NEW w \in Worker, CommitPage(w)
  PROVE  OpenInv'
<1> DEFINE after == page[w].after
           ends == after.openDone /\ after.closedDone
<1> SUFFICES ASSUME "pruned" \notin irregular, NEW i \in Issue, github[i].state = "OPEN"
             PROVE  OpenStored(i)' /\ OpenHeld(i)' /\ OpenAnswered(i)'
  BY DEF OpenInv, CommitPage, githubVars
<1>1. /\ Held(w) /\ pass.active /\ after.active
      /\ after.start = pass.start /\ after.since = pass.since
      /\ IF ends THEN pass' = NoPass /\ ~pass'.active ELSE pass' = after
      /\ through' = IF ends /\ pass.start > through THEN pass.start ELSE through
      /\ \A v \in Worker : IF Held(v)' THEN ~ends /\ page'[v] = page[v] /\ Held(v)
                           ELSE page'[v] = NoPage
  BY CommitEffect DEF Base, OrderInv
<1>2. UNCHANGED <<github, tracking>> /\ catalog' = Written(page[w])
  BY DEF CommitPage, githubVars
<1>3. /\ OpenStored(i) /\ OpenHeld(i) /\ OpenAnswered(i)
  BY DEF OpenInv
<1>4. github[i].at <= pass.start /\ (catalog[i] = github[i] \/ page[w].open[i] = github[i].at) =>
        catalog'[i] = github[i]
  BY <1>1, <1>2, WrittenOpen
<1>5. through <= pass.start /\ through \in Nat /\ pass.start \in Nat /\ github[i].at \in Nat
  <2>1. MaxTime \in Nat /\ github[i].at \in 0..MaxTime
    BY Numbers DEF Base
  <2>2. through <= pass.start /\ through \in Nat /\ pass.start \in Nat
    BY <1>1, Numbers DEF Base, OrderInv, PassInv
  <2> QED BY <2>1, <2>2
<1>6. github[i].at <= pass.start /\ PastOpen(after, github[i].at) => catalog'[i] = github[i]
  BY <1>1, <1>3, <1>4 DEF OpenHeld
<1>7. ends => PastOpen(after, github[i].at)
  BY DEF PastOpen
<1> HIDE DEF after, ends
<1>8. OpenStored(i)'
  <2>1. ASSUME github[i].at <= through' PROVE catalog'[i] = github[i]
    <3>1. CASE github[i].at <= through
      BY <1>3, <1>4, <1>5, <3>1 DEF OpenStored
    <3>2. CASE ~(github[i].at <= through)
      BY <1>1, <1>5, <1>6, <1>7, <2>1, <3>2
    <3> QED BY <3>1, <3>2
  <2>2. ASSUME pass'.active, github[i].at <= pass'.start, PastOpen(pass', github[i].at)
        PROVE  catalog'[i] = github[i]
    <3>1. pass' = after
      BY <1>1, <2>2
    <3> QED BY <1>1, <1>6, <2>2, <3>1
  <2> QED BY <1>2, <2>1, <2>2 DEF OpenStored, PastOpen
<1>9. OpenHeld(i)'
  <2>1. ASSUME NEW v \in Worker, Held(v)', github[i].at <= pass'.start,
               PastOpen(page'[v].after, github[i].at)
        PROVE  catalog'[i] = github[i] \/ page'[v].open[i] = github[i].at
    <3>1. page'[v] = page[v] /\ Held(v) /\ pass'.start = pass.start
      BY <1>1, <2>1
    <3>2. catalog[i] = github[i] \/ page[v].open[i] = github[i].at
      BY <1>3, <2>1, <3>1 DEF OpenHeld
    <3> QED BY <1>4, <2>1, <3>1, <3>2
  <2> QED BY <1>2, <2>1 DEF OpenHeld, PastOpen
<1>10. OpenAnswered(i)'
  <2>1. i \in DOMAIN tracking /\ tracking[i] # github[i] => github[i].at > through /\ github[i].at > pass.start
    BY <1>1, <1>3 DEF OpenAnswered, Untouched
  <2>2. pass'.active => pass'.start = pass.start
    BY <1>1
  <2> QED BY <1>1, <1>2, <1>5, <2>1, <2>2 DEF OpenAnswered
<1> QED BY <1>8, <1>9, <1>10

LEMMA DropOpen ==
  ASSUME Base, OpenInv, NEW w \in Worker, DropPage(w)
  PROVE  OpenInv'
<1> SUFFICES ASSUME "pruned" \notin irregular, NEW i \in Issue, github[i].state = "OPEN"
             PROVE  OpenStored(i)' /\ OpenHeld(i)' /\ OpenAnswered(i)'
  BY DEF OpenInv, DropPage, githubVars
<1>1. UNCHANGED <<github, catalog, through, pass, tracking>>
  BY DEF DropPage, githubVars
<1>2. \A v \in Worker : Held(v)' => Held(v) /\ page'[v] = page[v]
  BY DEF DropPage, Base, TypeOK, Held, NoPage
<1>3. OpenStored(i) /\ OpenHeld(i) /\ OpenAnswered(i)
  BY DEF OpenInv
<1>4. Untouched => Untouched'
  BY <1>1, <1>2 DEF Untouched
<1>5. OpenStored(i)' /\ OpenAnswered(i)'
  BY <1>1, <1>3, <1>4 DEF OpenStored, OpenAnswered, PastOpen
<1>6. OpenHeld(i)'
  BY <1>1, <1>2, <1>3 DEF OpenHeld, PastOpen
<1> QED BY <1>5, <1>6

LEMMA GiveUpOpen ==
  ASSUME Base, OpenInv, GiveUpPass
  PROVE  OpenInv'
<1> SUFFICES ASSUME "pruned" \notin irregular, NEW i \in Issue, github[i].state = "OPEN"
             PROVE  OpenStored(i)' /\ OpenHeld(i)' /\ OpenAnswered(i)'
  BY DEF OpenInv, GiveUpPass, githubVars
<1>1. UNCHANGED <<github, catalog, through, tracking>> /\ ~pass'.active
  BY DEF GiveUpPass, githubVars, NoPass
<1>2. \A v \in Worker : ~Held(v)'
  BY DEF GiveUpPass, Held, NoPage
<1>3. OpenStored(i) /\ OpenAnswered(i)
  BY DEF OpenInv
<1> QED BY <1>1, <1>2, <1>3 DEF OpenStored, OpenHeld, OpenAnswered

\* No event is newer than what GitHub has, so none replaces a row that is as on
\* GitHub.
LEMMA BatchOpen ==
  ASSUME Base, OpenInv, NEW h \in Hour, ApplyArchiveBatch(h)
  PROVE  OpenInv'
<1>1. PICK batch \in SUBSET reading[h].left :
        catalog' = [i \in Issue |->
          IF i \in batch THEN ArchiveWrite(i, NewestOf(h, i), reading[h].updateOnly)
          ELSE catalog[i]]
  BY DEF ApplyArchiveBatch
<1>2. ASSUME NEW i \in Issue, github[i].state = "OPEN", catalog[i] = github[i], i \in batch
      PROVE  ArchiveWrite(i, NewestOf(h, i), reading[h].updateOnly) = catalog[i]
  <2>1. HasEvent(h, i)
    BY <1>2 DEF Base, HistoryInv, CopiesInv, HoursInv, HasEvent
  <2>2. /\ NewestOf(h, i) \in Time
        /\ changes[NewestOf(h, i)] # Absent /\ changes[NewestOf(h, i)].issue = i
    BY <2>1, NewestIsNewest
  <2>3. NewestOf(h, i) <= github[i].at
    BY <2>2 DEF Base, HistoryInv, GitHubInv
  <2>4. NewestOf(h, i) \in Nat /\ MaxTime \in Nat /\ github[i].at \in 0..MaxTime
    <3>1. MaxTime \in Nat /\ github[i].at \in 0..MaxTime
      BY Numbers DEF Base
    <3> QED BY <2>2, <3>1 DEF Time
  <2>5. ~(catalog[i].at < NewestOf(h, i))
    BY <1>2, <2>3, <2>4
  <2> QED BY <1>2, <2>5 DEF ArchiveWrite
<1>3. \A i \in Issue : github[i].state = "OPEN" /\ catalog[i] = github[i] => catalog'[i] = catalog[i]
  BY <1>1, <1>2
<1>4. UNCHANGED <<github, through, pass, page>> /\ tracking' = tracking /\ irregular \subseteq irregular'
  BY DEF ApplyArchiveBatch, githubVars, syncVars
<1> QED BY <1>3, <1>4, OpenStays

LEMMA WebhookOpen ==
  ASSUME Base, OpenInv, NEW t \in Time, DeliverWebhook(t)
  PROVE  OpenInv'
<1> DEFINE issue == changes[t].issue
<1>1. /\ catalog[issue].at < t
      /\ catalog' = [catalog EXCEPT ![issue] = [state |-> changes[t].state, at |-> t]]
      /\ changes[t] # Absent
  BY DEF DeliverWebhook
<1>2. issue \in Issue /\ t <= github[issue].at
  BY <1>1 DEF Base, HistoryInv, GitHubInv
<1>3. t \in Nat /\ MaxTime \in Nat /\ github[issue].at \in 0..MaxTime
  <2>1. MaxTime \in Nat /\ github[issue].at \in 0..MaxTime
    BY <1>2, Numbers DEF Base
  <2> QED BY <2>1 DEF Time
<1>4. catalog[issue] # github[issue]
  BY <1>1, <1>2, <1>3
<1>5. \A i \in Issue : catalog[i] = github[i] => catalog'[i] = catalog[i]
  BY <1>1, <1>2, <1>4 DEF Base, TypeOK
<1>6. UNCHANGED <<github, through, pass, page>> /\ tracking' = tracking /\ irregular \subseteq irregular'
  BY DEF DeliverWebhook, githubVars, syncVars
<1> QED BY <1>5, <1>6, OpenStays

LEMMA FetchStatesOpen ==
  ASSUME Base, OpenInv, FetchIssueStates
  PROVE  OpenInv'
<1> SUFFICES ASSUME "pruned" \notin irregular, NEW i \in Issue, github[i].state = "OPEN"
             PROVE  OpenStored(i)' /\ OpenHeld(i)' /\ OpenAnswered(i)'
  BY DEF OpenInv, FetchIssueStates, githubVars
<1>1. UNCHANGED <<github, catalog, through, pass, page>>
  BY DEF FetchIssueStates, githubVars, syncVars
<1>2. OpenStored(i) /\ OpenHeld(i)
  BY DEF OpenInv
<1>3. i \in DOMAIN tracking' => tracking'[i] = github[i]
  BY DEF FetchIssueStates
<1> QED BY <1>1, <1>2, <1>3 DEF OpenStored, OpenHeld, OpenAnswered, Held, PastOpen

\* An answer out of date replaces a row that neither the watermark nor the pass
\* answers for yet.
LEMMA TrackedOpen ==
  ASSUME Base, OpenInv, ApplyTrackedStates
  PROVE  OpenInv'
<1> SUFFICES ASSUME "pruned" \notin irregular, NEW i \in Issue, github[i].state = "OPEN"
             PROVE  OpenStored(i)' /\ OpenHeld(i)' /\ OpenAnswered(i)'
  BY DEF OpenInv, ApplyTrackedStates, githubVars
<1>1. /\ UNCHANGED <<github, through, pass, page>> /\ tracking' = <<>>
      /\ catalog'[i] = IF i \in DOMAIN tracking THEN Tracked(i) ELSE catalog[i]
  BY DEF ApplyTrackedStates, githubVars, syncVars
<1>2. OpenStored(i) /\ OpenHeld(i) /\ OpenAnswered(i)
  BY DEF OpenInv
<1>3. OpenAnswered(i)'
  BY <1>1, EmptyTracking DEF OpenAnswered
<1>4. CASE catalog[i] = github[i] => catalog'[i] = github[i]
  BY <1>1, <1>2, <1>3, <1>4 DEF OpenStored, OpenHeld, Held, PastOpen
<1>5. CASE catalog[i] = github[i] /\ catalog'[i] # github[i]
  <2>1. i \in DOMAIN tracking /\ tracking[i].state # "NONE"
    BY <1>1, <1>5 DEF Base, HistoryInv, CopiesInv, AnswersInv
  <2>2. tracking[i] # github[i]
    BY <1>1, <1>5, <2>1 DEF Tracked
  <2>3. github[i].at > through /\ (pass.active /\ ~Untouched => github[i].at > pass.start)
    BY <1>2, <2>1, <2>2 DEF OpenAnswered
  <2>4. /\ ~(github[i].at <= through)
        /\ pass.active /\ ~Untouched => ~(github[i].at <= pass.start)
    <3>1. /\ MaxTime \in Nat /\ github[i].at \in 0..MaxTime /\ through \in Nat /\ pass.start \in Nat
      BY Numbers DEF Base
    <3> QED BY <2>3, <3>1
  <2>5. Untouched => ~PastOpen(pass, github[i].at)
    <3>1. github[i].at < Newest
      BY OpenTimes
    <3>2. MaxTime \in Nat /\ github[i].at \in 0..MaxTime
      BY Numbers DEF Base
    <3>3. Newest \in Nat /\ github[i].at \in Nat
      BY <3>2 DEF Newest
    <3>4. ~(github[i].at >= Newest)
      BY <3>1, <3>3
    <3> QED BY <3>4 DEF Untouched, PastOpen
  <2>6. \A w \in Worker : Held(w) => pass.active /\ ~Untouched
    BY DEF Untouched, Base, OrderInv, HeldInv
  <2> QED BY <1>1, <1>3, <2>4, <2>5, <2>6 DEF OpenStored, OpenHeld, Held, PastOpen
<1> QED BY <1>4, <1>5

LEMMA OpenStep ==
  Base /\ OpenInv /\ [Next]_vars => OpenInv'
<1> SUFFICES ASSUME Base, OpenInv, [Next]_vars PROVE OpenInv'
  OBVIOUS
<1>1. /\ UNCHANGED <<github, through, pass, page, catalog>> /\ irregular \subseteq irregular'
      /\ tracking' = tracking \/ tracking' = <<>>
      => OpenInv'
  BY OpenStays
<1>2. CASE UNCHANGED vars
  BY <1>1, <1>2 DEF vars, githubVars, syncVars
<1>3. CASE BeginFullPass \/ BeginFreshnessPass
  BY <1>3, BeginOpen DEF BeginFullPass, BeginFreshnessPass
<1>4. CASE \/ \E h \in Hour : BeginArchiveHour(h) \/ FailArchiveHour(h)
           \/ DropTrackedStates \/ RecomputeEligibility
  BY <1>1, <1>4 DEF BeginArchiveHour, FailArchiveHour, DropTrackedStates, RecomputeEligibility,
     githubVars, syncVars
<1>5. CASE PruneClosedIssues
  <2>1. /\ UNCHANGED <<github, through, pass, page>> /\ tracking' = tracking /\ irregular' = irregular
        /\ \A i \in Issue : catalog[i].state = "OPEN" => catalog'[i] = catalog[i]
    BY <1>5 DEF PruneClosedIssues, githubVars, syncVars, Base, TypeOK
  <2> QED BY <2>1, OpenStays
<1>6. CASE PruneExcludedIssues
  BY <1>6 DEF PruneExcludedIssues, OpenInv
<1> QED BY <1>2, <1>3, <1>4, <1>5, <1>6, ChangeOpen, ClaimOpen, FetchOpen, CommitOpen, DropOpen,
           GiveUpOpen, BatchOpen, WebhookOpen, FetchStatesOpen, TrackedOpen DEF Next

----------------------------------------------------------------------------
\* Closed issues.

LEMMA HourMonotone ==
  ASSUME NEW s \in Nat, NEW t \in Nat, s <= t
  PROVE  HourOf(s) \in Nat /\ HourOf(t) \in Nat /\ HourOf(s) <= HourOf(t)
  BY BoundsAssumption DEF HourOf

\* A closing is an event of its hour, and the newest of it for the issue.
LEMMA ClosingEvent ==
  ASSUME Base, NEW i \in Issue, github[i].state = "CLOSED"
  PROVE  /\ github[i].at \in Time /\ github[i].at \in Nat /\ github[i].at # 0
         /\ github[i].at <= MaxTime /\ github[i].at <= now
         /\ changes[github[i].at] # Absent
         /\ changes[github[i].at].issue = i /\ changes[github[i].at].state = "CLOSED"
         /\ HourOf(github[i].at) \in Hour /\ github[i].at \in EventsOf(HourOf(github[i].at))
         /\ NewestOf(HourOf(github[i].at), i) = github[i].at
<1> DEFINE at == github[i].at
           h == HourOf(at)
<1>1. IsChange(i, at, "CLOSED")
  BY DEF Base, HistoryInv, GitHubInv
<1>2. MaxTime \in Nat /\ at \in 0..MaxTime /\ at \in 1..now /\ now \in Nat
  BY <1>1, Numbers DEF IsChange, Base
<1> HIDE DEF at
<1>3. at \in Time /\ at \in Nat /\ at # 0 /\ at <= MaxTime /\ at <= now
  BY <1>2 DEF Time
<1>4. h \in Nat /\ HourOf(MaxTime) \in Nat /\ h <= HourOf(MaxTime)
  BY <1>2, <1>3, HourMonotone
<1>5. h \in Hour
  BY <1>4 DEF Hour, HourOf
<1>6. at \in EventsOf(h)
  BY <1>3 DEF EventsOf
<1>7. HasEvent(h, i)
  BY <1>1, <1>6 DEF HasEvent, IsChange
<1>8. /\ NewestOf(h, i) \in Time
      /\ changes[NewestOf(h, i)] # Absent /\ changes[NewestOf(h, i)].issue = i
      /\ at <= NewestOf(h, i)
  BY <1>1, <1>5, <1>6, <1>7, NewestIsNewest DEF IsChange
<1>9. NewestOf(h, i) <= at
  BY <1>8 DEF at, Base, HistoryInv, GitHubInv
<1>10. NewestOf(h, i) = at
  <2>1. NewestOf(h, i) \in Nat
    BY <1>2, <1>8 DEF Time
  <2> QED BY <1>3, <1>8, <1>9, <2>1
<1> QED BY <1>1, <1>3, <1>5, <1>6, <1>10 DEF at, IsChange

ClosedIssue(i) == ShownOpen(i) => ClosingAhead(i) /\ ClosingHeld(i)

\* A step that moves neither GitHub, the pass, a page nor the archive keeps the
\* invariant if it opens no row.
LEMMA ClosedStays ==
  ASSUME ClosedInv,
         UNCHANGED <<github, through, pass, page, synced, reading, applied, newestHour>>,
         irregular' = {} => irregular = {},
         irregular' = {} => \A i \in Issue : github[i].state = "CLOSED" /\ catalog'[i].state = "OPEN" =>
                              catalog[i].state = "OPEN"
  PROVE  ClosedInv'
  BY DEF ClosedInv, NewestRead, ShownOpen, ClosingRead, ClosingAhead, ClosingHeld, Held, PastClosed

LEMMA ChangeClosed ==
  ASSUME Base, ClosedInv, NEW i \in Issue, Change(i) \/ Delete(i)
  PROVE  ClosedInv'
<1>1. UNCHANGED <<catalog, through, pass, page, synced, reading, applied, newestHour, irregular>>
  BY DEF Change, Delete, syncVars, archiveVars
<1>2. ASSUME NEW j \in Issue, github'[j].state = "CLOSED", ClosingRead(j)'
      PROVE  github'[j] = github[j] /\ ClosingRead(j)
  <2>1. CASE github'[j] = github[j]
    BY <1>1, <1>2, <2>1 DEF ClosingRead
  <2>2. CASE github'[j] # github[j]
    <3>1. j = i /\ Change(i)
      BY <1>2, <2>2 DEF Change, Delete, Base, TypeOK
    <3>2. github'[j].at = now + 1 /\ now + 1 \in Time /\ now \in Nat
      <4>1. now \in Nat /\ MaxTime \in Nat /\ now < MaxTime
        BY <3>1, Numbers DEF Base, Change
      <4> QED BY <3>1, <4>1 DEF Change, Base, TypeOK, Time
    <3> DEFINE h == HourOf(now + 1)
    <3>3. h \in applied \/ reading[h] # NotReading
      BY <1>1, <1>2, <3>2 DEF ClosingRead
    <3>4. now + 1 \in EventsOf(h) /\ h \in Hour
      <4>1. MaxTime \in Nat /\ now + 1 \in Nat /\ now + 1 <= MaxTime
        BY <3>2, BoundsAssumption DEF Time
      <4>2. h \in Nat /\ HourOf(MaxTime) \in Nat /\ h <= HourOf(MaxTime)
        BY <4>1, HourMonotone
      <4> QED BY <3>2, <4>2 DEF EventsOf, Hour, HourOf
    <3>5. now + 1 <= now
      BY <3>3, <3>4 DEF Base, OrderInv, HoursOver
    <3> QED BY <3>2, <3>5
  <2> QED BY <2>1, <2>2
<1>3. ASSUME irregular' = {} PROVE NewestRead'
  BY <1>1, <1>2, <1>3 DEF ClosedInv, NewestRead
<1>4. ASSUME irregular' = {}, NEW j \in Issue, ShownOpen(j)'
      PROVE  ClosingAhead(j)' /\ ClosingHeld(j)'
  <2>1. github'[j] = github[j] /\ ShownOpen(j)
    BY <1>1, <1>2, <1>4 DEF ShownOpen
  <2>2. ClosingAhead(j) /\ ClosingHeld(j)
    BY <1>1, <1>4, <2>1 DEF ClosedInv
  <2> QED BY <1>1, <2>1, <2>2 DEF ClosingAhead, ClosingHeld, Held, PastClosed
<1> QED BY <1>3, <1>4 DEF ClosedInv

\* Passes and pages: the archive is left alone.
LEMMA ReadStays ==
  ASSUME ClosedInv, UNCHANGED <<github, reading, applied, newestHour>>, irregular' = {} => irregular = {},
         irregular' = {} => \A i \in Issue : ShownOpen(i)' => ClosingAhead(i)' /\ ClosingHeld(i)'
  PROVE  ClosedInv'
  BY DEF ClosedInv, NewestRead, ClosingRead

LEMMA BeginClosed ==
  ASSUME Base, ClosedInv, NEW since, BeginPass(since), since = 0 \/ since = through
  PROVE  ClosedInv'
<1>1. UNCHANGED <<github, catalog, through, page, synced, reading, applied, newestHour>>
  BY DEF BeginPass, githubVars, archiveVars
<1>2. pass' = [NoPass EXCEPT !.active = TRUE, !.start = now, !.since = since]
  BY DEF BeginPass
<1>3. ~pass'.closedDone /\ pass'.closedCursor = Newest /\ pass'.since = since
  BY <1>2 DEF NoPass
<1>4. irregular' = {} => irregular = {} /\ (since # 0 \/ ~synced)
  BY DEF BeginPass
<1>5. ASSUME irregular' = {}, NEW i \in Issue, ShownOpen(i)'
      PROVE  ClosingAhead(i)' /\ ClosingHeld(i)'
  <2>1. ShownOpen(i) /\ ClosingAhead(i)
    BY <1>1, <1>4, <1>5 DEF ClosedInv, ShownOpen, ClosingRead
  <2>2. since # 0
    BY <1>4, <1>5, <2>1 DEF ClosingAhead
  <2>3. ~PastClosed(pass', github[i].at)
    <3>1. github[i].at \in Nat /\ github[i].at <= MaxTime /\ MaxTime \in Nat
      BY <2>1, ClosingEvent, BoundsAssumption DEF ShownOpen
    <3>2. ~(github[i].at >= Newest)
      BY <3>1 DEF Newest
    <3> QED BY <1>3, <3>2 DEF PastClosed
  <2>4. ClosingAhead(i)'
    BY <1>1, <1>3, <2>1, <2>2, <2>3 DEF ClosingAhead, PastClosed
  <2>5. \A w \in Worker : ~Held(w)'
    BY <1>1 DEF BeginPass, Base, OrderInv, HeldInv, Held
  <2> QED BY <2>4, <2>5 DEF ClosingHeld
<1> QED BY <1>1, <1>4, <1>5, ReadStays

LEMMA ClaimClosed ==
  ASSUME Base, ClosedInv, NEW w \in Worker, ClaimPage(w)
  PROVE  ClosedInv'
<1>1. /\ UNCHANGED <<github, catalog, through, pass, synced, reading, applied, newestHour, irregular>>
      /\ pass.active
  BY DEF ClaimPage, githubVars, archiveVars
<1>2. /\ \A v \in Worker : v # w => page'[v] = page[v]
      /\ page'[w].after = pass
  BY DEF ClaimPage, Base, TypeOK, NoPage
<1>3. ASSUME irregular' = {}, NEW i \in Issue, ShownOpen(i)'
      PROVE  ClosingAhead(i)' /\ ClosingHeld(i)'
  <2>1. ClosingAhead(i) /\ ClosingHeld(i)
    BY <1>1, <1>3 DEF ClosedInv, ShownOpen, ClosingRead
  <2>2. ClosingAhead(i)'
    BY <1>1, <2>1 DEF ClosingAhead, PastClosed
  <2>3. ClosingHeld(i)'
    BY <1>1, <1>2, <2>1 DEF ClosingAhead, ClosingHeld, Held, PastClosed
  <2> QED BY <2>2, <2>3
<1> QED BY <1>1, <1>3, ReadStays

LEMMA FetchClosed ==
  ASSUME Base, ClosedInv, NEW w \in Worker, FetchPage(w)
  PROVE  ClosedInv'
<1>1. UNCHANGED <<github, catalog, through, pass, synced, reading, applied, newestHour, irregular>>
  BY DEF FetchPage, githubVars, archiveVars
<1>2. PICK open, closed : FetchedBy(w, open, closed)
  BY FetchAnswers
<1>3. /\ \A v \in Worker : v # w => page'[v] = page[v]
      /\ page'[w].closed = closed.issues
      /\ page'[w].after.closedCursor = closed.cursor /\ page'[w].after.closedDone = ~closed.more
      /\ Held(w) /\ Held(w)' /\ page[w].closed = Nothing
  BY <1>2, FetchEffect
<1>4. /\ page[w].after.since = pass.since /\ pass.since <= through /\ page[w].after \in Pass
  BY <1>3, Numbers DEF Base, OrderInv, HeldInv, PassInv
<1>5. ASSUME irregular' = {}, NEW i \in Issue, ShownOpen(i)'
      PROVE  ClosingAhead(i)' /\ ClosingHeld(i)'
  <2>1. ShownOpen(i) /\ ClosingAhead(i) /\ ClosingHeld(i)
    BY <1>1, <1>5 DEF ClosedInv, ShownOpen, ClosingRead
  <2>2. ClosingAhead(i)'
    BY <1>1, <2>1 DEF ClosingAhead, PastClosed
  <2>3. /\ github[i].state = "CLOSED" /\ github[i].at # 0 /\ github[i].at \in Nat
        /\ through \in Nat /\ pass.since \in Nat
    BY <2>1, ClosingEvent, Numbers DEF ShownOpen, Base
  <2>4. \/ github[i].at > pass.start
        \/ pass.since # 0 /\ ~PastClosed(page'[w].after, github[i].at)
        \/ page'[w].closed[i] = github[i].at
    <3>1. page[w].closed[i] # github[i].at
      BY <1>3, <2>3 DEF Nothing
    <3>2. CASE github[i].at > pass.start
      BY <3>2
    <3>3. CASE pass.since # 0 /\ ~PastClosed(page[w].after, github[i].at)
      <4>1. ~page[w].after.closedDone /\ github[i].at < page[w].after.closedCursor
        BY <1>4, <2>3, <3>3, BoundsAssumption DEF PastClosed, Pass, Newest
      <4>2. github[i].at >= page[w].after.since
        BY <1>4, <2>1, <2>3 DEF ClosingAhead
      <4>3. i \in Listed("CLOSED", page[w].after.since, page[w].after.closedCursor)
        BY <2>3, <4>1, <4>2 DEF Listed
      <4>4. closed \in PagesOf("CLOSED", page[w].after.since, page[w].after.closedCursor)
        BY <1>2, <1>4, <3>3, <4>1 DEF FetchedBy
      <4>5. (closed.more /\ ~(github[i].at >= closed.cursor)) \/ closed.issues[i] = github[i].at
        BY <4>3, <4>4, PageLists DEF Base
      <4> QED BY <1>3, <3>3, <4>5 DEF PastClosed
    <3> QED BY <1>3, <2>1, <3>1, <3>2, <3>3 DEF ClosingHeld
  <2>5. ClosingHeld(i)'
    <3>1. ASSUME NEW v \in Worker, v # w, Held(v)'
          PROVE  \/ github[i].at > pass.start
                 \/ pass.since # 0 /\ ~PastClosed(page'[v].after, github[i].at)
                 \/ page'[v].closed[i] = github[i].at
      BY <1>3, <2>1, <3>1 DEF ClosingHeld, Held
    <3> QED BY <1>1, <2>4, <3>1 DEF ClosingHeld, PastClosed
  <2> QED BY <2>2, <2>5
<1> QED BY <1>1, <1>5, ReadStays

LEMMA CommitClosed ==
  ASSUME Base, ClosedInv, NEW w \in Worker, CommitPage(w)
  PROVE  ClosedInv'
<1> DEFINE after == page[w].after
           ends == after.openDone /\ after.closedDone
<1>1. /\ Held(w) /\ pass.active /\ after.active
      /\ after.start = pass.start /\ after.since = pass.since
      /\ IF ends THEN pass' = NoPass /\ ~pass'.active ELSE pass' = after
      /\ through' = IF ends /\ pass.start > through THEN pass.start ELSE through
      /\ \A v \in Worker : IF Held(v)' THEN ~ends /\ page'[v] = page[v] /\ Held(v)
                           ELSE page'[v] = NoPage
  BY CommitEffect DEF Base, OrderInv
<1>2. /\ UNCHANGED <<github, reading, applied, newestHour, irregular>>
      /\ catalog' = Written(page[w]) /\ synced'
  BY DEF CommitPage, githubVars, archiveVars
<1>3. through <= pass.start /\ through \in Nat /\ pass.start \in Nat
  BY <1>1, Numbers DEF Base, OrderInv, PassInv
<1>4. ends => \A t : PastClosed(after, t)
  BY DEF PastClosed
<1> HIDE DEF ends
<1>5. ASSUME irregular' = {}, NEW i \in Issue, ShownOpen(i)'
      PROVE  ClosingAhead(i)' /\ ClosingHeld(i)'
  <2>1. /\ github[i].state = "CLOSED" /\ Written(page[w])[i].state = "OPEN" /\ ClosingRead(i)
        /\ github[i].at # 0 /\ github[i].at \in Nat
    BY <1>2, <1>5, ClosingEvent DEF ShownOpen, ClosingRead
  <2>2. CASE github[i].at > pass.start
    <3>1. github[i].at > through'
      BY <1>1, <1>3, <2>1, <2>2
    <3>2. /\ pass'.active => pass'.start = pass.start
          /\ \A v \in Worker : Held(v)' => pass'.start = pass.start
      BY <1>1
    <3> QED BY <1>2, <2>2, <3>1, <3>2 DEF ClosingAhead, ClosingHeld
  <2>3. CASE ~(github[i].at > pass.start)
    <3>1. page[w].open[i] = 0
      <4>1. page[w].open[i] # 0 => github[i] = [state |-> "OPEN", at |-> page[w].open[i]]
        BY <1>1, <2>3 DEF Base, OrderInv, FreshInv
      <4> QED BY <2>1, <4>1
    <3>2. page[w].closed[i] = 0 /\ catalog[i].state = "OPEN"
      BY <2>1, <3>1 DEF Written
    <3>3. ShownOpen(i) /\ ClosingAhead(i) /\ ClosingHeld(i)
      BY <1>2, <1>5, <2>1, <3>2 DEF ShownOpen, ClosedInv
    <3>4. pass.since # 0 /\ ~PastClosed(after, github[i].at)
      BY <1>1, <2>1, <2>3, <3>2, <3>3 DEF ClosingHeld
    <3>5. ~ends /\ pass' = after /\ through' = through
      BY <1>1, <1>4, <3>4
    <3>6. ClosingAhead(i)'
      BY <1>1, <1>2, <3>3, <3>4, <3>5 DEF ClosingAhead, PastClosed
    <3>7. ClosingHeld(i)'
      <4>1. ASSUME NEW v \in Worker, Held(v)'
            PROVE  \/ github[i].at > pass'.start
                   \/ pass'.since # 0 /\ ~PastClosed(page'[v].after, github[i].at)
                   \/ page'[v].closed[i] = github[i].at
        <5>1. page'[v] = page[v] /\ Held(v) /\ pass'.start = pass.start /\ pass'.since = pass.since
          BY <1>1, <3>5, <4>1
        <5> QED BY <3>3, <5>1 DEF ClosingHeld
      <4> QED BY <1>2, <4>1 DEF ClosingHeld, PastClosed
    <3> QED BY <3>6, <3>7
  <2> QED BY <2>2, <2>3
<1> QED BY <1>2, <1>5, ReadStays

LEMMA DropClosed ==
  ASSUME Base, ClosedInv, GiveUpPass \/ \E w \in Worker : DropPage(w)
  PROVE  ClosedInv'
<1>1. UNCHANGED <<github, catalog, through, synced, reading, applied, newestHour, irregular>>
  BY DEF GiveUpPass, DropPage, githubVars, archiveVars
<1>2. /\ pass' = pass \/ ~pass'.active
      /\ \A v \in Worker : Held(v)' => Held(v) /\ page'[v] = page[v] /\ pass' = pass
  BY DEF GiveUpPass, DropPage, Base, TypeOK, Held, NoPage, NoPass
<1>3. ASSUME irregular' = {}, NEW i \in Issue, ShownOpen(i)'
      PROVE  ClosingAhead(i)' /\ ClosingHeld(i)'
  <2>1. ClosingAhead(i) /\ ClosingHeld(i)
    BY <1>1, <1>3 DEF ClosedInv, ShownOpen, ClosingRead
  <2>2. ClosingAhead(i)'
    BY <1>1, <1>2, <2>1 DEF ClosingAhead, PastClosed
  <2>3. ClosingHeld(i)'
    BY <1>1, <1>2, <2>1 DEF ClosingHeld, PastClosed
  <2> QED BY <2>2, <2>3
<1> QED BY <1>1, <1>3, ReadStays

\* Beginning an hour, or giving it up, reads no closing.
LEMMA HourClosed ==
  ASSUME Base, ClosedInv, NEW h \in Hour, BeginArchiveHour(h) \/ FailArchiveHour(h)
  PROVE  ClosedInv'
<1>1. UNCHANGED <<github, catalog, through, pass, page, synced, newestHour>>
  BY DEF BeginArchiveHour, FailArchiveHour, githubVars, syncVars
<1>2. irregular' = {} => irregular = {} /\ applied' = applied
  BY DEF BeginArchiveHour, FailArchiveHour
<1>3. ASSUME irregular' = {}, NEW i \in Issue, github[i].state = "CLOSED", ClosingRead(i)'
      PROVE  ClosingRead(i)
  <2> DEFINE g == HourOf(github[i].at)
  <2>1. g \in Hour /\ NewestOf(g, i) # 0
    BY <1>3, ClosingEvent
  <2>2. g # h => reading'[g] = reading[g]
    BY <2>1 DEF BeginArchiveHour, FailArchiveHour, Base, TypeOK
  <2>3. CASE g = h /\ BeginArchiveHour(h)
    <3>1. reading' # reading => i \in reading'[g].left
      BY <2>1, <2>3 DEF BeginArchiveHour, Base, TypeOK
    <3> QED BY <1>1, <1>2, <1>3, <3>1 DEF ClosingRead
  <2>4. CASE g = h /\ FailArchiveHour(h)
    <3>1. reading'[g] = NotReading
      BY <2>4 DEF FailArchiveHour, Base, TypeOK
    <3> QED BY <1>1, <1>2, <1>3, <3>1 DEF ClosingRead
  <2>5. CASE g # h
    BY <1>1, <1>2, <1>3, <2>2, <2>5 DEF ClosingRead
  <2> QED BY <2>3, <2>4, <2>5
<1>4. ASSUME irregular' = {} PROVE NewestRead'
  BY <1>1, <1>2, <1>3, <1>4 DEF ClosedInv, NewestRead
<1>5. ASSUME irregular' = {}, NEW i \in Issue, ShownOpen(i)'
      PROVE  ClosingAhead(i)' /\ ClosingHeld(i)'
  <2>1. ClosingAhead(i) /\ ClosingHeld(i)
    BY <1>1, <1>2, <1>3, <1>5 DEF ClosedInv, ShownOpen
  <2> QED BY <1>1, <2>1 DEF ClosingAhead, ClosingHeld, Held, PastClosed
<1> QED BY <1>4, <1>5 DEF ClosedInv

\* A row that is open is not the closing GitHub has.
LEMMA OpenBeforeClosing ==
  ASSUME Base, NEW i \in Issue, github[i].state = "CLOSED", catalog[i].state = "OPEN"
  PROVE  catalog[i].at < github[i].at
<1>1. /\ catalog[i].at \in 1..now /\ catalog[i].at <= github[i].at
  BY OpenIsRow DEF Base
<1>2. IsRow(i, catalog[i]) /\ catalog[i] # Absent
  BY DEF Base, HistoryInv, CopiesInv, RowsInv, Absent
<1>3. changes[catalog[i].at].state = "OPEN"
  BY <1>2 DEF IsRow
<1>4. github[i].at \in Nat /\ changes[github[i].at].state = "CLOSED" /\ now \in Nat
  BY ClosingEvent, Numbers DEF Base
<1>5. catalog[i].at # github[i].at
  BY <1>3, <1>4
<1> QED BY <1>1, <1>4, <1>5

\* Hours applied in order never open an issue whose closing was read, and the
\* hour of the closing leaves it closed.
LEMMA BatchClosed ==
  ASSUME Base, ClosedInv, NEW h \in Hour, ApplyArchiveBatch(h)
  PROVE  ClosedInv'
<1>1. PICK batch \in SUBSET reading[h].left :
        /\ batch # {}
        /\ catalog' = [i \in Issue |->
             IF i \in batch THEN ArchiveWrite(i, NewestOf(h, i), reading[h].updateOnly)
             ELSE catalog[i]]
        /\ IF batch = reading[h].left
           THEN /\ reading' = [reading EXCEPT ![h] = NotReading]
                /\ applied' = applied \cup {h}
           ELSE /\ reading' = [reading EXCEPT ![h].left = @ \ batch]
                /\ UNCHANGED applied
        /\ newestHour' = IF h > newestHour THEN h ELSE newestHour
        /\ irregular' = irregular \cup (IF h < newestHour THEN {"disordered"} ELSE {})
  BY DEF ApplyArchiveBatch
<1>2. /\ UNCHANGED <<github, through, pass, page, synced>>
  BY DEF ApplyArchiveBatch, githubVars, syncVars
<1>3. h \in Nat /\ newestHour \in Nat
  BY DEF Base, TypeOK, Hour
<1>4. irregular' = {} => irregular = {} /\ newestHour <= h
  BY <1>1, <1>3
<1>5. reading[h] # NotReading /\ reading[h] \in Reading
  BY <1>1 DEF NotReading, Base, TypeOK
\* What becomes read: only closings of this hour, and only when written.
<1>6. ASSUME NEW i \in Issue, github[i].state = "CLOSED", ClosingRead(i)'
      PROVE  ClosingRead(i) \/ (HourOf(github[i].at) = h /\ i \in batch)
  <2> DEFINE g == HourOf(github[i].at)
  <2>1. g \in Hour
    BY <1>6, ClosingEvent
  <2>2. CASE g # h
    <3>1. reading'[g] = reading[g] /\ (g \in applied' => g \in applied)
      BY <1>1, <2>1, <2>2 DEF Base, TypeOK
    <3> QED BY <1>2, <1>6, <3>1 DEF ClosingRead
  <2>3. CASE g = h /\ i \notin batch
    <3>1. CASE i \notin reading[h].left
      BY <1>5, <2>3, <3>1 DEF ClosingRead
    <3>2. CASE i \in reading[h].left
      <4>1. applied' = applied /\ reading' = [reading EXCEPT ![h].left = @ \ batch]
        BY <1>1, <2>3, <3>2
      <4>2. i \in reading'[h].left
        BY <1>5, <2>3, <3>2, <4>1 DEF Base, TypeOK, Reading
      <4> QED BY <1>2, <1>6, <2>3, <4>1, <4>2 DEF ClosingRead
    <3> QED BY <3>1, <3>2
  <2> QED BY <2>2, <2>3
<1>7. ASSUME irregular' = {} PROVE NewestRead'
  <2>1. ASSUME NEW i \in Issue, github[i].state = "CLOSED", ClosingRead(i)'
        PROVE  HourOf(github[i].at) <= newestHour'
    <3>1. HourOf(github[i].at) \in Nat
      BY <2>1, ClosingEvent DEF Hour
    <3>2. ClosingRead(i) => HourOf(github[i].at) <= newestHour
      BY <1>4, <1>7, <2>1 DEF ClosedInv, NewestRead
    <3>3. newestHour <= newestHour' /\ h <= newestHour' /\ newestHour' \in Nat
      BY <1>1, <1>3
    <3> QED BY <1>3, <1>6, <2>1, <3>1, <3>2, <3>3
  <2> QED BY <1>2, <2>1 DEF NewestRead
<1>8. ASSUME irregular' = {}, NEW i \in Issue, ShownOpen(i)'
      PROVE  ShownOpen(i)
  <2> DEFINE n == NewestOf(h, i)
             c == github[i].at
  <2>1. /\ github[i].state = "CLOSED" /\ catalog'[i].state = "OPEN" /\ ClosingRead(i)'
    BY <1>2, <1>8 DEF ShownOpen
  <2>2. /\ c \in Nat /\ changes[c].state = "CLOSED" /\ NewestOf(HourOf(c), i) = c /\ HourOf(c) \in Nat
    BY <2>1, ClosingEvent DEF Hour
  <2>3. CASE i \notin batch
    BY <1>1, <1>6, <2>1, <2>3 DEF ShownOpen
  <2>4. CASE i \in batch
    <3>1. HasEvent(h, i)
      BY <2>4 DEF Base, HistoryInv, CopiesInv, HoursInv, HasEvent
    <3>2. n \in Time /\ HourOf(n) = h /\ changes[n] # Absent /\ changes[n].issue = i
      BY <3>1, NewestIsNewest DEF EventsOf
    <3>3. n <= c /\ n \in Nat
      BY <3>2 DEF Base, HistoryInv, GitHubInv, Time
    <3>4. h <= HourOf(c)
      BY <2>2, <3>2, <3>3, HourMonotone
    <3>5. HourOf(c) = h
      <4>1. ClosingRead(i) => HourOf(c) <= newestHour
        BY <1>4, <1>8, <2>1 DEF ClosedInv, NewestRead
      <4> QED BY <1>3, <1>4, <1>6, <1>8, <2>1, <2>2, <3>4, <4>1
    <3>6. n = c
      BY <2>2, <3>5
    <3>7. catalog'[i] = ArchiveWrite(i, n, reading[h].updateOnly)
      BY <1>1, <2>4
    <3>8. catalog[i].state = "OPEN" => catalog[i].at < n
      BY <2>1, <3>6, OpenBeforeClosing
    <3>9. catalog'[i].state # "OPEN"
      BY <2>2, <3>6, <3>7, <3>8 DEF ArchiveWrite
    <3> QED BY <2>1, <3>9
  <2> QED BY <2>3, <2>4
<1>9. ASSUME irregular' = {}, NEW i \in Issue, ShownOpen(i)'
      PROVE  ClosingAhead(i)' /\ ClosingHeld(i)'
  <2>1. ClosingAhead(i) /\ ClosingHeld(i)
    BY <1>4, <1>8, <1>9 DEF ClosedInv
  <2> QED BY <1>2, <2>1 DEF ClosingAhead, ClosingHeld, Held, PastClosed
<1> QED BY <1>7, <1>9 DEF ClosedInv

LEMMA WebhookClosed ==
  ASSUME Base, ClosedInv, NEW t \in Time, DeliverWebhook(t)
  PROVE  ClosedInv'
<1> DEFINE issue == changes[t].issue
<1>1. /\ catalog' = [catalog EXCEPT ![issue] = [state |-> changes[t].state, at |-> t]]
      /\ irregular' = irregular \cup (IF t < github[issue].at THEN {"late"} ELSE {})
      /\ changes[t] # Absent
  BY DEF DeliverWebhook
<1>2. issue \in Issue /\ t <= github[issue].at
  BY <1>1 DEF Base, HistoryInv, GitHubInv
<1>3. ASSUME irregular' = {}, NEW i \in Issue, github[i].state = "CLOSED", catalog'[i].state = "OPEN"
      PROVE  catalog[i].state = "OPEN"
  <2>1. CASE i = issue
    <3>1. t = github[i].at
      <4>1. MaxTime \in Nat /\ github[i].at \in 0..MaxTime
        BY Numbers DEF Base
      <4>2. t \in Nat
        BY BoundsAssumption DEF Time
      <4> QED BY <1>1, <1>2, <1>3, <2>1, <4>1, <4>2
    <3>2. changes[t].state = "CLOSED"
      BY <1>3, <3>1, ClosingEvent
    <3> QED BY <1>1, <1>2, <1>3, <2>1, <3>2 DEF Base, TypeOK
  <2>2. CASE i # issue
    BY <1>1, <1>3, <2>2 DEF Base, TypeOK
  <2> QED BY <2>1, <2>2
<1>4. UNCHANGED <<github, through, pass, page, synced, reading, applied, newestHour>>
  BY DEF DeliverWebhook, githubVars, syncVars, archiveVars
<1>5. irregular' = {} => irregular = {}
  BY <1>1
<1> QED BY <1>3, <1>4, <1>5, ClosedStays

LEMMA ClosedStep ==
  Base /\ ClosedInv /\ [Next]_vars => ClosedInv'
<1> SUFFICES ASSUME Base, ClosedInv, [Next]_vars PROVE ClosedInv'
  OBVIOUS
<1>1. CASE UNCHANGED vars \/ RecomputeEligibility \/ FetchIssueStates \/ DropTrackedStates
  <2>1. UNCHANGED <<github, catalog, through, pass, page, synced, reading, applied, newestHour, irregular>>
    BY <1>1 DEF vars, RecomputeEligibility, FetchIssueStates, DropTrackedStates, githubVars, syncVars,
       archiveVars
  <2> QED BY <2>1, ClosedStays
<1>2. CASE BeginFullPass
  BY <1>2, BeginClosed DEF BeginFullPass
<1>3. CASE BeginFreshnessPass
  BY <1>3, BeginClosed DEF BeginFreshnessPass
<1>4. CASE ApplyTrackedStates
  <2>1. \A i \in Issue : catalog'[i].state = "OPEN" => catalog[i].state = "OPEN"
    BY <1>4 DEF ApplyTrackedStates, Tracked
  <2>2. UNCHANGED <<github, through, pass, page, synced, reading, applied, newestHour, irregular>>
    BY <1>4 DEF ApplyTrackedStates, githubVars, syncVars, archiveVars
  <2> QED BY <2>1, <2>2, ClosedStays
<1>5. CASE PruneClosedIssues
  <2>1. \A i \in Issue : catalog'[i].state = "OPEN" => catalog[i].state = "OPEN"
    BY <1>5 DEF PruneClosedIssues, Absent, Base, TypeOK
  <2>2. UNCHANGED <<github, through, pass, page, synced, reading, applied, newestHour, irregular>>
    BY <1>5 DEF PruneClosedIssues, githubVars, syncVars, archiveVars
  <2> QED BY <2>1, <2>2, ClosedStays
<1>6. CASE PruneExcludedIssues
  BY <1>6 DEF PruneExcludedIssues, ClosedInv
<1> QED BY <1>1, <1>2, <1>3, <1>4, <1>5, <1>6, ChangeClosed, ClaimClosed, FetchClosed, CommitClosed,
           DropClosed, HourClosed, BatchClosed, WebhookClosed DEF Next

----------------------------------------------------------------------------
\* The catalog reflects GitHub.

ReflectInv == Base /\ OpenInv /\ ClosedInv

LEMMA InitReflect == Init => ReflectInv
<1> SUFFICES ASSUME Init PROVE ReflectInv
  OBVIOUS
<1>1. Base
  <2>1. PassInv /\ HeldInv /\ HoursOver /\ FreshInv
    BY BoundsAssumption DEF Init, PassInv, HeldInv, HoursOver, FreshInv, Held, NoPage, NoPass
  <2> QED BY <2>1, InitHistory DEF Base, OrderInv
<1>2. OpenInv /\ ClosedInv
  BY DEF Init, OpenInv, ClosedInv, NewestRead, ShownOpen, Absent
<1> QED BY <1>1, <1>2 DEF ReflectInv

LEMMA ReflectStep == ReflectInv /\ [Next]_vars => ReflectInv'
  BY TypeStep, HistoryStep, OrderStep, OpenStep, ClosedStep DEF ReflectInv, Base

LEMMA ReflectShown == ReflectInv => IssuesReflected
<1> SUFFICES ASSUME ReflectInv PROVE IssuesReflected
  OBVIOUS
<1>1. OpenIssuesReflected
  BY DEF ReflectInv, OpenInv, OpenIssuesReflected, OpenStored
<1>2. ClosingsReflected
  <2> SUFFICES ASSUME irregular = {}, NEW i \in Issue, github[i].state = "CLOSED",
                      github[i].at <= through, catalog[i].state = "OPEN"
               PROVE  HourOf(github[i].at) \notin applied
    BY DEF ClosingsReflected
  <2>1. ShownOpen(i) => github[i].at > through
    BY DEF ReflectInv, ClosedInv, ClosingAhead
  <2>2. github[i].at \in Nat /\ through \in Nat
    BY ClosingEvent, Numbers DEF ReflectInv, Base
  <2> QED BY <2>1, <2>2 DEF ShownOpen, ClosingRead
<1> QED BY <1>1, <1>2 DEF IssuesReflected

\* Up to the watermark the catalog shows what GitHub has, whichever of the
\* crawl, the archive, the saved issues' check, webhooks and the prunes wrote
\* last and whatever they held when GitHub changed (worker.go, queue.go,
\* archive.go, tracked.go, prune.go).
THEOREM CatalogReflectsGitHub == Spec => []IssuesReflected
<1> QED BY InitReflect, ReflectStep, ReflectShown, PTL DEF Spec
=============================================================================
