----------------------------- MODULE CatalogBrowse -----------------------------
(***************************************************************************)
(* Paging through the catalog by cursor in the easiest and newest sorts     *)
(* (backend/internal/issue/browse.go).  A page of the easiest sort is       *)
(* filled range by range, because no single range holds what lies after a   *)
(* cursor; a page of the newest sort under a difficulty filter is merged    *)
(* from one read per difficulty.  One reader pages while issues change.     *)
(*                                                                          *)
(* Which index a range is read through is left out, and so is the filter of *)
(* hidden and claimed issues, which leaves the cursor alone.                *)
(***************************************************************************)
EXTENDS Integers, FiniteSets

CONSTANTS
  Listed,     \* issues, by their positive ids
  Score,      \* difficulty scores an issue may have
  Time,       \* values of updated_at
  MaxPage,    \* bound on the page size
  Preferred,  \* the issues in the reader's preferred languages
  Creations   \* what the issues' created_at may be, Undated for none

VARIABLES
  created,  \* each issue's created_at, which no update writes
  issue,    \* the open issues' score and updated_at; Shut for the others
  reader,   \* the reader's cursor
  seen,     \* history: the issues shown, and those shown again
  still     \* history: issues that have stood still since the reader began

catalogBrowseVars == <<created, issue, reader, seen, still>>

Unrated == 0
Undated == 0
Shut == [open |-> FALSE, score |-> Unrated, updated |-> 0]
NoCursor == [bucket |-> 0, score |-> Unrated, time |-> 0, id |-> 0]
NoReader == [sort |-> "none", prefers |-> FALSE, begun |-> FALSE, over |-> FALSE, cursor |-> NoCursor]

TypeOK ==
  /\ created \in Creations
  /\ issue \in [Listed -> {Shut} \cup [open: {TRUE}, score: Score \cup {Unrated}, updated: Time]]
  /\ reader.sort \in {"none", "easiest", "newest", "rated"}
  /\ reader.cursor.bucket \in 0..1 /\ reader.cursor.id \in Listed \cup {0}
  /\ seen.once \subseteq Listed /\ seen.twice \subseteq seen.once /\ still \subseteq Listed

Init ==
  /\ created \in Creations
  /\ issue \in [Listed -> {Shut} \cup [open: {TRUE}, score: Score \cup {Unrated}, updated: Time]]
  /\ reader = NoReader /\ seen = [once |-> {}, twice |-> {}] /\ still = {}

----------------------------------------------------------------------------
IsOpen == {i \in Listed : issue[i].open}

\* The newest sort reads the dated ones only.
Offered == {i \in IsOpen : reader.sort # "easiest" => created[i] # Undated}
Buckets == IF reader.prefers THEN {0, 1} ELSE {0}
BucketOf(i) == IF reader.prefers /\ i \notin Preferred THEN 1 ELSE 0

\* Later first, and the larger id of two.
Later(t, i, u, j) == t > u \/ (t = u /\ i > j)

\* catalogOrder, within the reader's buckets: unrated issues last.
ScoreBefore(s, t) == s # Unrated /\ (t = Unrated \/ s < t)
EasierThan(i, j) ==
  LET a == issue[i] b == issue[j] IN
  \/ BucketOf(i) < BucketOf(j)
  \/ /\ BucketOf(i) = BucketOf(j)
     /\ ScoreBefore(a.score, b.score) \/ (a.score = b.score /\ Later(a.updated, i, b.updated, j))
NewerThan(i, j) == Later(created[i], i, created[j], j)

\* The order of the reader's sort.
Before(i, j) == IF reader.sort = "easiest" THEN EasierThan(i, j) ELSE NewerThan(i, j)
FirstOf(S, n) == {i \in S : Cardinality({j \in S : Before(j, i)}) < n}
LastOf(S) == CHOOSE i \in S : \A j \in S : ~Before(i, j)

\* Mutant: the ranges of a rated cursor end with the higher scores.
Mutant_Segments(c) ==
  IF c.score = Unrated THEN {"within"} ELSE {"within", "higher"}

\* The ranges after a cursor: an unrated one has only its own left.
Segments(c) ==
  IF c.score = Unrated THEN {"within"} ELSE {"within", "higher", "unrated"}

InSegment(i, seg, c) ==
  LET a == issue[i] IN
  CASE seg = "within"  -> a.score = c.score /\ Later(c.time, c.id, a.updated, i)
    [] seg = "higher"  -> a.score # Unrated /\ a.score > c.score
    [] seg = "unrated" -> a.score = Unrated

\* What the cursor leaves of one bucket.  Without preferences there is one
\* bucket, and a cursor's position applies to it whatever its bucket was.
LeftIn(b) ==
  LET c == reader.cursor
      from == IF reader.prefers THEN c.bucket ELSE 0
      all == {i \in IsOpen : BucketOf(i) = b} IN
  IF ~reader.begun \/ b > from THEN all
  ELSE IF b < from THEN {}
  ELSE {i \in all : \E seg \in Segments(c) : InSegment(i, seg, c)}

----------------------------------------------------------------------------
\* Mutant: a full page is the last as well.
Mutant_Ends(page, n) == Cardinality(page) <= n

\* A page shorter than asked for is the last.
Ends(page, n) == Cardinality(page) < n

Turn(page, n, cursor) ==
  /\ seen' = [once |-> seen.once \cup page, twice |-> seen.twice \cup (page \cap seen.once)]
  /\ reader' = [reader EXCEPT !.begun = TRUE, !.over = Ends(page, n),
                              !.cursor = IF Ends(page, n) THEN NoCursor ELSE cursor]
  /\ UNCHANGED <<created, issue, still>>

BeginReading(sort, prefers) ==
  /\ reader.sort = "none"
  /\ reader' = [NoReader EXCEPT !.sort = sort, !.prefers = prefers]
  /\ seen' = [once |-> {}, twice |-> {}] /\ still' = Listed
  /\ UNCHANGED <<created, issue>>

EasiestPage(n) ==
  LET page == FirstOf(UNION {LeftIn(b) : b \in Buckets}, n)
      last == LastOf(page) IN
  /\ reader.sort = "easiest" /\ ~reader.over
  /\ Turn(page, n, IF page = {} THEN NoCursor
                   ELSE [bucket |-> BucketOf(last), score |-> issue[last].score,
                         time |-> issue[last].updated, id |-> last])

AfterCursor ==
  {i \in Offered : reader.begun => Later(reader.cursor.time, reader.cursor.id, created[i], i)}

\* Newest under a difficulty filter: the newest of each difficulty, merged.
Merged(S, n) ==
  LET parts == {FirstOf({i \in S : issue[i].score = s}, n) : s \in Score \cup {Unrated}} IN
  FirstOf(UNION parts, n)

NewestPage(n) ==
  LET page == IF reader.sort = "rated" THEN Merged(AfterCursor, n) ELSE FirstOf(AfterCursor, n)
      last == LastOf(page) IN
  /\ reader.sort \in {"newest", "rated"} /\ ~reader.over
  /\ Turn(page, n, IF page = {} THEN NoCursor
                   ELSE [NoCursor EXCEPT !.time = created[last], !.id = last])

LeaveReading ==
  /\ reader.sort # "none"
  /\ reader' = NoReader /\ seen' = [once |-> {}, twice |-> {}] /\ still' = {}
  /\ UNCHANGED <<created, issue>>

\* The reader's preferred languages are set or cleared between two pages: what
\* was promised of the order is not kept.
ChangePreferences ==
  /\ reader.sort = "easiest" /\ ~reader.over
  /\ reader' = [reader EXCEPT !.prefers = ~@]
  /\ still' = {}
  /\ UNCHANGED <<created, issue, seen>>

\* The crawl or the archive stores an issue: it moves, or joins or leaves.
StoreIssue(i) ==
  /\ issue' \in {[issue EXCEPT ![i] = v] : v \in {Shut} \cup [open: {TRUE}, score: Score \cup {Unrated}, updated: Time]}
  /\ still' = still \ {i}
  /\ UNCHANGED <<created, reader, seen>>

Next ==
  \/ \E sort \in {"easiest", "newest", "rated"}, prefers \in BOOLEAN : BeginReading(sort, prefers)
  \/ \E n \in 1..MaxPage : EasiestPage(n) \/ NewestPage(n)
  \/ LeaveReading \/ ChangePreferences
  \/ \E i \in Listed : StoreIssue(i)

Spec == Init /\ [][Next]_catalogBrowseVars

----------------------------------------------------------------------------
(* An issue that stands still while somebody pages is shown once: the ranges  *)
(* after a cursor "together hold every issue after" it and no other           *)
(* (browse.go, segmentsAfter), whatever moves around it between two pages and *)
(* however the pages are cut.                                                 *)
StillSeenOnce ==
  /\ still \cap seen.twice = {}
  /\ reader.over => still \cap Offered \subseteq seen.once
=============================================================================
