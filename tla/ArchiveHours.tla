---------------------------- MODULE ArchiveHours ----------------------------
(***************************************************************************)
(* The queue of GH Archive hours (backend/internal/ingest/archive.go): which*)
(* hours are queued, leased, read and given up, and the time up to which    *)
(* the coordinator may take the archive as read (runArchive in              *)
(* coordinator.go), which decides whether the archive stands in for the     *)
(* daily crawl.  What an hour writes is CatalogSync's subject; here an hour *)
(* was applied to its last batch, in full or (under the disk guard) as      *)
(* updates only, or it was not.                                             *)
(*                                                                          *)
(* Time counts hours: the hour `now` is running and the earlier ones ended. *)
(***************************************************************************)
EXTENDS Integers, FiniteSets

CONSTANTS
  LastHour,     \* bound on the clock
  Reader,       \* hours that may be held by the archive pools at a time
  MaxBackfill,  \* ingest.archive.max_backfill_hours
  MissingAfter, \* ingest.archive.missing_after_hours
  MaxLag,       \* ingest.archive.max_lag_seconds, in hours
  MaxAttempts   \* ingest.max_attempts

VARIABLES
  now,        \* the hour that is running
  published,  \* hours whose file GH Archive has published
  crawled,    \* the oldest completed crawl pass of an eligible repository
  hours,      \* archive_hours, a row or Unqueued for each hour
  held,       \* the hour each pool worker was handed, or Free
  seeded,     \* history: the clock when the first hour was queued
  taken       \* history: the hours applied to their last batch

archiveHoursVars == <<now, published, crawled, hours, held, seeded, taken>>

Hour == 0..LastHour
Row == [status: {"pending", "running", "done", "missing", "failed"}, attempts: 0..MaxAttempts]
Unqueued == [status |-> "none", attempts |-> 0]
Free == [step |-> "free", hour |-> 0]

Queued == {h \in Hour : hours[h] # Unqueued}
Newest(S) == CHOOSE h \in S : \A g \in S : g <= h
Oldest(S) == CHOOSE h \in S : \A g \in S : h <= g

TypeOK ==
  /\ now \in 0..LastHour + 1 /\ crawled \in Hour /\ seeded \in -1..LastHour + 1
  /\ published \subseteq 0..now - 1
  /\ hours \in [Hour -> Row \cup {Unqueued}]
  /\ held \in [Reader -> [step: {"free", "claimed", "open", "absent", "applied"},
                          hour: Hour]]
  /\ taken \subseteq published

Init ==
  /\ now = 1 /\ published = {} /\ crawled \in {0, 1}
  /\ hours = [h \in Hour |-> Unqueued] /\ held = [r \in Reader |-> Free]
  /\ seeded = -1 /\ taken = {}

----------------------------------------------------------------------------
\* Outside: the clock and GH Archive.
Tick ==
  /\ now <= LastHour
  /\ now' = now + 1
  /\ UNCHANGED <<published, crawled, hours, held, seeded, taken>>

Publish(h) ==
  /\ h < now /\ h \notin published
  /\ published' = published \cup {h}
  /\ UNCHANGED <<now, crawled, hours, held, seeded, taken>>

----------------------------------------------------------------------------
Highest(a, b) == IF a > b THEN a ELSE b

\* The first hour to queue: after the newest queued one, or on the first run
\* where the oldest crawl pass left off, within the backfill.
FirstToSeed ==
  IF Queued # {} THEN Newest(Queued) + 1 ELSE Highest(crawled, now - MaxBackfill)

SeedArchiveHours ==
  LET new == {h \in Hour : FirstToSeed <= h /\ h < now} IN
  /\ new # {}
  /\ hours' = [h \in Hour |-> IF h \in new /\ hours[h] = Unqueued
                                THEN [status |-> "pending", attempts |-> 0] ELSE hours[h]]
  /\ seeded' = IF seeded = -1 THEN now ELSE seeded
  /\ UNCHANGED <<now, published, crawled, held, taken>>

\* next_retry_at is left open: any pending hours may be the due ones, and the
\* pool is handed the oldest of them.
ClaimArchiveHour(r, h) ==
  /\ held[r] = Free /\ hours[h].status = "pending"
  /\ hours' = [hours EXCEPT ![h].status = "running"]
  /\ held' = [held EXCEPT ![r] = [step |-> "claimed", hour |-> h]]
  /\ UNCHANGED <<now, published, crawled, seeded, taken>>

\* A lease runs out while its worker is slow or gone.
ReclaimExpiredArchiveLease(h) ==
  /\ hours[h].status = "running"
  /\ hours' = [hours EXCEPT ![h].status = "pending"]
  /\ UNCHANGED <<now, published, crawled, held, seeded, taken>>

\* The process ends, or could not store how the hour ended.
LetGo(r) ==
  /\ held[r].step # "free"
  /\ held' = [held EXCEPT ![r] = Free]
  /\ UNCHANGED <<now, published, crawled, hours, seeded, taken>>

\* archiveSource.open: the file, or 404.
Open(r) ==
  /\ held[r].step = "claimed"
  /\ held' = [held EXCEPT ![r].step = IF held[r].hour \in published THEN "open" ELSE "absent"]
  /\ UNCHANGED <<now, published, crawled, hours, seeded, taken>>

\* Mutant: written by hour alone.
Mutant_FinishUnfenced(r, row) ==
  /\ held' = [held EXCEPT ![r] = Free]
  /\ hours' = [hours EXCEPT ![held[r].hour] = row]
  /\ UNCHANGED <<now, published, crawled, seeded, taken>>

\* finishArchiveHour: the row is written only if it is still leased to this
\* process, which may be for another claim of the same hour.
Finish(r, row) ==
  /\ held' = [held EXCEPT ![r] = Free]
  /\ hours' = IF hours[held[r].hour].status = "running"
                THEN [hours EXCEPT ![held[r].hour] = row] ELSE hours
  /\ UNCHANGED <<now, published, crawled, seeded, taken>>

Attempts(r) == hours[held[r].hour].attempts

\* A 404 long enough after the hour ended is taken for good; an earlier one
\* puts the hour back without counting an attempt.
NotPublished(r) ==
  LET late == now - (held[r].hour + 1) > MissingAfter IN
  /\ held[r].step = "absent"
  /\ Finish(r, [status |-> IF late THEN "missing" ELSE "pending", attempts |-> Attempts(r)])

\* The download, the parse or a batch failed; the batches before it stay.
FailArchiveHour(r) ==
  LET n == Attempts(r) + 1 IN
  /\ held[r].step \in {"claimed", "open"}
  /\ n <= MaxAttempts
  /\ Finish(r, [status |-> IF n >= MaxAttempts THEN "failed" ELSE "pending", attempts |-> n])

\* Every batch is committed and the candidates are queued.
ApplyArchiveIssues(r) ==
  /\ held[r].step = "open"
  /\ held' = [held EXCEPT ![r].step = "applied"]
  /\ taken' = taken \cup {held[r].hour}
  /\ UNCHANGED <<now, published, crawled, hours, seeded>>

CompleteArchiveHour(r) ==
  /\ held[r].step = "applied"
  /\ Finish(r, [status |-> "done", attempts |-> Attempts(r)])

Next ==
  \/ Tick \/ SeedArchiveHours
  \/ \E h \in Hour : Publish(h) \/ ReclaimExpiredArchiveLease(h)
  \/ \E r \in Reader, h \in Hour : ClaimArchiveHour(r, h)
  \/ \E r \in Reader : \/ LetGo(r) \/ Open(r) \/ NotPublished(r) \/ FailArchiveHour(r)
                       \/ ApplyArchiveIssues(r) \/ CompleteArchiveHour(r)

Spec == Init /\ [][Next]_archiveHoursVars

----------------------------------------------------------------------------
\* Mutant: a failed hour does not hold the coverage back.
Mutant_UnreadButFailed == {h \in Queued : hours[h].status \in {"pending", "running"}}

\* The statuses that hold the coverage back, and the time it reaches.
Unread == {h \in Queued : hours[h].status \in {"pending", "running", "failed"}}
CoveredUntil ==
  IF Unread # {} THEN Oldest(Unread)
  ELSE IF Queued # {} THEN Newest(Queued) + 1 ELSE -1

\* runArchive: whether the archive stands in for the freshness crawl.
Current == CoveredUntil # -1 /\ now - CoveredUntil <= MaxLag

(* The archive is taken for current only if it has been read: every hour     *)
(* that ended more than max_lag ago, from where the crawl left off (or the    *)
(* first run's backfill) on, was applied, or was still unpublished            *)
(* missing_after_hours past its end.  The freshness crawl and the incremental *)
(* sweep are switched off on this word (coordinator.go, runArchive).          *)
CurrentMeansRead ==
  Current => \A h \in Hour :
    (h >= crawled /\ h >= seeded - MaxBackfill /\ now - h > MaxLag) =>
      h \in taken \/ (hours[h].status = "missing" /\ now - (h + 1) > MissingAfter)
=============================================================================
