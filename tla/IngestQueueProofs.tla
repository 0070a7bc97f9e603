------------------------- MODULE IngestQueueProofs -------------------------
(* Proofs about IngestQueue, for every value of its constants. *)
EXTENDS IngestQueue, TLAPS

LEMMA NoCopyType == NoCopy \in Copy
  BY BoundsAssumption DEF NoCopy, Copy

LEMMA AbsentRowType == AbsentRow \in JobRow
  BY BoundsAssumption DEF AbsentRow, JobRow

\* The row a copy stands for is a row of the table.
LEMMA BusyType ==
  ASSUME TypeOK, NEW s \in Slot, Busy(s)
  PROVE  /\ held[s] \in Copy /\ held[s].job \in Job
         /\ jobs[held[s].job] \in JobRow
  BY BoundsAssumption DEF TypeOK, Busy, Copy, Job

LEMMA UnleasedType ==
  ASSUME NEW row \in JobRow, NEW status \in {"pending", "failed", "done"}
  PROVE  Unleased(row, status) \in JobRow
  BY DEF Unleased, JobRow

LEMMA ClaimedType ==
  ASSUME NEW row \in JobRow, NEW o \in Owner
  PROVE  [row EXCEPT !.status = "running", !.owner = o, !.lapsed = FALSE] \in JobRow
  BY DEF JobRow

LEMMA LapsedType ==
  ASSUME NEW row \in JobRow
  PROVE  [row EXCEPT !.lapsed = TRUE] \in JobRow
  BY DEF JobRow

LEMMA NewRowType ==
  ASSUME nextId \in Job, NEW r \in Repo, NEW since \in 0..MaxJobs
  PROVE  NewRow(r, since) \in JobRow
<1>1. nextId \in 0..MaxJobs /\ 0 \in 0..MaxJobs
  BY BoundsAssumption DEF Job
<1> QED BY <1>1, AbsentRowType DEF NewRow, JobRow

LEMMA ProgressType ==
  ASSUME NEW c \in Copy, NEW a \in BOOLEAN, NEW b \in BOOLEAN
  PROVE  Progress(c, a, b) \in [pages: Nat, openDone: BOOLEAN, closedDone: BOOLEAN]
  BY DEF Progress, Copy

LEMMA StoredType ==
  ASSUME NEW row \in JobRow,
         NEW p \in [pages: Nat, openDone: BOOLEAN, closedDone: BOOLEAN]
  PROVE  Stored(row, p) \in JobRow
  BY DEF Stored, JobRow

\* The table stays a table under CompleteOrRequeue.
LEMMA RequeuedType ==
  ASSUME TypeOK, NEW s \in Slot, Busy(s),
         NEW p \in [pages: Nat, openDone: BOOLEAN, closedDone: BOOLEAN],
         HandsOff(held[s], p) => nextId \in Job
  PROVE  Requeued(held[s], p) \in [Job -> JobRow]
<1> DEFINE c == held[s]
           row == jobs[c.job]
<1>0. c.job \in Job /\ row \in JobRow /\ jobs \in [Job -> JobRow]
  BY BusyType DEF TypeOK
<1>1. Stored(Unleased(row, "done"), p) \in JobRow
  BY <1>0, UnleasedType, StoredType
<1>2. CASE ~MorePages(p)
  BY <1>0, <1>1, <1>2 DEF Requeued
<1>3. CASE MorePages(p) /\ row.type = "deep"
  <2>1. Stored(Unleased(row, "pending"), p) \in JobRow
    BY <1>0, UnleasedType, StoredType
  <2>2. [Stored(Unleased(row, "pending"), p) EXCEPT !.attempts = 0] \in JobRow
    BY <2>1 DEF JobRow
  <2> QED BY <1>0, <1>3, <2>2 DEF Requeued
<1>4. CASE MorePages(p) /\ row.type # "deep"
  <2> DEFINE deep == [Stored(AbsentRow, p) EXCEPT !.repo = row.repo, !.type = "deep",
                        !.status = "pending", !.since = row.since, !.pass = row.pass]
             table == [jobs EXCEPT ![c.job] = Stored(Unleased(@, "done"), p)]
  <2>1. Stored(AbsentRow, p) \in JobRow
    BY AbsentRowType, StoredType
  <2>2. deep \in JobRow
    BY <1>0, <2>1 DEF JobRow
  <2>3. table \in [Job -> JobRow]
    BY <1>0, <1>1
  <2>4. Inserted(table, deep) \in [Job -> JobRow]
    BY <2>2, <2>3 DEF Inserted
  <2> QED BY <1>4, <2>4 DEF Requeued
<1> QED BY <1>2, <1>3, <1>4

\* Every step keeps the types.
LEMMA TypeStep == TypeOK /\ [Next]_vars => TypeOK'
<1> SUFFICES ASSUME TypeOK, [Next]_vars PROVE TypeOK'
  OBVIOUS
<1> USE BoundsAssumption, SettingsAssumption
<1>1. ASSUME NEW r \in Repo, EnqueueInitial(r) PROVE TypeOK'
  <2>1. NewRow(r, 0) \in JobRow
    BY <1>1, NewRowType DEF EnqueueInitial
  <2> QED BY <1>1, <2>1 DEF EnqueueInitial, TypeOK, repoVars, historyVars, Job
<1>2. ASSUME NEW r \in Repo, EnqueueFreshness(r) PROVE TypeOK'
  <2>1. NewRow(r, through[r]) \in JobRow
    BY <1>2, NewRowType DEF EnqueueFreshness, TypeOK
  <2> QED BY <1>2, <2>1 DEF EnqueueFreshness, Inserted, TypeOK, repoVars, historyVars, Job
<1>3. ASSUME NEW r \in Repo, EnqueuePriority(r) PROVE TypeOK'
  <2>1. NewRow(r, 0) \in JobRow
    BY <1>3, NewRowType DEF EnqueuePriority
  <2> QED BY <1>3, <2>1 DEF EnqueuePriority, TypeOK, repoVars, historyVars, Job
<1>4. ASSUME NEW o \in Owner, NEW s \in Slot, NEW j \in Job, Claim(o, s, j) PROVE TypeOK'
  <2>1. [jobs[j] EXCEPT !.status = "running", !.owner = o, !.lapsed = FALSE] \in JobRow
    BY ClaimedType DEF TypeOK
  <2>2. [job |-> j, owner |-> o, pages |-> jobs[j].pages,
         openDone |-> jobs[j].openDone, closedDone |-> jobs[j].closedDone,
         attempts |-> jobs[j].attempts, reclaimed |-> FALSE] \in Copy
    BY DEF TypeOK, JobRow, Copy, Job
  <2>3. jobs' \in [Job -> JobRow]
    BY <1>4, <2>1 DEF Claim, TypeOK
  <2>4. held' \in [Slot -> Copy]
    BY <1>4, <2>2 DEF Claim, TypeOK
  <2> QED BY <1>4, <2>3, <2>4 DEF Claim, TypeOK, repoVars, historyVars
<1>5. ASSUME NEW j \in Job, LeaseLapses(j) PROVE TypeOK'
  <2>1. jobs' \in [Job -> JobRow]
    BY <1>5, LapsedType DEF LeaseLapses, TypeOK
  <2> QED BY <1>5, <2>1 DEF LeaseLapses, TypeOK, repoVars, historyVars
<1>6. ASSUME ReclaimExpiredLeases PROVE TypeOK'
  <2>1. jobs' \in [Job -> JobRow]
    BY <1>6, UnleasedType DEF ReclaimExpiredLeases, TypeOK
  <2>2. \A s \in Slot : [held[s] EXCEPT !.reclaimed = TRUE] \in Copy
    BY DEF TypeOK, Copy
  <2>3. held' \in [Slot -> Copy]
    BY <1>6, <2>2 DEF ReclaimExpiredLeases, TypeOK
  <2> QED BY <1>6, <2>1, <2>3 DEF ReclaimExpiredLeases, TypeOK, repoVars, historyVars
<1>7. ASSUME NEW s \in Slot, ReleaseJob(s) PROVE TypeOK'
  <2>1. jobs' \in [Job -> JobRow]
    BY <1>7, BusyType, UnleasedType DEF ReleaseJob, TypeOK
  <2> QED BY <1>7, <2>1, NoCopyType DEF ReleaseJob, TypeOK, repoVars, historyVars
<1>8. ASSUME NEW s \in Slot, FailJob(s) PROVE TypeOK'
  <2> DEFINE attempt == held[s].attempts + 1
             status == IF attempt >= MaxAttempts THEN "failed" ELSE "pending"
             row == jobs[held[s].job]
  <2>1. held[s] \in Copy /\ held[s].job \in Job /\ row \in JobRow /\ attempt \in Nat
    BY <1>8, BusyType DEF FailJob, Copy
  <2>2. Unleased(row, status) \in JobRow
    BY <2>1, UnleasedType
  <2>3. [Unleased(row, status) EXCEPT !.attempts = attempt] \in JobRow
    BY <2>1, <2>2 DEF JobRow
  <2>4. jobs' \in [Job -> JobRow]
    BY <1>8, <2>1, <2>3 DEF FailJob, TypeOK
  <2>5. errors' \in [Job -> 0..MaxAttempts]
    BY <1>8, <2>1 DEF FailJob, TypeOK
  <2> QED BY <1>8, <2>4, <2>5, NoCopyType DEF FailJob, TypeOK, repoVars
<1>9. ASSUME NEW s \in Slot, MarkUnavailable(s) PROVE TypeOK'
  <2>1. held[s].job \in Job /\ jobs[held[s].job] \in JobRow
    BY <1>9, BusyType DEF MarkUnavailable
  <2>2. jobs' \in [Job -> JobRow]
    BY <1>9, <2>1, UnleasedType DEF MarkUnavailable, TypeOK
  <2>3. eligibility' \in [Repo -> {"eligible", "below", "not_found", "duplicate"}]
    <3>1. PICK reason \in {"not_found", "below"} :
            eligibility' = [eligibility EXCEPT ![jobs[held[s].job].repo] = reason]
      BY <1>9 DEF MarkUnavailable
    <3> QED BY <3>1 DEF TypeOK
  <2>4. errors' \in [Job -> 0..MaxAttempts]
    <3>1. errors' = [errors EXCEPT ![held[s].job] = MaxAttempts]
      BY <1>9 DEF MarkUnavailable
    <3>2. errors \in [Job -> 0..MaxAttempts] /\ MaxAttempts \in 0..MaxAttempts
      BY DEF TypeOK
    <3> QED BY <3>1, <3>2
  <2> QED BY <1>9, <2>2, <2>3, <2>4, NoCopyType DEF MarkUnavailable, TypeOK
<1>10. ASSUME NEW s \in Slot, LoseLease(s) PROVE TypeOK'
  BY <1>10, NoCopyType DEF LoseLease, TypeOK, repoVars, historyVars
<1>11. ASSUME NEW s \in Slot, Abandon(s) PROVE TypeOK'
  BY <1>11, NoCopyType DEF Abandon, TypeOK, repoVars, historyVars
<1>12. ASSUME NEW s \in Slot, CommitPage(s) PROVE TypeOK'
  <2>1. Busy(s) /\ held[s] \in Copy /\ held[s].job \in Job /\ jobs[held[s].job] \in JobRow
    BY <1>12, BusyType DEF CommitPage
  <2>2. PICK p \in [pages: Nat, openDone: BOOLEAN, closedDone: BOOLEAN],
             duplicate \in BOOLEAN : StorePage(s, p, duplicate)
    BY <1>12, <2>1, ProgressType DEF CommitPage
  <2>3. jobs' \in [Job -> JobRow]
    BY <2>1, <2>2, RequeuedType DEF StorePage
  <2>4. rows' \in [Job -> SUBSET Nat]
    BY <2>2 DEF StorePage, TypeOK
  <2>5. jobs[held[s].job].pass \in 0..MaxJobs
    BY <2>1 DEF JobRow
  <2>6. through' \in [Repo -> 0..MaxJobs]
    BY <2>2, <2>5 DEF StorePage, TypeOK, Watermark
  <2>7. eligibility' \in [Repo -> {"eligible", "below", "not_found", "duplicate"}]
    <3>1. \/ eligibility' = eligibility
          \/ eligibility' = [eligibility EXCEPT ![jobs[held[s].job].repo] = "duplicate"]
      BY <2>2, Zenon DEF StorePage
    <3> QED BY <3>1 DEF TypeOK
  <2>8. held' \in [Slot -> Copy]
    BY <2>2, NoCopyType DEF StorePage, TypeOK
  <2>9. synced' \in [Repo -> BOOLEAN] /\ nextId' \in Nat
    <3>1. /\ synced' = [synced EXCEPT ![jobs[held[s].job].repo] = TRUE]
          /\ nextId' = nextId \/ nextId' = nextId + 1
      BY <2>2, Zenon DEF StorePage
    <3>2. synced \in [Repo -> BOOLEAN] /\ nextId \in Nat
      BY DEF TypeOK
    <3>3. synced' \in [Repo -> BOOLEAN]
      BY <3>1, <3>2
    <3>4. nextId' \in Nat
      BY <3>1, <3>2
    <3> QED BY <3>3, <3>4
  <2>10. process' = process /\ errors' = errors
    BY <2>2 DEF StorePage
  <2> QED BY <2>3, <2>4, <2>6, <2>7, <2>8, <2>9, <2>10 DEF TypeOK
<1>13. ASSUME RecomputeEligibility PROVE TypeOK'
  BY <1>13 DEF RecomputeEligibility, TypeOK, historyVars
<1>14. ASSUME NEW r \in Repo, Rediscover(r) PROVE TypeOK'
  BY <1>14 DEF Rediscover, TypeOK, historyVars
<1>15. ASSUME NEW o \in Owner, Start(o) PROVE TypeOK'
  BY <1>15 DEF Start, TypeOK, repoVars, historyVars
<1>16. ASSUME NEW o \in Owner, Crash(o) PROVE TypeOK'
  BY <1>16, NoCopyType DEF Crash, TypeOK, repoVars, historyVars
<1>17. CASE UNCHANGED vars
  BY <1>17 DEF vars, TypeOK
<1> QED
  BY <1>1, <1>2, <1>3, <1>4, <1>5, <1>6, <1>7, <1>8, <1>9, <1>10, <1>11, <1>12,
     <1>13, <1>14, <1>15, <1>16, <1>17 DEF Next, Enqueue, Process

LEMMA InitType == Init => TypeOK
  BY BoundsAssumption, SettingsAssumption, AbsentRowType, NoCopyType DEF Init, TypeOK

\* The variables of the queue always have their types.
THEOREM TypeCorrect == Spec => []TypeOK
  BY InitType, TypeStep, PTL DEF Spec

----------------------------------------------------------------------------
\* Safety.  Most steps only move a row between statuses or a copy between
\* slots; QuietStep says so, and QuietKeepsSafety handles them all at once.

SameWork(a, b) ==
  a.repo = b.repo /\ a.pass = b.pass /\ a.since = b.since /\ a.pages = b.pages

QuietStep ==
  /\ \A j \in Job :
       /\ SameWork(jobs'[j], jobs[j])
       /\ Active(jobs'[j]) => Active(jobs[j])
       /\ jobs'[j].status = "absent" <=> jobs[j].status = "absent"
       /\ jobs[j].status = "done" => jobs'[j] = jobs[j]
  /\ \A s \in Slot : held'[s].job # 0 =>
       \/ held'[s].job = held[s].job /\ held'[s].pages = held[s].pages
       \/ /\ held'[s].job \in Job /\ jobs[held'[s].job].status # "absent"
          /\ held'[s].pages = jobs[held'[s].job].pages
  /\ nextId' = nextId /\ through' = through /\ rows' = rows

LEMMA QuietKeepsSafety == TypeOK /\ TypeOK' /\ SafetyInv /\ QuietStep => SafetyInv'
<1> SUFFICES ASSUME TypeOK, TypeOK', SafetyInv, QuietStep PROVE SafetyInv'
  OBVIOUS
<1>0. \A s \in Slot : Busy(s) => held[s].job \in Job
  BY BusyType
<1>1. RowsExist'
  BY <1>0 DEF SafetyInv, RowsExist, QuietStep, SameWork, Busy
<1>2. OneActiveJobPerRepo'
  BY DEF SafetyInv, OneActiveJobPerRepo, QuietStep, SameWork
<1>3. CursorBehindRows'
  <2>1. ASSUME NEW j \in Job, jobs'[j].status # "absent"
        PROVE  1..jobs'[j].pages \subseteq rows'[jobs'[j].pass]
    BY <2>1 DEF SafetyInv, CursorBehindRows, QuietStep, SameWork
  <2>2. ASSUME NEW s \in Slot, Busy(s)'
        PROVE  1..held'[s].pages \subseteq rows'[jobs'[held'[s].job].pass]
    <3>1. CASE held'[s].job = held[s].job /\ held'[s].pages = held[s].pages
      <4>1. Busy(s) /\ held[s].job \in Job
        BY <1>0, <2>2, <3>1 DEF Busy
      <4>2. 1..held[s].pages \subseteq rows[jobs[held[s].job].pass]
        BY <4>1 DEF SafetyInv, CursorBehindRows
      <4> QED BY <3>1, <4>1, <4>2 DEF QuietStep, SameWork
    <3>2. CASE /\ held'[s].job \in Job /\ jobs[held'[s].job].status # "absent"
               /\ held'[s].pages = jobs[held'[s].job].pages
      <4>1. 1..jobs[held'[s].job].pages \subseteq rows[jobs[held'[s].job].pass]
        BY <3>2 DEF SafetyInv, CursorBehindRows
      <4> QED BY <3>2, <4>1 DEF QuietStep, SameWork
    <3> QED BY <2>2, <3>1, <3>2 DEF QuietStep, Busy
  <2> QED BY <2>1, <2>2 DEF CursorBehindRows
<1>4. WatermarkEarned'
  <2> SUFFICES ASSUME NEW r \in Repo, through[r] # 0
               PROVE  \E j \in Job :
                        /\ jobs'[j].repo = r /\ jobs'[j].pass = through[r]
                        /\ jobs'[j].status = "done"
                        /\ Capped(jobs'[j].pages) \/ (jobs'[j].openDone /\ jobs'[j].closedDone)
                        /\ 1..jobs'[j].pages \subseteq rows[jobs'[j].pass]
    BY DEF WatermarkEarned, QuietStep, Capped
  <2>1. PICK j \in Job :
          /\ jobs[j].repo = r /\ jobs[j].pass = through[r] /\ jobs[j].status = "done"
          /\ Capped(jobs[j].pages) \/ (jobs[j].openDone /\ jobs[j].closedDone)
          /\ 1..jobs[j].pages \subseteq rows[jobs[j].pass]
    BY DEF SafetyInv, WatermarkEarned
  <2>2. jobs'[j] = jobs[j]
    BY <2>1 DEF QuietStep
  <2> QED BY <2>1, <2>2
<1>5. PassAfterWatermark'
  BY DEF SafetyInv, PassAfterWatermark, QuietStep, SameWork
<1> QED BY <1>1, <1>2, <1>3, <1>4, <1>5 DEF SafetyInv

\* A pass enters the queue of a repository that has none, reading from 0 or
\* from the watermark.
LEMMA InsertKeepsSafety ==
  ASSUME TypeOK, TypeOK', SafetyInv, NEW r \in Repo, NEW since \in 0..through[r],
         nextId \in Job, ~HasActive(jobs, r),
         jobs' = [jobs EXCEPT ![nextId] = NewRow(r, since)], nextId' = nextId + 1,
         UNCHANGED <<through, held, rows>>
  PROVE  SafetyInv'
<1> DEFINE new == NewRow(r, since)
<1>1. /\ new.repo = r /\ new.status = "pending" /\ new.since = since
      /\ new.pass = nextId /\ new.pages = 0
  BY DEF NewRow, AbsentRow
<1>2. jobs' \in [Job -> JobRow] /\ jobs'[nextId] = new
      /\ \A j \in Job : j # nextId => jobs'[j] = jobs[j]
  BY DEF TypeOK
<1>3. jobs[nextId].status = "absent" /\ nextId \in Nat /\ nextId > 0
  BY BoundsAssumption DEF SafetyInv, RowsExist, Job
<1>4. \A s \in Slot : Busy(s) => held[s].job \in Job /\ held[s].job # nextId
                               /\ jobs[held[s].job].status # "absent"
  BY <1>3, BusyType DEF SafetyInv, RowsExist
<1>5. through[r] \in 0..MaxJobs /\ \A q \in Repo : through[q] \in Nat
  BY BoundsAssumption DEF TypeOK
<1> HIDE DEF new
<1>6. RowsExist'
  <2>1. ASSUME NEW j \in Job, jobs'[j].status # "absent"
        PROVE  /\ j < nextId' /\ jobs'[j].repo \in Repo
               /\ jobs'[j].pass \in Job /\ jobs'[j].pass < nextId'
    <3>1. CASE j = nextId
      BY <1>1, <1>2, <1>3, <3>1
    <3>2. CASE j # nextId
      <4>1. j < nextId /\ jobs[j].repo \in Repo /\ jobs[j].pass \in Job /\ jobs[j].pass < nextId
        BY <1>2, <2>1, <3>2 DEF SafetyInv, RowsExist
      <4> QED BY <1>2, <1>3, <3>2, <4>1 DEF Job
    <3> QED BY <3>1, <3>2
  <2>2. ASSUME NEW s \in Slot, Busy(s)' PROVE jobs'[held'[s].job].status # "absent"
    BY <1>2, <1>4, <2>2 DEF Busy
  <2>3. \A q \in Repo : through'[q] < nextId'
    BY <1>3, <1>5 DEF SafetyInv, RowsExist
  <2> QED BY <2>1, <2>2, <2>3 DEF RowsExist
<1>7. OneActiveJobPerRepo'
  BY <1>1, <1>2 DEF SafetyInv, OneActiveJobPerRepo, HasActive, Active
<1>8. CursorBehindRows'
  <2>1. ASSUME NEW j \in Job, jobs'[j].status # "absent"
        PROVE  1..jobs'[j].pages \subseteq rows'[jobs'[j].pass]
    <3>1. CASE j = nextId
      <4>1. 1..0 = {}
        OBVIOUS
      <4> QED BY <1>1, <1>2, <3>1, <4>1
    <3>2. CASE j # nextId
      BY <1>2, <2>1, <3>2 DEF SafetyInv, CursorBehindRows
    <3> QED BY <3>1, <3>2
  <2>2. ASSUME NEW s \in Slot, Busy(s)'
        PROVE  1..held'[s].pages \subseteq rows'[jobs'[held'[s].job].pass]
    <3>1. Busy(s) /\ held'[s] = held[s]
      BY <2>2 DEF Busy
    <3> QED BY <1>2, <1>4, <3>1 DEF SafetyInv, CursorBehindRows
  <2> QED BY <2>1, <2>2 DEF CursorBehindRows
<1>9. WatermarkEarned'
  <2> SUFFICES ASSUME NEW q \in Repo, through[q] # 0
               PROVE  \E j \in Job :
                        /\ jobs'[j].repo = q /\ jobs'[j].pass = through[q]
                        /\ jobs'[j].status = "done"
                        /\ Capped(jobs'[j].pages) \/ (jobs'[j].openDone /\ jobs'[j].closedDone)
                        /\ 1..jobs'[j].pages \subseteq rows[jobs'[j].pass]
    BY DEF WatermarkEarned, Capped
  <2>1. PICK j \in Job :
          /\ jobs[j].repo = q /\ jobs[j].pass = through[q] /\ jobs[j].status = "done"
          /\ Capped(jobs[j].pages) \/ (jobs[j].openDone /\ jobs[j].closedDone)
          /\ 1..jobs[j].pages \subseteq rows[jobs[j].pass]
    BY DEF SafetyInv, WatermarkEarned
  <2>2. jobs'[j] = jobs[j]
    BY <1>2, <1>3, <2>1
  <2> QED BY <2>1, <2>2
<1>10. PassAfterWatermark'
  <2> SUFFICES ASSUME NEW j \in Job, Active(jobs'[j])
               PROVE  /\ jobs'[j].since <= through[jobs'[j].repo]
                      /\ through[jobs'[j].repo] < jobs'[j].pass
    BY DEF PassAfterWatermark, Active
  <2>1. CASE j = nextId
    BY <1>1, <1>2, <1>5, <2>1 DEF SafetyInv, RowsExist
  <2>2. CASE j # nextId
    BY <1>2, <2>2 DEF SafetyInv, PassAfterWatermark
  <2> QED BY <2>1, <2>2
<1> QED BY <1>6, <1>7, <1>8, <1>9, <1>10 DEF SafetyInv

\* What CompleteOrRequeue does to the table: the claimed row is stored and is
\* no longer running; only a hand-off makes another row, in the fresh id.
LEMMA RequeuedShape ==
  ASSUME TypeOK, SafetyInv, NEW s \in Slot, Busy(s), Fenced(held[s]),
         NEW p \in [pages: Nat, openDone: BOOLEAN, closedDone: BOOLEAN],
         HandsOff(held[s], p) => nextId \in Job,
         jobs' = Requeued(held[s], p)
  PROVE  LET k == held[s].job IN
         /\ SameWork(jobs'[k], [jobs[k] EXCEPT !.pages = p.pages])
         /\ jobs'[k].status \in {"done", "pending"}
         /\ jobs'[k].status = "pending" => MorePages(p) /\ ~HandsOff(held[s], p)
         /\ ~MorePages(p) => /\ jobs'[k].status = "done"
                             /\ jobs'[k].openDone = p.openDone
                             /\ jobs'[k].closedDone = p.closedDone
         /\ \A j \in Job : j # k /\ ~(HandsOff(held[s], p) /\ j = nextId) => jobs'[j] = jobs[j]
         /\ HandsOff(held[s], p) =>
              /\ SameWork(jobs'[nextId], [jobs[k] EXCEPT !.pages = p.pages])
              /\ jobs'[nextId].status = "pending" /\ jobs'[k].status = "done"
<1> DEFINE c == held[s]
           k == c.job
           row == jobs[k]
           done == Stored(Unleased(row, "done"), p)
           again == [Stored(Unleased(row, "pending"), p) EXCEPT !.attempts = 0]
           deep == [Stored(AbsentRow, p) EXCEPT !.repo = row.repo, !.type = "deep",
                      !.status = "pending", !.since = row.since, !.pass = row.pass]
           table == [jobs EXCEPT ![k] = done]
<1>1. k \in Job /\ row \in JobRow /\ jobs \in [Job -> JobRow] /\ row.status = "running"
  BY BusyType DEF TypeOK, Fenced
<1>2. /\ SameWork(done, [row EXCEPT !.pages = p.pages]) /\ done.status = "done"
      /\ done.openDone = p.openDone /\ done.closedDone = p.closedDone /\ done.repo = row.repo
  BY <1>1 DEF SameWork, Stored, Unleased, JobRow
<1>3. SameWork(again, [row EXCEPT !.pages = p.pages]) /\ again.status = "pending"
  BY <1>1 DEF SameWork, Stored, Unleased, JobRow
<1>4. SameWork(deep, [row EXCEPT !.pages = p.pages]) /\ deep.status = "pending"
      /\ deep.repo = row.repo
  BY <1>1 DEF SameWork, Stored, AbsentRow, JobRow
<1> HIDE DEF done, again, deep
<1>5. CASE ~MorePages(p)
  <2>1. jobs' = table /\ ~HandsOff(c, p)
    BY <1>5 DEF Requeued, HandsOff, done
  <2> QED BY <1>1, <1>2, <1>5, <2>1
<1>6. CASE MorePages(p) /\ row.type = "deep"
  <2>1. jobs' = [jobs EXCEPT ![k] = again] /\ ~HandsOff(c, p)
    BY <1>6 DEF Requeued, HandsOff, again
  <2> QED BY <1>1, <1>3, <1>6, <2>1
<1>7. CASE MorePages(p) /\ row.type # "deep"
  <2>1. HandsOff(c, p) /\ nextId \in Job
    BY <1>1, <1>7 DEF HandsOff, JobRow
  <2>2. jobs' = Inserted(table, deep)
    BY <1>7 DEF Requeued, done, deep
  <2>3. nextId # k
    <3>1. row.status # "absent"
      BY <1>1
    <3> QED BY <1>1, <2>1, <3>1 DEF SafetyInv, RowsExist, Job
  <2>4. ~HasActive(table, row.repo)
    BY <1>1, <1>2 DEF SafetyInv, OneActiveJobPerRepo, HasActive, Active
  <2>5. jobs' = [table EXCEPT ![nextId] = deep]
    BY <1>4, <2>2, <2>4 DEF Inserted
  <2> QED BY <1>1, <1>2, <1>4, <1>7, <2>1, <2>3, <2>5
<1> QED BY <1>5, <1>6, <1>7

\* A committed page keeps the safety invariant.
LEMMA CommitKeepsSafety ==
  ASSUME TypeOK, TypeOK', SafetyInv, NEW s \in Slot, CommitPage(s)
  PROVE  SafetyInv'
<1> DEFINE c == held[s]
           k == c.job
           r == jobs[k].repo
           pass == jobs[k].pass
<1>1. /\ Busy(s) /\ Fenced(c) /\ c \in Copy /\ k \in Job /\ jobs[k] \in JobRow
      /\ jobs[k].status = "running"
  BY BusyType DEF CommitPage, Fenced
<1>2. PICK openMore \in BOOLEAN, closedMore \in BOOLEAN, duplicate \in BOOLEAN :
        StorePage(s, Progress(c, openMore, closedMore), duplicate)
  BY DEF CommitPage
<1> DEFINE p == Progress(c, openMore, closedMore)
<1>3. p \in [pages: Nat, openDone: BOOLEAN, closedDone: BOOLEAN] /\ p.pages = c.pages + 1
  BY <1>1, ProgressType DEF Progress
<1> HIDE DEF p
<1>4. StorePage(s, p, duplicate)
  BY <1>2 DEF p
<1>5. /\ HandsOff(c, p) => nextId \in Job
      /\ jobs' = Requeued(c, p)
      /\ nextId' = IF HandsOff(c, p) THEN nextId + 1 ELSE nextId
      /\ rows' = [rows EXCEPT ![pass] = @ \cup {p.pages}]
      /\ through' = IF MorePages(p) THEN through
                    ELSE [through EXCEPT ![r] = Watermark(@, pass)]
      /\ held' = [held EXCEPT ![s] = NoCopy]
  BY <1>4 DEF StorePage
<1>6. /\ SameWork(jobs'[k], [jobs[k] EXCEPT !.pages = p.pages])
      /\ jobs'[k].status \in {"done", "pending"}
      /\ jobs'[k].status = "pending" => MorePages(p) /\ ~HandsOff(c, p)
      /\ ~MorePages(p) => /\ jobs'[k].status = "done"
                          /\ jobs'[k].openDone = p.openDone
                          /\ jobs'[k].closedDone = p.closedDone
      /\ \A j \in Job : j # k /\ ~(HandsOff(c, p) /\ j = nextId) => jobs'[j] = jobs[j]
      /\ HandsOff(c, p) =>
           /\ SameWork(jobs'[nextId], [jobs[k] EXCEPT !.pages = p.pages])
           /\ jobs'[nextId].status = "pending" /\ jobs'[k].status = "done"
  BY <1>1, <1>3, <1>5, RequeuedShape
<1>7. /\ jobs'[k].repo = r /\ jobs'[k].pass = pass /\ jobs'[k].pages = p.pages
      /\ jobs'[k].since = jobs[k].since
  BY <1>1, <1>6 DEF SameWork, JobRow
<1>8. HandsOff(c, p) => /\ jobs'[nextId].repo = r /\ jobs'[nextId].pass = pass
                        /\ jobs'[nextId].pages = p.pages
                        /\ jobs'[nextId].since = jobs[k].since
  BY <1>1, <1>6 DEF SameWork, JobRow
<1>9. /\ k < nextId /\ r \in Repo /\ pass \in Job /\ pass < nextId
      /\ through[r] < pass /\ nextId \in Nat /\ nextId' \in Nat /\ nextId <= nextId'
      /\ HandsOff(c, p) => nextId < nextId'
  BY <1>1, <1>5 DEF SafetyInv, RowsExist, PassAfterWatermark, Active, TypeOK
<1>10. ASSUME NEW j \in Job, Active(jobs[j]), jobs[j].repo = r PROVE j = k
  BY <1>1, <1>10 DEF SafetyInv, OneActiveJobPerRepo, Active
<1>11. HandsOff(c, p) => nextId \in Job /\ jobs[nextId].status = "absent" /\ nextId # k
  BY <1>5, <1>9 DEF SafetyInv, RowsExist, Job
<1>12. ~MorePages(p) => through' = [through EXCEPT ![r] = pass]
  BY <1>5, <1>9 DEF TypeOK, Watermark, Job
<1>13. \A q \in Job : rows[q] \subseteq rows'[q]
  BY <1>5, <1>9 DEF TypeOK
<1>14. 1..p.pages \subseteq rows'[pass]
  <2>1. 1..c.pages \subseteq rows[pass]
    BY <1>1 DEF SafetyInv, CursorBehindRows
  <2>2. 1..p.pages = 1..c.pages \cup {p.pages}
    BY <1>1, <1>3 DEF Copy
  <2>3. p.pages \in rows'[pass]
    BY <1>5, <1>9 DEF TypeOK
  <2> QED BY <1>9, <1>13, <2>1, <2>2, <2>3
<1>15. \A x \in Slot : held'[x].job # 0 =>
         /\ held'[x] = held[x] /\ held[x].job \in Job /\ jobs[held[x].job].status # "absent"
         /\ jobs'[held[x].job].status # "absent"
         /\ jobs'[held[x].job].pass = jobs[held[x].job].pass
  <2> SUFFICES ASSUME NEW x \in Slot, held'[x].job # 0
               PROVE  /\ held'[x] = held[x] /\ held[x].job \in Job
                      /\ jobs[held[x].job].status # "absent"
                      /\ jobs'[held[x].job].status # "absent"
                      /\ jobs'[held[x].job].pass = jobs[held[x].job].pass
    OBVIOUS
  <2>1. x # s /\ held'[x] = held[x] /\ Busy(x)
    BY <1>5 DEF TypeOK, NoCopy, Busy
  <2>2. held[x].job \in Job /\ jobs[held[x].job].status # "absent"
    BY <2>1, BusyType DEF SafetyInv, RowsExist
  <2> QED BY <1>6, <1>7, <1>11, <2>1, <2>2
<1>16. RowsExist'
  <2>1. ASSUME NEW j \in Job, jobs'[j].status # "absent"
        PROVE  /\ j < nextId' /\ jobs'[j].repo \in Repo
               /\ jobs'[j].pass \in Job /\ jobs'[j].pass < nextId'
    <3>1. CASE j = k
      BY <1>7, <1>9, <3>1 DEF Job
    <3>2. CASE HandsOff(c, p) /\ j = nextId
      BY <1>8, <1>9, <3>2 DEF Job
    <3>3. CASE j # k /\ ~(HandsOff(c, p) /\ j = nextId)
      <4>1. /\ jobs'[j] = jobs[j] /\ j < nextId /\ jobs[j].repo \in Repo
            /\ jobs[j].pass \in Job /\ jobs[j].pass < nextId
        BY <1>6, <2>1, <3>3 DEF SafetyInv, RowsExist
      <4> QED BY <1>9, <4>1 DEF Job
    <3> QED BY <3>1, <3>2, <3>3
  <2>2. ASSUME NEW x \in Slot, Busy(x)' PROVE jobs'[held'[x].job].status # "absent"
    BY <1>15, <2>2 DEF Busy
  <2>3. ASSUME NEW q \in Repo PROVE through'[q] < nextId'
    <3>1. through[q] < nextId /\ through[q] \in Nat
      BY BoundsAssumption DEF SafetyInv, RowsExist, TypeOK
    <3>2. through'[q] = through[q] \/ through'[q] = pass
      BY <1>5, <1>12 DEF TypeOK
    <3> QED BY <1>9, <3>1, <3>2 DEF Job
  <2> QED BY <2>1, <2>2, <2>3 DEF RowsExist
<1>17. OneActiveJobPerRepo'
  <2> SUFFICES ASSUME NEW i \in Job, NEW j \in Job, Active(jobs'[i]), Active(jobs'[j]),
                      jobs'[i].repo = jobs'[j].repo
               PROVE  i = j
    BY DEF OneActiveJobPerRepo, Active
  <2>1. ASSUME NEW x \in Job, Active(jobs'[x])
        PROVE  \/ x = k /\ ~HandsOff(c, p)
               \/ x = nextId /\ HandsOff(c, p)
               \/ jobs'[x] = jobs[x] /\ jobs[x].repo # r
    BY <1>6, <1>10, <2>1 DEF Active
  <2>2. CASE jobs'[i].repo = r
    BY <1>7, <2>1, <2>2
  <2>3. CASE jobs'[i].repo # r
    BY <1>7, <1>8, <2>1, <2>3 DEF SafetyInv, OneActiveJobPerRepo
  <2> QED BY <2>2, <2>3
<1>18. CursorBehindRows'
  <2>1. ASSUME NEW j \in Job, jobs'[j].status # "absent"
        PROVE  1..jobs'[j].pages \subseteq rows'[jobs'[j].pass]
    <3>1. CASE j = k
      BY <1>7, <1>14, <3>1
    <3>2. CASE HandsOff(c, p) /\ j = nextId
      BY <1>8, <1>14, <3>2
    <3>3. CASE j # k /\ ~(HandsOff(c, p) /\ j = nextId)
      <4>1. jobs'[j] = jobs[j] /\ jobs[j].pass \in Job
            /\ 1..jobs[j].pages \subseteq rows[jobs[j].pass]
        BY <1>6, <2>1, <3>3 DEF SafetyInv, RowsExist, CursorBehindRows
      <4> QED BY <1>13, <4>1
    <3> QED BY <3>1, <3>2, <3>3
  <2>2. ASSUME NEW x \in Slot, Busy(x)'
        PROVE  1..held'[x].pages \subseteq rows'[jobs'[held'[x].job].pass]
    <3>1. /\ held'[x] = held[x] /\ held[x].job \in Job /\ jobs[held[x].job].status # "absent"
          /\ jobs'[held[x].job].pass = jobs[held[x].job].pass /\ Busy(x)
      BY <1>15, <2>2 DEF Busy
    <3>2. jobs[held[x].job].pass \in Job
          /\ 1..held[x].pages \subseteq rows[jobs[held[x].job].pass]
      BY <3>1 DEF SafetyInv, RowsExist, CursorBehindRows
    <3> QED BY <1>13, <3>1, <3>2
  <2> QED BY <2>1, <2>2 DEF CursorBehindRows
<1>19. WatermarkEarned'
  <2> SUFFICES ASSUME NEW q \in Repo, through'[q] # 0
               PROVE  \E j \in Job :
                        /\ jobs'[j].repo = q /\ jobs'[j].pass = through'[q]
                        /\ jobs'[j].status = "done"
                        /\ Capped(jobs'[j].pages) \/ (jobs'[j].openDone /\ jobs'[j].closedDone)
                        /\ 1..jobs'[j].pages \subseteq rows'[jobs'[j].pass]
    BY DEF WatermarkEarned, Capped
  <2>1. CASE ~MorePages(p) /\ q = r
    <3>1. through'[q] = pass /\ jobs'[k].status = "done"
          /\ jobs'[k].openDone = p.openDone /\ jobs'[k].closedDone = p.closedDone
      BY <1>6, <1>9, <1>12, <2>1 DEF TypeOK
    <3>2. Capped(p.pages) \/ (p.openDone /\ p.closedDone)
      BY <2>1 DEF MorePages
    <3> QED BY <1>1, <1>7, <1>14, <2>1, <3>1, <3>2
  <2>2. CASE MorePages(p) \/ q # r
    <3>1. through'[q] = through[q]
      BY <1>5, <1>12, <2>2 DEF TypeOK
    <3>2. PICK j \in Job :
            /\ jobs[j].repo = q /\ jobs[j].pass = through[q] /\ jobs[j].status = "done"
            /\ Capped(jobs[j].pages) \/ (jobs[j].openDone /\ jobs[j].closedDone)
            /\ 1..jobs[j].pages \subseteq rows[jobs[j].pass]
      BY <3>1 DEF SafetyInv, WatermarkEarned
    <3>3. jobs'[j] = jobs[j] /\ jobs[j].pass \in Job
      BY <1>1, <1>6, <1>11, <3>2 DEF SafetyInv, RowsExist
    <3> QED BY <1>13, <3>1, <3>2, <3>3
  <2> QED BY <2>1, <2>2
<1>20. PassAfterWatermark'
  <2> SUFFICES ASSUME NEW j \in Job, Active(jobs'[j])
               PROVE  /\ jobs'[j].since <= through'[jobs'[j].repo]
                      /\ through'[jobs'[j].repo] < jobs'[j].pass
    BY DEF PassAfterWatermark, Active
  <2>1. CASE jobs'[j].repo = r
    <3>1. MorePages(p) /\ jobs'[j].since = jobs[k].since /\ jobs'[j].pass = pass
      BY <1>6, <1>7, <1>8, <1>10, <2>1 DEF Active, HandsOff
    <3>2. through' = through
      BY <1>5, <3>1
    <3> QED BY <1>1, <2>1, <3>1, <3>2 DEF SafetyInv, PassAfterWatermark, Active
  <2>2. CASE jobs'[j].repo # r
    <3>1. jobs'[j] = jobs[j]
      BY <1>6, <1>7, <1>8, <2>2
    <3>2. jobs[j].repo \in Repo
      BY <3>1 DEF SafetyInv, RowsExist, Active
    <3>3. through'[jobs[j].repo] = through[jobs[j].repo]
      BY <1>5, <1>12, <2>2, <3>1, <3>2 DEF TypeOK
    <3> QED BY <3>1, <3>3 DEF SafetyInv, PassAfterWatermark
  <2> QED BY <2>1, <2>2
<1> QED BY <1>16, <1>17, <1>18, <1>19, <1>20 DEF SafetyInv

LEMMA UnleasedShape ==
  ASSUME NEW row \in JobRow, NEW status \in {"pending", "failed", "done"}
  PROVE  SameWork(Unleased(row, status), row) /\ Unleased(row, status).status = status
  BY DEF Unleased, SameWork, JobRow

\* A finishing write that only clears the lease is quiet.
LEMMA FinishIsQuiet ==
  ASSUME TypeOK, NEW s \in Slot, Busy(s), Fenced(held[s]),
         NEW row \in JobRow, SameWork(row, jobs[held[s].job]),
         row.status \in {"pending", "failed"},
         jobs' = [jobs EXCEPT ![held[s].job] = row],
         held' = [held EXCEPT ![s] = NoCopy],
         UNCHANGED <<nextId, through, rows>>
  PROVE  QuietStep
<1>1. held[s].job \in Job /\ jobs[held[s].job].status = "running" /\ jobs \in [Job -> JobRow]
  BY BusyType DEF Fenced, TypeOK
<1>2. \A x \in Slot : held'[x].job # 0 => held'[x] = held[x]
  BY DEF TypeOK, NoCopy
<1> QED BY <1>1, <1>2 DEF QuietStep, SameWork, Active

\* Steps that leave the table alone and at most drop copies are quiet.
LEMMA DropIsQuiet ==
  ASSUME TypeOK, \A s \in Slot : held'[s] \in {held[s], NoCopy},
         UNCHANGED <<jobs, nextId, through, rows>>
  PROVE  QuietStep
  BY DEF QuietStep, SameWork, NoCopy

LEMMA SafetyStep == TypeOK /\ TypeOK' /\ SafetyInv /\ [Next]_vars => SafetyInv'
<1> SUFFICES ASSUME TypeOK, TypeOK', SafetyInv, [Next]_vars PROVE SafetyInv'
  OBVIOUS
<1>1. ASSUME NEW r \in Repo, EnqueueInitial(r) PROVE SafetyInv'
  <2>1. ~HasActive(jobs, r)
    BY <1>1 DEF EnqueueInitial, HasActive
  <2>2. 0 \in 0..through[r]
    BY BoundsAssumption DEF TypeOK
  <2> QED BY <1>1, <2>1, <2>2, InsertKeepsSafety DEF EnqueueInitial, repoVars, historyVars
<1>2. ASSUME NEW r \in Repo, EnqueueFreshness(r) PROVE SafetyInv'
  <2>1. through[r] \in 0..through[r]
    BY BoundsAssumption DEF TypeOK
  <2>2. NewRow(r, through[r]).repo = r
    BY DEF NewRow, AbsentRow
  <2>3. jobs' = [jobs EXCEPT ![nextId] = NewRow(r, through[r])]
    BY <1>2, <2>2 DEF EnqueueFreshness, Inserted
  <2> QED BY <1>2, <2>1, <2>3, InsertKeepsSafety DEF EnqueueFreshness, repoVars, historyVars
<1>3. ASSUME NEW r \in Repo, EnqueuePriority(r) PROVE SafetyInv'
  <2>1. 0 \in 0..through[r]
    BY BoundsAssumption DEF TypeOK
  <2> QED BY <1>3, <2>1, InsertKeepsSafety DEF EnqueuePriority, repoVars, historyVars
<1>4. ASSUME NEW o \in Owner, NEW s \in Slot, NEW j \in Job, Claim(o, s, j) PROVE SafetyInv'
  <2>1. jobs \in [Job -> JobRow] /\ held \in [Slot -> Copy]
    BY DEF TypeOK
  <2>2. /\ \A i \in Job : i # j => jobs'[i] = jobs[i]
        /\ SameWork(jobs'[j], jobs[j]) /\ jobs'[j].status = "running"
        /\ jobs[j].status = "pending"
    BY <1>4, <2>1 DEF Claim, SameWork, JobRow
  <2>3. /\ \A x \in Slot : x # s => held'[x] = held[x]
        /\ held'[s].job = j /\ held'[s].pages = jobs[j].pages
    BY <1>4, <2>1 DEF Claim
  <2>4. UNCHANGED <<nextId, through, rows>>
    BY <1>4 DEF Claim, repoVars, historyVars
  <2>5. QuietStep
    BY <2>2, <2>3, <2>4 DEF QuietStep, SameWork, Active
  <2> QED BY <2>5, QuietKeepsSafety
<1>5. ASSUME NEW j \in Job, LeaseLapses(j) PROVE SafetyInv'
  <2>1. jobs \in [Job -> JobRow]
    BY DEF TypeOK
  <2>2. /\ \A i \in Job : i # j => jobs'[i] = jobs[i]
        /\ SameWork(jobs'[j], jobs[j])
        /\ jobs'[j].status = jobs[j].status /\ jobs[j].status = "running"
    BY <1>5, <2>1 DEF LeaseLapses, SameWork, JobRow
  <2>3. UNCHANGED <<nextId, held, through, rows>>
    BY <1>5 DEF LeaseLapses, repoVars, historyVars
  <2>4. QuietStep
    BY <2>2, <2>3 DEF QuietStep, SameWork, Active
  <2> QED BY <2>4, QuietKeepsSafety
<1>6. ASSUME ReclaimExpiredLeases PROVE SafetyInv'
  <2>1. jobs \in [Job -> JobRow] /\ held \in [Slot -> Copy]
    BY DEF TypeOK
  <2>2. ASSUME NEW j \in Job
        PROVE  /\ SameWork(jobs'[j], jobs[j])
               /\ \/ jobs'[j] = jobs[j]
                  \/ jobs'[j].status = "pending" /\ jobs[j].status = "running"
    <3>1. CASE Expired(jobs[j])
      BY <1>6, <2>1, <3>1, UnleasedShape DEF ReclaimExpiredLeases, Expired
    <3>2. CASE ~Expired(jobs[j])
      BY <1>6, <2>1, <3>2 DEF ReclaimExpiredLeases, SameWork
    <3> QED BY <3>1, <3>2
  <2>3. \A s \in Slot : held'[s].job = held[s].job /\ held'[s].pages = held[s].pages
    BY <1>6, <2>1 DEF ReclaimExpiredLeases, Copy
  <2>4. UNCHANGED <<nextId, through, rows>>
    BY <1>6 DEF ReclaimExpiredLeases, repoVars, historyVars
  <2>5. QuietStep
    BY <2>2, <2>3, <2>4 DEF QuietStep, Active
  <2> QED BY <2>5, QuietKeepsSafety
<1>7. ASSUME NEW s \in Slot, ReleaseJob(s) PROVE SafetyInv'
  <2> DEFINE row == Unleased(jobs[held[s].job], "pending")
  <2>1. row \in JobRow /\ SameWork(row, jobs[held[s].job]) /\ row.status = "pending"
    BY <1>7, BusyType, UnleasedType, UnleasedShape DEF ReleaseJob
  <2>2. jobs' = [jobs EXCEPT ![held[s].job] = row]
    BY <1>7 DEF ReleaseJob
  <2> HIDE DEF row
  <2>3. QuietStep
    BY <1>7, <2>1, <2>2, FinishIsQuiet DEF ReleaseJob, repoVars, historyVars
  <2> QED BY <2>3, QuietKeepsSafety
<1>8. ASSUME NEW s \in Slot, FailJob(s) PROVE SafetyInv'
  <2> DEFINE attempt == held[s].attempts + 1
             status == IF attempt >= MaxAttempts THEN "failed" ELSE "pending"
             row == [Unleased(jobs[held[s].job], status) EXCEPT !.attempts = attempt]
  <2>1. jobs[held[s].job] \in JobRow /\ held[s] \in Copy
    BY <1>8, BusyType DEF FailJob
  <2>2. /\ Unleased(jobs[held[s].job], status) \in JobRow
        /\ SameWork(Unleased(jobs[held[s].job], status), jobs[held[s].job])
        /\ Unleased(jobs[held[s].job], status).status = status
    BY <2>1, UnleasedType, UnleasedShape
  <2>3. attempt \in Nat /\ status \in {"pending", "failed"}
    BY <2>1 DEF Copy
  <2> HIDE DEF attempt, status
  <2>4. row \in JobRow /\ SameWork(row, jobs[held[s].job]) /\ row.status = status
    BY <2>2, <2>3 DEF JobRow, SameWork
  <2>5. jobs' = [jobs EXCEPT ![held[s].job] = row]
    BY <1>8 DEF FailJob, attempt, status
  <2> HIDE DEF row
  <2>6. QuietStep
    BY <1>8, <2>3, <2>4, <2>5, FinishIsQuiet DEF FailJob, repoVars
  <2> QED BY <2>6, QuietKeepsSafety
<1>9. ASSUME NEW s \in Slot, MarkUnavailable(s) PROVE SafetyInv'
  <2> DEFINE row == Unleased(jobs[held[s].job], "failed")
  <2>1. row \in JobRow /\ SameWork(row, jobs[held[s].job]) /\ row.status = "failed"
    BY <1>9, BusyType, UnleasedType, UnleasedShape DEF MarkUnavailable
  <2>2. jobs' = [jobs EXCEPT ![held[s].job] = row]
    BY <1>9 DEF MarkUnavailable
  <2> HIDE DEF row
  <2>3. QuietStep
    BY <1>9, <2>1, <2>2, FinishIsQuiet DEF MarkUnavailable
  <2> QED BY <2>3, QuietKeepsSafety
<1>10. ASSUME NEW s \in Slot, LoseLease(s) PROVE SafetyInv'
  <2>1. \A x \in Slot : held'[x] \in {held[x], NoCopy}
    BY <1>10 DEF LoseLease, TypeOK
  <2> QED BY <1>10, <2>1, DropIsQuiet, QuietKeepsSafety DEF LoseLease, repoVars, historyVars
<1>11. ASSUME NEW s \in Slot, Abandon(s) PROVE SafetyInv'
  <2>1. \A x \in Slot : held'[x] \in {held[x], NoCopy}
    BY <1>11 DEF Abandon, TypeOK
  <2> QED BY <1>11, <2>1, DropIsQuiet, QuietKeepsSafety DEF Abandon, repoVars, historyVars
<1>12. ASSUME NEW s \in Slot, CommitPage(s) PROVE SafetyInv'
  BY <1>12, CommitKeepsSafety
<1>13. ASSUME RecomputeEligibility PROVE SafetyInv'
  BY <1>13, DropIsQuiet, QuietKeepsSafety DEF RecomputeEligibility, historyVars
<1>14. ASSUME NEW r \in Repo, Rediscover(r) PROVE SafetyInv'
  BY <1>14, DropIsQuiet, QuietKeepsSafety DEF Rediscover, historyVars
<1>15. ASSUME NEW o \in Owner, Start(o) PROVE SafetyInv'
  BY <1>15, DropIsQuiet, QuietKeepsSafety DEF Start, repoVars, historyVars
<1>16. ASSUME NEW o \in Owner, Crash(o) PROVE SafetyInv'
  <2>1. \A x \in Slot : held'[x] \in {held[x], NoCopy}
    BY <1>16 DEF Crash, TypeOK
  <2> QED BY <1>16, <2>1, DropIsQuiet, QuietKeepsSafety DEF Crash, repoVars, historyVars
<1>17. CASE UNCHANGED vars
  BY <1>17, DropIsQuiet, QuietKeepsSafety DEF vars
<1> QED
  BY <1>1, <1>2, <1>3, <1>4, <1>5, <1>6, <1>7, <1>8, <1>9, <1>10, <1>11, <1>12,
     <1>13, <1>14, <1>15, <1>16, <1>17 DEF Next, Enqueue, Process

LEMMA InitSafety == Init => SafetyInv
<1> SUFFICES ASSUME Init PROVE SafetyInv
  OBVIOUS
<1>1. \A j \in Job : jobs[j].status = "absent"
  BY DEF Init, AbsentRow
<1>2. \A s \in Slot : ~Busy(s)
  BY DEF Init, Busy, NoCopy
<1>3. \A r \in Repo : through[r] = 0
  BY DEF Init
<1> QED
  BY <1>1, <1>2, <1>3 DEF Init, SafetyInv, RowsExist, OneActiveJobPerRepo, Active,
     CursorBehindRows, WatermarkEarned, PassAfterWatermark

LEMMA SafetyHolds == Spec => [](TypeOK /\ SafetyInv)
<1>1. Init => TypeOK /\ SafetyInv
  BY InitSafety, InitType
<1>2. TypeOK /\ SafetyInv /\ [Next]_vars => (TypeOK /\ SafetyInv)'
  BY TypeStep, SafetyStep
<1> QED BY <1>1, <1>2, PTL DEF Spec

\* No repository ever has two jobs in the queue.
THEOREM OneActiveJob == Spec => []OneActiveJobPerRepo
<1>1. SafetyInv => OneActiveJobPerRepo
  BY DEF SafetyInv
<1> QED BY <1>1, SafetyHolds, PTL

\* Progress is atomic with the rows it stands for: whatever is retried,
\* reclaimed, handed off or written late, no cursor passes an unread page.
THEOREM NoPageSkipped == Spec => []CursorBehindRows
<1>1. SafetyInv => CursorBehindRows
  BY DEF SafetyInv
<1> QED BY <1>1, SafetyHolds, PTL

\* A watermark is only ever set by a pass that read everything it had to.
THEOREM WatermarkIsEarned == Spec => []WatermarkEarned
<1>1. SafetyInv => WatermarkEarned
  BY DEF SafetyInv
<1> QED BY <1>1, SafetyHolds, PTL

\* Passes of a repository follow one another without a gap.
THEOREM PassesFollow == Spec => []PassAfterWatermark
<1>1. SafetyInv => PassAfterWatermark
  BY DEF SafetyInv
<1> QED BY <1>1, SafetyHolds, PTL

----------------------------------------------------------------------------
(***************************************************************************)
(* LeasesAreHonoured, for every value of the constants: who may end a job,  *)
(* that what has ended stays ended, and that a job is given up only after   *)
(* all its attempts.                                                        *)
(***************************************************************************)

\* A count n of job j's attempts covers no more than the failed fetches of j,
\* as far as those are recorded.
Covered(j, n) == errors[j] = MaxAttempts \/ n <= errors[j]

\* GivenUpOnlyAfterMaxAttempts is not inductive: FailJob counts from the
\* attempts of the copy, so those, and the row's they come from, must be
\* covered too.
AttemptsInv ==
  /\ GivenUpOnlyAfterMaxAttempts
  /\ \A j \in Job : Covered(j, jobs[j].attempts)
  /\ \A s \in Slot : Busy(s) => Covered(held[s].job, held[s].attempts)

\* Most steps count nothing: a row keeps its attempts or starts from none, none
\* is given up, and a copy is an old one or one of a row as it stands.
CountsNothing ==
  /\ \A j \in Job : /\ jobs'[j].attempts \in {0, jobs[j].attempts}
                    /\ jobs'[j].status = "failed" => jobs[j].status = "failed"
  /\ \A s \in Slot : held'[s].job # 0 =>
       \/ held'[s].job = held[s].job /\ held'[s].attempts = held[s].attempts
       \/ held'[s].job \in Job /\ held'[s].attempts = jobs[held'[s].job].attempts
  /\ errors' = errors

LEMMA CountsNothingKeeps == TypeOK /\ AttemptsInv /\ CountsNothing => AttemptsInv'
<1> SUFFICES ASSUME TypeOK, AttemptsInv, CountsNothing PROVE AttemptsInv'
  OBVIOUS
<1>0. errors \in [Job -> 0..MaxAttempts] /\ MaxAttempts \in Nat \ {0}
  BY SettingsAssumption DEF TypeOK
<1>1. GivenUpOnlyAfterMaxAttempts'
  BY DEF AttemptsInv, GivenUpOnlyAfterMaxAttempts, CountsNothing
<1>2. ASSUME NEW j \in Job PROVE Covered(j, jobs[j].attempts)'
  <2>1. Covered(j, jobs[j].attempts)
    BY DEF AttemptsInv
  <2> QED BY <1>0, <2>1 DEF CountsNothing, Covered
<1>3. ASSUME NEW s \in Slot, Busy(s)' PROVE Covered(held[s].job, held[s].attempts)'
  <2>1. CASE held'[s].job = held[s].job /\ held'[s].attempts = held[s].attempts
    <3>1. Covered(held[s].job, held[s].attempts)
      BY <1>3, <2>1 DEF AttemptsInv, Busy
    <3> QED BY <2>1, <3>1 DEF CountsNothing, Covered
  <2>2. CASE held'[s].job \in Job /\ held'[s].attempts = jobs[held'[s].job].attempts
    <3>1. Covered(held'[s].job, jobs[held'[s].job].attempts)
      BY <2>2 DEF AttemptsInv
    <3> QED BY <2>2, <3>1 DEF CountsNothing, Covered
  <2> QED BY <1>3, <2>1, <2>2 DEF CountsNothing, Busy
<1> QED BY <1>1, <1>2, <1>3 DEF AttemptsInv

\* What CompleteOrRequeue stores counts nothing.
LEMMA RequeuedCounts ==
  ASSUME TypeOK, NEW s \in Slot, Busy(s),
         NEW p \in [pages: Nat, openDone: BOOLEAN, closedDone: BOOLEAN],
         HandsOff(held[s], p) => nextId \in Job,
         jobs' = Requeued(held[s], p)
  PROVE  \A j \in Job : /\ jobs'[j].attempts \in {0, jobs[j].attempts}
                        /\ jobs'[j].status = "failed" => jobs[j].status = "failed"
<1> DEFINE c == held[s]
           k == c.job
           row == jobs[k]
           done == Stored(Unleased(row, "done"), p)
           again == [Stored(Unleased(row, "pending"), p) EXCEPT !.attempts = 0]
           deep == [Stored(AbsentRow, p) EXCEPT !.repo = row.repo, !.type = "deep",
                      !.status = "pending", !.since = row.since, !.pass = row.pass]
           table == [jobs EXCEPT ![k] = done]
<1>1. k \in Job /\ row \in JobRow /\ jobs \in [Job -> JobRow]
  BY BusyType DEF TypeOK
<1>2. done.attempts = row.attempts /\ done.status = "done"
  BY <1>1 DEF Stored, Unleased, JobRow
<1>3. again.attempts = 0 /\ again.status = "pending"
  BY <1>1 DEF Stored, Unleased, JobRow
<1>4. deep.attempts = 0 /\ deep.status = "pending"
  BY <1>1 DEF Stored, AbsentRow
<1> HIDE DEF done, again, deep
<1>5. CASE ~MorePages(p)
  <2>1. jobs' = table
    BY <1>5 DEF Requeued, done
  <2> QED BY <1>1, <1>2, <2>1
<1>6. CASE MorePages(p) /\ row.type = "deep"
  <2>1. jobs' = [jobs EXCEPT ![k] = again]
    BY <1>6 DEF Requeued, again
  <2> QED BY <1>1, <1>3, <2>1
<1>7. CASE MorePages(p) /\ row.type # "deep"
  <2>1. jobs' = Inserted(table, deep)
    BY <1>7 DEF Requeued, done, deep
  <2>2. jobs' = table \/ jobs' = [table EXCEPT ![nextId] = deep]
    BY <2>1 DEF Inserted
  <2> QED BY <1>1, <1>2, <1>4, <2>2
<1> QED BY <1>5, <1>6, <1>7

\* A new row of the queue counts nothing.
LEMMA NewRowCounts ==
  ASSUME TypeOK, NEW r \in Repo, NEW since,
         jobs' = [jobs EXCEPT ![nextId] = NewRow(r, since)],
         UNCHANGED <<held, errors>>
  PROVE  CountsNothing
<1>1. NewRow(r, since).attempts = 0 /\ NewRow(r, since).status = "pending"
  BY DEF NewRow, AbsentRow
<1> QED BY <1>1 DEF TypeOK, CountsNothing

\* Nor does a step that clears a lease and keeps the count.
LEMMA FinishCounts ==
  ASSUME TypeOK, NEW s \in Slot, Busy(s),
         jobs' = [jobs EXCEPT ![held[s].job] = Unleased(@, "pending")],
         held' = [held EXCEPT ![s] = NoCopy], errors' = errors
  PROVE  CountsNothing
<1>1. /\ held[s].job \in Job /\ jobs[held[s].job] \in JobRow
      /\ jobs \in [Job -> JobRow] /\ held \in [Slot -> Copy]
  BY BusyType DEF TypeOK
<1>2. /\ Unleased(jobs[held[s].job], "pending").attempts = jobs[held[s].job].attempts
      /\ Unleased(jobs[held[s].job], "pending").status = "pending"
  BY <1>1 DEF Unleased, JobRow
<1>3. \A x \in Slot : held'[x].job # 0 => held'[x] = held[x]
  BY <1>1 DEF NoCopy
<1> QED BY <1>1, <1>2, <1>3 DEF CountsNothing

LEMMA DropCounts ==
  ASSUME TypeOK, \A s \in Slot : held'[s] \in {held[s], NoCopy}, UNCHANGED <<jobs, errors>>
  PROVE  CountsNothing
  BY DEF CountsNothing, NoCopy

\* The one step that counts: the row's attempts and the failed fetches go up
\* together, and the job is given up at MaxAttempts.
LEMMA FailCounts ==
  ASSUME TypeOK, AttemptsInv, NEW s \in Slot, FailJob(s)
  PROVE  AttemptsInv'
<1> DEFINE k == held[s].job
           attempt == held[s].attempts + 1
           status == IF attempt >= MaxAttempts THEN "failed" ELSE "pending"
           row == [Unleased(jobs[k], status) EXCEPT !.attempts = attempt]
<1>1. /\ Busy(s) /\ k \in Job /\ jobs[k] \in JobRow /\ held[s].attempts \in Nat
      /\ jobs \in [Job -> JobRow] /\ held \in [Slot -> Copy]
      /\ errors \in [Job -> 0..MaxAttempts] /\ MaxAttempts \in Nat \ {0}
  BY BusyType, SettingsAssumption DEF FailJob, TypeOK, Copy
<1>2. row.attempts = attempt /\ row.status = status
  BY <1>1 DEF Unleased, JobRow
<1>3. jobs' = [jobs EXCEPT ![k] = row]
  BY DEF FailJob
<1> HIDE DEF row
<1>4. /\ \A j \in Job : errors'[j] \in {errors[j], errors[j] + 1, MaxAttempts}
      /\ \A j \in Job : errors[j] = MaxAttempts => errors'[j] = MaxAttempts
      /\ \A j \in Job : errors[j] <= errors'[j]
      /\ errors'[k] = IF errors[k] < MaxAttempts THEN errors[k] + 1 ELSE errors[k]
  BY <1>1 DEF FailJob
<1>5. Covered(k, held[s].attempts)
  BY <1>1 DEF AttemptsInv
<1>6. errors'[k] = MaxAttempts \/ attempt <= errors'[k]
  BY <1>1, <1>4, <1>5 DEF Covered
<1>7. GivenUpOnlyAfterMaxAttempts'
  <2> SUFFICES ASSUME NEW j \in Job, jobs'[j].status = "failed" PROVE errors'[j] >= MaxAttempts
    BY DEF GivenUpOnlyAfterMaxAttempts
  <2>1. CASE j = k
    <3>1. attempt \in Nat /\ attempt >= MaxAttempts /\ errors'[k] \in Nat
      BY <1>1, <1>2, <1>3, <1>4, <2>1
    <3> QED BY <1>1, <1>6, <2>1, <3>1
  <2>2. CASE j # k
    <3>1. jobs'[j] = jobs[j] /\ errors[j] \in 0..MaxAttempts /\ errors'[j] = errors[j]
      BY <1>1, <1>3, <2>2 DEF FailJob
    <3> QED BY <3>1 DEF AttemptsInv, GivenUpOnlyAfterMaxAttempts
  <2> QED BY <2>1, <2>2
<1>8. \A j \in Job, n \in Nat : Covered(j, n) => Covered(j, n)'
  BY <1>1, <1>4 DEF Covered
<1>9. ASSUME NEW j \in Job PROVE Covered(j, jobs[j].attempts)'
  <2>1. CASE j = k
    BY <1>1, <1>2, <1>3, <1>6, <2>1 DEF Covered
  <2>2. CASE j # k
    <3>1. jobs'[j] = jobs[j] /\ jobs[j].attempts \in Nat /\ Covered(j, jobs[j].attempts)
      BY <1>1, <1>3, <2>2 DEF AttemptsInv, JobRow
    <3> QED BY <1>8, <3>1 DEF Covered
  <2> QED BY <2>1, <2>2
<1>10. ASSUME NEW x \in Slot, Busy(x)' PROVE Covered(held[x].job, held[x].attempts)'
  <2>1. held'[x] = held[x] /\ Busy(x)
    BY <1>1, <1>10 DEF FailJob, NoCopy, Busy
  <2>2. held[x].job \in Job /\ held[x].attempts \in Nat /\ Covered(held[x].job, held[x].attempts)
    BY <2>1, BusyType DEF AttemptsInv, Copy
  <2> QED BY <1>8, <2>1, <2>2 DEF Covered
<1> QED BY <1>7, <1>9, <1>10 DEF AttemptsInv

\* GitHub has no such repository: nothing is left to try.
LEMMA UnavailableCounts ==
  ASSUME TypeOK, AttemptsInv, NEW s \in Slot, MarkUnavailable(s)
  PROVE  AttemptsInv'
<1> DEFINE k == held[s].job
<1>1. /\ k \in Job /\ jobs \in [Job -> JobRow] /\ held \in [Slot -> Copy]
      /\ errors \in [Job -> 0..MaxAttempts] /\ MaxAttempts \in Nat \ {0}
  BY BusyType, SettingsAssumption DEF MarkUnavailable, TypeOK
<1>2. errors'[k] = MaxAttempts /\ \A j \in Job : j # k => errors'[j] = errors[j]
  BY <1>1 DEF MarkUnavailable
<1>3. \A j \in Job : j # k => jobs'[j] = jobs[j]
  BY <1>1 DEF MarkUnavailable
<1>4. \A x \in Slot : held'[x].job # 0 => held'[x] = held[x]
  BY <1>1 DEF MarkUnavailable, NoCopy
<1>5. GivenUpOnlyAfterMaxAttempts'
  BY <1>1, <1>2, <1>3 DEF AttemptsInv, GivenUpOnlyAfterMaxAttempts
<1>6. ASSUME NEW j \in Job PROVE Covered(j, jobs[j].attempts)'
  BY <1>2, <1>3 DEF AttemptsInv, Covered
<1>7. ASSUME NEW x \in Slot, Busy(x)' PROVE Covered(held[x].job, held[x].attempts)'
  <2>1. held'[x] = held[x] /\ held[x].job \in Job /\ Covered(held[x].job, held[x].attempts)
    BY <1>4, <1>7, BusyType DEF AttemptsInv, Busy
  <2> QED BY <1>2, <2>1 DEF Covered
<1> QED BY <1>5, <1>6, <1>7 DEF AttemptsInv

LEMMA AttemptsStep == TypeOK /\ TypeOK' /\ AttemptsInv /\ [Next]_vars => AttemptsInv'
<1> SUFFICES ASSUME TypeOK, TypeOK', AttemptsInv, [Next]_vars PROVE AttemptsInv'
  OBVIOUS
<1>1. ASSUME NEW r \in Repo, EnqueueInitial(r) PROVE AttemptsInv'
  BY <1>1, NewRowCounts, CountsNothingKeeps DEF EnqueueInitial, historyVars
<1>2. ASSUME NEW r \in Repo, EnqueueFreshness(r) PROVE AttemptsInv'
  <2>1. NewRow(r, through[r]).repo = r
    BY DEF NewRow, AbsentRow
  <2>2. jobs' = [jobs EXCEPT ![nextId] = NewRow(r, through[r])]
    BY <1>2, <2>1 DEF EnqueueFreshness, Inserted
  <2> QED BY <1>2, <2>2, NewRowCounts, CountsNothingKeeps DEF EnqueueFreshness, historyVars
<1>3. ASSUME NEW r \in Repo, EnqueuePriority(r) PROVE AttemptsInv'
  BY <1>3, NewRowCounts, CountsNothingKeeps DEF EnqueuePriority, historyVars
<1>4. ASSUME NEW o \in Owner, NEW s \in Slot, NEW j \in Job, Claim(o, s, j) PROVE AttemptsInv'
  <2>1. jobs \in [Job -> JobRow] /\ held \in [Slot -> Copy]
    BY DEF TypeOK
  <2>2. /\ \A i \in Job : i # j => jobs'[i] = jobs[i]
        /\ jobs'[j].attempts = jobs[j].attempts /\ jobs'[j].status = "running"
    BY <1>4, <2>1 DEF Claim, JobRow
  <2>3. /\ \A x \in Slot : x # s => held'[x] = held[x]
        /\ held'[s].job = j /\ held'[s].attempts = jobs[j].attempts
    BY <1>4, <2>1 DEF Claim
  <2>4. CountsNothing
    BY <1>4, <2>2, <2>3 DEF CountsNothing, Claim, historyVars
  <2> QED BY <2>4, CountsNothingKeeps
<1>5. ASSUME NEW j \in Job, LeaseLapses(j) PROVE AttemptsInv'
  <2>1. jobs \in [Job -> JobRow]
    BY DEF TypeOK
  <2>2. \A i \in Job : jobs'[i].attempts = jobs[i].attempts /\ jobs'[i].status = jobs[i].status
    BY <1>5, <2>1 DEF LeaseLapses, JobRow
  <2>3. CountsNothing
    BY <1>5, <2>2 DEF CountsNothing, LeaseLapses, historyVars
  <2> QED BY <2>3, CountsNothingKeeps
<1>6. ASSUME ReclaimExpiredLeases PROVE AttemptsInv'
  <2>1. jobs \in [Job -> JobRow] /\ held \in [Slot -> Copy]
    BY DEF TypeOK
  <2>2. \A j \in Job : /\ jobs'[j].attempts = jobs[j].attempts
                       /\ jobs'[j].status \in {jobs[j].status, "pending"}
    <3> SUFFICES ASSUME NEW j \in Job
                 PROVE  /\ jobs'[j].attempts = jobs[j].attempts
                        /\ jobs'[j].status \in {jobs[j].status, "pending"}
      OBVIOUS
    <3>1. jobs[j] \in JobRow
      BY <2>1
    <3>2. jobs'[j] = IF Expired(jobs[j]) THEN Unleased(jobs[j], "pending") ELSE jobs[j]
      BY <1>6 DEF ReclaimExpiredLeases
    <3>3. CASE Expired(jobs[j])
      BY <3>1, <3>2, <3>3 DEF Unleased, JobRow
    <3>4. CASE ~Expired(jobs[j])
      BY <3>2, <3>4
    <3> QED BY <3>3, <3>4
  <2>3. \A s \in Slot : held'[s].job = held[s].job /\ held'[s].attempts = held[s].attempts
    BY <1>6, <2>1 DEF ReclaimExpiredLeases, Copy
  <2>4. CountsNothing
    BY <1>6, <2>2, <2>3 DEF CountsNothing, ReclaimExpiredLeases, historyVars
  <2> QED BY <2>4, CountsNothingKeeps
<1>7. ASSUME NEW s \in Slot, ReleaseJob(s) PROVE AttemptsInv'
  BY <1>7, FinishCounts, CountsNothingKeeps DEF ReleaseJob, historyVars
<1>8. ASSUME NEW s \in Slot, FailJob(s) PROVE AttemptsInv'
  BY <1>8, FailCounts
<1>9. ASSUME NEW s \in Slot, MarkUnavailable(s) PROVE AttemptsInv'
  BY <1>9, UnavailableCounts
<1>10. ASSUME NEW s \in Slot, LoseLease(s) PROVE AttemptsInv'
  <2>1. \A x \in Slot : held'[x] \in {held[x], NoCopy}
    BY <1>10 DEF LoseLease, TypeOK
  <2> QED BY <1>10, <2>1, DropCounts, CountsNothingKeeps DEF LoseLease, historyVars
<1>11. ASSUME NEW s \in Slot, Abandon(s) PROVE AttemptsInv'
  <2>1. \A x \in Slot : held'[x] \in {held[x], NoCopy}
    BY <1>11 DEF Abandon, TypeOK
  <2> QED BY <1>11, <2>1, DropCounts, CountsNothingKeeps DEF Abandon, historyVars
<1>12. ASSUME NEW s \in Slot, CommitPage(s) PROVE AttemptsInv'
  <2>1. Busy(s) /\ held[s] \in Copy /\ held \in [Slot -> Copy]
    BY <1>12, BusyType DEF CommitPage, TypeOK
  <2>2. PICK p \in [pages: Nat, openDone: BOOLEAN, closedDone: BOOLEAN],
             duplicate \in BOOLEAN : StorePage(s, p, duplicate)
    BY <1>12, <2>1, ProgressType DEF CommitPage
  <2>3. \A j \in Job : /\ jobs'[j].attempts \in {0, jobs[j].attempts}
                       /\ jobs'[j].status = "failed" => jobs[j].status = "failed"
    BY <2>1, <2>2, RequeuedCounts DEF StorePage
  <2>4. \A x \in Slot : held'[x].job # 0 => held'[x] = held[x]
    BY <2>1, <2>2 DEF StorePage, NoCopy
  <2>5. CountsNothing
    BY <2>2, <2>3, <2>4 DEF CountsNothing, StorePage
  <2> QED BY <2>5, CountsNothingKeeps
<1>13. ASSUME RecomputeEligibility PROVE AttemptsInv'
  BY <1>13, DropCounts, CountsNothingKeeps DEF RecomputeEligibility, historyVars
<1>14. ASSUME NEW r \in Repo, Rediscover(r) PROVE AttemptsInv'
  BY <1>14, DropCounts, CountsNothingKeeps DEF Rediscover, historyVars
<1>15. ASSUME NEW o \in Owner, Start(o) PROVE AttemptsInv'
  BY <1>15, DropCounts, CountsNothingKeeps DEF Start, historyVars
<1>16. ASSUME NEW o \in Owner, Crash(o) PROVE AttemptsInv'
  <2>1. \A x \in Slot : held'[x] \in {held[x], NoCopy}
    BY <1>16 DEF Crash, TypeOK
  <2> QED BY <1>16, <2>1, DropCounts, CountsNothingKeeps DEF Crash, historyVars
<1>17. CASE UNCHANGED vars
  BY <1>17, DropCounts, CountsNothingKeeps DEF vars
<1> QED
  BY <1>1, <1>2, <1>3, <1>4, <1>5, <1>6, <1>7, <1>8, <1>9, <1>10, <1>11, <1>12,
     <1>13, <1>14, <1>15, <1>16, <1>17 DEF Next, Enqueue, Process

LEMMA InitAttempts == Init => AttemptsInv
  BY SettingsAssumption
     DEF Init, AttemptsInv, GivenUpOnlyAfterMaxAttempts, Covered, AbsentRow, Busy, NoCopy

----------------------------------------------------------------------------
\* Who ends a job, and what stays ended.

OwnerEnds ==
  \A j \in Job :
    jobs[j].status = "running" /\ ~jobs[j].lapsed /\ jobs'[j].status # "running" =>
      \E s \in Slot : /\ held[s].job = j /\ held[s].owner = jobs[j].owner
                      /\ held'[s] = NoCopy

EndedStays == \A j \in Job : Finished(jobs[j]) => jobs'[j] = jobs[j]

\* A step that changes no row but the one a fenced copy stands for.
LEMMA FencedWrite ==
  ASSUME NEW s \in Slot, Fenced(held[s]), held'[s] = NoCopy,
         \A j \in Job : j # held[s].job =>
           jobs'[j] = jobs[j] \/ ~(Finished(jobs[j]) \/ jobs[j].status = "running")
  PROVE  OwnerEnds /\ EndedStays
<1>1. jobs[held[s].job].status = "running" /\ jobs[held[s].job].owner = held[s].owner
  BY DEF Fenced
<1> QED BY <1>1 DEF OwnerEnds, EndedStays, Finished

\* A step that changes no running and no finished row.
LEMMA OthersWrite ==
  ASSUME \A j \in Job :
           jobs'[j] = jobs[j] \/ ~(Finished(jobs[j]) \/ jobs[j].status = "running")
  PROVE  OwnerEnds /\ EndedStays
  BY DEF OwnerEnds, EndedStays

\* The row an insert takes is absent.
LEMMA NextIsAbsent ==
  ASSUME TypeOK, SafetyInv, nextId \in Job
  PROVE  jobs[nextId].status = "absent"
  BY DEF SafetyInv, RowsExist, Job

LEMMA LeaseStep == TypeOK /\ SafetyInv /\ [Next]_vars => OwnerEnds /\ EndedStays
<1> SUFFICES ASSUME TypeOK, SafetyInv, [Next]_vars PROVE OwnerEnds /\ EndedStays
  OBVIOUS
<1>0. jobs \in [Job -> JobRow] /\ held \in [Slot -> Copy]
  BY DEF TypeOK
<1>1. ASSUME NEW r \in Repo, Enqueue(r) PROVE OwnerEnds /\ EndedStays
  <2>1. nextId \in Job
    BY <1>1 DEF Enqueue, EnqueueInitial, EnqueueFreshness, EnqueuePriority
  <2>2. \A j \in Job : j # nextId => jobs'[j] = jobs[j]
    BY <1>0, <1>1 DEF Enqueue, EnqueueInitial, EnqueueFreshness, EnqueuePriority, Inserted
  <2> QED BY <2>1, <2>2, NextIsAbsent, OthersWrite DEF Finished
<1>2. ASSUME NEW o \in Owner, NEW s \in Slot, NEW j \in Job, Claim(o, s, j)
      PROVE  OwnerEnds /\ EndedStays
  <2>1. jobs[j].status = "pending" /\ \A i \in Job : i # j => jobs'[i] = jobs[i]
    BY <1>0, <1>2 DEF Claim
  <2> QED BY <2>1, OthersWrite DEF Finished
<1>3. ASSUME NEW j \in Job, LeaseLapses(j) PROVE OwnerEnds /\ EndedStays
  <2>1. /\ jobs[j].status = "running" /\ jobs'[j].status = "running"
        /\ \A i \in Job : i # j => jobs'[i] = jobs[i]
    BY <1>0, <1>3 DEF LeaseLapses, JobRow
  <2> QED BY <2>1 DEF OwnerEnds, EndedStays, Finished
<1>4. ASSUME ReclaimExpiredLeases PROVE OwnerEnds /\ EndedStays
  <2>1. \A j \in Job : \/ jobs'[j] = jobs[j]
                       \/ jobs[j].status = "running" /\ jobs[j].lapsed
    BY <1>0, <1>4 DEF ReclaimExpiredLeases, Expired
  <2> QED BY <2>1 DEF OwnerEnds, EndedStays, Finished
<1>5. ASSUME NEW s \in Slot, ReleaseJob(s) \/ FailJob(s) \/ MarkUnavailable(s)
      PROVE  OwnerEnds /\ EndedStays
  <2>1. Busy(s) /\ Fenced(held[s]) /\ held'[s] = NoCopy
    BY <1>0, <1>5 DEF ReleaseJob, FailJob, MarkUnavailable
  <2>2. \A j \in Job : j # held[s].job => jobs'[j] = jobs[j]
    BY <1>0, <1>5 DEF ReleaseJob, FailJob, MarkUnavailable
  <2> QED BY <2>1, <2>2, FencedWrite
<1>6. ASSUME NEW s \in Slot, CommitPage(s) PROVE OwnerEnds /\ EndedStays
  <2>1. Busy(s) /\ Fenced(held[s]) /\ held[s] \in Copy
    BY <1>6, BusyType DEF CommitPage
  <2>2. PICK p \in [pages: Nat, openDone: BOOLEAN, closedDone: BOOLEAN],
             duplicate \in BOOLEAN : StorePage(s, p, duplicate)
    BY <1>6, <2>1, ProgressType DEF CommitPage
  <2>3. /\ jobs' = Requeued(held[s], p) /\ held'[s] = NoCopy
        /\ HandsOff(held[s], p) => nextId \in Job
    BY <1>0, <2>2 DEF StorePage
  <2>4. \A j \in Job : j # held[s].job /\ ~(HandsOff(held[s], p) /\ j = nextId) =>
          jobs'[j] = jobs[j]
    BY <2>1, <2>3, RequeuedShape
  <2> QED BY <2>1, <2>3, <2>4, NextIsAbsent, FencedWrite DEF Finished
<1>7. CASE UNCHANGED jobs
  BY <1>7, OthersWrite
<1> QED
  BY <1>1, <1>2, <1>3, <1>4, <1>5, <1>6, <1>7
     DEF Next, Process, LoseLease, Abandon, RecomputeEligibility, Rediscover, Start, Crash, vars

\* A job is taken to its end by a copy its lease allows to, what has ended
\* stays ended, and a job is given up only after all its attempts.
THEOREM LeasesHonoured == Spec => LeasesAreHonoured
<1>1. Spec => [](TypeOK /\ SafetyInv)
  BY SafetyHolds
<1>2. Init => AttemptsInv
  BY InitAttempts
<1>3. TypeOK /\ TypeOK' /\ AttemptsInv /\ [Next]_vars => AttemptsInv'
  BY AttemptsStep
<1>4. AttemptsInv => GivenUpOnlyAfterMaxAttempts
  BY DEF AttemptsInv
<1>5. Spec => []GivenUpOnlyAfterMaxAttempts
  BY <1>1, <1>2, <1>3, <1>4, PTL DEF Spec
<1>6. TypeOK /\ SafetyInv /\ [Next]_vars =>
        [\A j \in Job :
           jobs[j].status = "running" /\ ~jobs[j].lapsed /\ jobs'[j].status # "running" =>
             \E s \in Slot : /\ held[s].job = j /\ held[s].owner = jobs[j].owner
                             /\ held'[s] = NoCopy]_vars
  BY LeaseStep DEF OwnerEnds
<1>7. Spec => OnlyTheLeaseOwnerFinishes
  BY <1>1, <1>6, PTL DEF Spec, OnlyTheLeaseOwnerFinishes
<1>8. TypeOK /\ SafetyInv /\ [Next]_vars =>
        [\A j \in Job : Finished(jobs[j]) => jobs'[j] = jobs[j]]_vars
  BY LeaseStep DEF EndedStays
<1>9. Spec => FinishedStaysFinished
  BY <1>1, <1>8, PTL DEF Spec, FinishedStaysFinished
<1> QED BY <1>5, <1>7, <1>9 DEF LeasesAreHonoured

----------------------------------------------------------------------------
(***************************************************************************)
(* The crawl queue implements PassLedger, for every value of the constants: *)
(* every step of jobs, leases, workers and processes is a step of the       *)
(* ledger or leaves the ledger alone.                                       *)
(***************************************************************************)

\* What the mapping reads of a repository.  At most one job is active, so it
\* is that job's row, whichever CHOOSE names.
Stands(r, pass, since, pages) ==
  PassOf(r) = pass /\ SinceOf(r) = since /\ PagesOf(r) = pages

RepoStands(r) ==
  /\ \A j \in Job : Active(jobs[j]) /\ jobs[j].repo = r =>
       Stands(r, jobs[j].pass, jobs[j].since, jobs[j].pages)
  /\ ~HasActive(jobs, r) => Stands(r, 0, 0, 0)

LEMMA ActiveStands == OneActiveJobPerRepo => \A r \in Repo : RepoStands(r)
<1> SUFFICES ASSUME OneActiveJobPerRepo, NEW r \in Repo PROVE RepoStands(r)
  OBVIOUS
<1>1. ASSUME NEW j \in Job, Active(jobs[j]), jobs[j].repo = r
      PROVE  Stands(r, jobs[j].pass, jobs[j].since, jobs[j].pages)
  <2>1. HasActive(jobs, r)
    BY <1>1 DEF HasActive
  <2>2. ActiveJob(r) \in Job /\ jobs[ActiveJob(r)].repo = r /\ Active(jobs[ActiveJob(r)])
    BY <1>1, Zenon DEF ActiveJob
  <2>3. ActiveJob(r) = j
    BY <1>1, <2>2, Zenon DEF OneActiveJobPerRepo
  <2> QED BY <2>1, <2>3 DEF Stands, PassOf, SinceOf, PagesOf
<1>2. ASSUME ~HasActive(jobs, r) PROVE Stands(r, 0, 0, 0)
  BY <1>2 DEF Stands, PassOf, SinceOf, PagesOf
<1> QED BY <1>1, <1>2 DEF RepoStands

LEMMA ActiveStandsNext == OneActiveJobPerRepo' => \A r \in Repo : RepoStands(r)'
<1>1. (OneActiveJobPerRepo => \A r \in Repo : RepoStands(r))'
  BY ActiveStands, PTL
<1> QED BY <1>1

StandsNext(r, pass, since, pages) ==
  PassOf(r)' = pass /\ SinceOf(r)' = since /\ PagesOf(r)' = pages

Kept(r) == PassOf(r)' = PassOf(r) /\ SinceOf(r)' = SinceOf(r) /\ PagesOf(r)' = PagesOf(r)

\* A repository whose active rows are the same work before and after a step
\* stands where it stood.
LEMMA SameWorkKept ==
  ASSUME OneActiveJobPerRepo, OneActiveJobPerRepo', NEW r \in Repo,
         \A j \in Job :
           /\ Active(jobs[j]) /\ jobs[j].repo = r => Active(jobs'[j]) /\ SameWork(jobs'[j], jobs[j])
           /\ Active(jobs'[j]) /\ jobs'[j].repo = r => Active(jobs[j]) /\ SameWork(jobs'[j], jobs[j])
  PROVE  Kept(r)
<1>1. RepoStands(r) /\ RepoStands(r)'
  BY ActiveStands, ActiveStandsNext
<1>2. CASE HasActive(jobs, r)
  <2>1. PICK j \in Job : Active(jobs[j]) /\ jobs[j].repo = r
    BY <1>2 DEF HasActive
  <2>2. Active(jobs'[j]) /\ SameWork(jobs'[j], jobs[j])
    BY <2>1
  <2>3. Stands(r, jobs[j].pass, jobs[j].since, jobs[j].pages)
    BY <1>1, <2>1 DEF RepoStands
  <2>4. Stands(r, jobs[j].pass, jobs[j].since, jobs[j].pages)'
    BY <1>1, <2>1, <2>2 DEF RepoStands, SameWork, Active
  <2> QED BY <2>2, <2>3, <2>4 DEF Kept, Stands, SameWork
<1>3. CASE ~HasActive(jobs, r)
  <2>1. ~HasActive(jobs, r)'
    BY <1>3 DEF HasActive, SameWork, Active
  <2>2. Stands(r, 0, 0, 0) /\ Stands(r, 0, 0, 0)'
    BY <1>1, <1>3, <2>1 DEF RepoStands
  <2> QED BY <2>2 DEF Kept, Stands
<1> QED BY <1>2, <1>3

\* A step that keeps every repository leaves the ledger alone.
LEMMA KeptStutters ==
  ASSUME \A r \in Repo : Kept(r), UNCHANGED <<nextId, through, rows>>
  PROVE  UNCHANGED Ledger!ledgerVars
  BY DEF Kept, Ledger!ledgerVars

\* A new row is a pass that begins.
LEMMA InsertBegins ==
  ASSUME TypeOK, SafetyInv, SafetyInv', NEW r \in Repo, NEW since \in {0, through[r]},
         nextId \in Job, ~HasActive(jobs, r),
         jobs' = [jobs EXCEPT ![nextId] = NewRow(r, since)], nextId' = nextId + 1,
         UNCHANGED <<through, rows>>
  PROVE  Ledger!Begin(r)
<1> DEFINE new == NewRow(r, since)
<1>1. /\ new.repo = r /\ new.status = "pending" /\ new.since = since
      /\ new.pass = nextId /\ new.pages = 0
  BY DEF NewRow, AbsentRow
<1> HIDE DEF new
<1>2. jobs'[nextId] = new /\ \A j \in Job : j # nextId => jobs'[j] = jobs[j]
  BY DEF TypeOK, new
<1>3. jobs[nextId].status = "absent"
  BY DEF SafetyInv, RowsExist, Job
<1>4. OneActiveJobPerRepo /\ OneActiveJobPerRepo'
  BY DEF SafetyInv
<1>5. Stands(r, 0, 0, 0)
  BY <1>4, ActiveStands DEF RepoStands
<1>6. StandsNext(r, nextId, since, 0)
  <2>1. Active(jobs'[nextId]) /\ jobs'[nextId].repo = r /\ nextId \in Job
    BY <1>1, <1>2 DEF Active
  <2>2. \A j \in Job : Active(jobs'[j]) /\ jobs'[j].repo = r =>
          StandsNext(r, jobs'[j].pass, jobs'[j].since, jobs'[j].pages)
    BY <1>4, ActiveStandsNext DEF RepoStands, Active, Stands, StandsNext
  <2> QED BY <1>1, <1>2, <2>1, <2>2
<1>7. ASSUME NEW q \in Repo, q # r PROVE Kept(q)
  BY <1>1, <1>2, <1>3, <1>4, <1>7, SameWorkKept DEF Active, SameWork
<1> QED BY <1>5, <1>6, <1>7 DEF Ledger!Begin, Stands, StandsNext, Kept

\* A finishing write that sends a job back to the queue keeps its pass; one
\* that fails it gives the pass up.
LEMMA FinishMaps ==
  ASSUME TypeOK, SafetyInv, SafetyInv', NEW s \in Slot, Busy(s), Fenced(held[s]),
         NEW row \in JobRow, SameWork(row, jobs[held[s].job]),
         row.status \in {"pending", "failed"},
         jobs' = [jobs EXCEPT ![held[s].job] = row],
         UNCHANGED <<nextId, through, rows>>
  PROVE  Ledger!Next \/ UNCHANGED Ledger!ledgerVars
<1>1. PICK k \in Job : k = held[s].job /\ jobs[k] \in JobRow /\ jobs[k].status = "running"
  BY BusyType DEF Fenced
<1>2. PICK r \in Repo : r = jobs[k].repo /\ jobs[k].pass \in Job /\ row.repo = r
  BY <1>1 DEF SafetyInv, RowsExist, SameWork
<1>3. jobs'[k] = row /\ \A j \in Job : j # k => jobs'[j] = jobs[j]
  BY <1>1 DEF TypeOK
<1>4. OneActiveJobPerRepo /\ OneActiveJobPerRepo'
  BY DEF SafetyInv
<1>5. ASSUME NEW q \in Repo, q # r \/ row.status = "pending" PROVE Kept(q)
  BY <1>1, <1>2, <1>3, <1>4, <1>5, SameWorkKept DEF Active, SameWork
<1>6. CASE row.status = "pending"
  BY <1>5, <1>6, KeptStutters
<1>7. CASE row.status = "failed"
  <2>1. ASSUME NEW j \in Job, Active(jobs'[j]), jobs'[j].repo = r PROVE FALSE
    BY <1>1, <1>2, <1>3, <1>4, <1>7, <2>1 DEF OneActiveJobPerRepo, Active
  <2>2. ~HasActive(jobs, r)'
    BY <2>1 DEF HasActive, Active
  <2>3. StandsNext(r, 0, 0, 0)
    BY <1>4, <2>2, ActiveStandsNext DEF RepoStands, Stands, StandsNext
  <2>4. PassOf(r) # 0
    <3>1. PassOf(r) \in Job
      BY <1>1, <1>2, <1>4, ActiveStands DEF RepoStands, Stands, Active
    <3> QED BY <3>1, BoundsAssumption DEF Job
  <2>5. Ledger!GiveUp(r)
    <3>1. \A q \in Repo : q # r => Kept(q)
      BY <1>5
    <3> QED BY <2>3, <2>4, <3>1 DEF Ledger!GiveUp, StandsNext, Kept
  <2> QED BY <1>2, <2>5 DEF Ledger!Next
<1> QED BY <1>6, <1>7

\* A committed page is a page of the ledger: the pass goes on, in the same row
\* or in the deep job it is handed to, or it ends and sets the watermark.
LEMMA CommitMaps ==
  ASSUME TypeOK, SafetyInv, SafetyInv', NEW s \in Slot, CommitPage(s)
  PROVE  Ledger!Next
<1>1. PICK k \in Job :
        /\ k = held[s].job /\ Busy(s) /\ Fenced(held[s]) /\ held[s] \in Copy
        /\ jobs[k] \in JobRow /\ jobs[k].status = "running"
  BY BusyType DEF CommitPage, Fenced
<1>2. PICK r \in Repo, pass \in Job : r = jobs[k].repo /\ pass = jobs[k].pass
  BY <1>1 DEF SafetyInv, RowsExist
<1>3. PICK n \in Nat, since \in 0..MaxJobs : n = held[s].pages /\ since = jobs[k].since
  BY <1>1 DEF Copy, JobRow
<1>4. PICK openMore \in BOOLEAN, closedMore \in BOOLEAN, duplicate \in BOOLEAN :
        StorePage(s, Progress(held[s], openMore, closedMore), duplicate)
  BY DEF CommitPage
<1> DEFINE p == Progress(held[s], openMore, closedMore)
<1>5. p \in [pages: Nat, openDone: BOOLEAN, closedDone: BOOLEAN] /\ p.pages = n + 1
  BY <1>1, <1>3, ProgressType DEF Progress
<1> HIDE DEF p
<1>6. StorePage(s, p, duplicate)
  BY <1>4 DEF p
<1>7. /\ HandsOff(held[s], p) => nextId \in Job
      /\ jobs' = Requeued(held[s], p)
      /\ nextId' = IF HandsOff(held[s], p) THEN nextId + 1 ELSE nextId
      /\ rows' = [rows EXCEPT ![pass] = @ \cup {n + 1}]
      /\ through' = IF MorePages(p) THEN through
                    ELSE [through EXCEPT ![r] = Watermark(@, pass)]
  BY <1>1, <1>2, <1>5, <1>6 DEF StorePage
<1>8. /\ SameWork(jobs'[k], [jobs[k] EXCEPT !.pages = n + 1])
      /\ jobs'[k].status \in {"done", "pending"}
      /\ jobs'[k].status = "pending" => MorePages(p) /\ ~HandsOff(held[s], p)
      /\ \A j \in Job : j # k /\ ~(HandsOff(held[s], p) /\ j = nextId) => jobs'[j] = jobs[j]
      /\ HandsOff(held[s], p) =>
           /\ SameWork(jobs'[nextId], [jobs[k] EXCEPT !.pages = n + 1])
           /\ jobs'[nextId].status = "pending" /\ jobs'[k].status = "done"
  BY <1>1, <1>5, <1>7, RequeuedShape
<1>9. /\ jobs'[k].repo = r /\ jobs'[k].pass = pass
      /\ jobs'[k].since = since /\ jobs'[k].pages = n + 1
  BY <1>1, <1>2, <1>3, <1>8 DEF SameWork, JobRow
<1>10. HandsOff(held[s], p) => /\ jobs'[nextId].repo = r /\ jobs'[nextId].pass = pass
                               /\ jobs'[nextId].since = since /\ jobs'[nextId].pages = n + 1
  BY <1>1, <1>2, <1>3, <1>8 DEF SameWork, JobRow
<1>11. OneActiveJobPerRepo /\ OneActiveJobPerRepo'
  BY DEF SafetyInv
<1>12. HandsOff(held[s], p) => nextId # k /\ jobs[nextId].status = "absent"
  BY <1>1, <1>7 DEF SafetyInv, RowsExist, Job
\* The pass in progress before the step, and where its page may go.
<1>13. PassOf(r) = pass /\ SinceOf(r) = since /\ pass # 0
  <2>1. Stands(r, pass, since, jobs[k].pages)
    BY <1>1, <1>2, <1>3, <1>11, ActiveStands DEF RepoStands, Active
  <2> QED BY <2>1, BoundsAssumption DEF Stands, Job
<1>14. n \in {0} \cup rows[pass] /\ 1..n \subseteq rows[pass]
  <2>1. 1..n \subseteq rows[pass]
    BY <1>1, <1>2, <1>3 DEF SafetyInv, CursorBehindRows
  <2> QED BY <2>1
<1>15. n \in Ledger!Follows(r)
  BY <1>13, <1>14 DEF Ledger!Follows
<1>16. ASSUME NEW q \in Repo, q # r PROVE Kept(q)
  BY <1>1, <1>2, <1>8, <1>9, <1>10, <1>11, <1>12, <1>16, SameWorkKept DEF Active, SameWork
<1>17. CASE MorePages(p)
  <2>1. PICK x \in Job : /\ jobs'[x].repo = r /\ jobs'[x].pass = pass /\ jobs'[x].since = since
                         /\ jobs'[x].pages = n + 1 /\ Active(jobs'[x])
    <3>1. CASE HandsOff(held[s], p)
      BY <1>7, <1>8, <1>10, <3>1 DEF Active
    <3>2. CASE ~HandsOff(held[s], p)
      <4> DEFINE again == [Stored(Unleased(jobs[k], "pending"), p) EXCEPT !.attempts = 0]
      <4>1. again.status = "pending"
        BY <1>1 DEF Stored, Unleased, JobRow
      <4> HIDE DEF again
      <4>2. jobs[k].type = "deep"
        BY <1>1, <1>17, <3>2 DEF HandsOff, JobRow
      <4>3. jobs' = [jobs EXCEPT ![k] = again]
        BY <1>1, <1>7, <1>17, <4>2 DEF Requeued, again
      <4>4. jobs'[k].status = "pending"
        BY <4>1, <4>3 DEF TypeOK
      <4> QED BY <1>9, <4>4 DEF Active
    <3> QED BY <3>1, <3>2
  <2>2. StandsNext(r, pass, since, n + 1)
    <3>1. \A j \in Job : Active(jobs'[j]) /\ jobs'[j].repo = r =>
            StandsNext(r, jobs'[j].pass, jobs'[j].since, jobs'[j].pages)
      BY <1>11, ActiveStandsNext DEF RepoStands, Active, Stands, StandsNext
    <3> QED BY <2>1, <3>1
  <2>3. Ledger!ReadPage(r)
    <3>1. \A q \in Repo : q # r => Kept(q)
      BY <1>16
    <3> QED BY <1>7, <1>13, <1>15, <1>17, <2>2, <3>1 DEF Ledger!ReadPage, StandsNext, Kept
  <2> QED BY <2>3 DEF Ledger!Next
<1>18. CASE ~MorePages(p)
  <2>1. ASSUME NEW j \in Job, Active(jobs'[j]), jobs'[j].repo = r PROVE FALSE
    <3>1. ~HandsOff(held[s], p) /\ jobs'[k].status = "done"
      BY <1>8, <1>18 DEF HandsOff
    <3>2. j # k /\ jobs'[j] = jobs[j]
      BY <1>8, <2>1, <3>1 DEF Active
    <3> QED BY <1>1, <1>2, <1>11, <2>1, <3>2 DEF OneActiveJobPerRepo, Active
  <2>2. ~HasActive(jobs, r)'
    BY <2>1 DEF HasActive, Active
  <2>3. StandsNext(r, 0, 0, 0)
    BY <1>11, <2>2, ActiveStandsNext DEF RepoStands, Stands, StandsNext
  <2>4. through' = [through EXCEPT ![r] = pass]
    <3>1. through[r] < pass
      BY <1>1, <1>2 DEF SafetyInv, PassAfterWatermark, Active
    <3> QED BY <1>7, <1>18, <3>1 DEF Watermark
  <2>5. nextId' = nextId
    BY <1>7, <1>18 DEF HandsOff
  <2>6. Ledger!Complete(r)
    <3>1. \A q \in Repo : q # r => Kept(q)
      BY <1>16
    <3> QED BY <1>7, <1>13, <1>15, <2>3, <2>4, <2>5, <3>1 DEF Ledger!Complete, StandsNext, Kept
  <2> QED BY <2>6 DEF Ledger!Next
<1> QED BY <1>17, <1>18

\* A step that keeps the table but for statuses within the active ones.
LEMMA SameQueueMaps ==
  ASSUME SafetyInv, SafetyInv',
         \A j \in Job : /\ SameWork(jobs'[j], jobs[j])
                        /\ Active(jobs[j]) <=> Active(jobs'[j]),
         UNCHANGED <<nextId, through, rows>>
  PROVE  UNCHANGED Ledger!ledgerVars
<1>1. OneActiveJobPerRepo /\ OneActiveJobPerRepo'
  BY DEF SafetyInv
<1>2. \A r \in Repo : Kept(r)
  BY <1>1, SameWorkKept DEF SameWork
<1> QED BY <1>2, KeptStutters

LEMMA MapsStep ==
  TypeOK /\ SafetyInv /\ SafetyInv' /\ [Next]_vars => Ledger!Next \/ UNCHANGED Ledger!ledgerVars
<1> SUFFICES ASSUME TypeOK, SafetyInv, SafetyInv', [Next]_vars
             PROVE  Ledger!Next \/ UNCHANGED Ledger!ledgerVars
  OBVIOUS
<1>0. jobs \in [Job -> JobRow]
  BY DEF TypeOK
<1>1. ASSUME NEW r \in Repo, EnqueueInitial(r) PROVE Ledger!Next
  <2>1. ~HasActive(jobs, r)
    BY <1>1 DEF EnqueueInitial, HasActive
  <2>2. Ledger!Begin(r)
    BY <1>1, <2>1, InsertBegins DEF EnqueueInitial, repoVars, historyVars
  <2> QED BY <2>2 DEF Ledger!Next
<1>2. ASSUME NEW r \in Repo, EnqueueFreshness(r) PROVE Ledger!Next
  <2>1. NewRow(r, through[r]).repo = r
    BY DEF NewRow, AbsentRow
  <2>2. jobs' = [jobs EXCEPT ![nextId] = NewRow(r, through[r])]
    BY <1>2, <2>1 DEF EnqueueFreshness, Inserted
  <2>3. Ledger!Begin(r)
    BY <1>2, <2>2, InsertBegins DEF EnqueueFreshness, repoVars, historyVars
  <2> QED BY <2>3 DEF Ledger!Next
<1>3. ASSUME NEW r \in Repo, EnqueuePriority(r) PROVE Ledger!Next
  <2>1. Ledger!Begin(r)
    BY <1>3, InsertBegins DEF EnqueuePriority, repoVars, historyVars
  <2> QED BY <2>1 DEF Ledger!Next
<1>4. ASSUME NEW o \in Owner, NEW s \in Slot, NEW j \in Job, Claim(o, s, j)
      PROVE  UNCHANGED Ledger!ledgerVars
  <2>1. \A i \in Job : SameWork(jobs'[i], jobs[i]) /\ (Active(jobs[i]) <=> Active(jobs'[i]))
    BY <1>0, <1>4 DEF Claim, SameWork, Active, JobRow
  <2> QED BY <1>4, <2>1, SameQueueMaps DEF Claim, repoVars, historyVars
<1>5. ASSUME NEW j \in Job, LeaseLapses(j) PROVE UNCHANGED Ledger!ledgerVars
  <2>1. \A i \in Job : SameWork(jobs'[i], jobs[i]) /\ (Active(jobs[i]) <=> Active(jobs'[i]))
    BY <1>0, <1>5 DEF LeaseLapses, SameWork, Active, JobRow
  <2> QED BY <1>5, <2>1, SameQueueMaps DEF LeaseLapses, repoVars, historyVars
<1>6. ASSUME ReclaimExpiredLeases PROVE UNCHANGED Ledger!ledgerVars
  <2>1. ASSUME NEW i \in Job
        PROVE  SameWork(jobs'[i], jobs[i]) /\ (Active(jobs[i]) <=> Active(jobs'[i]))
    <3>1. CASE Expired(jobs[i])
      BY <1>0, <1>6, <3>1, UnleasedShape DEF ReclaimExpiredLeases, Expired, Active
    <3>2. CASE ~Expired(jobs[i])
      BY <1>0, <1>6, <3>2 DEF ReclaimExpiredLeases, SameWork
    <3> QED BY <3>1, <3>2
  <2> QED BY <1>6, <2>1, SameQueueMaps DEF ReclaimExpiredLeases, repoVars, historyVars
<1>7. ASSUME NEW s \in Slot, ReleaseJob(s) PROVE Ledger!Next \/ UNCHANGED Ledger!ledgerVars
  <2> DEFINE row == Unleased(jobs[held[s].job], "pending")
  <2>1. row \in JobRow /\ SameWork(row, jobs[held[s].job]) /\ row.status = "pending"
    BY <1>7, BusyType, UnleasedType, UnleasedShape DEF ReleaseJob
  <2>2. jobs' = [jobs EXCEPT ![held[s].job] = row]
    BY <1>7 DEF ReleaseJob
  <2> HIDE DEF row
  <2> QED BY <1>7, <2>1, <2>2, FinishMaps DEF ReleaseJob, repoVars, historyVars
<1>8. ASSUME NEW s \in Slot, FailJob(s) PROVE Ledger!Next \/ UNCHANGED Ledger!ledgerVars
  <2> DEFINE attempt == held[s].attempts + 1
             status == IF attempt >= MaxAttempts THEN "failed" ELSE "pending"
             row == [Unleased(jobs[held[s].job], status) EXCEPT !.attempts = attempt]
  <2>1. jobs[held[s].job] \in JobRow /\ held[s] \in Copy
    BY <1>8, BusyType DEF FailJob
  <2>2. /\ Unleased(jobs[held[s].job], status) \in JobRow
        /\ SameWork(Unleased(jobs[held[s].job], status), jobs[held[s].job])
        /\ Unleased(jobs[held[s].job], status).status = status
    BY <2>1, UnleasedType, UnleasedShape
  <2>3. attempt \in Nat /\ status \in {"pending", "failed"}
    BY <2>1 DEF Copy
  <2> HIDE DEF attempt, status
  <2>4. row \in JobRow /\ SameWork(row, jobs[held[s].job]) /\ row.status = status
    BY <2>2, <2>3 DEF JobRow, SameWork
  <2>5. jobs' = [jobs EXCEPT ![held[s].job] = row]
    BY <1>8 DEF FailJob, attempt, status
  <2> HIDE DEF row
  <2> QED BY <1>8, <2>3, <2>4, <2>5, FinishMaps DEF FailJob, repoVars
<1>9. ASSUME NEW s \in Slot, MarkUnavailable(s)
      PROVE  Ledger!Next \/ UNCHANGED Ledger!ledgerVars
  <2> DEFINE row == Unleased(jobs[held[s].job], "failed")
  <2>1. row \in JobRow /\ SameWork(row, jobs[held[s].job]) /\ row.status = "failed"
    BY <1>9, BusyType, UnleasedType, UnleasedShape DEF MarkUnavailable
  <2>2. jobs' = [jobs EXCEPT ![held[s].job] = row]
    BY <1>9 DEF MarkUnavailable
  <2> HIDE DEF row
  <2> QED BY <1>9, <2>1, <2>2, FinishMaps DEF MarkUnavailable
<1>10. ASSUME NEW s \in Slot, CommitPage(s) PROVE Ledger!Next
  BY <1>10, CommitMaps
<1>11. CASE UNCHANGED <<jobs, nextId, through, rows>>
  BY <1>11, SameQueueMaps DEF SameWork
<1> QED
  BY <1>1, <1>2, <1>3, <1>4, <1>5, <1>6, <1>7, <1>8, <1>9, <1>10, <1>11
     DEF Next, Enqueue, Process, LoseLease, Abandon, RecomputeEligibility, Rediscover,
         Start, Crash, vars, repoVars, historyVars

LEMMA MapsInit == Init => Ledger!Init
<1> SUFFICES ASSUME Init PROVE Ledger!Init
  OBVIOUS
<1>1. \A r \in Repo : ~HasActive(jobs, r)
  BY DEF Init, HasActive, AbsentRow, Active
<1>2. \A r \in Repo : PassOf(r) = 0 /\ SinceOf(r) = 0 /\ PagesOf(r) = 0
  BY <1>1 DEF PassOf, SinceOf, PagesOf
<1> QED BY <1>2 DEF Init, Ledger!Init

\* Whatever the processes, workers and leases do, a repository sees nothing but
\* a sequence of passes, each with its pages committed in order and each either
\* ended, with its own start as the watermark, or given up.
THEOREM QueueImplementsLedger == Spec => ImplementsPassLedger
<1>1. Spec => [](TypeOK /\ SafetyInv)
  BY SafetyHolds
<1>2. Init => Ledger!Init
  BY MapsInit
<1>3. TypeOK /\ SafetyInv /\ SafetyInv' /\ [Next]_vars => [Ledger!Next]_(Ledger!ledgerVars)
  BY MapsStep
<1> QED BY <1>1, <1>2, <1>3, PTL DEF Spec, ImplementsPassLedger, Ledger!Spec
=============================================================================
