------------------------ MODULE DiscoverySweepProofs -----------------------
(* Proofs about DiscoverySweep, for every value of its constants. *)
EXTENDS DiscoverySweep, TLAPS

----------------------------------------------------------------------------
\* Types.

LEMMA NoWindowType == NoWindow \in WindowRow
<1>1. {} \in SUBSET Repo /\ 0 \in 0..MaxSweeps
  BY BoundsAssumption
<1> QED BY <1>1 DEF NoWindow, WindowRow

LEMMA FreshType ==
  ASSUME NEW s \in Sweep, NEW from \in Int, NEW to \in Int
  PROVE  Fresh(s, from, to) \in WindowRow
<1>1. s \in 0..MaxSweeps
  BY BoundsAssumption DEF Sweep
<1> QED BY <1>1, NoWindowType DEF Fresh, WindowRow

LEMMA NoCopyType == NoCopy \in Copy
<1>1. {} \in SUBSET Repo /\ 0 \in 0..MaxWindows /\ [r \in Repo |-> 0] \in [Repo -> Int]
  BY BoundsAssumption
<1> QED BY <1>1 DEF NoCopy, Copy

LEMMA UnleasedType ==
  ASSUME NEW row \in WindowRow, NEW status \in {"pending", "failed", "done"}
  PROVE  Unleased(row, status) \in WindowRow
  BY DEF Unleased, WindowRow

----------------------------------------------------------------------------
\* Arithmetic.

LEMMA DivBounds ==
  ASSUME NEW a \in Nat, NEW d \in Nat \ {0}
  PROVE  /\ a \div d \in Nat
         /\ d * (a \div d) <= a
         /\ a < d * (a \div d) + d
  BY SMT

LEMMA Spread ==
  ASSUME NEW a \in Int, NEW b \in Int, NEW d \in Nat \ {0}, a < b
  PROVE  a * d + d <= b * d
<1>1. (b - a - 1) * d >= 0 BY SMT
<1> QED BY <1>1, SMT

\* Halving lands strictly inside.
LEMMA MiddleInside ==
  ASSUME NEW row \in WindowRow, Splittable(row)
  PROVE  Middle(row) \in Int /\ row.from < Middle(row) /\ Middle(row) < row.to
  BY DEF Splittable, Middle, WindowRow

\* A row is the n-th window of a new sweep.
Placed(row, s, from, to, n) ==
  /\ row \in WindowRow
  /\ row = [NoWindow EXCEPT !.sweep = s, !.from = row.from, !.to = row.to,
                            !.status = "pending"]
  /\ row.from = from + n * Width
  /\ row.from < row.to /\ row.to <= to /\ row.to <= row.from + Width
  /\ row.to = to \/ row.to = row.from + Width

\* The windows of a new sweep lie inside its range.
LEMMA NthInside ==
  ASSUME NEW s \in Sweep, NEW from \in Int, NEW to \in Int, from < to,
         NEW n \in Nat, n < Count(from, to)
  PROVE  Placed(Nth(s, from, to, n), s, from, to, n)
<1> DEFINE start == from + n * Width
           end == IF start + Width < to THEN start + Width ELSE to
<1>1. Width \in Nat \ {0}
  BY SettingsAssumption
<1>2. to - from - 1 \in Nat
  OBVIOUS
<1>3. n <= (to - from - 1) \div Width /\ (to - from - 1) \div Width \in Nat
  BY <1>1, <1>2, DivBounds DEF Count
<1>4. n * Width \in Int
  BY <1>1
<1>5. n * Width <= ((to - from - 1) \div Width) * Width
  <2>1. CASE n = (to - from - 1) \div Width
    BY <2>1, <1>1, <1>3
  <2>2. CASE n < (to - from - 1) \div Width
    <3>1. n * Width + Width <= ((to - from - 1) \div Width) * Width
      BY <2>2, <1>1, <1>3, Spread
    <3> QED BY <3>1, <1>1, <1>3
  <2> QED BY <2>1, <2>2, <1>3
<1>6. n * Width <= to - from - 1
  BY <1>1, <1>2, <1>3, <1>5, DivBounds
<1>7. start \in Int /\ end \in Int /\ start < end /\ end <= to /\ end <= start + Width
  BY <1>1, <1>4, <1>6
<1> HIDE DEF start, end
<1>8. Nth(s, from, to, n) = Fresh(s, start, end)
  BY DEF Nth, start, end
<1>9. Fresh(s, start, end) \in WindowRow
  BY <1>7, FreshType
<1>10. /\ Fresh(s, start, end).from = start /\ Fresh(s, start, end).to = end
  BY DEF Fresh, NoWindow
<1>11. end = to \/ end = start + Width
  BY DEF end
<1>12. start = from + n * Width
  BY DEF start
<1> QED BY <1>7, <1>8, <1>9, <1>10, <1>11, <1>12 DEF Fresh, Placed

----------------------------------------------------------------------------
\* The inductive invariant.

\* Rows are inserted under fresh ids; copies, windows and sweeps refer to rows
\* that exist; a window that is to be halved can be; and what was split is done.
Exist ==
  /\ \A w \in Window : w >= nextWindow => windows[w] = NoWindow
  /\ \A w \in Window : windows[w].status # "absent" =>
       windows[w].sweep \in Sweep /\ sweeps[windows[w].sweep].status # "absent"
  /\ \A s \in Sweep : s >= nextSweep => sweeps[s].status = "absent"
  /\ \A s \in Sweep : sweeps[s].status # "absent" => sweeps[s].to <= now
  /\ \A k \in Slot : Busy(k) =>
       held[k].window \in Window /\ windows[held[k].window].status # "absent"
  /\ \A k \in Slot : held[k].stage = "splitting" => Splittable(windows[held[k].window])
  /\ \A w \in Window : windows[w].split => windows[w].status = "done"

Shape == TypeOK /\ Exist

----------------------------------------------------------------------------
\* Steps by what they do to rows that exist.

\* A row keeps its place in its sweep.
SameRange(w) ==
  /\ windows'[w].sweep = windows[w].sweep
  /\ windows'[w].from = windows[w].from /\ windows'[w].to = windows[w].to
  /\ windows'[w].split = windows[w].split
  /\ windows'[w].status = "absent" <=> windows[w].status = "absent"
  /\ windows[w].status = "done" => windows'[w].status = "done"

SameSweep(s) ==
  /\ sweeps'[s].from = sweeps[s].from /\ sweeps'[s].to = sweeps[s].to
  /\ sweeps'[s].status = "absent" <=> sweeps[s].status = "absent"

\* A step that inserts and splits nothing.
Ranged ==
  /\ \A w \in Window : SameRange(w)
  /\ \A s \in Sweep : SameSweep(s)
  /\ nextSweep' = nextSweep /\ nextWindow' = nextWindow
  /\ \A w \in Window : windows[w] = NoWindow => windows'[w] = NoWindow

\* A ranged step keeps the references between rows, given that of the copies.
LEMMA RangedExist ==
  ASSUME Shape, TypeOK', Ranged, now' >= now,
         \A k \in Slot : Busy(k)' =>
           held'[k].window \in Window /\ windows[held'[k].window].status # "absent",
         \A k \in Slot : held'[k].stage = "splitting" =>
           Splittable(windows[held'[k].window])
  PROVE  Exist'
<1>1. \A w \in Window : w >= nextWindow' => windows'[w] = NoWindow
  BY DEF Shape, Exist, Ranged
<1>2. \A w \in Window : windows'[w].status # "absent" =>
        windows'[w].sweep \in Sweep /\ sweeps'[windows'[w].sweep].status # "absent"
  BY DEF Shape, Exist, Ranged, SameRange, SameSweep
<1>3. \A s \in Sweep : s >= nextSweep' => sweeps'[s].status = "absent"
  BY DEF Shape, Exist, Ranged, SameSweep
<1>4. \A s \in Sweep : sweeps'[s].status # "absent" => sweeps'[s].to <= now'
  BY DEF Shape, Exist, Ranged, SameSweep, TypeOK, SweepRow
<1>5. \A k \in Slot : Busy(k)' =>
        held'[k].window \in Window /\ windows'[held'[k].window].status # "absent"
  BY DEF Ranged, SameRange
<1>6. ASSUME NEW k \in Slot, held'[k].stage = "splitting"
      PROVE  Splittable(windows'[held'[k].window])
  <2>1. held'[k].window \in Window
    BY <1>6 DEF Busy
  <2> QED BY <1>6, <2>1 DEF Ranged, SameRange, Splittable, Middle
<1>7. \A w \in Window : windows'[w].split => windows'[w].status = "done"
  BY DEF Shape, Exist, Ranged, SameRange
<1> QED BY <1>1, <1>2, <1>3, <1>4, <1>5, <1>6, <1>7 DEF Exist

\* A copy in flight and its window.
LEMMA BusyType ==
  ASSUME Shape, NEW k \in Slot, Busy(k)
  PROVE  /\ held[k] \in Copy /\ held[k].window \in Window
         /\ windows[held[k].window] \in WindowRow
         /\ windows[held[k].window].status # "absent"
  BY DEF Shape, TypeOK, Exist

\* One existing row is written and a copy is dropped, or none is.
LEMMA WriteShape ==
  ASSUME Shape, NEW w \in Window, NEW row \in WindowRow,
         windows' = [windows EXCEPT ![w] = row],
         windows[w].status \notin {"absent", "done"}, row.status # "absent",
         row.sweep = windows[w].sweep, row.split = windows[w].split,
         row.from = windows[w].from, row.to = windows[w].to,
         UNCHANGED <<githubVars, sweepVars, nextWindow>>,
         stored' \subseteq Repo,
         held' \in [Slot -> Copy],
         \A k \in Slot : \/ held'[k] \in {held[k], NoCopy}
                         \/ held'[k].window = w /\ held'[k].stage = "claimed"
  PROVE  Shape' /\ Ranged
<1>1. TypeOK'
  BY DEF Shape, TypeOK, githubVars, sweepVars
<1>2. Ranged
  <2>1. windows'[w] = row /\ \A v \in Window : v # w => windows'[v] = windows[v]
    BY DEF Shape, TypeOK
  <2>2. \A v \in Window : SameRange(v)
    BY <2>1 DEF SameRange
  <2>3. windows[w] # NoWindow
    BY DEF NoWindow
  <2> QED BY <2>1, <2>2, <2>3 DEF Ranged, SameSweep, sweepVars
<1>3. \A k \in Slot : Busy(k)' =>
        held'[k].window \in Window /\ windows[held'[k].window].status # "absent"
  BY DEF Shape, Exist, Busy, NoCopy
<1>4. \A k \in Slot : held'[k].stage = "splitting" =>
        Splittable(windows[held'[k].window])
  BY DEF Shape, Exist, NoCopy
<1>5. now' >= now
  BY DEF Shape, TypeOK, githubVars
<1> QED BY <1>1, <1>2, <1>3, <1>4, <1>5, RangedExist DEF Shape

\* No row is written; copies may be dropped or advance.
LEMMA ReadShape ==
  ASSUME Shape, TypeOK', UNCHANGED <<sweepVars, windows, nextWindow>>, now' >= now,
         \A k \in Slot :
           \/ held'[k] \in {held[k], NoCopy}
           \/ /\ Busy(k) /\ held'[k].window = held[k].window
              /\ held'[k].stage = "splitting" => Splittable(windows[held[k].window])
  PROVE  Shape' /\ Ranged
<1>1. Ranged
  BY DEF Ranged, SameRange, SameSweep, sweepVars
<1>2. \A k \in Slot : Busy(k)' =>
        held'[k].window \in Window /\ windows[held'[k].window].status # "absent"
  BY DEF Shape, Exist, Busy, NoCopy
<1>3. \A k \in Slot : held'[k].stage = "splitting" =>
        Splittable(windows[held'[k].window])
  BY DEF Shape, Exist, NoCopy
<1> QED BY <1>1, <1>2, <1>3, RangedExist DEF Shape

----------------------------------------------------------------------------
\* Every action keeps the shape; all but StartSweep and SplitWindow are ranged.

LEMMA TickShape ==
  ASSUME Shape, Tick
  PROVE  Shape' /\ Ranged
<1>1. TypeOK' /\ now' >= now
  BY DEF Shape, TypeOK, Tick, sweepVars
<1> QED BY <1>1, ReadShape DEF Tick

LEMMA PushShape ==
  ASSUME Shape, NEW r \in Repo, Push(r)
  PROVE  Shape' /\ Ranged
<1>1. TypeOK' /\ now' >= now
  BY DEF Shape, TypeOK, Push, sweepVars
<1> QED BY <1>1, ReadShape DEF Push

LEMMA CompleteShape ==
  ASSUME Shape, CompleteSweeps
  PROVE  Shape' /\ Ranged
<1>1. \A s \in Sweep : SameSweep(s) /\ sweeps'[s] \in SweepRow
  BY DEF CompleteSweeps, SameSweep, Shape, TypeOK, SweepRow
<1>2. sweeps' \in [Sweep -> SweepRow]
  BY <1>1 DEF CompleteSweeps
<1>3. TypeOK' /\ now' >= now
  BY <1>1, <1>2 DEF Shape, TypeOK, CompleteSweeps, githubVars, SameSweep
<1>4. Ranged
  BY <1>1 DEF Ranged, SameRange, CompleteSweeps
<1> QED BY <1>3, <1>4, RangedExist DEF Shape, Exist, CompleteSweeps, Busy

LEMMA RetryShape ==
  ASSUME Shape, RetryFailedSweep
  PROVE  Shape' /\ Ranged
<1> DEFINE s == nextSweep - 1
<1>1. s \in Sweep /\ sweeps[s].status = "failed"
      /\ sweeps' = [sweeps EXCEPT ![s].status = "running"]
  BY DEF RetryFailedSweep
<1>2. \A t \in Sweep : SameSweep(t) /\ sweeps'[t] \in SweepRow
  BY <1>1 DEF SameSweep, Shape, TypeOK, SweepRow
<1>3. sweeps' \in [Sweep -> SweepRow]
  BY <1>1, <1>2 DEF Shape, TypeOK
<1>4. ASSUME NEW w \in Window
      PROVE  /\ SameRange(w) /\ windows'[w] \in WindowRow
             /\ windows[w] = NoWindow => windows'[w] = NoWindow
  <2>1. windows[w] \in WindowRow
    BY DEF Shape, TypeOK
  <2>2. Unleased(windows[w], "pending") \in WindowRow
    BY <2>1, UnleasedType
  <2>3. CASE w \in Of(s) /\ windows[w].status = "failed"
    <3>1. windows'[w] = [Unleased(windows[w], "pending") EXCEPT !.attempts = 0]
      BY <2>3 DEF RetryFailedSweep
    <3>2. windows'[w] \in WindowRow
      BY <3>1, <2>2 DEF WindowRow
    <3>3. SameRange(w)
      BY <3>1, <2>1, <2>3 DEF SameRange, Unleased, WindowRow
    <3> QED BY <3>2, <3>3, <2>3 DEF NoWindow
  <2>4. CASE ~(w \in Of(s) /\ windows[w].status = "failed")
    <3>1. windows'[w] = windows[w]
      BY <2>4 DEF RetryFailedSweep
    <3> QED BY <3>1, <2>1 DEF SameRange
  <2> QED BY <2>3, <2>4
<1>5. windows' \in [Window -> WindowRow]
  BY <1>4 DEF RetryFailedSweep
<1>6. TypeOK' /\ now' >= now
  BY <1>2, <1>3, <1>4, <1>5 DEF Shape, TypeOK, RetryFailedSweep, githubVars, SameSweep, SameRange
<1>7. Ranged
  BY <1>2, <1>4 DEF Ranged, RetryFailedSweep
<1> QED BY <1>6, <1>7, RangedExist DEF Shape, Exist, RetryFailedSweep, Busy

LEMMA ClaimShape ==
  ASSUME Shape, NEW o \in Owner, NEW k \in Slot, NEW w \in Window, Claim(o, k, w)
  PROVE  Shape' /\ Ranged
<1> DEFINE row == [windows[w] EXCEPT !.status = "running", !.owner = o]
           c == [NoCopy EXCEPT !.stage = "claimed", !.window = w, !.owner = o,
                               !.begun = windows[w].begun, !.seen = windows[w].seen,
                               !.attempts = windows[w].attempts]
<1>1. windows[w] \in WindowRow /\ held \in [Slot -> Copy]
  BY DEF Shape, TypeOK
<1>2. row \in WindowRow /\ windows' = [windows EXCEPT ![w] = row]
  BY <1>1 DEF Claim, WindowRow, Shape, TypeOK
<1>3. c \in Copy
  <2>1. w \in 0..MaxWindows
    BY BoundsAssumption DEF Window
  <2> QED BY <1>1, <2>1, NoCopyType DEF Copy, WindowRow
<1>4. held' = [held EXCEPT ![k] = c]
  BY DEF Claim
<1>5. c.window = w /\ c.stage = "claimed"
  BY DEF NoCopy
<1> HIDE DEF c
<1>6. held' \in [Slot -> Copy] /\ \A j \in Slot : held'[j] = held[j] \/ held'[j] = c
  BY <1>1, <1>3, <1>4
<1>7. /\ row.status = "running" /\ row.sweep = windows[w].sweep
      /\ row.split = windows[w].split /\ row.from = windows[w].from /\ row.to = windows[w].to
  BY <1>1 DEF WindowRow
<1> HIDE DEF row
<1>8. /\ windows[w].status = "pending" /\ stored' \subseteq Repo
      /\ UNCHANGED <<githubVars, sweepVars, nextWindow>>
  BY DEF Claim, Shape, TypeOK
<1>9. \A j \in Slot : \/ held'[j] \in {held[j], NoCopy}
                      \/ held'[j].window = w /\ held'[j].stage = "claimed"
  BY <1>5, <1>6
<1>10. windows[w].status \notin {"absent", "done"} /\ row.status # "absent"
  BY <1>7, <1>8
<1> QED BY <1>2, <1>6, <1>7, <1>8, <1>9, <1>10, WriteShape

LEMMA ReclaimShape ==
  ASSUME Shape, NEW w \in Window, Reclaim(w)
  PROVE  Shape' /\ Ranged
<1> DEFINE row == Unleased(windows[w], "pending")
<1>1. windows[w] \in WindowRow /\ held \in [Slot -> Copy]
  BY DEF Shape, TypeOK
<1>2. row \in WindowRow /\ windows' = [windows EXCEPT ![w] = row]
  BY <1>1, UnleasedType DEF Reclaim
<1>3. /\ row.status = "pending" /\ row.sweep = windows[w].sweep
      /\ row.split = windows[w].split /\ row.from = windows[w].from /\ row.to = windows[w].to
  BY <1>1 DEF WindowRow, Unleased
<1> HIDE DEF row
<1>4. /\ windows[w].status = "running" /\ stored' \subseteq Repo /\ held' = held
      /\ UNCHANGED <<githubVars, sweepVars, nextWindow>>
  BY DEF Reclaim, Shape, TypeOK
<1>5. windows[w].status \notin {"absent", "done"} /\ row.status # "absent"
  BY <1>3, <1>4
<1>6. \A j \in Slot : held'[j] \in {held[j], NoCopy}
  BY <1>4
<1> QED BY <1>1, <1>2, <1>3, <1>4, <1>5, <1>6, WriteShape

\* A worker writes its window, keeping its place, and is done with its copy.
LEMMA FinishShape ==
  ASSUME Shape, NEW k \in Slot, Busy(k), NEW row \in WindowRow,
         Fenced(held[k]),
         windows' = [windows EXCEPT ![held[k].window] = row],
         row.status # "absent", row.sweep = windows[held[k].window].sweep,
         row.split = windows[held[k].window].split,
         row.from = windows[held[k].window].from, row.to = windows[held[k].window].to,
         held' = [held EXCEPT ![k] = NoCopy],
         stored' \subseteq Repo,
         UNCHANGED <<githubVars, sweepVars, nextWindow>>
  PROVE  Shape' /\ Ranged
<1>1. held' \in [Slot -> Copy] /\ \A j \in Slot : held'[j] \in {held[j], NoCopy}
  BY NoCopyType DEF Shape, TypeOK
<1>2. held[k].window \in Window
  BY BusyType
<1>3. windows[held[k].window].status \notin {"absent", "done"}
  BY DEF Fenced
<1> QED BY <1>1, <1>2, <1>3, WriteShape

LEMMA ReleaseShape ==
  ASSUME Shape, NEW k \in Slot, ReleaseWindow(k)
  PROVE  Shape' /\ Ranged
<1>1. Busy(k)
  BY DEF ReleaseWindow, Busy
<1> DEFINE row == Unleased(windows[held[k].window], "pending")
<1>2. row \in WindowRow /\ windows' = [windows EXCEPT ![held[k].window] = row]
  BY <1>1, BusyType, UnleasedType DEF ReleaseWindow
<1>3. /\ row.status = "pending" /\ row.sweep = windows[held[k].window].sweep
      /\ row.split = windows[held[k].window].split
      /\ row.from = windows[held[k].window].from /\ row.to = windows[held[k].window].to
  BY <1>1, BusyType DEF WindowRow, Unleased
<1> HIDE DEF row
<1> QED BY <1>1, <1>2, <1>3, FinishShape DEF ReleaseWindow, Shape, TypeOK

LEMMA FailShape ==
  ASSUME Shape, NEW k \in Slot, FailWindow(k)
  PROVE  Shape' /\ Ranged
<1>1. Busy(k)
  BY DEF FailWindow, Busy
<1> DEFINE attempt == held[k].attempts + 1
           status == IF attempt >= MaxAttempts THEN "failed" ELSE "pending"
           old == Unleased(windows[held[k].window], status)
           row == [old EXCEPT !.attempts = attempt]
<1>2. windows' = [windows EXCEPT ![held[k].window] = row]
  BY <1>1, BusyType DEF FailWindow, Shape, TypeOK
<1>3. attempt \in Nat /\ status \in {"failed", "pending"}
  BY <1>1, BusyType DEF Copy
<1> HIDE DEF attempt, status
<1>4. old \in WindowRow
  BY <1>1, <1>3, BusyType, UnleasedType
<1>5. row \in WindowRow
  BY <1>3, <1>4 DEF WindowRow
<1>6. /\ row.status = status /\ row.sweep = windows[held[k].window].sweep
      /\ row.split = windows[held[k].window].split
      /\ row.from = windows[held[k].window].from /\ row.to = windows[held[k].window].to
  BY <1>1, BusyType DEF WindowRow, Unleased
<1> HIDE DEF row
<1> QED BY <1>1, <1>2, <1>3, <1>5, <1>6, FinishShape DEF FailWindow, Shape, TypeOK

LEMMA AbandonShape ==
  ASSUME Shape, NEW k \in Slot, Abandon(k)
  PROVE  Shape' /\ Ranged
<1>1. TypeOK' /\ now' >= now
  BY NoCopyType DEF Shape, TypeOK, Abandon, githubVars, sweepVars
<1>2. \A j \in Slot : held'[j] \in {held[j], NoCopy}
  BY DEF Abandon, Shape, TypeOK
<1> QED BY <1>1, <1>2, ReadShape DEF Abandon

LEMMA SearchDenseShape ==
  ASSUME Shape, NEW k \in Slot, SearchDense(k)
  PROVE  Shape' /\ Ranged
<1>1. Busy(k)
  BY DEF SearchDense, Busy
<1>2. held'[k] = [held[k] EXCEPT !.stage = "splitting"]
      /\ \A j \in Slot : j # k => held'[j] = held[j]
  BY DEF SearchDense, Shape, TypeOK
<1>3. held'[k] \in Copy /\ held'[k].window = held[k].window
  BY <1>1, <1>2, BusyType DEF Copy
<1>4. held' \in [Slot -> Copy]
  BY <1>3 DEF SearchDense, Shape, TypeOK
<1>5. TypeOK' /\ now' >= now
  BY <1>4 DEF Shape, TypeOK, SearchDense, githubVars, sweepVars
<1> QED BY <1>1, <1>2, <1>3, <1>5, ReadShape DEF SearchDense

LEMMA SearchShape ==
  ASSUME Shape, NEW k \in Slot, Search(k)
  PROVE  Shape' /\ Ranged
<1>1. Busy(k)
  BY DEF Search, Busy
<1> DEFINE c == held[k]
           row == windows[c.window]
           rest == Matches(row) \ c.seen
<1>2. PICK found \in SUBSET rest, more \in BOOLEAN, dense \in BOOLEAN :
        held' = [held EXCEPT
          ![k].stage = "searched", ![k].found = found,
          ![k].pushedAt = [r \in Repo |-> IF r \in found THEN pushed[r] ELSE 0],
          ![k].more = more, ![k].truncated = dense]
  BY DEF Search
<1>3. found \in SUBSET Repo
  BY DEF Matches
<1>4. [r \in Repo |-> IF r \in found THEN pushed[r] ELSE 0] \in [Repo -> Int]
  BY DEF Shape, TypeOK
<1>5. held'[k] \in Copy /\ held'[k].window = c.window /\ held'[k].stage = "searched"
  <2> DEFINE at == [r \in Repo |-> IF r \in found THEN pushed[r] ELSE 0]
  <2>1. held' = [held EXCEPT
          ![k].stage = "searched", ![k].found = found, ![k].pushedAt = at,
          ![k].more = more, ![k].truncated = dense]
    BY <1>2
  <2>2. at \in [Repo -> Int]
    BY <1>4
  <2> HIDE DEF at
  <2>3. held'[k] = [c EXCEPT !.stage = "searched", !.found = found, !.pushedAt = at,
                             !.more = more, !.truncated = dense]
    BY <2>1 DEF Shape, TypeOK
  <2> QED BY <1>1, <1>3, <2>2, <2>3, BusyType DEF Copy
<1>6. \A j \in Slot : j # k => held'[j] = held[j]
  BY <1>2 DEF Shape, TypeOK
<1>7. held' \in [Slot -> Copy]
  BY <1>2, <1>5, <1>6 DEF Shape, TypeOK
<1>8. UNCHANGED <<githubVars, stored, sweepVars, windows, nextWindow>>
  BY DEF Search
<1>9. TypeOK' /\ now' >= now
  BY <1>7, <1>8 DEF Shape, TypeOK, githubVars, sweepVars
<1> QED BY <1>1, <1>5, <1>6, <1>8, <1>9, ReadShape

\* What committing a page does to the window.
LEMMA CommitEffect ==
  ASSUME Shape, NEW k \in Slot, CommitPage(k)
  PROVE  /\ Busy(k)
         /\ windows' = [windows EXCEPT ![held[k].window] = Committed(held[k])]
         /\ Committed(held[k]) \in WindowRow
         /\ Committed(held[k]).status = (IF held[k].more THEN "pending" ELSE "done")
         /\ Committed(held[k]).sweep = windows[held[k].window].sweep
         /\ Committed(held[k]).split = windows[held[k].window].split
         /\ Committed(held[k]).from = windows[held[k].window].from
         /\ Committed(held[k]).to = windows[held[k].window].to
         /\ Committed(held[k]).truncated = (windows[held[k].window].truncated \/ held[k].truncated)
         /\ Committed(held[k]).seen = (IF held[k].more THEN held[k].seen \cup held[k].found
                                    ELSE windows[held[k].window].seen)
<1> DEFINE c == held[k]
           row == windows[c.window]
           status == IF c.more THEN "pending" ELSE "done"
           old == Unleased(row, status)
<1>1. Busy(k)
  BY DEF CommitPage, Busy
<1>2. c \in Copy /\ c.window \in Window /\ row \in WindowRow
  BY <1>1, BusyType
<1>3. old \in WindowRow /\ old.truncated = row.truncated /\ old.begun = row.begun
      /\ old.seen = row.seen /\ old.status = status /\ old.sweep = row.sweep
      /\ old.split = row.split /\ old.from = row.from /\ old.to = row.to
  BY <1>2, UnleasedType DEF Unleased, WindowRow
<1>4. windows' = [windows EXCEPT ![c.window] = Committed(held[k])]
  BY DEF CommitPage
<1>5. Committed(held[k]) = [old EXCEPT
         !.attempts = 0, !.truncated = row.truncated \/ c.truncated,
         !.begun = row.begun \/ c.more,
         !.seen = IF c.more THEN c.seen \cup c.found ELSE row.seen]
  BY DEF Committed
<1> HIDE DEF old, status
<1>6. Committed(held[k]) \in WindowRow
  <2> DEFINE seen == IF c.more THEN c.seen \cup c.found ELSE row.seen
             truncated == row.truncated \/ c.truncated
             begun == row.begun \/ c.more
  <2>1. seen \in SUBSET Repo
    BY <1>2 DEF WindowRow, Copy
  <2>2. truncated \in BOOLEAN /\ begun \in BOOLEAN
    BY Zenon
  <2> HIDE DEF seen, truncated, begun
  <2>3. [old EXCEPT !.attempts = 0, !.truncated = truncated, !.begun = begun, !.seen = seen]
          \in WindowRow
    BY <1>3, <2>1, <2>2 DEF WindowRow
  <2> QED BY <1>5, <2>3 DEF seen, truncated, begun
<1>7. /\ Committed(held[k]).status = old.status /\ Committed(held[k]).sweep = old.sweep
      /\ Committed(held[k]).split = old.split /\ Committed(held[k]).from = old.from
      /\ Committed(held[k]).to = old.to
      /\ Committed(held[k]).truncated = (row.truncated \/ c.truncated)
      /\ Committed(held[k]).seen = (IF c.more THEN c.seen \cup c.found ELSE row.seen)
  BY <1>3, <1>5 DEF WindowRow
<1> QED BY <1>1, <1>3, <1>4, <1>6, <1>7 DEF status

LEMMA CommitShape ==
  ASSUME Shape, NEW k \in Slot, CommitPage(k)
  PROVE  Shape' /\ Ranged
<1>1. stored' \subseteq Repo
  <2>1. held[k].found \in SUBSET Repo
    BY CommitEffect, BusyType DEF Copy
  <2> QED BY <2>1 DEF CommitPage, Stored, Shape, TypeOK
<1> QED BY <1>1, CommitEffect, FinishShape DEF CommitPage

----------------------------------------------------------------------------
\* Starting a sweep.

\* A step that starts a sweep at "from".
StartsFrom(from) ==
  /\ from \in Int /\ from < now /\ nextSweep \in Sweep
  /\ nextWindow + Count(from, now) - 1 <= MaxWindows
  /\ sweeps' = [sweeps EXCEPT ![nextSweep] =
                  [status |-> "running", from |-> from, to |-> now]]
  /\ windows' = [w \in Window |->
       IF w >= nextWindow /\ w < nextWindow + Count(from, now)
       THEN Nth(nextSweep, from, now, w - nextWindow) ELSE windows[w]]
  /\ nextWindow' = nextWindow + Count(from, now)
  /\ nextSweep' = nextSweep + 1
  /\ UNCHANGED <<githubVars, stored, held>>

LEMMA StartEffect ==
  ASSUME Shape, NEW kind, StartSweep(kind)
  PROVE  \E from : /\ StartsFrom(from)
                   /\ from = Oldest \/ \E s \in Done : from = sweeps[s].to
                   /\ \A s \in Sweep : sweeps[s].status # "running"
<1>1. PICK from \in StartsAt(kind) :
        /\ from < now
        /\ nextWindow + Count(from, now) - 1 <= MaxWindows
        /\ sweeps' = [sweeps EXCEPT ![nextSweep] =
                        [status |-> "running", from |-> from, to |-> now]]
        /\ windows' = [w \in Window |->
             IF w >= nextWindow /\ w < nextWindow + Count(from, now)
             THEN Nth(nextSweep, from, now, w - nextWindow) ELSE windows[w]]
        /\ nextWindow' = nextWindow + Count(from, now)
  BY DEF StartSweep
<1>2. from = Oldest \/ \E s \in Done : from = sweeps[s].to
  BY DEF StartsAt
<1>3. from \in Int
  BY <1>2, SettingsAssumption DEF Oldest, Done, Shape, TypeOK, SweepRow
<1>4. /\ nextSweep \in Sweep /\ nextSweep' = nextSweep + 1
      /\ UNCHANGED <<githubVars, stored, held>>
      /\ \A s \in Sweep : sweeps[s].status # "running"
  BY DEF StartSweep
<1>5. StartsFrom(from)
  BY <1>1, <1>3, <1>4 DEF StartsFrom
<1> QED BY <1>2, <1>4, <1>5

LEMMA CountPositive ==
  ASSUME NEW from \in Int, NEW to \in Int, from < to
  PROVE  Count(from, to) \in Nat \ {0}
<1>1. to - from - 1 \in Nat
  OBVIOUS
<1> QED BY <1>1, DivBounds, SettingsAssumption DEF Count

\* The rows after a start: old ones, and the new sweep's.
LEMMA StartRows ==
  ASSUME Shape, NEW from, StartsFrom(from), NEW w \in Window
  PROVE  \/ /\ windows'[w] = windows[w]
            /\ w < nextWindow \/ (w >= nextWindow' /\ windows[w] = NoWindow)
         \/ /\ w >= nextWindow /\ w < nextWindow' /\ windows[w] = NoWindow
            /\ w - nextWindow \in Nat /\ w - nextWindow < Count(from, now)
            /\ Placed(windows'[w], nextSweep, from, now, w - nextWindow)
<1>1. now \in Int /\ nextWindow \in Nat /\ w \in Nat
  BY BoundsAssumption DEF Shape, TypeOK, Window
<1>2. from \in Int /\ from < now /\ nextSweep \in Sweep /\ Count(from, now) \in Nat
      /\ nextWindow' = nextWindow + Count(from, now)
  BY <1>1, CountPositive DEF StartsFrom
<1>3. CASE w >= nextWindow /\ w < nextWindow + Count(from, now)
  <2>1. windows'[w] = Nth(nextSweep, from, now, w - nextWindow)
    BY <1>3 DEF StartsFrom
  <2>2. windows[w] = NoWindow
    BY <1>3 DEF Shape, Exist
  <2>3. w - nextWindow \in Nat /\ w - nextWindow < Count(from, now)
    BY <1>1, <1>2, <1>3
  <2>4. w >= nextWindow /\ w < nextWindow'
    BY <1>2, <1>3
  <2>5. Placed(windows'[w], nextSweep, from, now, w - nextWindow)
    BY <1>1, <1>2, <2>1, <2>3, NthInside
  <2> QED BY <2>2, <2>3, <2>4, <2>5
<1>4. CASE ~(w >= nextWindow /\ w < nextWindow + Count(from, now))
  <2>1. windows'[w] = windows[w]
    BY <1>4 DEF StartsFrom
  <2>2. w < nextWindow \/ w >= nextWindow'
    BY <1>1, <1>2, <1>4
  <2>3. w >= nextWindow' => windows[w] = NoWindow
    BY <1>1, <1>2 DEF Shape, Exist
  <2> QED BY <2>1, <2>2, <2>3
<1> QED BY <1>3, <1>4

LEMMA StartShape ==
  ASSUME Shape, NEW from, StartsFrom(from)
  PROVE  Shape'
<1>1. /\ now \in Nat /\ nextWindow \in Nat \ {0} /\ from \in Int /\ from < now
      /\ nextSweep \in Sweep /\ nextSweep \in Nat \ {0}
      /\ Count(from, now) \in Nat /\ nextWindow' = nextWindow + Count(from, now)
      /\ nextSweep' = nextSweep + 1 /\ now' = now
  BY CountPositive DEF StartsFrom, Shape, TypeOK, githubVars
<1>2. \A s \in Sweep : sweeps'[s] =
        IF s = nextSweep THEN [status |-> "running", from |-> from, to |-> now] ELSE sweeps[s]
  BY DEF StartsFrom, Shape, TypeOK
<1>3. sweeps' \in [Sweep -> SweepRow]
  <2>1. [status |-> "running", from |-> from, to |-> now] \in SweepRow
    BY <1>1 DEF SweepRow
  <2> QED BY <2>1 DEF StartsFrom, Shape, TypeOK
<1>4. \A w \in Window : windows'[w] \in WindowRow
  BY StartRows DEF Shape, TypeOK, Placed
<1>5. windows' \in [Window -> WindowRow]
  BY <1>4 DEF StartsFrom
<1>6. \A s \in Sweep : sweeps'[s].status # "absent" => sweeps'[s].from < sweeps'[s].to
  BY <1>1, <1>2 DEF Shape, TypeOK
<1>7. \A w \in Window : windows'[w].status # "absent" => windows'[w].from < windows'[w].to
  BY StartRows DEF Shape, TypeOK, Placed
<1>8. TypeOK'
  BY <1>1, <1>3, <1>5, <1>6, <1>7 DEF Shape, TypeOK, StartsFrom, githubVars
<1>9. \A w \in Window : w >= nextWindow' => windows'[w] = NoWindow
  <2> SUFFICES ASSUME NEW w \in Window, w >= nextWindow'
               PROVE  windows'[w] = NoWindow
    OBVIOUS
  <2>1. w \in Nat /\ ~(w < nextWindow) /\ ~(w < nextWindow')
    BY <1>1, BoundsAssumption DEF Window
  <2> QED BY <2>1, StartRows
<1>10. ASSUME NEW w \in Window, windows'[w].status # "absent"
       PROVE  windows'[w].sweep \in Sweep /\ sweeps'[windows'[w].sweep].status # "absent"
  <2>1. CASE windows'[w] = windows[w]
    BY <1>2, <1>10, <2>1 DEF Shape, Exist
  <2>2. CASE Placed(windows'[w], nextSweep, from, now, w - nextWindow)
    <3>1. windows'[w].sweep = nextSweep
      BY <2>2 DEF NoWindow, Placed
    <3> QED BY <1>1, <1>2, <3>1
  <2> QED BY <2>1, <2>2, StartRows
<1>11. \A s \in Sweep : s >= nextSweep' => sweeps'[s].status = "absent"
  BY <1>1, <1>2, BoundsAssumption DEF Sweep, Shape, Exist
<1>12. \A s \in Sweep : sweeps'[s].status # "absent" => sweeps'[s].to <= now'
  BY <1>1, <1>2 DEF Shape, Exist
<1>13. ASSUME NEW w \in Window, windows[w].status # "absent"
       PROVE  windows'[w] = windows[w]
  <2>1. windows[w] # NoWindow
    BY <1>13 DEF NoWindow
  <2> QED BY <2>1, StartRows
<1>14. \A k \in Slot : Busy(k)' =>
         held'[k].window \in Window /\ windows'[held'[k].window].status # "absent"
  BY <1>13 DEF StartsFrom, Shape, Exist, Busy
<1>15. \A k \in Slot : held'[k].stage = "splitting" => Splittable(windows'[held'[k].window])
  BY <1>13 DEF StartsFrom, Shape, Exist, Busy
<1>16. \A w \in Window : windows'[w].split => windows'[w].status = "done"
  <2> SUFFICES ASSUME NEW w \in Window, windows'[w].split
               PROVE  windows'[w].status = "done"
    OBVIOUS
  <2>1. CASE windows'[w] = windows[w]
    BY <2>1 DEF Shape, Exist
  <2>2. CASE Placed(windows'[w], nextSweep, from, now, w - nextWindow)
    <3>1. windows'[w].split = FALSE
      BY <2>2 DEF NoWindow, Placed
    <3> QED BY <3>1
  <2> QED BY <2>1, <2>2, StartRows
<1> QED BY <1>8, <1>9, <1>10, <1>11, <1>12, <1>14, <1>15, <1>16 DEF Shape, Exist

----------------------------------------------------------------------------
\* Halving a window.

LEMMA SplitEffect ==
  ASSUME Shape, NEW k \in Slot, SplitWindow(k)
  PROVE  LET v == held[k].window
             row == windows[v]
             m == Middle(row)
         IN  /\ v \in Window /\ row \in WindowRow /\ row.status = "running" /\ ~row.split
             /\ v < nextWindow /\ nextWindow \in Window /\ nextWindow + 1 \in Window
             /\ m \in Int /\ row.from < m /\ m < row.to
             /\ windows[nextWindow] = NoWindow /\ windows[nextWindow + 1] = NoWindow
             /\ windows'[v] = [Unleased(row, "done") EXCEPT !.split = TRUE]
             /\ windows'[nextWindow] = Fresh(row.sweep, row.from, m)
             /\ windows'[nextWindow + 1] = Fresh(row.sweep, m, row.to)
             /\ \A w \in Window : w \notin {v, nextWindow, nextWindow + 1} =>
                  windows'[w] = windows[w]
             /\ row.sweep \in Sweep /\ sweeps[row.sweep].status # "absent"
<1> DEFINE v == held[k].window
           row == windows[v]
           m == Middle(row)
<1>1. Busy(k) /\ held[k].stage = "splitting" /\ Fenced(held[k]) /\ nextWindow + 1 \in Window
  BY DEF SplitWindow, Busy
<1>2. v \in Window /\ row \in WindowRow
  BY <1>1, BusyType
<1>3. row.status = "running" /\ ~row.split
  BY <1>1, <1>2 DEF Fenced, Shape, Exist
<1>4. nextWindow \in Nat \ {0} /\ nextWindow \in Window
  BY <1>1, BoundsAssumption DEF Shape, TypeOK, Window
<1>5. windows[nextWindow] = NoWindow /\ windows[nextWindow + 1] = NoWindow
  BY <1>1, <1>4 DEF Shape, Exist
<1>6. ~(v >= nextWindow)
  <2>1. v >= nextWindow => row = NoWindow
    BY <1>2 DEF Shape, Exist
  <2> QED BY <2>1, <1>3 DEF NoWindow
<1>7. v < nextWindow
  BY <1>2, <1>4, <1>6, BoundsAssumption DEF Window
<1>8. m \in Int /\ row.from < m /\ m < row.to
  BY <1>1, <1>2, MiddleInside DEF Shape, Exist
<1>9. windows' = [windows EXCEPT
        ![v] = [Unleased(row, "done") EXCEPT !.split = TRUE],
        ![nextWindow] = Fresh(row.sweep, row.from, m),
        ![nextWindow + 1] = Fresh(row.sweep, m, row.to)]
  BY DEF SplitWindow, Halves
<1>10. windows \in [Window -> WindowRow]
  BY DEF Shape, TypeOK
<1>11. row.sweep \in Sweep /\ sweeps[row.sweep].status # "absent"
  BY <1>2, <1>3 DEF Shape, Exist
<1>12. /\ windows'[v] = [Unleased(row, "done") EXCEPT !.split = TRUE]
       /\ windows'[nextWindow] = Fresh(row.sweep, row.from, m)
       /\ windows'[nextWindow + 1] = Fresh(row.sweep, m, row.to)
       /\ \A w \in Window : w \notin {v, nextWindow, nextWindow + 1} =>
            windows'[w] = windows[w]
  <2> HIDE DEF m
  <2>1. v # nextWindow /\ v # nextWindow + 1 /\ nextWindow # nextWindow + 1
    BY <1>2, <1>4, <1>7, BoundsAssumption DEF Window
  <2> DEFINE a == [Unleased(row, "done") EXCEPT !.split = TRUE]
             b == Fresh(row.sweep, row.from, m)
             d == Fresh(row.sweep, m, row.to)
  <2>2. windows' = [windows EXCEPT ![v] = a, ![nextWindow] = b, ![nextWindow + 1] = d]
    BY <1>9
  <2> HIDE DEF a, b, d
  <2>3. /\ windows'[v] = a /\ windows'[nextWindow] = b /\ windows'[nextWindow + 1] = d
        /\ \A w \in Window : w \notin {v, nextWindow, nextWindow + 1} =>
             windows'[w] = windows[w]
    BY <1>1, <1>2, <1>4, <1>10, <2>1, <2>2
  <2> QED BY <2>3 DEF a, b, d
<1> QED BY <1>1, <1>2, <1>3, <1>4, <1>5, <1>7, <1>8, <1>11, <1>12

\* Row "new" is a half, from "from" to "to", in sweep s.
HalfOf(new, s, from, to) ==
  /\ new \in WindowRow /\ new.status = "pending" /\ new.sweep = s
  /\ new.from = from /\ new.to = to
  /\ new.split = FALSE /\ new.truncated = FALSE /\ new.seen = {}

\* Row "new" is "row" once it was halved.
Halved(new, row) ==
  /\ new \in WindowRow /\ new.split /\ new.status = "done" /\ new.sweep = row.sweep
  /\ new.from = row.from /\ new.to = row.to
  /\ new.seen = row.seen /\ new.truncated = row.truncated

LEMMA FreshIsHalf ==
  ASSUME NEW s \in Sweep, NEW from \in Int, NEW to \in Int
  PROVE  HalfOf(Fresh(s, from, to), s, from, to)
<1>1. Fresh(s, from, to) \in WindowRow
  BY FreshType
<1> QED BY <1>1 DEF HalfOf, Fresh, NoWindow

LEMMA DoneIsHalved ==
  ASSUME NEW row \in WindowRow
  PROVE  Halved([Unleased(row, "done") EXCEPT !.split = TRUE], row)
<1>1. Unleased(row, "done") \in WindowRow
  BY UnleasedType
<1>2. [Unleased(row, "done") EXCEPT !.split = TRUE] \in WindowRow
  BY <1>1 DEF WindowRow
<1>3. [Unleased(row, "done") EXCEPT !.split = TRUE].split
  BY <1>1 DEF WindowRow
<1> QED BY <1>2, <1>3 DEF Halved, Unleased, WindowRow

\* A step that halves v at m.
HalvesAt(v, m) ==
  /\ v \in Window /\ windows[v] \in WindowRow
  /\ windows[v].status = "running" /\ ~windows[v].split
  /\ windows[v].sweep \in Sweep /\ sweeps[windows[v].sweep].status # "absent"
  /\ v < nextWindow /\ nextWindow \in Window /\ nextWindow + 1 \in Window
  /\ m \in Int /\ windows[v].from < m /\ m < windows[v].to
  /\ windows[nextWindow] = NoWindow /\ windows[nextWindow + 1] = NoWindow
  /\ Halved(windows'[v], windows[v])
  /\ HalfOf(windows'[nextWindow], windows[v].sweep, windows[v].from, m)
  /\ HalfOf(windows'[nextWindow + 1], windows[v].sweep, m, windows[v].to)
  /\ \A w \in Window : w \notin {v, nextWindow, nextWindow + 1} => windows'[w] = windows[w]
  /\ DOMAIN windows' = Window

LEMMA SplitHalves ==
  ASSUME Shape, NEW k \in Slot, SplitWindow(k)
  PROVE  HalvesAt(held[k].window, Middle(windows[held[k].window]))
<1> DEFINE v == held[k].window
           row == windows[v]
           m == Middle(row)
<1>1. /\ v \in Window /\ row \in WindowRow /\ row.status = "running" /\ ~row.split
      /\ v < nextWindow /\ nextWindow \in Window /\ nextWindow + 1 \in Window
      /\ m \in Int /\ row.from < m /\ m < row.to
      /\ windows[nextWindow] = NoWindow /\ windows[nextWindow + 1] = NoWindow
      /\ windows'[v] = [Unleased(row, "done") EXCEPT !.split = TRUE]
      /\ windows'[nextWindow] = Fresh(row.sweep, row.from, m)
      /\ windows'[nextWindow + 1] = Fresh(row.sweep, m, row.to)
      /\ \A w \in Window : w \notin {v, nextWindow, nextWindow + 1} =>
           windows'[w] = windows[w]
      /\ row.sweep \in Sweep /\ sweeps[row.sweep].status # "absent"
  BY SplitEffect
<1> HIDE DEF m
<1>2. row.from \in Int /\ row.to \in Int
  BY <1>1 DEF WindowRow
<1>3. HalfOf(windows'[nextWindow], row.sweep, row.from, m)
  BY <1>1, <1>2, FreshIsHalf
<1>4. HalfOf(windows'[nextWindow + 1], row.sweep, m, row.to)
  BY <1>1, <1>2, FreshIsHalf
<1>5. DOMAIN windows' = Window
  BY DEF SplitWindow, Shape, TypeOK
<1>6. Halved(windows'[v], row)
  BY <1>1, DoneIsHalved
<1>7. HalvesAt(v, m)
  BY <1>1, <1>3, <1>4, <1>5, <1>6 DEF HalvesAt
<1> QED BY <1>7 DEF m

LEMMA SplitShape ==
  ASSUME Shape, NEW k \in Slot, SplitWindow(k)
  PROVE  Shape'
<1> DEFINE v == held[k].window
           m == Middle(windows[v])
<1>1. HalvesAt(v, m)
  BY SplitHalves
<1> HIDE DEF v, m
<1>2. /\ nextWindow' = nextWindow + 2 /\ UNCHANGED <<githubVars, stored, sweepVars>>
      /\ held' = [held EXCEPT ![k] = NoCopy]
  BY DEF SplitWindow
<1>3. \A w \in Window : windows'[w] \in WindowRow
  BY <1>1 DEF HalvesAt, Halved, HalfOf, Shape, TypeOK
<1>4. windows' \in [Window -> WindowRow]
  <2>1. windows' = [w \in DOMAIN windows' |-> windows'[w]]
    BY DEF SplitWindow, Shape, TypeOK
  <2> QED BY <1>1, <1>3, <2>1 DEF HalvesAt
<1>5. \A w \in Window : windows'[w].status # "absent" => windows'[w].from < windows'[w].to
  BY <1>1 DEF HalvesAt, Halved, HalfOf, Shape, TypeOK
<1>6. TypeOK'
  BY <1>2, <1>4, <1>5, NoCopyType DEF Shape, TypeOK, githubVars, sweepVars
<1>7. \A w \in Window : w >= nextWindow' => windows'[w] = NoWindow
  <2> SUFFICES ASSUME NEW w \in Window, w >= nextWindow'
               PROVE  windows'[w] = NoWindow
    OBVIOUS
  <2>1. w \in Nat /\ v \in Nat /\ nextWindow \in Nat
    BY <1>1, BoundsAssumption DEF Window, HalvesAt
  <2>2. w \notin {v, nextWindow, nextWindow + 1} /\ w >= nextWindow
    BY <1>1, <1>2, <2>1 DEF HalvesAt
  <2> QED BY <1>1, <2>2 DEF HalvesAt, Shape, Exist
<1>8. \A w \in Window : windows'[w].status # "absent" =>
        windows'[w].sweep \in Sweep /\ sweeps'[windows'[w].sweep].status # "absent"
  BY <1>1, <1>2 DEF HalvesAt, Halved, HalfOf, Shape, Exist, sweepVars
<1>9. \A w \in Window : windows[w].status # "absent" =>
        windows'[w].status # "absent" /\ windows'[w].from = windows[w].from
        /\ windows'[w].to = windows[w].to
  BY <1>1 DEF HalvesAt, Halved, NoWindow
<1>10. \A j \in Slot : Busy(j)' =>
         held'[j].window \in Window /\ windows'[held'[j].window].status # "absent"
  BY <1>2, <1>9 DEF Shape, TypeOK, Exist, Busy, NoCopy
<1>11. ASSUME NEW j \in Slot, held'[j].stage = "splitting"
       PROVE  Splittable(windows'[held'[j].window])
  <2>1. held'[j] = held[j]
    BY <1>2, <1>11 DEF NoCopy, Shape, TypeOK
  <2>2. Splittable(windows[held[j].window]) /\ Busy(j)
    BY <1>11, <2>1 DEF Shape, Exist, Busy
  <2>3. held[j].window \in Window /\ windows[held[j].window].status # "absent"
    BY <2>2 DEF Shape, Exist
  <2> QED BY <1>9, <2>1, <2>2, <2>3 DEF Splittable, Middle
<1>12. \A w \in Window : windows'[w].split => windows'[w].status = "done"
  BY <1>1 DEF HalvesAt, Halved, HalfOf, Shape, Exist
<1>13. /\ \A s \in Sweep : s >= nextSweep' => sweeps'[s].status = "absent"
       /\ \A s \in Sweep : sweeps'[s].status # "absent" => sweeps'[s].to <= now'
  BY <1>2 DEF Shape, Exist, githubVars, sweepVars
<1> QED BY <1>6, <1>7, <1>8, <1>10, <1>11, <1>12, <1>13 DEF Shape, Exist

----------------------------------------------------------------------------
\* Every step.

LEMMA InitShape == Init => Shape
<1> SUFFICES ASSUME Init PROVE Shape
  OBVIOUS
<1>1. NoSweep \in SweepRow /\ NoSweep.status = "absent"
  BY DEF NoSweep, SweepRow
<1>2. NoWindow.status = "absent" /\ NoWindow.split = FALSE /\ NoCopy.stage = "none"
  BY DEF NoWindow, NoCopy
<1>3. TypeOK
  BY <1>1, <1>2, NoWindowType, NoCopyType, SettingsAssumption DEF Init, TypeOK
<1>4. Exist
  BY <1>1, <1>2 DEF Init, Exist, Busy
<1> QED BY <1>3, <1>4 DEF Shape

\* A step halves a window, and no sweep changes.
Halving ==
  /\ \E v \in Window, m \in Int : HalvesAt(v, m)
  /\ nextWindow' = nextWindow + 2 /\ UNCHANGED <<githubVars, sweepVars>>

\* A step starts a sweep where the schedule or the admin lets it.
Starting ==
  \E from \in Int : /\ StartsFrom(from)
                    /\ from = Oldest \/ \E s \in Done : from = sweeps[s].to

LEMMA StepShape ==
  ASSUME Shape, [Next]_vars
  PROVE  Shape' /\ (Ranged \/ Starting \/ Halving)
<1>1. CASE Tick
  BY <1>1, TickShape
<1>2. ASSUME NEW r \in Repo, Push(r) PROVE Shape' /\ Ranged
  BY <1>2, PushShape
<1>3. ASSUME NEW kind \in {"full", "incremental"}, StartSweep(kind) PROVE Shape' /\ Starting
  <2>1. PICK from : /\ StartsFrom(from)
                    /\ from = Oldest \/ \E s \in Done : from = sweeps[s].to
    BY <1>3, StartEffect
  <2>2. from \in Int
    BY <2>1 DEF StartsFrom
  <2> QED BY <2>1, <2>2, StartShape DEF Starting
<1>4. CASE CompleteSweeps
  BY <1>4, CompleteShape
<1>5. CASE RetryFailedSweep
  BY <1>5, RetryShape
<1>6. ASSUME NEW o \in Owner, NEW k \in Slot, NEW w \in Window, Claim(o, k, w)
      PROVE  Shape' /\ Ranged
  BY <1>6, ClaimShape
<1>7. ASSUME NEW w \in Window, Reclaim(w) PROVE Shape' /\ Ranged
  BY <1>7, ReclaimShape
<1>8. ASSUME NEW k \in Slot,
             \/ ReleaseWindow(k) \/ FailWindow(k) \/ Abandon(k)
             \/ Search(k) \/ SearchDense(k) \/ CommitPage(k)
      PROVE  Shape' /\ Ranged
  BY <1>8, ReleaseShape, FailShape, AbandonShape, SearchShape, SearchDenseShape, CommitShape
<1>9. ASSUME NEW k \in Slot, SplitWindow(k) PROVE Shape' /\ Halving
  <2>1. HalvesAt(held[k].window, Middle(windows[held[k].window]))
    BY <1>9, SplitHalves
  <2>2. held[k].window \in Window /\ Middle(windows[held[k].window]) \in Int
    BY <2>1 DEF HalvesAt
  <2> QED BY <1>9, <2>1, <2>2, SplitShape DEF Halving, SplitWindow
<1>10. CASE UNCHANGED vars
  <2>1. TypeOK' /\ now' >= now
    BY <1>10 DEF vars, githubVars, sweepVars, Shape, TypeOK
  <2> QED BY <1>10, <2>1, ReadShape DEF vars
<1> QED BY <1>1, <1>2, <1>3, <1>4, <1>5, <1>6, <1>7, <1>8, <1>9, <1>10 DEF Next

LEMMA ShapeCorrect == Spec => []Shape
<1>1. Shape /\ [Next]_vars => Shape'
  BY StepShape
<1> QED BY <1>1, InitShape, PTL DEF Spec

\* Type correctness: no sequence of starts, claims, halvings, pages and stale
\* writes leaves a row of discovery_sweeps or discovery_windows with an empty
\* range or a value its column does not hold.
THEOREM TypeCorrect == Spec => []TypeOK
<1>1. Shape => TypeOK
  BY DEF Shape
<1> QED BY <1>1, ShapeCorrect, PTL

----------------------------------------------------------------------------
\* The range of a sweep is neither lost nor doubled.

LEMMA RangedLeaves ==
  ASSUME Shape, Ranged, NEW s \in Sweep
  PROVE  Leaves(s)' = Leaves(s)
  BY DEF Ranged, SameRange, Leaves, Of

LEMMA PlacedRow ==
  ASSUME NEW row, NEW s, NEW from, NEW to, NEW n, Placed(row, s, from, to, n)
  PROVE  /\ row.status = "pending" /\ row.sweep = s /\ row.split = FALSE
         /\ row.truncated = FALSE /\ row.seen = {}
  BY DEF Placed, NoWindow

\* A row after a start is as it was, or a new window of the new sweep.
LEMMA StartedRow ==
  ASSUME Shape, NEW from, StartsFrom(from), NEW w \in Window
  PROVE  \/ windows'[w] = windows[w]
         \/ /\ windows'[w].status = "pending" /\ windows'[w].sweep = nextSweep
            /\ windows'[w].seen = {}
<1>1. CASE windows'[w] = windows[w]
  BY <1>1
<1>2. CASE Placed(windows'[w], nextSweep, from, now, w - nextWindow)
  BY <1>2, PlacedRow
<1> QED BY <1>1, <1>2, StartRows

\* The windows a start inserts cover the new sweep's range.
LEMMA StartCovers ==
  ASSUME Shape, NEW from \in Int, StartsFrom(from), NEW s, s = nextSweep,
         NEW t \in from..(now - 1)
  PROVE  \E w \in Leaves(s)' : windows'[w].from <= t /\ t < windows'[w].to
<1> DEFINE n == (t - from) \div Width
           w == nextWindow + n
<1>1. /\ now \in Nat /\ nextWindow \in Nat \ {0} /\ from < now /\ nextSweep \in Sweep
      /\ Count(from, now) \in Nat /\ nextWindow' = nextWindow + Count(from, now)
      /\ nextWindow + Count(from, now) - 1 <= MaxWindows
      /\ t \in Int /\ from <= t /\ t < now /\ t - from \in Nat /\ now - from - 1 \in Nat
      /\ Width \in Nat \ {0} /\ MaxWindows \in Nat
  BY CountPositive, SettingsAssumption, BoundsAssumption DEF StartsFrom, Shape, TypeOK
<1>2. n \in Nat /\ Width * n <= t - from /\ t - from < Width * n + Width
  BY <1>1, DivBounds
<1> DEFINE q == (now - from - 1) \div Width
<1>3. q \in Nat /\ now - from - 1 < Width * q + Width /\ Count(from, now) = q + 1
  BY <1>1, DivBounds DEF Count
<1> HIDE DEF n, q
<1>4. n <= q
  <2>1. ASSUME q < n PROVE FALSE
    <3>1. q * Width + Width <= n * Width
      BY <1>1, <1>2, <1>3, <2>1, Spread
    <3>2. q * Width = Width * q /\ n * Width = Width * n /\ q * Width \in Int /\ n * Width \in Int
      BY <1>1, <1>2, <1>3
    <3> QED BY <1>1, <1>2, <1>3, <3>1, <3>2
  <2> QED BY <1>2, <1>3, <2>1
<1>5. w \in Window /\ w >= nextWindow /\ w < nextWindow' /\ w - nextWindow = n
  BY <1>1, <1>2, <1>3, <1>4 DEF Window
<1> HIDE DEF w
<1>6. Placed(windows'[w], nextSweep, from, now, n)
  <2>1. ~(w < nextWindow) /\ ~(w >= nextWindow')
    BY <1>1, <1>3, <1>5, BoundsAssumption DEF Window
  <2> QED BY <1>5, <2>1, StartRows
<1>7. w \in Leaves(s)'
  BY <1>5, <1>6, PlacedRow DEF Leaves, Of
<1>8. windows'[w].from = from + n * Width
      /\ (windows'[w].to = now \/ windows'[w].to = windows'[w].from + Width)
  BY <1>6 DEF Placed
<1>9. windows'[w].from <= t /\ t < windows'[w].to
  BY <1>1, <1>2, <1>8
<1> QED BY <1>7, <1>9

\* A start leaves the windows of the other sweeps alone.
LEMMA StartElsewhere ==
  ASSUME Shape, NEW from, StartsFrom(from), NEW s \in Sweep, s # nextSweep
  PROVE  /\ sweeps'[s] = sweeps[s] /\ Leaves(s)' = Leaves(s)
         /\ \A w \in Leaves(s) : windows'[w] = windows[w]
<1>1. sweeps'[s] = sweeps[s]
  BY DEF StartsFrom, Shape, TypeOK
<1>2. ASSUME NEW w \in Window
      PROVE  /\ w \in Leaves(s)' <=> w \in Leaves(s)
             /\ w \in Leaves(s) => windows'[w] = windows[w]
  <2>1. CASE windows'[w] = windows[w]
    BY <2>1 DEF Leaves, Of
  <2>2. CASE windows[w] = NoWindow /\ Placed(windows'[w], nextSweep, from, now, w - nextWindow)
    <3>1. windows'[w].sweep = nextSweep
      BY <2>2, PlacedRow
    <3>2. windows[w].status = "absent"
      BY <2>2 DEF NoWindow
    <3> QED BY <3>1, <3>2 DEF Leaves, Of
  <2> QED BY <2>1, <2>2, StartRows
<1>3. Leaves(s) \subseteq Window /\ Leaves(s)' \subseteq Window
  BY DEF Leaves, Of
<1> QED BY <1>1, <1>2, <1>3

\* A new sweep's windows all come from the start.
LEMMA StartedLeaf ==
  ASSUME Shape, NEW from \in Int, StartsFrom(from), NEW s, s = nextSweep,
         NEW w \in Leaves(s)'
  PROVE  /\ w \in Window /\ w \in Nat /\ w - nextWindow \in Nat
         /\ Placed(windows'[w], nextSweep, from, now, w - nextWindow)
<1>1. w \in Window /\ windows'[w].status # "absent" /\ windows'[w].sweep = nextSweep
  BY DEF Leaves, Of
<1>2. windows'[w] # windows[w]
  <2>1. nextSweep \in Sweep /\ nextSweep \in Nat
    BY DEF StartsFrom, Shape, TypeOK
  <2>2. sweeps[nextSweep].status = "absent"
    BY <2>1 DEF Shape, Exist
  <2> QED BY <1>1, <2>2 DEF Shape, Exist
<1>3. w \in Nat
  BY <1>1, BoundsAssumption DEF Window
<1> QED BY <1>1, <1>2, <1>3, StartRows

LEMMA StartApart ==
  ASSUME Shape, NEW from \in Int, StartsFrom(from),
         NEW s, s = nextSweep, NEW v \in Leaves(s)', NEW w \in Leaves(s)', v # w
  PROVE  windows'[v].to <= windows'[w].from \/ windows'[w].to <= windows'[v].from
<1>1. /\ v \in Nat /\ w \in Nat /\ nextWindow \in Nat
      /\ v - nextWindow \in Nat /\ w - nextWindow \in Nat
      /\ Placed(windows'[v], nextSweep, from, now, v - nextWindow)
      /\ Placed(windows'[w], nextSweep, from, now, w - nextWindow)
  BY StartedLeaf DEF Shape, TypeOK
<1> DEFINE a == v - nextWindow
           b == w - nextWindow
<1>2. a \in Nat /\ b \in Nat /\ a # b
  BY <1>1
<1> HIDE DEF a, b
<1>3. /\ windows'[v].from = from + a * Width /\ windows'[v].to <= windows'[v].from + Width
      /\ windows'[w].from = from + b * Width /\ windows'[w].to <= windows'[w].from + Width
      /\ windows'[v].to \in Int /\ windows'[w].to \in Int
  BY <1>1 DEF Placed, WindowRow, a, b
<1>4. a < b => a * Width + Width <= b * Width
  BY <1>2, SettingsAssumption, Spread
<1>5. b < a => b * Width + Width <= a * Width
  BY <1>2, SettingsAssumption, Spread
<1>6. a * Width \in Int /\ b * Width \in Int /\ Width \in Int
  BY <1>2, SettingsAssumption
<1> QED BY <1>2, <1>3, <1>4, <1>5, <1>6

\* The leaves after a halving at m: the halved window gave way to its halves.
LEMMA HalvedLeaves ==
  ASSUME Shape, NEW v \in Window, NEW m \in Int, HalvesAt(v, m), NEW s \in Sweep
  PROVE  Leaves(s)' = IF windows[v].sweep = s
                      THEN (Leaves(s) \ {v}) \cup {nextWindow, nextWindow + 1}
                      ELSE Leaves(s)
<1> DEFINE new == {nextWindow, nextWindow + 1}
<1>1. /\ v \notin new /\ new \subseteq Window
      /\ \A w \in new : windows[w] = NoWindow
  <2>1. v \in Nat /\ nextWindow \in Nat
    BY BoundsAssumption DEF Window, Shape, TypeOK
  <2> QED BY <2>1 DEF HalvesAt
<1>2. \A w \in new : /\ windows'[w].status = "pending" /\ windows'[w].split = FALSE
                     /\ windows'[w].sweep = windows[v].sweep
                     /\ w \notin Leaves(s)
  BY <1>1 DEF HalvesAt, HalfOf, Leaves, Of, NoWindow
<1>3. v \notin Leaves(s)' /\ (v \in Leaves(s) <=> windows[v].sweep = s)
  BY DEF HalvesAt, Halved, Leaves, Of
<1>4. \A w \in Window : w \notin {v} \cup new => (w \in Leaves(s)' <=> w \in Leaves(s))
  BY DEF HalvesAt, Leaves, Of
<1>5. \A w \in new : w \in Leaves(s)' <=> windows[v].sweep = s
  BY <1>1, <1>2 DEF Leaves, Of
<1>6. Leaves(s) \subseteq Window /\ Leaves(s)' \subseteq Window
  BY DEF Leaves, Of
<1> QED BY <1>1, <1>2, <1>3, <1>4, <1>5, <1>6

LEMMA StepRangeNeverLost ==
  ASSUME Shape, RangeNeverLost, [Next]_vars
  PROVE  RangeNeverLost'
<1> SUFFICES ASSUME NEW s \in Sweep, sweeps'[s].status # "absent",
                    NEW t \in sweeps'[s].from..(sweeps'[s].to - 1)
             PROVE  \E w \in Leaves(s)' : windows'[w].from <= t /\ t < windows'[w].to
  BY DEF RangeNeverLost
<1>1. CASE Ranged
  <2>1. sweeps[s].status # "absent" /\ t \in sweeps[s].from..(sweeps[s].to - 1)
    BY <1>1 DEF Ranged, SameSweep
  <2>2. PICK w \in Leaves(s) : windows[w].from <= t /\ t < windows[w].to
    BY <2>1 DEF RangeNeverLost
  <2>3. w \in Window /\ w \in Leaves(s)'
    BY <1>1, <2>2, RangedLeaves DEF Leaves, Of
  <2> QED BY <1>1, <2>2, <2>3 DEF Ranged, SameRange
<1>2. ASSUME NEW from \in Int, StartsFrom(from)
      PROVE  \E w \in Leaves(s)' : windows'[w].from <= t /\ t < windows'[w].to
  <2>1. CASE s = nextSweep
    <3>1. sweeps'[s].from = from /\ sweeps'[s].to = now
      BY <1>2, <2>1 DEF StartsFrom, Shape, TypeOK
    <3> QED BY <1>2, <2>1, <3>1, StartCovers
  <2>2. CASE s # nextSweep
    <3>1. /\ sweeps'[s] = sweeps[s] /\ Leaves(s)' = Leaves(s)
          /\ \A w \in Leaves(s) : windows'[w] = windows[w]
      BY <1>2, <2>2, StartElsewhere
    <3>2. PICK w \in Leaves(s) : windows[w].from <= t /\ t < windows[w].to
      BY <3>1 DEF RangeNeverLost
    <3> QED BY <3>1, <3>2
  <2> QED BY <2>1, <2>2
<1>3. CASE Halving
  <2>1. PICK v \in Window, m \in Int : HalvesAt(v, m)
    BY <1>3 DEF Halving
  <2>2. sweeps' = sweeps
    BY <1>3 DEF Halving, sweepVars
  <2>3. PICK w \in Leaves(s) : windows[w].from <= t /\ t < windows[w].to
    BY <2>2 DEF RangeNeverLost
  <2>4. Leaves(s)' = IF windows[v].sweep = s
                     THEN (Leaves(s) \ {v}) \cup {nextWindow, nextWindow + 1}
                     ELSE Leaves(s)
    BY <2>1, HalvedLeaves
  <2>5. CASE w = v
    <3>1. windows[v].sweep = s
      BY <2>3, <2>5 DEF Leaves, Of
    <3>2. t < m \/ t >= m
      BY <2>1, <2>2 DEF Shape, TypeOK, SweepRow
    <3>3. CASE t < m
      BY <2>1, <2>3, <2>4, <2>5, <3>1, <3>3 DEF HalvesAt, HalfOf
    <3>4. CASE t >= m
      BY <2>1, <2>3, <2>4, <2>5, <3>1, <3>4 DEF HalvesAt, HalfOf
    <3> QED BY <3>2, <3>3, <3>4
  <2>6. CASE w # v
    <3>1. w \in Window /\ windows[w].status # "absent"
      BY <2>3 DEF Leaves, Of
    <3>2. windows'[w] = windows[w] /\ w \in Leaves(s)'
      BY <2>1, <2>3, <2>4, <2>6, <3>1 DEF HalvesAt, NoWindow
    <3> QED BY <2>3, <3>2
  <2> QED BY <2>5, <2>6
<1> QED BY <1>1, <1>2, <1>3, StepShape DEF Starting

\* Whatever is halved, retried, given up on or written by a stale worker, each
\* second of a sweep's range stays within a window of the sweep
\* (splitWindowTx: "the range is never lost or doubled").
THEOREM RangeKept == Spec => []RangeNeverLost
<1>1. Init => RangeNeverLost
  BY DEF Init, RangeNeverLost, NoSweep
<1>2. Shape /\ RangeNeverLost /\ [Next]_vars => RangeNeverLost'
  BY StepRangeNeverLost
<1> QED BY <1>1, <1>2, ShapeCorrect, PTL DEF Spec

\* Windows v and w share no more than a boundary second.
Apart(v, w) == windows[v].to <= windows[w].from \/ windows[w].to <= windows[v].from

LEMMA StepRangeNeverDoubled ==
  ASSUME Shape, RangeNeverDoubled, [Next]_vars
  PROVE  RangeNeverDoubled'
<1> SUFFICES ASSUME NEW s \in Sweep, NEW v \in Leaves(s)', NEW w \in Leaves(s)', v # w
             PROVE  Apart(v, w)'
  BY DEF RangeNeverDoubled, Apart
<1>1. v \in Window /\ w \in Window
  BY DEF Leaves, Of
<1>2. \A a, b \in Leaves(s) : a # b => Apart(a, b)
  BY DEF RangeNeverDoubled, Apart
<1>3. CASE Ranged
  <2>1. v \in Leaves(s) /\ w \in Leaves(s)
    BY <1>3, RangedLeaves
  <2> QED BY <1>1, <1>2, <1>3, <2>1 DEF Ranged, SameRange, Apart
<1>4. ASSUME NEW from \in Int, StartsFrom(from)
      PROVE  Apart(v, w)'
  <2>1. CASE s = nextSweep
    BY <1>4, <2>1, StartApart DEF Apart
  <2>2. CASE s # nextSweep
    BY <1>2, <1>4, <2>2, StartElsewhere DEF Apart
  <2> QED BY <2>1, <2>2
<1>5. CASE Halving
  <2>1. PICK u \in Window, m \in Int : HalvesAt(u, m)
    BY <1>5 DEF Halving
  <2> DEFINE new == {nextWindow, nextWindow + 1}
  <2>2. Leaves(s)' = IF windows[u].sweep = s THEN (Leaves(s) \ {u}) \cup new ELSE Leaves(s)
    BY <2>1, HalvedLeaves
  <2>3. u \in Leaves(s) <=> windows[u].sweep = s
    BY <2>1 DEF HalvesAt, Leaves, Of
  <2>4. \A a \in Leaves(s) : a \in Window /\ a \notin new
    BY <2>1 DEF HalvesAt, Leaves, Of, NoWindow
  <2>5. \A a \in Leaves(s) : a # u => windows'[a] = windows[a]
    BY <2>1, <2>4 DEF HalvesAt
  <2>6. \A a \in new : windows[u].from <= windows'[a].from /\ windows'[a].to <= windows[u].to
    BY <2>1 DEF HalvesAt, HalfOf, WindowRow
  <2>7. CASE v \in new /\ w \in new
    BY <1>1, <2>1, <2>7 DEF HalvesAt, HalfOf, Apart
  <2>8. ASSUME NEW a \in new, NEW b \in Leaves(s), b # u, u \in Leaves(s)
        PROVE  Apart(a, b)' /\ Apart(b, a)'
    <3>1. Apart(u, b) /\ windows'[b] = windows[b] /\ b \in Window /\ a \in Window
      BY <1>2, <2>1, <2>4, <2>5, <2>8 DEF HalvesAt
    <3>2. windows[u] \in WindowRow /\ windows[b] \in WindowRow /\ windows'[a] \in WindowRow
      BY <2>1, <3>1, StepShape DEF Shape, TypeOK
    <3> QED BY <2>6, <3>1, <3>2 DEF Apart, WindowRow
  <2>9. CASE v \in Leaves(s) /\ w \in Leaves(s)
    <3>1. v # u /\ w # u
      BY <2>2, <2>3, <2>4, <2>9
    <3> QED BY <1>2, <2>5, <2>9, <3>1 DEF Apart
  <2> QED BY <2>2, <2>3, <2>7, <2>8, <2>9
<1> QED BY <1>3, <1>4, <1>5, StepShape DEF Starting

\* No second of a sweep's range is searched by two windows, boundaries aside,
\* however its windows were cut and halved.
THEOREM RangeNotRepeated == Spec => []RangeNeverDoubled
<1>1. Init => RangeNeverDoubled
  BY DEF Init, RangeNeverDoubled, Leaves, Of, NoWindow
<1>2. Shape /\ RangeNeverDoubled /\ [Next]_vars => RangeNeverDoubled'
  BY StepRangeNeverDoubled
<1> QED BY <1>1, <1>2, ShapeCorrect, PTL DEF Spec

----------------------------------------------------------------------------
\* Sweeps that ended are quiet.

\* A step writes no window of a sweep that has ended, and ends none.
LEMMA QuietStep ==
  ASSUME EndedSweepsAreQuiet,
         \A s \in Sweep : sweeps'[s].status \in {"done", "failed"} =>
           sweeps[s].status = sweeps'[s].status,
         \A w \in Window :
           \/ windows'[w] = windows[w]
           \/ sweeps'[windows'[w].sweep].status \notin {"done", "failed"}
  PROVE  EndedSweepsAreQuiet'
<1> SUFFICES ASSUME NEW s \in Sweep, sweeps'[s].status \in {"done", "failed"},
                    NEW w \in Of(s)'
             PROVE  ~Open(w)' /\ (sweeps'[s].status = "done" => windows'[w].status = "done")
  BY DEF EndedSweepsAreQuiet
<1>1. w \in Window /\ windows'[w].sweep = s
  BY DEF Of
<1>2. windows'[w] = windows[w]
  BY <1>1
<1>3. w \in Of(s)
  BY <1>2 DEF Of
<1> QED BY <1>2, <1>3 DEF EndedSweepsAreQuiet, Open

\* A step that only writes an open window, within its sweep.
LEMMA QuietWrite ==
  ASSUME Shape, EndedSweepsAreQuiet, NEW w \in Window, Open(w),
         windows'[w].sweep = windows[w].sweep,
         \A v \in Window : v # w => windows'[v] = windows[v],
         sweeps' = sweeps
  PROVE  EndedSweepsAreQuiet'
<1>1. windows[w].status # "absent" /\ windows[w].sweep \in Sweep
  BY DEF Open, Shape, Exist
<1>2. w \in Of(windows[w].sweep)
  BY <1>1 DEF Of
<1>3. sweeps[windows[w].sweep].status \notin {"done", "failed"}
  BY <1>1, <1>2 DEF EndedSweepsAreQuiet
<1> QED BY <1>3, QuietStep

LEMMA StepQuiet ==
  ASSUME Shape, EndedSweepsAreQuiet, [Next]_vars
  PROVE  EndedSweepsAreQuiet'
<1>1. CASE windows' = windows /\ sweeps' = sweeps
  BY <1>1, QuietStep
<1>2. ASSUME NEW from \in Int, StartsFrom(from) PROVE EndedSweepsAreQuiet'
  <2>1. \A s \in Sweep : sweeps'[s] =
          IF s = nextSweep THEN [status |-> "running", from |-> from, to |-> now]
          ELSE sweeps[s]
    BY <1>2 DEF StartsFrom, Shape, TypeOK
  <2>2. \A w \in Window :
          windows'[w] = windows[w] \/ windows'[w].sweep = nextSweep
    BY <1>2, StartedRow
  <2>3. nextSweep \in Sweep
    BY <1>2 DEF StartsFrom
  <2> QED BY <2>1, <2>2, <2>3, QuietStep
<1>3. CASE CompleteSweeps
  <2> SUFFICES ASSUME NEW s \in Sweep, sweeps'[s].status \in {"done", "failed"},
                      NEW w \in Of(s)'
               PROVE  ~Open(w)' /\ (sweeps'[s].status = "done" => windows'[w].status = "done")
    BY DEF EndedSweepsAreQuiet
  <2>1. w \in Of(s) /\ windows' = windows
    BY <1>3 DEF CompleteSweeps, Of
  <2>2. windows[w] \in WindowRow /\ windows[w].status # "absent"
    BY <2>1 DEF Of, Shape, TypeOK
  <2>3. CASE sweeps[s].status = "running" /\ Ended(s)
    <3>1. sweeps'[s].status =
            IF \E v \in Of(s) : windows[v].status = "failed" THEN "failed" ELSE "done"
      BY <1>3, <2>3 DEF CompleteSweeps, Shape, TypeOK, SweepRow
    <3> QED BY <2>1, <2>2, <2>3, <3>1 DEF Ended, Open, WindowRow
  <2>4. CASE ~(sweeps[s].status = "running" /\ Ended(s))
    <3>1. sweeps'[s] = sweeps[s]
      BY <1>3, <2>4 DEF CompleteSweeps
    <3> QED BY <2>1, <3>1 DEF EndedSweepsAreQuiet, Open
  <2> QED BY <2>3, <2>4
<1>4. CASE RetryFailedSweep
  <2> DEFINE s == nextSweep - 1
  <2>1. /\ s \in Sweep /\ sweeps' = [sweeps EXCEPT ![s].status = "running"]
        /\ \A w \in Window : w \notin Of(s) => windows'[w] = windows[w]
        /\ \A w \in Window : w \in Of(s) => windows'[w].sweep = s
    BY <1>4, RetryShape DEF RetryFailedSweep, Ranged, SameRange, Of
  <2>2. \A t \in Sweep : sweeps'[t].status = IF t = s THEN "running" ELSE sweeps[t].status
    BY <2>1 DEF Shape, TypeOK, SweepRow
  <2> HIDE DEF s
  <2> QED BY <2>1, <2>2, QuietStep
<1>5. ASSUME NEW o \in Owner, NEW k \in Slot, NEW w \in Window, Claim(o, k, w)
      PROVE  EndedSweepsAreQuiet'
  <2>1. Open(w) /\ windows'[w].sweep = windows[w].sweep
    BY <1>5, ClaimShape DEF Claim, Open, Ranged, SameRange
  <2> QED BY <1>5, <2>1, QuietWrite DEF Claim, sweepVars, Shape, TypeOK
<1>6. ASSUME NEW w \in Window, Reclaim(w) PROVE EndedSweepsAreQuiet'
  <2>1. Open(w) /\ windows'[w].sweep = windows[w].sweep
    BY <1>6, ReclaimShape DEF Reclaim, Open, Ranged, SameRange
  <2> QED BY <1>6, <2>1, QuietWrite DEF Reclaim, sweepVars, Shape, TypeOK
<1>7. ASSUME NEW k \in Slot, ReleaseWindow(k) \/ FailWindow(k) \/ CommitPage(k)
      PROVE  EndedSweepsAreQuiet'
  <2>1. Busy(k) /\ Fenced(held[k])
    BY <1>7 DEF ReleaseWindow, FailWindow, CommitPage, Busy
  <2>2. held[k].window \in Window /\ Open(held[k].window)
    BY <2>1, BusyType DEF Fenced, Open
  <2>3. Ranged
    BY <1>7, ReleaseShape, FailShape, CommitShape
  <2>4. windows'[held[k].window].sweep = windows[held[k].window].sweep
    BY <2>2, <2>3 DEF Ranged, SameRange
  <2>5. \A v \in Window : v # held[k].window => windows'[v] = windows[v]
    BY <1>7 DEF ReleaseWindow, FailWindow, CommitPage, Shape, TypeOK
  <2>6. sweeps' = sweeps
    BY <1>7 DEF ReleaseWindow, FailWindow, CommitPage, sweepVars
  <2> QED BY <2>2, <2>4, <2>5, <2>6, QuietWrite
<1>8. ASSUME NEW k \in Slot, SplitWindow(k) PROVE EndedSweepsAreQuiet'
  <2> DEFINE v == held[k].window
  <2>1. HalvesAt(v, Middle(windows[v])) /\ sweeps' = sweeps
    BY <1>8, SplitHalves DEF SplitWindow, sweepVars
  <2> HIDE DEF v
  <2>2. v \in Window /\ v \in Of(windows[v].sweep) /\ Open(v) /\ windows[v].sweep \in Sweep
    BY <2>1 DEF HalvesAt, Of, Open
  <2>3. sweeps[windows[v].sweep].status \notin {"done", "failed"}
    BY <2>2 DEF EndedSweepsAreQuiet
  <2>4. \A w \in Window : windows'[w] = windows[w] \/ windows'[w].sweep = windows[v].sweep
    BY <2>1 DEF HalvesAt, Halved, HalfOf
  <2> QED BY <2>1, <2>3, <2>4, QuietStep
<1>9. CASE UNCHANGED vars
  BY <1>1, <1>9 DEF vars, sweepVars
<1>10. ASSUME NEW kind \in {"full", "incremental"}, StartSweep(kind)
       PROVE  EndedSweepsAreQuiet'
  <2>1. PICK from : StartsFrom(from)
    BY <1>10, StartEffect
  <2>2. from \in Int
    BY <2>1 DEF StartsFrom
  <2> QED BY <1>2, <2>1, <2>2
<1>11. ASSUME NEW k \in Slot, Abandon(k) \/ Search(k) \/ SearchDense(k)
       PROVE  EndedSweepsAreQuiet'
  BY <1>1, <1>11 DEF Abandon, Search, SearchDense, sweepVars
<1>12. ASSUME NEW r \in Repo, Tick \/ Push(r) PROVE EndedSweepsAreQuiet'
  BY <1>1, <1>12 DEF Tick, Push, sweepVars
<1>13. CASE Tick
  BY <1>1, <1>13 DEF Tick, sweepVars
<1> QED BY <1>3, <1>4, <1>5, <1>6, <1>7, <1>8, <1>9, <1>10, <1>11, <1>12, <1>13 DEF Next

\* Once CompleteSweeps ended a sweep no worker, however stale, reopens one of
\* its windows or fails it: the fence and the claim's guard hold them off.
THEOREM EndedIsQuiet == Spec => []EndedSweepsAreQuiet
<1>1. Init => EndedSweepsAreQuiet
  BY DEF Init, EndedSweepsAreQuiet, NoSweep
<1>2. Shape /\ EndedSweepsAreQuiet /\ [Next]_vars => EndedSweepsAreQuiet'
  BY StepQuiet
<1> QED BY <1>1, <1>2, ShapeCorrect, PTL DEF Spec

----------------------------------------------------------------------------
\* The watermark: what a done sweep read is stored.

\* Pushed before sweep s was started, and recently enough to qualify.
Before(r, s) == pushed[r] < sweeps[s].to
Due(r, s) == Oldest <= pushed[r] /\ Before(r, s)

\* In a window GitHub would not list all of.
Unlisted(r) == \E w \in Window : windows[w].truncated /\ r \in Matches(windows[w])

Here(w) == windows[w].status # "absent"
Started(s) == sweeps[s].status # "absent"
SweepOf(k) == windows[held[k].window].sweep

\* What a cursor stands past is stored.
SeenStored ==
  \A w \in Window, r \in Repo :
    Here(w) /\ r \in windows[w].seen /\ Due(r, windows[w].sweep) => r \in stored

CopySeenStored ==
  \A k \in Slot, r \in Repo :
    Busy(k) /\ r \in held[k].seen /\ Due(r, SweepOf(k)) => r \in stored

\* A page holds its repositories' pushed_at, unless they were pushed since.
FoundFresh ==
  \A k \in Slot, r \in Repo :
    held[k].stage = "searched" /\ r \in held[k].found /\ Before(r, SweepOf(k))
    => held[k].pushedAt[r] = pushed[r]

\* With the last page of a window all that matches was found, or is behind the
\* cursor.
LastPage ==
  \A k \in Slot, r \in Repo :
    /\ held[k].stage = "searched" /\ ~held[k].more
    /\ r \in Matches(windows[held[k].window]) /\ Due(r, SweepOf(k))
    => \/ r \in held[k].found \cup held[k].seen
       \/ held[k].truncated \/ windows[held[k].window].truncated

\* A window that was read to its end has stored what matches.
DoneRead ==
  \A w \in Window, r \in Repo :
    /\ windows[w].status = "done" /\ ~windows[w].split /\ ~windows[w].truncated
    /\ r \in Matches(windows[w]) /\ Due(r, windows[w].sweep)
    => r \in stored

\* What a sweep does not read, an earlier one has stored.
Skipped ==
  \A s \in Sweep, r \in Repo :
    Started(s) /\ Oldest <= pushed[r] /\ pushed[r] < sweeps[s].from
    => r \in stored \/ Unlisted(r)

AbsentWhole == \A w \in Window : ~Here(w) => ~windows[w].truncated

Reads == /\ SeenStored /\ CopySeenStored /\ FoundFresh /\ LastPage
         /\ DoneRead /\ Skipped /\ AbsentWhole

LEMMA ReadsAreEnough ==
  ASSUME Shape, Reads, RangeNeverLost, EndedSweepsAreQuiet
  PROVE  NothingMissed
<1> SUFFICES ASSUME NEW s \in Done, NEW r \in Repo, Due(r, s), ~Unlisted(r)
             PROVE  r \in stored
  BY DEF NothingMissed, Due, Before, Unlisted
<1>1. s \in Sweep /\ sweeps[s].status = "done" /\ Started(s)
  BY DEF Done, Started
<1>2. pushed[r] \in Int /\ sweeps[s].from \in Int /\ sweeps[s].to \in Int
  BY <1>1 DEF Shape, TypeOK, SweepRow
<1>3. CASE pushed[r] < sweeps[s].from
  BY <1>1, <1>3 DEF Reads, Skipped, Due
<1>4. CASE pushed[r] >= sweeps[s].from
  <2>1. pushed[r] \in sweeps[s].from..(sweeps[s].to - 1)
    BY <1>2, <1>4 DEF Due, Before
  <2>2. PICK w \in Leaves(s) : windows[w].from <= pushed[r] /\ pushed[r] < windows[w].to
    BY <1>1, <2>1 DEF RangeNeverLost, Started
  <2>3. w \in Window /\ windows[w] \in WindowRow /\ windows[w].sweep = s /\ ~windows[w].split
        /\ w \in Of(s)
    BY <2>2 DEF Leaves, Of, Shape, TypeOK
  <2>4. r \in Matches(windows[w])
    BY <1>2, <2>2, <2>3 DEF Matches, WindowRow
  <2>5. windows[w].status = "done"
    BY <1>1, <2>3 DEF EndedSweepsAreQuiet
  <2>6. ~windows[w].truncated
    BY <2>3, <2>4 DEF Unlisted
  <2> QED BY <2>3, <2>4, <2>5, <2>6 DEF Reads, DoneRead
<1> QED BY <1>2, <1>3, <1>4

\* What every step leaves alone.
Fixed ==
  /\ \A w \in Window : Here(w) =>
       /\ Here(w)' /\ windows'[w].sweep = windows[w].sweep
       /\ windows'[w].from = windows[w].from /\ windows'[w].to = windows[w].to
  /\ \A s \in Sweep : Started(s) =>
       Started(s)' /\ sweeps'[s].from = sweeps[s].from /\ sweeps'[s].to = sweeps[s].to

LEMMA StepFixed ==
  ASSUME Shape, [Next]_vars
  PROVE  Fixed
<1>1. CASE Ranged
  BY <1>1 DEF Ranged, SameRange, SameSweep, Fixed, Here, Started
<1>2. ASSUME NEW from \in Int, StartsFrom(from) PROVE Fixed
  <2>1. \A s \in Sweep : Started(s) => s # nextSweep
    BY <1>2 DEF Shape, TypeOK, Exist, StartsFrom, Started
  <2>2. \A s \in Sweep : Started(s) => sweeps'[s] = sweeps[s]
    BY <1>2, <2>1, StartElsewhere
  <2>3. \A w \in Window : Here(w) => windows[w] # NoWindow
    BY DEF Here, NoWindow
  <2>4. \A w \in Window : Here(w) => windows'[w] = windows[w]
    BY <1>2, <2>3, StartRows
  <2> QED BY <2>2, <2>4 DEF Fixed, Here, Started
<1>3. CASE Halving
  <2>1. PICK v \in Window, m \in Int : HalvesAt(v, m)
    BY <1>3 DEF Halving
  <2>2. sweeps' = sweeps
    BY <1>3 DEF Halving, sweepVars
  <2>3. \A w \in Window : Here(w) => w \notin {nextWindow, nextWindow + 1}
    BY <2>1 DEF HalvesAt, Here, NoWindow
  <2> QED BY <2>1, <2>2, <2>3 DEF Fixed, Here, Started, HalvesAt, Halved
<1> QED BY <1>1, <1>2, <1>3, StepShape DEF Starting

\* What a step may at most do to repositories.
Kept ==
  /\ stored \subseteq stored' /\ now' >= now
  /\ \A r \in Repo : pushed'[r] = pushed[r] \/ pushed'[r] = now
  /\ \A w \in Window : windows[w].truncated => windows'[w].truncated

\* A step reads no page to its end, and moves no cursor.
WindowsKeep ==
  \A w \in Window :
    IF Here(w)
    THEN /\ windows'[w].seen = windows[w].seen
         /\ windows'[w].truncated = windows[w].truncated
         /\ windows'[w].status = "done" /\ ~windows'[w].split =>
              windows[w].status = "done" /\ ~windows[w].split
    ELSE windows'[w] = windows[w] \/ (windows'[w].status = "pending" /\ windows'[w].seen = {})

\* A step copies a window, sends its copy on to be halved, or drops it.
CopiesKeep ==
  \A k \in Slot :
    \/ held'[k] \in {held[k], NoCopy}
    \/ /\ held'[k].stage \in {"claimed", "splitting"}
       /\ \/ /\ held'[k].window \in Window /\ Here(held'[k].window)
             /\ held'[k].seen = windows[held'[k].window].seen
          \/ /\ Busy(k) /\ held'[k].window = held[k].window
             /\ held'[k].seen = held[k].seen

\* A repository that is due for a sweep was not pushed since the sweep started.
LEMMA BeforeUnpushed ==
  ASSUME Shape, Shape', Fixed, Kept, NEW s \in Sweep, Started(s), NEW r \in Repo, Before(r, s)'
  PROVE  /\ pushed'[r] = pushed[r] /\ Before(r, s)
         /\ Due(r, s)' => Due(r, s)
<1>1. /\ sweeps'[s].to = sweeps[s].to /\ sweeps[s].to \in Int /\ sweeps[s].to <= now
      /\ now \in Int /\ now' \in Int /\ pushed[r] \in Int /\ now' >= now
  BY DEF Fixed, Kept, Shape, TypeOK, Exist, Started, SweepRow
<1>2. pushed'[r] = pushed[r]
  BY <1>1 DEF Kept, Before
<1> QED BY <1>1, <1>2, SettingsAssumption DEF Before, Due, Oldest

\* Of a repository that was not pushed, matches of a window stay matches.
LEMMA SameMatches ==
  ASSUME Fixed, NEW r \in Repo, pushed'[r] = pushed[r], NEW w \in Window, Here(w)
  PROVE  r \in Matches(windows[w])' <=> r \in Matches(windows[w])
  BY DEF Fixed, Matches

LEMMA UnlistedStays ==
  ASSUME AbsentWhole, Fixed, Kept, NEW r \in Repo, pushed'[r] = pushed[r], Unlisted(r)
  PROVE  Unlisted(r)'
<1>1. PICK w \in Window : windows[w].truncated /\ r \in Matches(windows[w])
  BY DEF Unlisted
<1>2. Here(w)
  BY <1>1 DEF AbsentWhole
<1> QED BY <1>1, <1>2, SameMatches DEF Unlisted, Kept

LEMMA KeepWindows ==
  ASSUME Shape, Shape', Fixed, Kept, WindowsKeep, SeenStored, DoneRead, AbsentWhole
  PROVE  SeenStored' /\ DoneRead' /\ AbsentWhole'
<1>1. SeenStored'
  <2> SUFFICES ASSUME NEW w \in Window, NEW r \in Repo, Here(w)', r \in windows'[w].seen,
                      Due(r, windows[w].sweep)'
               PROVE  r \in stored'
    BY DEF SeenStored
  <2>1. Here(w)
    BY DEF WindowsKeep, Here
  <2>2. windows[w].sweep \in Sweep /\ Started(windows[w].sweep)
    BY <2>1 DEF Shape, Exist, Here, Started
  <2> DEFINE s == windows[w].sweep
  <2>3. windows'[w].sweep = s /\ r \in windows[w].seen
    BY <2>1 DEF Fixed, WindowsKeep
  <2>4. Due(r, s)
    <3>1. \A t \in Sweep : Started(t) /\ Due(r, t)' => Due(r, t)
      BY BeforeUnpushed DEF Due
    <3>2. pushed'[r] < sweeps'[s].to /\ Oldest' <= pushed'[r]
      BY <2>3 DEF Due, Before
    <3> QED BY <2>2, <3>1, <3>2 DEF Due, Before
  <2> QED BY <2>1, <2>3, <2>4 DEF SeenStored, Kept
<1>2. DoneRead'
  <2> SUFFICES ASSUME NEW w \in Window, NEW r \in Repo,
                      windows'[w].status = "done", ~windows'[w].split,
                      ~windows'[w].truncated,
                      r \in Matches(windows[w])', Due(r, windows[w].sweep)'
               PROVE  r \in stored'
    BY DEF DoneRead
  <2>1. windows[w].status = "done" /\ ~windows[w].split /\ Here(w)
    BY DEF WindowsKeep, Here
  <2>2. ~windows[w].truncated
    BY DEF Kept
  <2> DEFINE s == windows[w].sweep
  <2>3. s \in Sweep /\ Started(s) /\ windows'[w].sweep = s
    BY <2>1 DEF Shape, Exist, Here, Started, Fixed
  <2>4. Due(r, s) /\ pushed'[r] = pushed[r]
    <3>1. \A t \in Sweep : Started(t) /\ Due(r, t)' => Due(r, t) /\ pushed'[r] = pushed[r]
      BY BeforeUnpushed DEF Due
    <3>2. pushed'[r] < sweeps'[s].to /\ Oldest' <= pushed'[r]
      BY <2>3 DEF Due, Before
    <3> QED BY <2>3, <3>1, <3>2 DEF Due, Before
  <2>5. r \in Matches(windows[w])
    BY <2>1, <2>4, SameMatches
  <2> QED BY <2>1, <2>2, <2>4, <2>5 DEF DoneRead, Kept
<1>3. AbsentWhole'
  BY DEF AbsentWhole, WindowsKeep, Fixed, Here
<1> QED BY <1>1, <1>2, <1>3

CopyReads == CopySeenStored /\ FoundFresh /\ LastPage

\* A repository due for a copy's sweep was due for it before the step.
LEMMA CopyDue ==
  ASSUME Shape, Shape', Fixed, Kept, NEW w \in Window, Here(w), NEW r \in Repo,
         Before(r, windows[w].sweep)'
  PROVE  /\ pushed'[r] = pushed[r] /\ Before(r, windows[w].sweep)
         /\ Due(r, windows[w].sweep)' => Due(r, windows[w].sweep)
<1> DEFINE s == windows[w].sweep
<1>1. s \in Sweep /\ Started(s) /\ windows'[w].sweep = s
  BY DEF Shape, Exist, Here, Started, Fixed
<1>2. \A t \in Sweep : Started(t) /\ pushed'[r] < sweeps'[t].to =>
        /\ pushed'[r] = pushed[r] /\ Before(r, t)
        /\ Oldest' <= pushed'[r] => Due(r, t)
  BY BeforeUnpushed DEF Before, Due
<1>3. pushed'[r] < sweeps'[s].to
  BY <1>1 DEF Before
<1> QED BY <1>1, <1>2, <1>3 DEF Due

\* What holds of a copy still holds if it stays as it is.
LEMMA SameCopy ==
  ASSUME Shape, Shape', Fixed, Kept, CopyReads, NEW k \in Slot, held'[k] = held[k],
         NEW r \in Repo
  PROVE  /\ Busy(k)' /\ r \in held'[k].seen /\ Due(r, SweepOf(k))' => r \in stored'
         /\ /\ held'[k].stage = "searched" /\ r \in held'[k].found /\ Before(r, SweepOf(k))'
            => held'[k].pushedAt[r] = pushed'[r]
         /\ /\ held'[k].stage = "searched" /\ ~held'[k].more
            /\ r \in Matches(windows[held[k].window])' /\ Due(r, SweepOf(k))'
            => \/ r \in held'[k].found \cup held'[k].seen
               \/ held'[k].truncated \/ windows'[held'[k].window].truncated
<1>1. SUFFICES ASSUME Busy(k), Before(r, SweepOf(k))'
               PROVE  /\ r \in held[k].seen /\ Due(r, SweepOf(k))' => r \in stored'
                      /\ /\ held[k].stage = "searched" /\ r \in held[k].found
                         => held[k].pushedAt[r] = pushed'[r]
                      /\ /\ held[k].stage = "searched" /\ ~held[k].more
                         /\ r \in Matches(windows[held[k].window])' /\ Due(r, SweepOf(k))'
                         => \/ r \in held[k].found \cup held[k].seen
                            \/ held[k].truncated \/ windows'[held[k].window].truncated
  BY DEF Busy, Due
<1> DEFINE w == held[k].window
<1>2. w \in Window /\ Here(w)
  BY <1>1, BusyType DEF Here
<1>3. \A v \in Window : Here(v) /\ pushed'[r] < sweeps'[windows'[v].sweep].to =>
        /\ pushed'[r] = pushed[r] /\ Before(r, windows[v].sweep)
        /\ Oldest' <= pushed'[r] => Due(r, windows[v].sweep)
  BY CopyDue DEF Before, Due
<1>4. /\ pushed'[r] = pushed[r] /\ Before(r, SweepOf(k))
      /\ Due(r, SweepOf(k))' => Due(r, SweepOf(k))
  BY <1>1, <1>2, <1>3 DEF SweepOf, Before, Due
<1>5. r \in Matches(windows[held[k].window])' => r \in Matches(windows[w])
  BY <1>2, <1>4 DEF Fixed, Matches
<1>6. windows[w].truncated => windows'[w].truncated
  BY <1>2 DEF Kept
<1>7. r \in held[k].seen /\ Due(r, SweepOf(k))' => r \in stored'
  BY <1>1, <1>4 DEF CopyReads, CopySeenStored, Kept
<1>8. held[k].stage = "searched" /\ r \in held[k].found => held[k].pushedAt[r] = pushed'[r]
  BY <1>4 DEF CopyReads, FoundFresh
<1>9. /\ held[k].stage = "searched" /\ ~held[k].more
      /\ r \in Matches(windows[held[k].window])' /\ Due(r, SweepOf(k))'
      => \/ r \in held[k].found \cup held[k].seen
         \/ held[k].truncated \/ windows'[held[k].window].truncated
  BY <1>4, <1>5, <1>6 DEF CopyReads, LastPage
<1> QED BY <1>7, <1>8, <1>9

LEMMA KeepCopies ==
  ASSUME Shape, Shape', Fixed, Kept, CopiesKeep, CopyReads, SeenStored
  PROVE  CopyReads'
<1> SUFFICES ASSUME NEW k \in Slot, NEW r \in Repo
             PROVE  /\ Busy(k)' /\ r \in held'[k].seen /\ Due(r, SweepOf(k))' => r \in stored'
                    /\ /\ held'[k].stage = "searched" /\ r \in held'[k].found
                       /\ Before(r, SweepOf(k))'
                       => held'[k].pushedAt[r] = pushed'[r]
                    /\ /\ held'[k].stage = "searched" /\ ~held'[k].more
                       /\ r \in Matches(windows[held[k].window])' /\ Due(r, SweepOf(k))'
                       => \/ r \in held'[k].found \cup held'[k].seen
                          \/ held'[k].truncated \/ windows'[held'[k].window].truncated
  BY DEF CopyReads, CopySeenStored, FoundFresh, LastPage
<1>1. CASE held'[k] = held[k]
  BY <1>1, SameCopy
<1>2. CASE held'[k] = NoCopy
  BY <1>2 DEF NoCopy, Busy
<1>3. CASE held'[k] # held[k] /\ held'[k] # NoCopy
  <2>1. held'[k].stage \in {"claimed", "splitting"}
    BY <1>3 DEF CopiesKeep
  <2>2. held'[k].window \in Window /\ Here(held'[k].window)
    BY <1>3, BusyType DEF CopiesKeep, Here
  <2>3. Busy(k)' /\ r \in held'[k].seen /\ Due(r, SweepOf(k))' => r \in stored'
    <3>1. SUFFICES ASSUME r \in held'[k].seen, Due(r, SweepOf(k))' PROVE r \in stored'
      OBVIOUS
    <3> DEFINE w == held'[k].window
    <3>2. \A v \in Window : Here(v) /\ pushed'[r] < sweeps'[windows'[v].sweep].to
            /\ Oldest' <= pushed'[r] => Due(r, windows[v].sweep)
      BY CopyDue DEF Before, Due
    <3>3. Due(r, windows[w].sweep)
      BY <2>2, <3>1, <3>2 DEF SweepOf, Due, Before
    <3>4. CASE held'[k].seen = windows[w].seen
      BY <2>2, <3>1, <3>3, <3>4 DEF SeenStored, Kept
    <3>5. CASE Busy(k) /\ w = held[k].window /\ held'[k].seen = held[k].seen
      BY <3>1, <3>3, <3>5 DEF CopyReads, CopySeenStored, SweepOf, Kept
    <3> QED BY <1>3, <3>4, <3>5 DEF CopiesKeep
  <2> QED BY <2>1, <2>3
<1> QED BY <1>1, <1>2, <1>3

\* A step that starts no sweep.
LEMMA KeepSkipped ==
  ASSUME Shape, Shape', Fixed, Kept, AbsentWhole, Skipped,
         NEW s \in Sweep, Started(s), NEW r \in Repo,
         Oldest' <= pushed'[r], pushed'[r] < sweeps'[s].from
  PROVE  r \in stored' \/ Unlisted(r)'
<1>1. sweeps'[s].from = sweeps[s].from /\ sweeps'[s].to = sweeps[s].to
      /\ sweeps[s].from < sweeps[s].to /\ sweeps[s].from \in Int /\ sweeps[s].to \in Int
      /\ pushed'[r] \in Int /\ now \in Int /\ now' \in Int /\ now' >= now
  BY DEF Fixed, Started, Shape, TypeOK, SweepRow, Kept
<1>2. Before(r, s)'
  BY <1>1 DEF Before
<1>3. pushed'[r] = pushed[r]
  BY <1>2, BeforeUnpushed
<1>4. Oldest <= pushed[r] /\ pushed[r] < sweeps[s].from
  BY <1>1, <1>3, SettingsAssumption DEF Oldest
<1>5. r \in stored \/ Unlisted(r)
  BY <1>4 DEF Skipped
<1> QED BY <1>3, <1>5, UnlistedStays DEF Kept

----------------------------------------------------------------------------
\* The steps that read nothing to its end.

\* Neither a page is answered nor one committed.
Still == Kept /\ WindowsKeep /\ CopiesKeep

LEMMA SameWindows ==
  ASSUME Shape, windows' = windows
  PROVE  WindowsKeep
  BY DEF WindowsKeep

\* One existing row is written, but not to its end.
LEMMA WriteKeep ==
  ASSUME Shape, NEW w \in Window, windows' = [windows EXCEPT ![w] = windows'[w]],
         windows[w].status \notin {"absent", "done"},
         windows'[w].status \notin {"absent", "done"},
         windows'[w].seen = windows[w].seen, windows'[w].truncated = windows[w].truncated
  PROVE  WindowsKeep
<1>1. \A v \in Window : v # w => windows'[v] = windows[v]
  BY DEF Shape, TypeOK
<1> QED BY <1>1 DEF WindowsKeep, Here

LEMMA KeptWhere ==
  ASSUME Shape, AbsentWhole, WindowsKeep, stored' = stored, UNCHANGED githubVars
  PROVE  Kept
<1>1. \A w \in Window : windows[w].truncated => windows'[w].truncated
  BY DEF WindowsKeep, AbsentWhole
<1> QED BY <1>1 DEF Kept, githubVars, Shape, TypeOK

LEMMA StartStill ==
  ASSUME Shape, AbsentWhole, NEW from \in Int, StartsFrom(from)
  PROVE  Still
<1>1. WindowsKeep
  <2>1. ASSUME NEW w \in Window, Here(w) PROVE windows'[w] = windows[w]
    <3>1. windows[w] # NoWindow
      BY <2>1 DEF Here, NoWindow
    <3> QED BY <3>1, StartRows
  <2>2. ASSUME NEW w \in Window
        PROVE  \/ windows'[w] = windows[w]
               \/ windows'[w].status = "pending" /\ windows'[w].seen = {}
    BY StartedRow
  <2> QED BY <2>1, <2>2 DEF WindowsKeep
<1>2. stored' = stored /\ held' = held /\ UNCHANGED githubVars
  BY DEF StartsFrom
<1> QED BY <1>1, <1>2, KeptWhere DEF Still, CopiesKeep

LEMMA RetryStill ==
  ASSUME Shape, AbsentWhole, RetryFailedSweep
  PROVE  Still
<1> DEFINE s == nextSweep - 1
           old(w) == Unleased(windows[w], "pending")
<1>1. /\ \A w \in Window :
           IF w \in Of(s) /\ windows[w].status = "failed"
           THEN windows'[w] = [old(w) EXCEPT !.attempts = 0] ELSE windows'[w] = windows[w]
      /\ stored' = stored /\ held' = held /\ UNCHANGED githubVars
  BY DEF RetryFailedSweep
<1>2. \A w \in Window : windows[w] \in WindowRow
  BY DEF Shape, TypeOK
<1>3. \A w \in Window : /\ old(w).seen = windows[w].seen /\ old(w) \in WindowRow
                        /\ old(w).truncated = windows[w].truncated
                        /\ old(w).status = "pending"
  BY <1>2, UnleasedType DEF Unleased, WindowRow
<1> HIDE DEF old, s
<1>4. ASSUME NEW w \in Window, windows'[w] # windows[w]
      PROVE  /\ windows'[w].seen = windows[w].seen
             /\ windows'[w].truncated = windows[w].truncated
             /\ windows'[w].status = "pending" /\ windows[w].status = "failed"
  <2>1. windows'[w] = [old(w) EXCEPT !.attempts = 0] /\ windows[w].status = "failed"
    BY <1>1, <1>4
  <2> QED BY <1>3, <2>1 DEF WindowRow
<1>5. WindowsKeep
  BY <1>4 DEF WindowsKeep, Here
<1> QED BY <1>1, <1>5, KeptWhere DEF Still, CopiesKeep

LEMMA ClaimStill ==
  ASSUME Shape, AbsentWhole, NEW o \in Owner, NEW k \in Slot, NEW w \in Window, Claim(o, k, w)
  PROVE  Still
<1>1. windows[w] \in WindowRow /\ windows[w].status = "pending"
  BY DEF Claim, Shape, TypeOK
<1> DEFINE row == [windows[w] EXCEPT !.status = "running", !.owner = o]
<1>2. windows' = [windows EXCEPT ![w] = row]
  BY DEF Claim, Shape, TypeOK
<1>3. row.status = "running" /\ row.seen = windows[w].seen
      /\ row.truncated = windows[w].truncated
  BY <1>1 DEF WindowRow
<1> HIDE DEF row
<1>4. windows'[w] = row
  BY <1>2 DEF Shape, TypeOK
<1>5. WindowsKeep
  BY <1>1, <1>2, <1>3, <1>4, WriteKeep
<1>6. CopiesKeep
  <2> DEFINE c == [NoCopy EXCEPT !.stage = "claimed", !.window = w, !.owner = o,
                                 !.begun = windows[w].begun, !.seen = windows[w].seen,
                                 !.attempts = windows[w].attempts]
  <2>1. c.stage = "claimed" /\ c.window = w /\ c.seen = windows[w].seen
    BY DEF NoCopy
  <2>2. held' = [held EXCEPT ![k] = c]
    BY DEF Claim
  <2> HIDE DEF c
  <2>3. \A j \in Slot : held'[j] = held[j] \/ held'[j] = c
    BY <2>2 DEF Shape, TypeOK
  <2> QED BY <1>1, <2>1, <2>3 DEF CopiesKeep, Here
<1> QED BY <1>5, <1>6, KeptWhere DEF Claim, Still

LEMMA ReleasedRow ==
  ASSUME NEW row \in WindowRow, NEW status \in {"pending", "failed"}
  PROVE  /\ Unleased(row, status) \in WindowRow /\ Unleased(row, status).status = status
         /\ Unleased(row, status).seen = row.seen
         /\ Unleased(row, status).truncated = row.truncated
  BY UnleasedType DEF Unleased, WindowRow

LEMMA ReclaimStill ==
  ASSUME Shape, AbsentWhole, NEW w \in Window, Reclaim(w)
  PROVE  Still
<1>1. /\ windows[w] \in WindowRow /\ windows[w].status = "running"
      /\ windows' = [windows EXCEPT ![w] = Unleased(windows[w], "pending")]
  BY DEF Reclaim, Shape, TypeOK
<1>2. windows'[w] = Unleased(windows[w], "pending")
  BY <1>1 DEF Shape, TypeOK
<1>3. windows' = [windows EXCEPT ![w] = windows'[w]]
  BY <1>1, <1>2
<1>4. /\ windows'[w].status = "pending" /\ windows'[w].seen = windows[w].seen
      /\ windows'[w].truncated = windows[w].truncated
  BY <1>1, <1>2, ReleasedRow
<1>5. WindowsKeep
  BY <1>1, <1>3, <1>4, WriteKeep
<1>6. Kept
  BY <1>5, KeptWhere DEF Reclaim
<1> QED BY <1>5, <1>6 DEF Reclaim, Still, CopiesKeep

LEMMA FailStill ==
  ASSUME Shape, AbsentWhole, NEW k \in Slot, ReleaseWindow(k) \/ FailWindow(k)
  PROVE  Still
<1> DEFINE w == held[k].window
<1>1. Busy(k) /\ Fenced(held[k])
  BY DEF ReleaseWindow, FailWindow, Busy
<1>2. w \in Window /\ windows[w] \in WindowRow /\ windows[w].status = "running"
  BY <1>1, BusyType DEF Fenced
<1>3. \E status \in {"pending", "failed"} :
        \/ windows' = [windows EXCEPT ![w] = Unleased(windows[w], status)]
        \/ \E n : windows' =
             [windows EXCEPT ![w] = [Unleased(windows[w], status) EXCEPT !.attempts = n]]
  BY <1>2 DEF ReleaseWindow, FailWindow, Shape, TypeOK
<1>4. PICK status \in {"pending", "failed"} :
        \/ windows' = [windows EXCEPT ![w] = Unleased(windows[w], status)]
        \/ \E n : windows' =
             [windows EXCEPT ![w] = [Unleased(windows[w], status) EXCEPT !.attempts = n]]
  BY <1>3
<1> DEFINE old == Unleased(windows[w], status)
<1>5. /\ old \in WindowRow /\ old.status = status
      /\ old.seen = windows[w].seen /\ old.truncated = windows[w].truncated
  BY <1>2, ReleasedRow
<1> HIDE DEF old
<1>6. /\ windows' = [windows EXCEPT ![w] = windows'[w]]
      /\ windows'[w].status = status /\ windows'[w].seen = windows[w].seen
      /\ windows'[w].truncated = windows[w].truncated
  <2>1. CASE windows' = [windows EXCEPT ![w] = old]
    BY <1>2, <1>5, <2>1 DEF Shape, TypeOK
  <2>2. ASSUME NEW n, windows' = [windows EXCEPT ![w] = [old EXCEPT !.attempts = n]]
        PROVE  /\ windows' = [windows EXCEPT ![w] = windows'[w]]
               /\ windows'[w].status = status /\ windows'[w].seen = windows[w].seen
               /\ windows'[w].truncated = windows[w].truncated
    <3>1. windows'[w] = [old EXCEPT !.attempts = n]
      BY <1>2, <2>2 DEF Shape, TypeOK
    <3>2. /\ windows'[w].status = status /\ windows'[w].seen = windows[w].seen
          /\ windows'[w].truncated = windows[w].truncated
      BY <1>5, <3>1 DEF WindowRow
    <3> QED BY <2>2, <3>1, <3>2
  <2> QED BY <1>4, <2>1, <2>2 DEF old
<1>7. WindowsKeep
  BY <1>2, <1>6, WriteKeep
<1>8. \A j \in Slot : held'[j] \in {held[j], NoCopy}
  BY DEF ReleaseWindow, FailWindow, Shape, TypeOK
<1>9. stored' = stored /\ UNCHANGED githubVars
  BY DEF ReleaseWindow, FailWindow
<1> QED BY <1>7, <1>8, <1>9, KeptWhere DEF Still, CopiesKeep

LEMMA SplitStill ==
  ASSUME Shape, AbsentWhole, NEW k \in Slot, SplitWindow(k)
  PROVE  Still
<1> DEFINE v == held[k].window
<1>1. HalvesAt(v, Middle(windows[v]))
  BY SplitHalves
<1> HIDE DEF v
<1>2. WindowsKeep
  <2>1. ASSUME NEW w \in Window, w \notin {v, nextWindow, nextWindow + 1}
        PROVE  windows'[w] = windows[w]
    BY <1>1, <2>1 DEF HalvesAt
  <2>2. \A w \in {nextWindow, nextWindow + 1} :
          ~Here(w) /\ windows'[w].status = "pending" /\ windows'[w].seen = {}
    BY <1>1 DEF HalvesAt, HalfOf, Here, NoWindow
  <2>3. /\ Here(v) /\ windows'[v].split /\ windows'[v].seen = windows[v].seen
        /\ windows'[v].truncated = windows[v].truncated
    BY <1>1 DEF HalvesAt, Halved, Here
  <2> QED BY <2>1, <2>2, <2>3 DEF WindowsKeep
<1>3. \A j \in Slot : held'[j] \in {held[j], NoCopy}
  BY DEF SplitWindow, Shape, TypeOK
<1>4. stored' = stored /\ UNCHANGED githubVars
  BY DEF SplitWindow
<1> QED BY <1>2, <1>3, <1>4, KeptWhere DEF Still, CopiesKeep

LEMMA StepStill ==
  ASSUME Shape, AbsentWhole, [Next]_vars
  PROVE  Still \/ \E k \in Slot : Search(k) \/ CommitPage(k)
<1>1. CASE Tick
  <2>1. windows' = windows /\ held' = held /\ stored' = stored /\ pushed' = pushed
        /\ now' = now + 1 /\ now \in Nat
    BY <1>1 DEF Tick, Shape, TypeOK
  <2> QED BY <2>1, SameWindows DEF Still, CopiesKeep, Kept
<1>2. ASSUME NEW r \in Repo, Push(r) PROVE Still
  <2>1. windows' = windows /\ held' = held /\ stored' = stored /\ now' = now
        /\ now \in Nat /\ \A q \in Repo : pushed'[q] = pushed[q] \/ pushed'[q] = now
    BY <1>2 DEF Push, Shape, TypeOK
  <2> QED BY <2>1, SameWindows DEF Still, CopiesKeep, Kept
<1>3. ASSUME NEW kind \in {"full", "incremental"}, StartSweep(kind) PROVE Still
  <2>1. PICK from : StartsFrom(from)
    BY <1>3, StartEffect
  <2>2. from \in Int
    BY <2>1 DEF StartsFrom
  <2> QED BY <2>1, <2>2, StartStill
<1>4. CASE CompleteSweeps
  BY <1>4, SameWindows, KeptWhere DEF CompleteSweeps, Still, CopiesKeep
<1>5. CASE RetryFailedSweep
  BY <1>5, RetryStill
<1>6. ASSUME NEW o \in Owner, NEW k \in Slot, NEW w \in Window, Claim(o, k, w)
      PROVE  Still
  BY <1>6, ClaimStill
<1>7. ASSUME NEW w \in Window, Reclaim(w) PROVE Still
  BY <1>7, ReclaimStill
<1>8. ASSUME NEW k \in Slot, ReleaseWindow(k) \/ FailWindow(k) \/ SplitWindow(k)
      PROVE  Still
  BY <1>8, FailStill, SplitStill
<1>9. ASSUME NEW k \in Slot, Abandon(k) PROVE Still
  <2>1. \A j \in Slot : held'[j] \in {held[j], NoCopy}
    BY <1>9 DEF Abandon, Shape, TypeOK
  <2> QED BY <1>9, <2>1, SameWindows, KeptWhere DEF Abandon, Still, CopiesKeep
<1>10. ASSUME NEW k \in Slot, SearchDense(k) PROVE Still
  <2>1. Busy(k)
    BY <1>10 DEF SearchDense, Busy
  <2>2. held[k] \in Copy
    BY <2>1, BusyType
  <2>3. held'[k] = [held[k] EXCEPT !.stage = "splitting"]
        /\ \A j \in Slot : j # k => held'[j] = held[j]
    BY <1>10 DEF SearchDense, Shape, TypeOK
  <2>4. held'[k].stage = "splitting" /\ held'[k].window = held[k].window
        /\ held'[k].seen = held[k].seen
    BY <2>2, <2>3 DEF Copy
  <2> QED BY <1>10, <2>1, <2>3, <2>4, SameWindows, KeptWhere DEF SearchDense, Still, CopiesKeep
<1>11. CASE UNCHANGED vars
  BY <1>11, SameWindows, KeptWhere DEF vars, Still, CopiesKeep
<1> QED BY <1>1, <1>2, <1>3, <1>4, <1>5, <1>6, <1>7, <1>8, <1>9, <1>10, <1>11 DEF Next

----------------------------------------------------------------------------
\* Searching.

LEMMA SearchEffect ==
  ASSUME Shape, NEW k \in Slot, Search(k)
  PROVE  LET c == held[k]
             row == windows[c.window]
         IN  /\ Busy(k) /\ held'[k].window = c.window /\ held'[k].seen = c.seen
             /\ held'[k].found \subseteq Repo
             /\ \A r \in held'[k].found : held'[k].pushedAt[r] = pushed[r]
             /\ ~held'[k].more => \A r \in Matches(row) :
                  \/ r \in held'[k].found \cup c.seen
                  \/ held'[k].truncated \/ row.truncated
             /\ \A j \in Slot : j # k => held'[j] = held[j]
             /\ UNCHANGED <<githubVars, stored, sweeps, windows>>
<1> DEFINE c == held[k]
           row == windows[c.window]
           rest == Matches(row) \ c.seen
<1>1. Busy(k)
  BY DEF Search, Busy
<1>2. PICK found \in SUBSET rest, more \in BOOLEAN, dense \in BOOLEAN :
        /\ ~more => (found = rest \/ dense \/ row.truncated)
        /\ held' = [held EXCEPT
             ![k].stage = "searched", ![k].found = found,
             ![k].pushedAt = [r \in Repo |-> IF r \in found THEN pushed[r] ELSE 0],
             ![k].more = more, ![k].truncated = dense]
  BY DEF Search
<1>3. found \subseteq Repo
  BY DEF Matches
<1> DEFINE at == [r \in Repo |-> IF r \in found THEN pushed[r] ELSE 0]
<1>4. \A r \in found : at[r] = pushed[r]
  BY <1>3
<1>5. held' = [held EXCEPT
         ![k].stage = "searched", ![k].found = found, ![k].pushedAt = at,
         ![k].more = more, ![k].truncated = dense]
  BY <1>2
<1> HIDE DEF at
<1>6. held'[k] = [c EXCEPT !.stage = "searched", !.found = found, !.pushedAt = at,
                           !.more = more, !.truncated = dense]
      /\ \A j \in Slot : j # k => held'[j] = held[j]
  BY <1>5 DEF Shape, TypeOK
<1>7. /\ held'[k].window = c.window /\ held'[k].seen = c.seen /\ held'[k].found = found
      /\ held'[k].pushedAt = at /\ held'[k].more = more /\ held'[k].truncated = dense
  BY <1>1, <1>6, BusyType DEF Copy
<1>8. ~held'[k].more => \A r \in Matches(row) :
        r \in held'[k].found \cup c.seen \/ held'[k].truncated \/ row.truncated
  BY <1>2, <1>7
<1>9. UNCHANGED <<githubVars, stored, sweeps, windows>>
  BY DEF Search, sweepVars
<1> QED BY <1>1, <1>3, <1>4, <1>6, <1>7, <1>8, <1>9

LEMMA SearchCopies ==
  ASSUME Shape, Shape', Fixed, Kept, NEW k \in Slot, Search(k), CopyReads
  PROVE  CopyReads'
<1> DEFINE c == held[k]
           row == windows[c.window]
<1>1. /\ Busy(k) /\ held'[k].window = c.window /\ held'[k].seen = c.seen
      /\ \A r \in held'[k].found : held'[k].pushedAt[r] = pushed[r]
      /\ ~held'[k].more => \A r \in Matches(row) :
           r \in held'[k].found \cup c.seen \/ held'[k].truncated \/ row.truncated
      /\ \A j \in Slot : j # k => held'[j] = held[j]
      /\ UNCHANGED <<githubVars, stored, sweeps, windows>>
  BY SearchEffect
<1>2. /\ pushed' = pushed /\ now' = now /\ stored' = stored
      /\ sweeps' = sweeps /\ windows' = windows
  BY <1>1 DEF githubVars
<1>3. CopySeenStored'
  <2> SUFFICES ASSUME NEW j \in Slot, NEW r \in Repo
               PROVE  Busy(j)' /\ r \in held'[j].seen /\ Due(r, SweepOf(j))' => r \in stored'
    BY DEF CopySeenStored
  <2>1. CASE j # k
    BY <1>1, <2>1, SameCopy
  <2>2. CASE j = k
    BY <1>1, <1>2, <2>2 DEF CopyReads, CopySeenStored, Due, Before, Oldest, SweepOf
  <2> QED BY <2>1, <2>2
<1>4. FoundFresh'
  <2> SUFFICES ASSUME NEW j \in Slot, NEW r \in Repo
               PROVE  /\ held'[j].stage = "searched" /\ r \in held'[j].found
                      /\ Before(r, SweepOf(j))'
                      => held'[j].pushedAt[r] = pushed'[r]
    BY DEF FoundFresh
  <2>1. CASE j # k
    BY <1>1, <2>1, SameCopy
  <2>2. CASE j = k
    BY <1>1, <1>2, <2>2
  <2> QED BY <2>1, <2>2
<1>5. LastPage'
  <2> SUFFICES ASSUME NEW j \in Slot, NEW r \in Repo
               PROVE  /\ held'[j].stage = "searched" /\ ~held'[j].more
                      /\ r \in Matches(windows[held[j].window])' /\ Due(r, SweepOf(j))'
                      => \/ r \in held'[j].found \cup held'[j].seen
                         \/ held'[j].truncated \/ windows'[held'[j].window].truncated
    BY DEF LastPage
  <2>1. CASE j # k
    BY <1>1, <2>1, SameCopy
  <2>2. CASE j = k
    BY <1>1, <1>2, <2>2 DEF Matches
  <2> QED BY <2>1, <2>2
<1> QED BY <1>3, <1>4, <1>5 DEF CopyReads

----------------------------------------------------------------------------
\* Committing a page.

\* The page's repositories that are due are stored with it.
LEMMA PageStored ==
  ASSUME Shape, CopyReads, NEW k \in Slot, CommitPage(k), NEW r \in Repo,
         r \in held[k].found \cup held[k].seen, Due(r, SweepOf(k))
  PROVE  r \in stored'
<1>1. Busy(k) /\ held[k].stage = "searched" /\ stored' = stored \cup Stored(held[k])
  BY DEF CommitPage, Busy
<1>2. CASE r \in held[k].seen
  BY <1>1, <1>2 DEF CopyReads, CopySeenStored
<1>3. CASE r \in held[k].found
  BY <1>1, <1>3 DEF CopyReads, FoundFresh, Due, Stored
<1> QED BY <1>2, <1>3

LEMMA CommitKept ==
  ASSUME Shape, NEW k \in Slot, CommitPage(k)
  PROVE  Kept
<1>1. /\ stored \subseteq stored' /\ pushed' = pushed /\ now' = now /\ now \in Nat
  BY DEF CommitPage, githubVars, Shape, TypeOK
<1>2. \A w \in Window : windows[w].truncated => windows'[w].truncated
  BY CommitEffect DEF Shape, TypeOK
<1> QED BY <1>1, <1>2 DEF Kept

LEMMA CommitReads ==
  ASSUME Shape, Shape', Fixed, NEW k \in Slot, CommitPage(k),
         SeenStored, CopyReads, DoneRead, AbsentWhole
  PROVE  SeenStored' /\ CopyReads' /\ DoneRead' /\ AbsentWhole'
<1> DEFINE c == held[k]
           v == held[k].window
           row == windows[v]
<1>1. /\ Busy(k) /\ windows' = [windows EXCEPT ![v] = windows'[v]]
      /\ windows'[v].status = (IF c.more THEN "pending" ELSE "done")
      /\ windows'[v].sweep = row.sweep /\ windows'[v].split = row.split
      /\ windows'[v].from = row.from /\ windows'[v].to = row.to
      /\ windows'[v].truncated = (row.truncated \/ c.truncated)
      /\ windows'[v].seen = (IF c.more THEN c.seen \cup c.found ELSE row.seen)
  <2>1. held[k].window \in Window
    BY CommitEffect, BusyType
  <2>2. windows' = [windows EXCEPT ![v] = Committed(c)] /\ windows'[v] = Committed(c)
    BY <2>1, CommitEffect DEF Shape, TypeOK
  <2>3. windows' = [windows EXCEPT ![v] = windows'[v]]
    BY <2>2
  <2> QED BY <2>2, <2>3, CommitEffect
<1>2. /\ pushed' = pushed /\ now' = now /\ sweeps' = sweeps /\ stored \subseteq stored'
      /\ \A j \in Slot : held'[j] = IF j = k THEN NoCopy ELSE held[j]
      /\ c.stage = "searched"
  BY DEF CommitPage, githubVars, sweepVars, Shape, TypeOK
<1>3. v \in Window /\ Here(v) /\ \A w \in Window : w # v => windows'[w] = windows[w]
  BY <1>1, BusyType DEF Here, Shape, TypeOK
<1>4. Kept
  BY CommitKept
<1>5. \A w \in Window : windows'[w].sweep = windows[w].sweep
  BY <1>1, <1>3
<1>6. SeenStored'
  <2> SUFFICES ASSUME NEW w \in Window, NEW r \in Repo, Here(w)', r \in windows'[w].seen,
                      Due(r, windows[w].sweep)'
               PROVE  r \in stored'
    BY DEF SeenStored
  <2>1. Due(r, windows[w].sweep)
    BY <1>2, <1>5 DEF Due, Before, Oldest
  <2>2. CASE w # v \/ ~c.more
    <3>1. Here(w) /\ r \in windows[w].seen
      BY <1>1, <1>3, <2>2 DEF Here
    <3> QED BY <1>2, <2>1, <3>1 DEF SeenStored
  <2>3. CASE w = v /\ c.more
    BY <1>1, <2>1, <2>3, PageStored DEF SweepOf
  <2> QED BY <2>2, <2>3
<1>7. DoneRead'
  <2> SUFFICES ASSUME NEW w \in Window, NEW r \in Repo,
                      windows'[w].status = "done", ~windows'[w].split,
                      ~windows'[w].truncated,
                      r \in Matches(windows[w])', Due(r, windows[w].sweep)'
               PROVE  r \in stored'
    BY DEF DoneRead
  <2>1. Due(r, windows[w].sweep)
    BY <1>2, <1>5 DEF Due, Before, Oldest
  <2>2. r \in Matches(windows[w])
    BY <1>1, <1>2, <1>3 DEF Matches
  <2>3. CASE w # v
    BY <1>2, <1>3, <2>1, <2>2, <2>3 DEF DoneRead
  <2>4. CASE w = v
    <3>1. ~c.more /\ ~row.truncated /\ ~c.truncated
      BY <1>1, <2>4
    <3>2. r \in c.found \cup c.seen
      BY <1>2, <2>1, <2>2, <2>4, <3>1 DEF CopyReads, LastPage, SweepOf
    <3> QED BY <2>1, <2>4, <3>2, PageStored DEF SweepOf
  <2> QED BY <2>3, <2>4
<1>8. AbsentWhole'
  BY <1>1, <1>3 DEF AbsentWhole, Here
<1>9. CopyReads'
  <2>1. CopySeenStored'
    BY <1>2, <1>4, SameCopy DEF CopySeenStored, NoCopy, Busy
  <2>2. FoundFresh'
    BY <1>2, <1>4, SameCopy DEF FoundFresh, NoCopy
  <2>3. LastPage'
    BY <1>2, <1>4, SameCopy DEF LastPage, NoCopy
  <2> QED BY <2>1, <2>2, <2>3 DEF CopyReads
<1> QED BY <1>6, <1>7, <1>8, <1>9

----------------------------------------------------------------------------
\* All together.

ReadInv == Shape /\ Reads /\ RangeNeverLost /\ EndedSweepsAreQuiet

LEMMA StepSkipped ==
  ASSUME ReadInv, Shape', Fixed, Kept, [Next]_vars
  PROVE  Skipped'
<1> SUFFICES ASSUME NEW s \in Sweep, NEW r \in Repo, Started(s)',
                    Oldest' <= pushed'[r], pushed'[r] < sweeps'[s].from
             PROVE  r \in stored' \/ Unlisted(r)'
  BY DEF Skipped
<1>1. Shape /\ AbsentWhole /\ Skipped
  BY DEF ReadInv, Reads
<1>2. CASE Started(s)
  BY <1>1, <1>2, KeepSkipped
<1>3. CASE ~Started(s)
  <2>1. Starting
    <3>1. CASE Ranged
      BY <1>3, <3>1 DEF Ranged, SameSweep, Started
    <3>2. CASE Halving
      BY <1>3, <3>2 DEF Halving, sweepVars, Started
    <3> QED BY <1>1, <3>1, <3>2, StepShape
  <2>2. PICK from \in Int : /\ StartsFrom(from)
                            /\ from = Oldest \/ \E d \in Done : from = sweeps[d].to
    BY <2>1 DEF Starting
  <2>3. s = nextSweep
    BY <1>1, <1>3, <2>2, StartElsewhere DEF Started
  <2>4. sweeps'[s].from = from
    BY <1>1, <2>2, <2>3 DEF StartsFrom, Shape, TypeOK
  <2>5. now' = now /\ pushed' = pushed
    BY <2>2 DEF StartsFrom, githubVars
  <2>6. Oldest <= pushed[r] /\ pushed[r] < from
    BY <2>4, <2>5 DEF Oldest
  <2>7. from # Oldest
    BY <1>1, <2>6, SettingsAssumption DEF Oldest, Shape, TypeOK
  <2>8. PICK d \in Done : from = sweeps[d].to
    BY <2>2, <2>7
  <2>9. NothingMissed
    BY ReadsAreEnough DEF ReadInv
  <2>10. r \in stored \/ Unlisted(r)
    BY <2>6, <2>8, <2>9 DEF NothingMissed, Unlisted
  <2> QED BY <1>1, <2>5, <2>10, UnlistedStays DEF Kept
<1> QED BY <1>2, <1>3

LEMMA StepReads ==
  ASSUME ReadInv, [Next]_vars
  PROVE  ReadInv'
<1>1. /\ Shape /\ SeenStored /\ CopyReads /\ DoneRead /\ AbsentWhole
      /\ RangeNeverLost /\ EndedSweepsAreQuiet
  BY DEF ReadInv, Reads, CopyReads
<1>2. Shape' /\ RangeNeverLost' /\ EndedSweepsAreQuiet'
  BY <1>1, StepShape, StepRangeNeverLost, StepQuiet
<1>3. Fixed
  BY <1>1, StepFixed
<1>4. Kept /\ SeenStored' /\ DoneRead' /\ AbsentWhole' /\ CopyReads'
  <2>1. CASE Still
    BY <1>1, <1>2, <1>3, <2>1, KeepWindows, KeepCopies DEF Still
  <2>2. ASSUME NEW k \in Slot, Search(k)
        PROVE  Kept /\ SeenStored' /\ DoneRead' /\ AbsentWhole' /\ CopyReads'
    <3>1. WindowsKeep
      BY <1>1, <2>2, SameWindows DEF Search
    <3>2. Kept
      BY <1>1, <2>2, <3>1, KeptWhere DEF Search
    <3> QED BY <1>1, <1>2, <1>3, <2>2, <3>1, <3>2, KeepWindows, SearchCopies
  <2>3. ASSUME NEW k \in Slot, CommitPage(k)
        PROVE  Kept /\ SeenStored' /\ DoneRead' /\ AbsentWhole' /\ CopyReads'
    BY <1>1, <1>2, <1>3, <2>3, CommitKept, CommitReads
  <2> QED BY <1>1, <2>1, <2>2, <2>3, StepStill
<1>5. Skipped'
  BY <1>2, <1>3, <1>4, StepSkipped
<1> QED BY <1>2, <1>4, <1>5 DEF ReadInv, Reads, CopyReads

LEMMA InitReads == Init => ReadInv
<1> SUFFICES ASSUME Init PROVE ReadInv
  OBVIOUS
<1>1. NoSweep.status = "absent" /\ NoWindow.status = "absent"
      /\ NoWindow.truncated = FALSE /\ NoCopy.stage = "none"
  BY DEF NoSweep, NoWindow, NoCopy
<1>2. /\ \A s \in Sweep : sweeps[s].status = "absent"
      /\ \A w \in Window : windows[w].status = "absent" /\ windows[w].truncated = FALSE
      /\ \A k \in Slot : held[k].stage = "none"
  BY <1>1 DEF Init
<1>3. Reads
  BY <1>2 DEF Reads, SeenStored, CopySeenStored, FoundFresh, LastPage, DoneRead, Skipped,
              AbsentWhole, Here, Started, Busy
<1>4. RangeNeverLost /\ EndedSweepsAreQuiet
  BY <1>2 DEF RangeNeverLost, EndedSweepsAreQuiet
<1> QED BY <1>3, <1>4, InitShape DEF ReadInv

\* The discovery watermark is honest: whatever the pushes, halvings, stale
\* copies, retries and failures between its start and its end, a done sweep has
\* stored every repository pushed before its pushed_to that still qualifies,
\* windows that GitHub would not list in full aside.
THEOREM WatermarkHonest == Spec => []NothingMissed
<1>1. ReadInv /\ [Next]_vars => ReadInv'
  BY StepReads
<1>2. ReadInv => NothingMissed
  BY ReadsAreEnough DEF ReadInv
<1> QED BY <1>1, <1>2, InitReads, PTL DEF Spec

\* With any number of copies of a window in the hands of workers, neither a
\* finished window comes back nor a repository is lost between a cursor and its
\* rows (discovery.go, fenceWindow and processDiscoveryWindow).
THEOREM StaleCopiesAreHarmless == Spec => []StaleCopiesLoseNothing
<1>1. EndedSweepsAreQuiet /\ NothingMissed => StaleCopiesLoseNothing
  BY DEF StaleCopiesLoseNothing
<1> QED BY <1>1, EndedIsQuiet, WatermarkHonest, PTL
===============================================================================
