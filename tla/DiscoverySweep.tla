--------------------------- MODULE DiscoverySweep --------------------------
(***************************************************************************)
(* The Discovery Sweeper (backend/internal/ingest/discovery.go): sweeps     *)
(* over ranges of pushed dates, split into windows that are a leased and    *)
(* fenced queue, searched on GitHub page by page, halved when too dense,    *)
(* retried when they failed; and the discovery watermark, from which the    *)
(* next incremental sweep starts.                                           *)
(*                                                                          *)
(* Times are whole seconds, as search compares them.  Repo are repositories *)
(* that are not excluded and pass Eligible as long as they were pushed      *)
(* within pushed_within_days; one that starts to qualify without a push,    *)
(* which only a full sweep can find, is left out.  next_retry_at and the    *)
(* lease's expiry are left out: a pending window may be claimed, and a      *)
(* lease taken back, at any time.  A cursor of GitHub's search is taken to  *)
(* stand past what the pages before it returned.                            *)
(***************************************************************************)
EXTENDS Integers

CONSTANTS
  Repo,         \* repositories on GitHub that qualify
  Owner,        \* lease owners: one per coordinator process ever started
  Slot,         \* in-flight copies of windows
  Null,         \* SQL's NULL
  Within,       \* ingest.eligibility.pushed_within_days
  Width,        \* ingest.discovery.window_hours
  MinSpan,      \* ingest.discovery.min_window_seconds
  MaxAttempts,  \* ingest.max_attempts
  MaxTime,      \* bound on time
  MaxSweeps,    \* bound on the sweeps ever started
  MaxWindows    \* bound on the windows ever inserted

ASSUME NullAssumption == Null \notin Owner
ASSUME SettingsAssumption ==
  /\ Within \in Nat \ {0} /\ Width \in Nat \ {0} /\ MinSpan \in Nat
  /\ MaxAttempts \in Nat \ {0}
ASSUME BoundsAssumption == MaxTime \in Nat /\ MaxSweeps \in Nat /\ MaxWindows \in Nat

VARIABLES
  now,
  pushed,      \* pushed_at of each repository on GitHub
  stored,      \* repositories in the table repositories
  sweeps,      \* the rows of discovery_sweeps
  nextSweep,
  windows,     \* the rows of discovery_windows
  nextWindow,
  held         \* the in-flight copy in each slot of the discovery pool

githubVars == <<now, pushed>>
sweepVars == <<sweeps, nextSweep>>
vars == <<githubVars, stored, sweepVars, windows, nextWindow, held>>

Sweep == 1..MaxSweeps
Window == 1..MaxWindows

SweepRow == [status: {"absent", "running", "done", "failed"}, from: Int, to: Int]
NoSweep == [status |-> "absent", from |-> 0, to |-> 0]

\* "begun" once there is a cursor, "seen" what it stands past.
WindowRow == [sweep: 0..MaxSweeps, from: Int, to: Int,
              status: {"absent", "pending", "running", "done", "failed"},
              owner: Owner \cup {Null}, begun: BOOLEAN, seen: SUBSET Repo,
              split: BOOLEAN, truncated: BOOLEAN, attempts: Nat]
NoWindow == [sweep |-> 0, from |-> 0, to |-> 0, status |-> "absent", owner |-> Null,
             begun |-> FALSE, seen |-> {}, split |-> FALSE, truncated |-> FALSE, attempts |-> 0]

\* A claimed window, and once searched the page GitHub answered: the
\* repositories it found, with their pushed_at; or that it is to be halved.
Copy == [stage: {"none", "claimed", "searched", "splitting"}, window: 0..MaxWindows,
         owner: Owner \cup {Null}, begun: BOOLEAN, seen: SUBSET Repo, attempts: Nat,
         found: SUBSET Repo, pushedAt: [Repo -> Int], more: BOOLEAN, truncated: BOOLEAN]
NoCopy == [stage |-> "none", window |-> 0, owner |-> Null,
           begun |-> FALSE, seen |-> {}, attempts |-> 0,
           found |-> {}, pushedAt |-> [r \in Repo |-> 0], more |-> FALSE, truncated |-> FALSE]

TypeOK ==
  /\ now \in Nat
  /\ pushed \in [Repo -> Int]
  /\ stored \subseteq Repo
  /\ sweeps \in [Sweep -> SweepRow] /\ nextSweep \in Nat \ {0}
  /\ windows \in [Window -> WindowRow] /\ nextWindow \in Nat \ {0}
  /\ \A s \in Sweep : sweeps[s].status # "absent" => sweeps[s].from < sweeps[s].to
  /\ \A w \in Window : windows[w].status # "absent" => windows[w].from < windows[w].to
  /\ held \in [Slot -> Copy]

Init ==
  /\ now = Within
  /\ pushed \in [Repo -> 0..Within]
  /\ stored = {}
  /\ sweeps = [s \in Sweep |-> NoSweep] /\ nextSweep = 1
  /\ windows = [w \in Window |-> NoWindow] /\ nextWindow = 1
  /\ held = [k \in Slot |-> NoCopy]

----------------------------------------------------------------------------
\* State helpers.

Of(s) == {w \in Window : windows[w].status # "absent" /\ windows[w].sweep = s}
Done == {s \in Sweep : sweeps[s].status = "done"}
Open(w) == windows[w].status \in {"pending", "running"}
Busy(k) == held[k].stage # "none"

\* Mutant: a window's writes are not fenced.
Mutant_Unfenced(c) == windows[c.window].status # "absent"

\* fenceWindow
Fenced(c) == windows[c.window].status = "running" /\ windows[c.window].owner = c.owner

Unleased(row, status) == [row EXCEPT !.status = status, !.owner = Null]

\* A fresh window of a sweep.
Fresh(s, from, to) ==
  [NoWindow EXCEPT !.sweep = s, !.from = from, !.to = to, !.status = "pending"]

----------------------------------------------------------------------------
\* GitHub: time passes and repositories are pushed to.

Tick ==
  /\ now < MaxTime
  /\ now' = now + 1
  /\ UNCHANGED <<pushed, stored, sweepVars, windows, nextWindow, held>>

Push(r) ==
  /\ pushed' = [pushed EXCEPT ![r] = now]
  /\ UNCHANGED <<now, stored, sweepVars, windows, nextWindow, held>>

----------------------------------------------------------------------------
\* Sweeps.

Oldest == now - Within

\* Where a sweep starts: an incremental one at the latest pushed_to of a done
\* sweep, but nothing older than a full sweep reads.
StartsAt(kind) ==
  IF kind = "full" \/ Done = {} THEN {Oldest}
  ELSE {from \in {Oldest} \cup {sweeps[s].to : s \in Done} :
          from >= Oldest /\ \A s \in Done : sweeps[s].to <= from}

\* generate_series: the windows of a range, Width apart, the last cut short.
Count(from, to) == (to - from - 1) \div Width + 1
Nth(s, from, to, n) ==
  LET start == from + n * Width IN
  Fresh(s, start, IF start + Width < to THEN start + Width ELSE to)

\* StartSweep, by the schedule or the admin trigger: no sweep may be running.
StartSweep(kind) ==
  /\ nextSweep \in Sweep
  /\ \A s \in Sweep : sweeps[s].status # "running"
  /\ \E from \in StartsAt(kind) :
       /\ from < now
       /\ nextWindow + Count(from, now) - 1 <= MaxWindows
       /\ sweeps' = [sweeps EXCEPT ![nextSweep] =
                       [status |-> "running", from |-> from, to |-> now]]
       /\ windows' = [w \in Window |->
            IF w >= nextWindow /\ w < nextWindow + Count(from, now)
            THEN Nth(nextSweep, from, now, w - nextWindow) ELSE windows[w]]
       /\ nextWindow' = nextWindow + Count(from, now)
  /\ nextSweep' = nextSweep + 1
  /\ UNCHANGED <<githubVars, stored, held>>

\* Mutant: a sweep ends when nothing is waiting.
Mutant_Ended(s) == \A w \in Of(s) : windows[w].status # "pending"

Ended(s) == \A w \in Of(s) : ~Open(w)

\* CompleteSweeps
CompleteSweeps ==
  /\ \E s \in Sweep : sweeps[s].status = "running" /\ Ended(s)
  /\ sweeps' = [s \in Sweep |->
       IF sweeps[s].status = "running" /\ Ended(s)
       THEN [sweeps[s] EXCEPT !.status =
               IF \E w \in Of(s) : windows[w].status = "failed" THEN "failed" ELSE "done"]
       ELSE sweeps[s]]
  /\ UNCHANGED <<githubVars, stored, nextSweep, windows, nextWindow, held>>

\* RetryFailedSweep reopens the latest sweep and its failed windows.
RetryFailedSweep ==
  LET s == nextSweep - 1 IN
  /\ s \in Sweep /\ sweeps[s].status = "failed"
  /\ \A t \in Sweep : sweeps[t].status # "running"
  /\ sweeps' = [sweeps EXCEPT ![s].status = "running"]
  /\ windows' = [w \in Window |->
       IF w \in Of(s) /\ windows[w].status = "failed"
       THEN [Unleased(windows[w], "pending") EXCEPT !.attempts = 0] ELSE windows[w]]
  /\ UNCHANGED <<githubVars, stored, nextSweep, nextWindow, held>>

----------------------------------------------------------------------------
\* Windows.

\* ClaimDiscoveryWindows and Submit.
Claim(o, k, w) ==
  /\ ~Busy(k)
  /\ windows[w].status = "pending"
  /\ sweeps[windows[w].sweep].status = "running"
  /\ windows' = [windows EXCEPT ![w].status = "running", ![w].owner = o]
  /\ held' = [held EXCEPT ![k] =
       [NoCopy EXCEPT !.stage = "claimed", !.window = w, !.owner = o,
                      !.begun = windows[w].begun, !.seen = windows[w].seen,
                      !.attempts = windows[w].attempts]]
  /\ UNCHANGED <<githubVars, stored, sweepVars, nextWindow>>

\* ReclaimExpiredDiscoveryLeases, of any lease that has lapsed.
Reclaim(w) ==
  /\ windows[w].status = "running"
  /\ windows' = [windows EXCEPT ![w] = Unleased(@, "pending")]
  /\ UNCHANGED <<githubVars, stored, sweepVars, nextWindow, held>>

\* ReleaseDiscoveryWindow: the budget is spent or the pool is full.
ReleaseWindow(k) ==
  /\ held[k].stage = "claimed" /\ Fenced(held[k])
  /\ windows' = [windows EXCEPT ![held[k].window] = Unleased(@, "pending")]
  /\ held' = [held EXCEPT ![k] = NoCopy]
  /\ UNCHANGED <<githubVars, stored, sweepVars, nextWindow>>

\* handleDiscoveryError and FailDiscoveryWindow.
FailWindow(k) ==
  /\ held[k].stage = "claimed" /\ Fenced(held[k])
  /\ LET attempt == held[k].attempts + 1
         status == IF attempt >= MaxAttempts THEN "failed" ELSE "pending"
     IN  windows' = [windows EXCEPT ![held[k].window] =
                       [Unleased(@, status) EXCEPT !.attempts = attempt]]
  /\ held' = [held EXCEPT ![k] = NoCopy]
  /\ UNCHANGED <<githubVars, stored, sweepVars, nextWindow>>

\* The fence does not hold (ErrLeaseLost), the process ended, there was no
\* token, or the transaction failed: the copy is gone.
Abandon(k) ==
  /\ Busy(k)
  /\ held' = [held EXCEPT ![k] = NoCopy]
  /\ UNCHANGED <<githubVars, stored, sweepVars, windows, nextWindow>>

Matches(row) == {r \in Repo : row.from <= pushed[r] /\ pushed[r] <= row.to}

\* splitPoint
Middle(row) == row.from + (row.to - row.from) \div 2

\* Mutant: a window at the minimum span is halved once more.
Mutant_SplitsAnything(row) == row.to - row.from >= MinSpan

Splittable(row) ==
  /\ row.to - row.from > MinSpan
  /\ row.from < Middle(row) /\ Middle(row) < row.to

\* SearchRepositories, when GitHub reports more than SearchResultCap matches
\* with the first page of a window that can be halved: the page is dropped.
SearchDense(k) ==
  /\ held[k].stage = "claimed" /\ ~held[k].begun
  /\ Splittable(windows[held[k].window])
  /\ held' = [held EXCEPT ![k].stage = "splitting"]
  /\ UNCHANGED <<githubVars, stored, sweepVars, windows, nextWindow>>

\* SearchRepositories: a page of what matches and the cursor does not stand
\* past, among repositories that do not qualify.  A window that cannot be
\* halved may match more than GitHub lists: it is truncated.
Search(k) ==
  LET c == held[k]
      row == windows[c.window]
      rest == Matches(row) \ c.seen
  IN  /\ c.stage = "claimed"
      /\ \E found \in SUBSET rest, more, dense \in BOOLEAN :
           /\ dense => ~c.begun /\ ~Splittable(row)
           /\ ~more => found = rest \/ dense \/ row.truncated
           /\ held' = [held EXCEPT
                ![k].stage = "searched", ![k].found = found,
                ![k].pushedAt = [r \in Repo |-> IF r \in found THEN pushed[r] ELSE 0],
                ![k].more = more, ![k].truncated = dense]
      /\ UNCHANGED <<githubVars, stored, sweepVars, windows, nextWindow>>

\* Mutant: the second half starts a second late.
Mutant_Halves(s, row) ==
  <<Fresh(s, row.from, Middle(row)), Fresh(s, Middle(row) + 1, row.to)>>

Halves(s, row) ==
  <<Fresh(s, row.from, Middle(row)), Fresh(s, Middle(row), row.to)>>

\* splitWindowTx: the window is replaced by its halves; nothing is stored.
SplitWindow(k) ==
  LET c == held[k]
      row == windows[c.window]
      halves == Halves(row.sweep, row)
  IN  /\ c.stage = "splitting" /\ Fenced(c)
      /\ nextWindow + 1 \in Window
      /\ windows' = [windows EXCEPT
           ![c.window] = [Unleased(@, "done") EXCEPT !.split = TRUE],
           ![nextWindow] = halves[1], ![nextWindow + 1] = halves[2]]
      /\ nextWindow' = nextWindow + 2
      /\ held' = [held EXCEPT ![k] = NoCopy]
      /\ UNCHANGED <<githubVars, stored, sweepVars>>

\* upsertDiscoveredTx, of a page: what was pushed recently enough to qualify.
Stored(c) == {r \in c.found : c.pushedAt[r] >= Oldest}

\* The window after a page: behind the cursor, or done.
Committed(c) ==
  LET row == windows[c.window]
      status == IF c.more THEN "pending" ELSE "done"
  IN  [Unleased(row, status) EXCEPT
         !.attempts = 0, !.truncated = row.truncated \/ c.truncated,
         !.begun = row.begun \/ c.more,
         !.seen = IF c.more THEN c.seen \cup c.found ELSE row.seen]

\* Mutant: the cursor advances though the page's repositories are not stored.
Mutant_CommitCursorOnly(k) ==
  LET c == held[k] IN
  /\ c.stage = "searched" /\ Fenced(c)
  /\ stored' = IF c.more THEN stored ELSE stored \cup Stored(c)
  /\ windows' = [windows EXCEPT ![c.window] = Committed(c)]
  /\ held' = [held EXCEPT ![k] = NoCopy]
  /\ UNCHANGED <<githubVars, sweepVars, nextWindow>>

\* The page's transaction: its repositories and the cursor, or the end.
CommitPage(k) ==
  LET c == held[k] IN
  /\ c.stage = "searched" /\ Fenced(c)
  /\ stored' = stored \cup Stored(c)
  /\ windows' = [windows EXCEPT ![c.window] = Committed(c)]
  /\ held' = [held EXCEPT ![k] = NoCopy]
  /\ UNCHANGED <<githubVars, sweepVars, nextWindow>>

----------------------------------------------------------------------------
Next ==
  \/ Tick
  \/ \E r \in Repo : Push(r)
  \/ \E kind \in {"full", "incremental"} : StartSweep(kind)
  \/ CompleteSweeps
  \/ RetryFailedSweep
  \/ \E o \in Owner, k \in Slot, w \in Window : Claim(o, k, w)
  \/ \E w \in Window : Reclaim(w)
  \/ \E k \in Slot : \/ ReleaseWindow(k) \/ FailWindow(k) \/ Abandon(k)
                     \/ Search(k) \/ SearchDense(k) \/ SplitWindow(k) \/ CommitPage(k)

Spec == Init /\ [][Next]_vars

----------------------------------------------------------------------------
\* Safety.

\* The windows of a sweep that were not split.
Leaves(s) == {w \in Of(s) : ~windows[w].split}

\* The range of a sweep is never lost: whatever was split, retried or
\* searched by a stale worker, each second of it is within some window
\* (splitWindowTx: "the range is never lost or doubled").
RangeNeverLost ==
  \A s \in Sweep : sweeps[s].status # "absent" =>
    \A t \in sweeps[s].from..(sweeps[s].to - 1) :
      \E w \in Leaves(s) : windows[w].from <= t /\ t < windows[w].to

\* Nor is it doubled: two windows of a sweep share at most a boundary second.
RangeNeverDoubled ==
  \A s \in Sweep : \A v, w \in Leaves(s) :
    v # w => windows[v].to <= windows[w].from \/ windows[w].to <= windows[v].from

\* A sweep that has ended has no window left to search, also none a stale
\* worker brings back; a done one has no failed window either.
EndedSweepsAreQuiet ==
  \A s \in Sweep :
    /\ sweeps[s].status \in {"done", "failed"} => \A w \in Of(s) : ~Open(w)
    /\ sweeps[s].status = "done" => \A w \in Of(s) : windows[w].status = "done"

\* The discovery watermark is honest: a repository pushed before the pushed_to
\* of a done sweep, and recently enough to qualify, is stored, unless its
\* window was read only in part because GitHub would not list all of it.
NothingMissed ==
  \A s \in Done, r \in Repo :
    /\ Oldest <= pushed[r] /\ pushed[r] < sweeps[s].to
    /\ \A w \in Window : windows[w].truncated => r \notin Matches(windows[w])
    => r \in stored

\* Two copies of a sweep's windows, one perhaps stalled past its lease, neither
\* bring a finished window back nor lose a repository between a cursor and its
\* rows (discovery.go, fenceWindow and processDiscoveryWindow).
StaleCopiesLoseNothing == EndedSweepsAreQuiet /\ NothingMissed
===============================================================================
