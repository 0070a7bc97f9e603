---------------------------- MODULE GitHubBudget ----------------------------
(***************************************************************************)
(* Spending GitHub's points (backend/internal/ingest/budget.go and its     *)
(* callers in worker.go and bodies.go; github/graphql.go, github/errors.go).*)
(* GitHub counts points per credential and hour; the processes of both      *)
(* lanes learn the count from the answers of their own calls, which they    *)
(* record in any order, and ask before a call whether it may be made.       *)
(***************************************************************************)
EXTENDS Integers, FiniteSets

CONSTANTS
  Crawl, Interactive,  \* the calls that may be under way at once on each lane
  Limit,       \* points of a window
  Floor,       \* ingest.rate_limit_floor
  Reserve,     \* ingest.interactive_reserve_percent of the limit, in points
  WindowLen,   \* hours tick in this many steps
  Pauses,      \* how long a rate limited answer may ask to wait, over the default
  MaxClock,    \* bound on time
  MaxBlind     \* bound on budget reads and writes that fail

VARIABLES
  clock,
  left,     \* points GitHub has left in this window
  budget,   \* github_budget, a row per lane
  calls,    \* each call slot
  blind,    \* history: budget reads and writes that failed in this window
  under     \* history: points the crawl spent in this window below its floor

gitHubBudgetVars == <<clock, left, budget, calls, blind, under>>

Lane == {"crawler", "interactive"}
LaneOf(c) == IF c \in Crawl THEN "crawler" ELSE "interactive"
Window(t) == t \div WindowLen
ResetAt(t) == (Window(t) + 1) * WindowLen
Clock == 0..MaxClock
None == -1

\* remaining None: no telemetry yet; pause: secondary_until.
BudgetRow == [remaining: None..Limit, reset: 0..(MaxClock + WindowLen), pause: Nat]
Idle == [step |-> "idle", remaining |-> 0, reset |-> 0, wait |-> 0]

TypeOK ==
  /\ clock \in Clock /\ left \in 0..Limit
  /\ budget \in [Lane -> BudgetRow]
  /\ \A c \in Crawl \cup Interactive :
       /\ calls[c].step \in {"idle", "allowed", "answered", "limited"}
       /\ calls[c].remaining \in 0..Limit
  /\ blind \in 0..MaxBlind /\ under \in 0..Limit

Init ==
  /\ clock = 0 /\ left = Limit
  /\ budget = [l \in Lane |-> [remaining |-> None, reset |-> 0, pause |-> 0]]
  /\ calls = [c \in Crawl \cup Interactive |-> Idle]
  /\ blind = 0 /\ under = 0

\* Time passes; GitHub refills the budget at the end of its window.
Tick ==
  /\ clock < MaxClock /\ clock' = clock + 1
  /\ IF Window(clock') = Window(clock) THEN UNCHANGED <<left, blind, under>>
     ELSE left' = Limit /\ blind' = 0 /\ under' = 0
  /\ UNCHANGED <<budget, calls>>

----------------------------------------------------------------------------
Known == {l \in Lane : budget[l].remaining # None}
Newest == {l \in Known : \A m \in Known : budget[m].reset <= budget[l].reset}

\* Mutant: the highest count of the newest window.
Mutant_Enough(lane, floor) ==
  Newest = {} \/ \E l \in Newest : clock >= budget[l].reset \/ budget[l].remaining >= floor

\* The lowest count among the rows of the newest window, whichever lane saw it.
Enough(lane, floor) ==
  \/ Newest = {}
  \/ \A l \in Newest : clock >= budget[l].reset \/ budget[l].remaining >= floor

FloorOf(lane) == IF lane = "crawler" THEN Floor + Reserve ELSE Floor

\* CanProceed: no pause in force on any lane, and enough left for this one.
CanProceed(lane) ==
  (\A l \in Lane : clock >= budget[l].pause) /\ Enough(lane, FloorOf(lane))

\* A caller asks.  When the budget cannot be read the crawl goes ahead, and
\* FetchIssueBody gives up.
Ask(c) ==
  /\ calls[c].step = "idle"
  /\ \/ CanProceed(LaneOf(c)) /\ UNCHANGED blind
     \/ LaneOf(c) = "crawler" /\ blind < MaxBlind /\ blind' = blind + 1
  /\ calls' = [calls EXCEPT ![c].step = "allowed"]
  /\ UNCHANGED <<clock, left, budget, under>>

\* GitHub counts the call and answers with the rateLimit block, or refuses it.
Answer(c) ==
  /\ calls[c].step = "allowed" /\ left > 0
  /\ left' = left - 1
  /\ calls' = [calls EXCEPT ![c] =
       [Idle EXCEPT !.step = "answered", !.remaining = left - 1, !.reset = ResetAt(clock)]]
  /\ under' = under + IF LaneOf(c) = "crawler" /\ left < FloorOf("crawler") THEN 1 ELSE 0
  /\ UNCHANGED <<clock, budget, blind>>

\* newHTTPError, RATE_LIMITED: the primary or the secondary limit, with the
\* time it asks for (Retry-After, or the reset of the primary one).
Refuse(c, wait) ==
  /\ calls[c].step = "allowed"
  /\ calls' = [calls EXCEPT ![c] = [Idle EXCEPT !.step = "limited", !.wait = wait]]
  /\ UNCHANGED <<clock, left, budget, blind, under>>

\* Any other failure, or the process ended.
Drop(c) ==
  /\ calls[c].step # "idle"
  /\ calls' = [calls EXCEPT ![c] = Idle]
  /\ IF calls[c].step = "answered" THEN blind < MaxBlind /\ blind' = blind + 1
     ELSE UNCHANGED blind
  /\ UNCHANGED <<clock, left, budget, under>>

\* UpdateBudget: the lane's row is what this answer says, newer or older.
UpdateBudget(c) ==
  /\ calls[c].step = "answered"
  /\ budget' = [budget EXCEPT ![LaneOf(c)] =
       [@ EXCEPT !.remaining = calls[c].remaining, !.reset = calls[c].reset]]
  /\ calls' = [calls EXCEPT ![c] = Idle]
  /\ UNCHANGED <<clock, left, blind, under>>

\* MarkSecondaryLimit, until rateLimitPause from now.
MarkSecondaryLimit(c) ==
  /\ calls[c].step = "limited"
  /\ budget' = [budget EXCEPT ![LaneOf(c)].pause = clock + calls[c].wait]
  /\ calls' = [calls EXCEPT ![c] = Idle]
  /\ UNCHANGED <<clock, left, blind, under>>

Next ==
  \/ Tick
  \/ \E c \in Crawl \cup Interactive :
       Ask(c) \/ Answer(c) \/ Drop(c) \/ UpdateBudget(c) \/ MarkSecondaryLimit(c)
       \/ \E wait \in Pauses : Refuse(c, wait)

Spec == Init /\ [][Next]_gitHubBudgetVars

----------------------------------------------------------------------------
(* The crawl leaves the interactive reserve alone, though n calls of its own  *)
(* are under way at once and their answers are recorded in any order: in a    *)
(* window it spends at most n + (n-1) + ... + 1 points below its floor, and   *)
(* as many again for each budget read or write that failed (budget.go: "the   *)
(* crawler lane stops while a reserve ... is still left").                    *)
ReserveKept ==
  LET n == Cardinality(Crawl) IN under <= (1 + blind) * ((n * (n + 1)) \div 2)
=============================================================================
