---------------------------- MODULE PassLedger -----------------------------
(***************************************************************************)
(* What the crawl queue promises of each repository, without jobs, leases,  *)
(* workers or processes: passes that follow one another.  A pass starts at  *)
(* a time of its own, reading from nothing or from the watermark; its pages *)
(* are committed in order, some perhaps again; it ends by setting the       *)
(* watermark to its start, or is given up.                                  *)
(***************************************************************************)
EXTENDS Naturals

CONSTANTS Repo, Time

VARIABLES
  clock,    \* the next start time
  pass,     \* the start of the pass in progress, 0 for none
  since,    \* the watermark that pass reads from
  reached,  \* the pages of it its cursor stands past
  through,  \* the watermark: the start of the last completed pass
  rows      \* the pages committed, per pass

ledgerVars == <<clock, pass, since, reached, through, rows>>

Init ==
  /\ clock = 1
  /\ pass = [r \in Repo |-> 0]
  /\ since = [r \in Repo |-> 0]
  /\ reached = [r \in Repo |-> 0]
  /\ through = [r \in Repo |-> 0]
  /\ rows = [t \in Time |-> {}]

Begin(r) ==
  /\ pass[r] = 0
  /\ clock \in Time
  /\ pass' = [pass EXCEPT ![r] = clock]
  /\ since' \in {[since EXCEPT ![r] = from] : from \in {0, through[r]}}
  /\ reached' = [reached EXCEPT ![r] = 0]
  /\ clock' = clock + 1
  /\ UNCHANGED <<through, rows>>

\* Where a page may follow: nowhere yet, or after a page that is committed with
\* all before it.
Follows(r) == {n \in {0} \cup rows[pass[r]] : 1..n \subseteq rows[pass[r]]}

\* A page of the pass in progress is committed after all before it.  It need
\* not be the one the cursor stands before: a stale worker commits a page
\* again, or goes on from where another stale one has moved the cursor back.
\* The clock may move.
ReadPage(r) ==
  /\ pass[r] # 0
  /\ \E n \in Follows(r) :
       /\ rows' = [rows EXCEPT ![pass[r]] = @ \cup {n + 1}]
       /\ reached' = [reached EXCEPT ![r] = n + 1]
  /\ clock' \in {clock, clock + 1}
  /\ UNCHANGED <<pass, since, through>>

\* The last page: the watermark is the start of the pass, and nothing older.
Complete(r) ==
  /\ pass[r] # 0
  /\ \E n \in Follows(r) : rows' = [rows EXCEPT ![pass[r]] = @ \cup {n + 1}]
  /\ through' = [through EXCEPT ![r] = pass[r]]
  /\ pass' = [pass EXCEPT ![r] = 0]
  /\ since' = [since EXCEPT ![r] = 0]
  /\ reached' = [reached EXCEPT ![r] = 0]
  /\ UNCHANGED clock

GiveUp(r) ==
  /\ pass[r] # 0
  /\ pass' = [pass EXCEPT ![r] = 0]
  /\ since' = [since EXCEPT ![r] = 0]
  /\ reached' = [reached EXCEPT ![r] = 0]
  /\ UNCHANGED <<clock, through, rows>>

Next == \E r \in Repo : Begin(r) \/ ReadPage(r) \/ Complete(r) \/ GiveUp(r)

Spec == Init /\ [][Next]_ledgerVars
=============================================================================
