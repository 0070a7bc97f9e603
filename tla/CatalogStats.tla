------------------------------ MODULE CatalogStats ------------------------------
(***************************************************************************)
(* The live catalog counts: triggers append a delta for every statement     *)
(* that writes issues (migration 00043), RollupStats (ingest/stats.go)      *)
(* folds the deltas into the totals and now and then recounts them, in one  *)
(* REPEATABLE READ transaction.                                             *)
(*                                                                          *)
(* A writer's rows and deltas become visible together when it commits; a    *)
(* rollup works on its snapshot, and fails if another rollup committed      *)
(* since: both rewrite the totals.  The daily and activity rows, which are  *)
(* folded from the same deltas, and the count of repositories are left out. *)
(***************************************************************************)
EXTENDS Integers, FiniteSets

CONSTANTS
  Entry,     \* issues that may be stored
  Ingester,  \* ingester processes
  MaxWrites  \* bound on the writes, which name their deltas

VARIABLES
  catalog,   \* the committed state of every issue
  deltas,    \* catalog_stat_deltas
  totals,    \* catalog_stats; Unseeded until the first recount
  rollup,    \* each process's rollup: its snapshot, if one is running
  history    \* history: the writes, and the closings among them

catalogStatsVars == <<catalog, deltas, totals, rollup, history>>

State == {"NONE", "OPEN", "CLOSED"}
Delta == [id: 1..MaxWrites, indexed: 0..1, opened: -1..1, closed: 0..1]
Unseeded == [seeded |-> FALSE, open |-> 0, indexed |-> 0, closed |-> 0]
NoRollup == [running |-> FALSE, catalog |-> [i \in Entry |-> "NONE"], deltas |-> {},
             overtaken |-> FALSE, recount |-> FALSE]

TypeOK ==
  /\ catalog \in [Entry -> State] /\ deltas \subseteq Delta
  /\ totals \in [seeded: BOOLEAN, open: Int, indexed: Nat, closed: Nat]
  /\ rollup \in [Ingester -> [running: BOOLEAN, catalog: [Entry -> State], deltas: SUBSET Delta,
                              overtaken: BOOLEAN, recount: BOOLEAN]]
  /\ history \in [writes: 0..MaxWrites, closed: Nat]

\* The migration finds issues in the table already.
Init ==
  /\ catalog \in [Entry -> State]
  /\ deltas = {} /\ totals = Unseeded
  /\ rollup = [p \in Ingester |-> NoRollup]
  /\ history = [writes |-> 0, closed |-> 0]

----------------------------------------------------------------------------
One(b) == IF b THEN 1 ELSE 0

\* What the triggers note of a row that goes from one state to another.
DeltaOf(from, to) ==
  [id |-> history.writes + 1,
   indexed |-> One(from = "NONE"),
   opened |-> One(to = "OPEN") - One(from = "OPEN"),
   closed |-> One(from = "OPEN" /\ to = "CLOSED")]

\* The crawl, the archive, the tracked-issue check, a webhook or a prune.
WriteIssue(i, to) ==
  LET d == DeltaOf(catalog[i], to) IN
  /\ catalog[i] # to /\ history.writes < MaxWrites
  /\ catalog' = [catalog EXCEPT ![i] = to]
  /\ deltas' = deltas \cup {d}
  /\ history' = [writes |-> d.id, closed |-> history.closed + d.closed]
  /\ UNCHANGED <<totals, rollup>>

\* The sum of a field, which is -1, 0 or 1 in every delta.
Count(ds, field, v) == Cardinality({d \in ds : d[field] = v})
Sum(ds, field) == Count(ds, field, 1) - Count(ds, field, -1)

OpenIn(c) == Cardinality({i \in Entry : c[i] = "OPEN"})
StoredIn(c) == Cardinality({i \in Entry : c[i] # "NONE"})

BeginRollup(p, recount) ==
  /\ ~rollup[p].running
  /\ rollup' = [rollup EXCEPT ![p] = [running |-> TRUE, catalog |-> catalog, deltas |-> deltas,
                                      overtaken |-> FALSE, recount |-> recount]]
  /\ UNCHANGED <<catalog, deltas, totals, history>>

\* Mutant: the recount is a statement of its own, after the fold's snapshot.
Mutant_Counted(s) == catalog

\* The issues a recount counts.
Counted(s) == s.catalog

\* Totals that exist are moved by the deltas; a recount sets the open issues,
\* and the indexed ones only where they are missing.
Folded(s) ==
  LET t == totals
      indexed == t.indexed + Sum(s.deltas, "indexed")
      open == t.open + Sum(s.deltas, "opened") IN
  [seeded |-> t.seeded \/ s.recount,
   closed |-> t.closed + Sum(s.deltas, "closed"),
   indexed |-> IF t.seeded THEN indexed ELSE IF s.recount THEN StoredIn(Counted(s)) ELSE 0,
   open |-> IF s.recount THEN OpenIn(Counted(s)) ELSE IF t.seeded THEN open ELSE 0]

\* Mutant: rollups read what is committed, and take turns on the totals.
Mutant_CommitRollup(p) ==
  LET s == rollup[p] IN
  /\ s.running
  /\ totals' = Folded(s)
  /\ deltas' = deltas \ s.deltas
  /\ rollup' = [rollup EXCEPT ![p] = NoRollup]
  /\ UNCHANGED <<catalog, history>>

\* The first to commit wins: one that rewrote the same totals since cannot.
CommitRollup(p) ==
  LET s == rollup[p] IN
  /\ s.running /\ ~s.overtaken
  /\ totals' = Folded(s)
  /\ deltas' = deltas \ s.deltas
  /\ rollup' = [q \in Ingester |-> IF q = p \/ ~rollup[q].running THEN NoRollup
                                   ELSE [rollup[q] EXCEPT !.overtaken = TRUE]]
  /\ UNCHANGED <<catalog, history>>

\* A failed statement, a conflict or a shutdown: nothing is kept.
AbortRollup(p) ==
  /\ rollup[p].running
  /\ rollup' = [rollup EXCEPT ![p] = NoRollup]
  /\ UNCHANGED <<catalog, deltas, totals, history>>

Next ==
  \/ \E i \in Entry, to \in State : WriteIssue(i, to)
  \/ \E p \in Ingester :
       (\E recount \in BOOLEAN : BeginRollup(p, recount)) \/ CommitRollup(p) \/ AbortRollup(p)

Spec == Init /\ [][Next]_catalogStatsVars

----------------------------------------------------------------------------
(* Folded and unfolded together are always exact: once counted, the total and *)
(* the deltas still to be folded give the open issues there are and cover the *)
(* stored ones, and no closing is counted twice or missed, however rollups,   *)
(* recounts and writers interleave (stats.go: "nothing is counted twice or    *)
(* missed").                                                                  *)
TotalsAddUp ==
  /\ totals.seeded => totals.open + Sum(deltas, "opened") = OpenIn(catalog)
  /\ totals.seeded => totals.indexed + Sum(deltas, "indexed") >= StoredIn(catalog)
  /\ totals.closed + Sum(deltas, "closed") = history.closed
=============================================================================
