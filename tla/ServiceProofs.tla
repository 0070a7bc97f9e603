---------------------------- MODULE ServiceProofs ----------------------------
(***************************************************************************)
(* Proofs about what the API serves and pays, for every value of the        *)
(* constants: the catalog totals, the claims and the learning paths.        *)
(* MCService has each of these modules as an instance; a theorem is of the  *)
(* module, and of the composition that the run checks.                      *)
(***************************************************************************)
EXTENDS MCService, Sequences, FiniteSetTheorems, NaturalsInduction, TLAPS

(* The catalog totals (CatalogStats). *)

\* What was written since a rollup's snapshot is what its deltas leave out.
Snapshot(s) ==
  /\ s.deltas \subseteq deltas
  /\ Stats!OpenIn(catalog) = Stats!OpenIn(s.catalog) + Stats!Sum(deltas \ s.deltas, "opened")
  /\ Stats!StoredIn(catalog) <= Stats!StoredIn(s.catalog) + Stats!Sum(deltas \ s.deltas, "indexed")

\* An overtaken rollup cannot commit, so its snapshot no longer matters.
SnapshotsInv ==
  \A p \in Ingester : rollup[p].running /\ ~rollup[p].overtaken => Snapshot(rollup[p])

\* A delta is named by its write, so the next one is new.
DeltasInv == IsFiniteSet(deltas) /\ \A d \in deltas : d.id <= history.writes

StatsInv == Stats!TypeOK /\ DeltasInv /\ SnapshotsInv /\ Stats!TotalsAddUp

----------------------------------------------------------------------------
\* An instance counts as FiniteSets does.
LEMMA StatsCardinality ==
  ASSUME NEW S
  PROVE  Stats!Cardinality(S) = Cardinality(S)
BY DEF Stats!Cardinality, Cardinality

LEMMA CountSplit ==
  ASSUME NEW D, IsFiniteSet(D), NEW S, S \subseteq D, NEW field, NEW v
  PROVE  /\ Stats!Count(D, field, v) = Stats!Count(S, field, v) + Stats!Count(D \ S, field, v)
         /\ Stats!Count(S, field, v) \in Nat /\ Stats!Count(D \ S, field, v) \in Nat
<1> DEFINE A == {d \in S : d[field] = v}
           B == {d \in D \ S : d[field] = v}
<1>1. IsFiniteSet(A) /\ IsFiniteSet(B)
  <2>1. A \subseteq D /\ B \subseteq D
    OBVIOUS
  <2> QED BY <2>1, FS_Subset
<1>2. A \cap B = {} /\ {d \in D : d[field] = v} = A \cup B
  <2>1. A \cap B = {}
    OBVIOUS
  <2>2. \A d : d \in {x \in D : x[field] = v} <=> d \in A \cup B
    OBVIOUS
  <2> QED BY <2>1, <2>2, Zenon
<1>3. /\ Stats!Count(S, field, v) = Cardinality(A) /\ Stats!Count(D \ S, field, v) = Cardinality(B)
      /\ Stats!Count(D, field, v) = Cardinality(A \cup B)
  BY <1>2, StatsCardinality DEF Stats!Count
<1> HIDE DEF A, B
<1>4. Cardinality(A \cup B) = Cardinality(A) + Cardinality(B) - Cardinality(A \cap B)
  BY <1>1, FS_Union
<1>5. Cardinality(A) \in Nat /\ Cardinality(B) \in Nat /\ Cardinality(A \cap B) = 0
  BY <1>1, <1>2, FS_CardinalityType, FS_EmptySet
<1> QED BY <1>3, <1>4, <1>5

\* Deltas are summed part by part.
LEMMA SumSplit ==
  ASSUME NEW D, IsFiniteSet(D), NEW S, S \subseteq D, NEW field
  PROVE  /\ Stats!Sum(D, field) = Stats!Sum(S, field) + Stats!Sum(D \ S, field)
         /\ Stats!Sum(S, field) \in Int /\ Stats!Sum(D \ S, field) \in Int
<1>1. \A v \in {1, -1} :
        /\ Stats!Count(D, field, v) = Stats!Count(S, field, v) + Stats!Count(D \ S, field, v)
        /\ Stats!Count(S, field, v) \in Nat /\ Stats!Count(D \ S, field, v) \in Nat
  BY CountSplit
<1> QED BY <1>1 DEF Stats!Sum

\* A new delta adds its own field.
LEMMA SumAdd ==
  ASSUME NEW D, IsFiniteSet(D), NEW e, e \notin D, NEW field, e[field] \in {-1, 0, 1}
  PROVE  /\ Stats!Sum(D \cup {e}, field) = Stats!Sum(D, field) + e[field]
         /\ Stats!Sum(D, field) \in Int
<1>1. IsFiniteSet(D \cup {e}) /\ D \subseteq D \cup {e} /\ (D \cup {e}) \ D = {e}
  BY FS_AddElement
<1>2. /\ Stats!Sum(D \cup {e}, field) = Stats!Sum(D, field) + Stats!Sum({e}, field)
      /\ Stats!Sum(D, field) \in Int
  BY <1>1, SumSplit
<1>3. Stats!Sum({e}, field) = e[field]
  <2>1. \A v : IF e[field] = v THEN {d \in {e} : d[field] = v} = {e} ELSE {d \in {e} : d[field] = v} = {}
    <3> SUFFICES ASSUME NEW v
                 PROVE  IF e[field] = v THEN {d \in {e} : d[field] = v} = {e} ELSE {d \in {e} : d[field] = v} = {}
      OBVIOUS
    <3>1. CASE e[field] = v
      BY <3>1
    <3>2. CASE e[field] # v
      BY <3>2
    <3> QED BY <3>1, <3>2
  <2>2. Cardinality({e}) = 1 /\ Cardinality({}) = 0
    BY FS_Singleton, FS_EmptySet
  <2>3. Stats!Sum({e}, field) = (IF e[field] = 1 THEN 1 ELSE 0) - (IF e[field] = -1 THEN 1 ELSE 0)
    BY <2>1, <2>2, StatsCardinality DEF Stats!Sum, Stats!Count
  <2> QED BY <2>3
<1> QED BY <1>2, <1>3

\* Two sets that differ in i at most.
LEMMA ChangedSet ==
  ASSUME NEW A, NEW B, IsFiniteSet(A), NEW i, A \ {i} = B \ {i}
  PROVE  /\ Cardinality(B) = Cardinality(A) + (IF i \in B THEN 1 ELSE 0) - (IF i \in A THEN 1 ELSE 0)
         /\ Cardinality(A) \in Nat /\ Cardinality(B) \in Nat
<1> DEFINE C == A \ {i}
<1>1. IsFiniteSet(C) /\ i \notin C
  BY FS_RemoveElement
<1>2. Cardinality(C) \in Nat /\ Cardinality(C \cup {i}) = Cardinality(C) + 1
  BY <1>1, FS_AddElement, FS_CardinalityType
<1>3. Cardinality(A) = Cardinality(C) + (IF i \in A THEN 1 ELSE 0)
  <2>1. CASE i \in A
    <3>1. A = C \cup {i}
      BY <2>1
    <3> QED BY <1>2, <2>1, <3>1
  <2>2. CASE i \notin A
    <3>1. A = C
      BY <2>2
    <3> QED BY <1>2, <2>2, <3>1
  <2> QED BY <2>1, <2>2
<1>4. Cardinality(B) = Cardinality(C) + (IF i \in B THEN 1 ELSE 0)
  <2>1. CASE i \in B
    <3>1. B = C \cup {i}
      BY <2>1
    <3> QED BY <1>2, <2>1, <3>1
  <2>2. CASE i \notin B
    <3>1. B = C
      BY <2>2
    <3> QED BY <1>2, <2>2, <3>1
  <2> QED BY <2>1, <2>2
<1> HIDE DEF C
<1> QED BY <1>2, <1>3, <1>4

LEMMA CatalogIsCounted ==
  ASSUME NEW c \in [Entry -> Stats!State]
  PROVE  Stats!OpenIn(c) \in Nat /\ Stats!StoredIn(c) \in Nat
<1> DEFINE A == {i \in Entry : c[i] = "OPEN"}
           B == {i \in Entry : c[i] # "NONE"}
<1>1. A \subseteq Entry /\ B \subseteq Entry
  OBVIOUS
<1>2. IsFiniteSet(A) /\ IsFiniteSet(B)
  BY <1>1, FS_Subset, StatsAssumption
<1>3. Cardinality(A) \in Nat /\ Cardinality(B) \in Nat
  BY <1>2, FS_CardinalityType
<1> QED BY <1>3, StatsCardinality DEF Stats!OpenIn, Stats!StoredIn

\* What a written row does to the issues that are open and that are stored.
LEMMA CatalogCounts ==
  ASSUME NEW c \in [Entry -> Stats!State], NEW i \in Entry, NEW to \in Stats!State, c[i] # to
  PROVE  LET d == [c EXCEPT ![i] = to] IN
         /\ Stats!OpenIn(d) = Stats!OpenIn(c) + Stats!One(to = "OPEN") - Stats!One(c[i] = "OPEN")
         /\ Stats!StoredIn(d) <= Stats!StoredIn(c) + Stats!One(c[i] = "NONE")
         /\ Stats!OpenIn(c) \in Nat /\ Stats!StoredIn(c) \in Nat /\ Stats!StoredIn(d) \in Nat
<1> DEFINE d == [c EXCEPT ![i] = to]
           Unclosed(f) == {j \in Entry : f[j] = "OPEN"}
           Stored(f) == {j \in Entry : f[j] # "NONE"}
<1>1. /\ Unclosed(c) \ {i} = Unclosed(d) \ {i} /\ (i \in Unclosed(d) <=> to = "OPEN") /\ (i \in Unclosed(c) <=> c[i] = "OPEN")
      /\ Stored(c) \ {i} = Stored(d) \ {i} /\ (i \notin Stored(c) <=> c[i] = "NONE") /\ (i \in Stored(d) <=> to # "NONE")
  OBVIOUS
<1>2. IsFiniteSet(Unclosed(c)) /\ IsFiniteSet(Stored(c))
  <2>1. Unclosed(c) \subseteq Entry /\ Stored(c) \subseteq Entry
    OBVIOUS
  <2> QED BY <2>1, FS_Subset, StatsAssumption
<1>3. /\ Stats!OpenIn(c) = Cardinality(Unclosed(c)) /\ Stats!OpenIn(d) = Cardinality(Unclosed(d))
      /\ Stats!StoredIn(c) = Cardinality(Stored(c)) /\ Stats!StoredIn(d) = Cardinality(Stored(d))
  BY StatsCardinality DEF Stats!OpenIn, Stats!StoredIn
<1> HIDE DEF d, Unclosed, Stored
<1>4. /\ Cardinality(Unclosed(d)) = Cardinality(Unclosed(c)) + (IF i \in Unclosed(d) THEN 1 ELSE 0)
                                     - (IF i \in Unclosed(c) THEN 1 ELSE 0)
      /\ Cardinality(Unclosed(c)) \in Nat
  BY <1>1, <1>2, ChangedSet
<1>5. /\ Cardinality(Stored(d)) = Cardinality(Stored(c)) + (IF i \in Stored(d) THEN 1 ELSE 0)
                                    - (IF i \in Stored(c) THEN 1 ELSE 0)
      /\ Cardinality(Stored(c)) \in Nat /\ Cardinality(Stored(d)) \in Nat
  BY <1>1, <1>2, ChangedSet
<1>6. Stats!OpenIn(d) = Stats!OpenIn(c) + Stats!One(to = "OPEN") - Stats!One(c[i] = "OPEN")
  BY <1>1, <1>3, <1>4 DEF Stats!One
<1>7. Stats!StoredIn(d) <= Stats!StoredIn(c) + Stats!One(c[i] = "NONE")
  BY <1>1, <1>3, <1>5 DEF Stats!One
<1> QED BY <1>3, <1>4, <1>5, <1>6, <1>7 DEF d

LEMMA SumsOfDeltas ==
  ASSUME NEW D, D \subseteq Stats!Delta, IsFiniteSet(D)
  PROVE  Stats!Sum(D, "indexed") \in Nat /\ Stats!Sum(D, "closed") \in Nat /\ Stats!Sum(D, "opened") \in Int
<1>1. ASSUME NEW field \in {"indexed", "closed"}
      PROVE  Stats!Sum(D, field) \in Nat
  <2>1. {d \in D : d[field] = -1} = {}
    BY DEF Stats!Delta
  <2>2. Stats!Count(D, field, -1) = 0
    BY <2>1, FS_EmptySet, StatsCardinality DEF Stats!Count
  <2>3. Stats!Count(D, field, 1) \in Nat
    BY CountSplit
  <2> QED BY <2>2, <2>3 DEF Stats!Sum
<1>2. Stats!Sum(D, "opened") \in Int
  BY SumSplit
<1> QED BY <1>1, <1>2

LEMMA WriteIssueKeeps ==
  ASSUME StatsInv, NEW i \in Entry, NEW to \in Stats!State, Stats!WriteIssue(i, to)
  PROVE  StatsInv'
<1> DEFINE d == Stats!DeltaOf(catalog[i], to)
<1>1. /\ catalog[i] # to /\ history.writes < MaxWrites
      /\ catalog' = [catalog EXCEPT ![i] = to] /\ deltas' = deltas \cup {d}
      /\ history' = [writes |-> d.id, closed |-> history.closed + d.closed]
      /\ totals' = totals /\ rollup' = rollup
  BY DEF Stats!WriteIssue
<1>2. /\ catalog \in [Entry -> Stats!State] /\ deltas \subseteq Stats!Delta /\ history \in [writes: 0..MaxWrites, closed: Nat]
      /\ totals \in [seeded: BOOLEAN, open: Int, indexed: Nat, closed: Nat]
      /\ MaxWrites \in Nat
  BY StatsAssumption DEF StatsInv, Stats!TypeOK
<1>3. /\ d.id = history.writes + 1 /\ d.indexed = Stats!One(catalog[i] = "NONE")
      /\ d.opened = Stats!One(to = "OPEN") - Stats!One(catalog[i] = "OPEN")
      /\ d.closed = Stats!One(catalog[i] = "OPEN" /\ to = "CLOSED")
      /\ d = [id |-> d.id, indexed |-> d.indexed, opened |-> d.opened, closed |-> d.closed]
  BY DEF Stats!DeltaOf
<1> HIDE DEF d
<1>4. d \in Stats!Delta
  BY <1>1, <1>2, <1>3 DEF Stats!Delta, Stats!One
<1>5. IsFiniteSet(deltas) /\ d \notin deltas
  BY <1>2, <1>3 DEF StatsInv, DeltasInv
<1>6. Stats!TypeOK'
  <2>1. catalog' \in [Entry -> Stats!State] /\ deltas' \subseteq Stats!Delta
    BY <1>1, <1>2, <1>4
  <2>2. history' \in [writes: 0..MaxWrites, closed: Nat]
    BY <1>1, <1>2, <1>3, <1>4 DEF Stats!Delta
  <2> QED BY <1>1, <2>1, <2>2 DEF StatsInv, Stats!TypeOK
<1>7. DeltasInv'
  <2>1. IsFiniteSet(deltas')
    BY <1>1, <1>5, FS_AddElement
  <2>2. \A e \in deltas' : e.id <= history'.writes
    <3>1. history'.writes = history.writes + 1
      BY <1>1, <1>3
    <3>2. \A e \in deltas : e.id <= history.writes
      BY DEF StatsInv, DeltasInv
    <3>3. \A e \in deltas : e.id \in Int
      BY <1>2 DEF Stats!Delta
    <3> QED BY <1>1, <1>2, <1>3, <3>1, <3>2, <3>3
  <2> QED BY <2>1, <2>2 DEF DeltasInv
<1>8. \A field \in {"indexed", "opened", "closed"} :
        \A S \in SUBSET deltas :
          /\ Stats!Sum(deltas' \ S, field) = Stats!Sum(deltas \ S, field) + d[field]
          /\ Stats!Sum(deltas \ S, field) \in Int
  <2> SUFFICES ASSUME NEW field \in {"indexed", "opened", "closed"}, NEW S \in SUBSET deltas
               PROVE  /\ Stats!Sum(deltas' \ S, field) = Stats!Sum(deltas \ S, field) + d[field]
                      /\ Stats!Sum(deltas \ S, field) \in Int
    OBVIOUS
  <2>1. deltas' \ S = (deltas \ S) \cup {d} /\ d \notin deltas \ S
    BY <1>1, <1>5
  <2>2. IsFiniteSet(deltas \ S)
    BY <1>5, FS_Subset
  <2>3. d[field] \in {-1, 0, 1}
    BY <1>4 DEF Stats!Delta
  <2>4. /\ Stats!Sum((deltas \ S) \cup {d}, field) = Stats!Sum(deltas \ S, field) + d[field]
        /\ Stats!Sum(deltas \ S, field) \in Int
    <3> DEFINE R == deltas \ S
    <3>1. IsFiniteSet(R) /\ d \notin R
      BY <2>1, <2>2
    <3> HIDE DEF R
    <3>2. Stats!Sum(R \cup {d}, field) = Stats!Sum(R, field) + d[field]
      BY <2>3, <3>1, SumAdd
    <3>3. Stats!Sum(R, field) \in Int
      BY <3>1, SumSplit
    <3> QED BY <3>2, <3>3 DEF R
  <2> QED BY <2>1, <2>4
<1>9. /\ Stats!OpenIn(catalog') = Stats!OpenIn(catalog) + d.opened
      /\ Stats!StoredIn(catalog') <= Stats!StoredIn(catalog) + d.indexed
      /\ Stats!OpenIn(catalog) \in Int /\ Stats!StoredIn(catalog) \in Int /\ Stats!StoredIn(catalog') \in Int
      /\ d.opened \in Int /\ d.indexed \in Int /\ d.closed \in Int
  <2>1. /\ Stats!OpenIn(catalog') = Stats!OpenIn(catalog) + Stats!One(to = "OPEN") - Stats!One(catalog[i] = "OPEN")
        /\ Stats!StoredIn(catalog') <= Stats!StoredIn(catalog) + Stats!One(catalog[i] = "NONE")
        /\ Stats!OpenIn(catalog) \in Nat /\ Stats!StoredIn(catalog) \in Nat /\ Stats!StoredIn(catalog') \in Nat
    BY <1>1, <1>2, CatalogCounts
  <2>2. d.opened \in Int /\ d.indexed \in Int /\ d.closed \in Int
    BY <1>4 DEF Stats!Delta
  <2> QED BY <1>3, <2>1, <2>2 DEF Stats!One
<1>10. SnapshotsInv'
  <2> SUFFICES ASSUME NEW p \in Ingester, rollup[p].running, ~rollup[p].overtaken
               PROVE  Snapshot(rollup[p])'
    BY <1>1 DEF SnapshotsInv
  <2> DEFINE s == rollup[p]
  <2>1. /\ s.deltas \subseteq deltas
        /\ Stats!OpenIn(catalog) = Stats!OpenIn(s.catalog) + Stats!Sum(deltas \ s.deltas, "opened")
        /\ Stats!StoredIn(catalog) <= Stats!StoredIn(s.catalog) + Stats!Sum(deltas \ s.deltas, "indexed")
    BY DEF StatsInv, SnapshotsInv, Snapshot
  <2>2. Stats!OpenIn(s.catalog) \in Int /\ Stats!StoredIn(s.catalog) \in Int
    <3>1. s.catalog \in [Entry -> Stats!State]
      BY DEF StatsInv, Stats!TypeOK
    <3> QED BY <3>1, CatalogIsCounted
  <2> HIDE DEF s
  <2>3. /\ Stats!Sum(deltas' \ s.deltas, "opened") = Stats!Sum(deltas \ s.deltas, "opened") + d.opened
        /\ Stats!Sum(deltas \ s.deltas, "opened") \in Int
        /\ Stats!Sum(deltas' \ s.deltas, "indexed") = Stats!Sum(deltas \ s.deltas, "indexed") + d.indexed
        /\ Stats!Sum(deltas \ s.deltas, "indexed") \in Int
    BY <1>8, <2>1
  <2>4. Stats!OpenIn(catalog') = Stats!OpenIn(s.catalog) + Stats!Sum(deltas' \ s.deltas, "opened")
    BY <1>9, <2>1, <2>2, <2>3
  <2>5. Stats!StoredIn(catalog') <= Stats!StoredIn(s.catalog) + Stats!Sum(deltas' \ s.deltas, "indexed")
    BY <1>9, <2>1, <2>2, <2>3
  <2>6. s.deltas \subseteq deltas'
    BY <1>1, <2>1
  <2> QED BY <1>1, <2>4, <2>5, <2>6 DEF Snapshot, s
<1>11. Stats!TotalsAddUp'
  <2>1. \A field \in {"indexed", "opened", "closed"} :
          Stats!Sum(deltas', field) = Stats!Sum(deltas, field) + d[field] /\ Stats!Sum(deltas, field) \in Int
    <3>1. deltas' \ {} = deltas' /\ deltas \ {} = deltas /\ {} \in SUBSET deltas
      OBVIOUS
    <3> QED BY <1>8, <3>1
  <2>2. history'.closed = history.closed + d.closed
    BY <1>1
  <2>3. /\ totals.seeded => totals.open + Stats!Sum(deltas, "opened") = Stats!OpenIn(catalog)
        /\ totals.seeded => totals.indexed + Stats!Sum(deltas, "indexed") >= Stats!StoredIn(catalog)
        /\ totals.closed + Stats!Sum(deltas, "closed") = history.closed
    BY DEF StatsInv, Stats!TotalsAddUp
  <2>4. totals.open \in Int /\ totals.indexed \in Int /\ totals.closed \in Int /\ history.closed \in Int
    BY <1>2
  <2>5. /\ totals.seeded => totals.open + Stats!Sum(deltas', "opened") = Stats!OpenIn(catalog')
        /\ totals.seeded => totals.indexed + Stats!Sum(deltas', "indexed") >= Stats!StoredIn(catalog')
        /\ totals.closed + Stats!Sum(deltas', "closed") = history'.closed
    BY <1>9, <2>1, <2>2, <2>3, <2>4
  <2> QED BY <1>1, <2>5 DEF Stats!TotalsAddUp
<1> QED BY <1>6, <1>7, <1>10, <1>11 DEF StatsInv

\* A snapshot of what is committed now leaves nothing out.
LEMMA FreshSnapshot ==
  ASSUME StatsInv, NEW s, s.deltas = deltas, s.catalog = catalog
  PROVE  Snapshot(s)
<1>1. deltas \ s.deltas = {} /\ s.deltas \subseteq deltas
  OBVIOUS
<1>2. Stats!Sum({}, "opened") = 0 /\ Stats!Sum({}, "indexed") = 0
  <2>1. \A field, v : {d \in {} : d[field] = v} = {}
    OBVIOUS
  <2> QED BY <2>1, FS_EmptySet, StatsCardinality DEF Stats!Sum, Stats!Count
<1>3. catalog \in [Entry -> Stats!State]
  BY DEF StatsInv, Stats!TypeOK
<1>4. Stats!OpenIn(catalog) \in Nat /\ Stats!StoredIn(catalog) \in Nat
  BY <1>3, CatalogIsCounted
<1> QED BY <1>1, <1>2, <1>4 DEF Snapshot

LEMMA NoRollupTyped ==
  Stats!NoRollup \in [running: BOOLEAN, catalog: [Entry -> Stats!State], deltas: SUBSET Stats!Delta,
                      overtaken: BOOLEAN, recount: BOOLEAN]
BY DEF Stats!NoRollup, Stats!State

LEMMA BeginRollupKeeps ==
  ASSUME StatsInv, NEW p \in Ingester, NEW recount \in BOOLEAN, Stats!BeginRollup(p, recount)
  PROVE  StatsInv'
<1> DEFINE new == [running |-> TRUE, catalog |-> catalog, deltas |-> deltas, overtaken |-> FALSE, recount |-> recount]
<1>1. /\ rollup' = [rollup EXCEPT ![p] = new]
      /\ UNCHANGED <<catalog, deltas, totals, history>>
  BY DEF Stats!BeginRollup
<1>2. Stats!TypeOK'
  BY <1>1 DEF StatsInv, Stats!TypeOK
<1>3. DeltasInv' /\ Stats!TotalsAddUp'
  BY <1>1 DEF StatsInv, DeltasInv, Stats!TotalsAddUp
<1>4. SnapshotsInv'
  <2> SUFFICES ASSUME NEW q \in Ingester, rollup'[q].running, ~rollup'[q].overtaken
               PROVE  Snapshot(rollup'[q])
    BY <1>1 DEF SnapshotsInv, Snapshot
  <2>1. CASE q = p
    <3>1. rollup'[q] = new
      BY <1>1, <2>1 DEF StatsInv, Stats!TypeOK
    <3>2. new.deltas = deltas /\ new.catalog = catalog
      OBVIOUS
    <3> HIDE DEF new
    <3> QED BY <3>1, <3>2, FreshSnapshot
  <2>2. CASE q # p
    <3>1. rollup'[q] = rollup[q]
      BY <1>1, <2>2 DEF StatsInv, Stats!TypeOK
    <3> QED BY <3>1 DEF StatsInv, SnapshotsInv
  <2> QED BY <2>1, <2>2
<1> QED BY <1>2, <1>3, <1>4 DEF StatsInv

LEMMA AbortRollupKeeps ==
  ASSUME StatsInv, NEW p \in Ingester, Stats!AbortRollup(p)
  PROVE  StatsInv'
<1>1. /\ rollup' = [rollup EXCEPT ![p] = Stats!NoRollup]
      /\ UNCHANGED <<catalog, deltas, totals, history>>
  BY DEF Stats!AbortRollup
<1>2. Stats!TypeOK'
  BY <1>1, NoRollupTyped DEF StatsInv, Stats!TypeOK
<1>3. DeltasInv' /\ Stats!TotalsAddUp'
  BY <1>1 DEF StatsInv, DeltasInv, Stats!TotalsAddUp
<1>4. SnapshotsInv'
  BY <1>1 DEF StatsInv, Stats!TypeOK, SnapshotsInv, Snapshot, Stats!NoRollup
<1> QED BY <1>2, <1>3, <1>4 DEF StatsInv

LEMMA CommitRollupKeeps ==
  ASSUME StatsInv, NEW p \in Ingester, Stats!CommitRollup(p)
  PROVE  StatsInv'
<1> DEFINE s == rollup[p]
           rest == deltas \ s.deltas
<1>1. /\ s.running /\ ~s.overtaken
      /\ totals' = Stats!Folded(s) /\ deltas' = rest
      /\ rollup' = [q \in Ingester |-> IF q = p \/ ~rollup[q].running THEN Stats!NoRollup
                                       ELSE [rollup[q] EXCEPT !.overtaken = TRUE]]
      /\ UNCHANGED <<catalog, history>>
  BY DEF Stats!CommitRollup
<1>2. /\ s \in [running: BOOLEAN, catalog: [Entry -> Stats!State], deltas: SUBSET Stats!Delta,
                overtaken: BOOLEAN, recount: BOOLEAN]
      /\ deltas \subseteq Stats!Delta
      /\ totals \in [seeded: BOOLEAN, open: Int, indexed: Nat, closed: Nat]
      /\ IsFiniteSet(deltas)
  BY DEF StatsInv, Stats!TypeOK, DeltasInv
<1>3. /\ s.deltas \subseteq deltas
      /\ Stats!OpenIn(catalog) = Stats!OpenIn(s.catalog) + Stats!Sum(rest, "opened")
      /\ Stats!StoredIn(catalog) <= Stats!StoredIn(s.catalog) + Stats!Sum(rest, "indexed")
  BY <1>1 DEF StatsInv, SnapshotsInv, Snapshot
<1> HIDE DEF s, rest
<1>4. /\ IsFiniteSet(rest) /\ rest \subseteq Stats!Delta /\ rest \subseteq deltas /\ IsFiniteSet(s.deltas)
  BY <1>2, <1>3, FS_Subset DEF rest
<1>5. \A field \in {"indexed", "opened", "closed"} :
        /\ Stats!Sum(deltas, field) = Stats!Sum(s.deltas, field) + Stats!Sum(rest, field)
        /\ Stats!Sum(s.deltas, field) \in Int /\ Stats!Sum(rest, field) \in Int
  BY <1>2, <1>3, SumSplit DEF rest
<1>6. Stats!Sum(s.deltas, "indexed") \in Nat /\ Stats!Sum(s.deltas, "closed") \in Nat
  BY <1>2, <1>4, SumsOfDeltas
<1>7. /\ Stats!OpenIn(s.catalog) \in Nat /\ Stats!StoredIn(s.catalog) \in Nat
      /\ Stats!StoredIn(catalog) \in Nat
  <2>1. s.catalog \in [Entry -> Stats!State] /\ catalog \in [Entry -> Stats!State]
    BY <1>2 DEF StatsInv, Stats!TypeOK
  <2> QED BY <2>1, CatalogIsCounted
<1>8. /\ totals'.seeded = (totals.seeded \/ s.recount)
      /\ totals'.closed = totals.closed + Stats!Sum(s.deltas, "closed")
      /\ totals'.indexed = IF totals.seeded THEN totals.indexed + Stats!Sum(s.deltas, "indexed")
                           ELSE IF s.recount THEN Stats!StoredIn(s.catalog) ELSE 0
      /\ totals'.open = IF s.recount THEN Stats!OpenIn(s.catalog)
                        ELSE IF totals.seeded THEN totals.open + Stats!Sum(s.deltas, "opened") ELSE 0
      /\ totals' = [seeded |-> totals'.seeded, closed |-> totals'.closed,
                    indexed |-> totals'.indexed, open |-> totals'.open]
  BY <1>1 DEF Stats!Folded, Stats!Counted
<1>9. Stats!TypeOK'
  <2>1. totals' \in [seeded: BOOLEAN, open: Int, indexed: Nat, closed: Nat]
    <3>1. totals'.seeded \in BOOLEAN
      BY <1>2, <1>8
    <3>2. totals'.closed \in Nat
      BY <1>2, <1>6, <1>8
    <3>3. totals'.indexed \in Nat
      BY <1>2, <1>6, <1>7, <1>8
    <3>4. totals'.open \in Int
      BY <1>2, <1>5, <1>7, <1>8
    <3> QED BY <1>8, <3>1, <3>2, <3>3, <3>4
  <2>2. rollup' \in [Ingester -> [running: BOOLEAN, catalog: [Entry -> Stats!State], deltas: SUBSET Stats!Delta,
                                  overtaken: BOOLEAN, recount: BOOLEAN]]
    BY <1>1, NoRollupTyped DEF StatsInv, Stats!TypeOK
  <2> QED BY <1>1, <1>4, <2>1, <2>2 DEF StatsInv, Stats!TypeOK
<1>10. DeltasInv'
  BY <1>1, <1>4 DEF StatsInv, DeltasInv
<1>11. SnapshotsInv'
  <2>1. \A q \in Ingester : rollup'[q].running => rollup'[q].overtaken
    BY <1>1 DEF Stats!NoRollup, StatsInv, Stats!TypeOK
  <2> QED BY <2>1 DEF SnapshotsInv
<1>12. Stats!TotalsAddUp'
  <2>1. /\ totals.seeded => totals.open + Stats!Sum(deltas, "opened") = Stats!OpenIn(catalog)
        /\ totals.seeded => totals.indexed + Stats!Sum(deltas, "indexed") >= Stats!StoredIn(catalog)
        /\ totals.closed + Stats!Sum(deltas, "closed") = history.closed
    BY DEF StatsInv, Stats!TotalsAddUp
  <2>2. totals.open \in Int /\ totals.indexed \in Int /\ totals.closed \in Int
    BY <1>2
  <2>3. totals'.seeded => totals'.open + Stats!Sum(rest, "opened") = Stats!OpenIn(catalog)
    <3>1. /\ Stats!Sum(deltas, "opened") = Stats!Sum(s.deltas, "opened") + Stats!Sum(rest, "opened")
          /\ Stats!Sum(s.deltas, "opened") \in Int /\ Stats!Sum(rest, "opened") \in Int
      BY <1>5
    <3>2. CASE s.recount
      BY <1>3, <1>8, <3>2
    <3>3. CASE ~s.recount /\ totals.seeded
      <4>1. totals'.open = totals.open + Stats!Sum(s.deltas, "opened")
        BY <1>8, <3>3
      <4> QED BY <2>1, <2>2, <3>1, <3>3, <4>1
    <3>4. CASE ~s.recount /\ ~totals.seeded
      BY <1>8, <3>4
    <3> QED BY <3>2, <3>3, <3>4
  <2>4. totals'.seeded => totals'.indexed + Stats!Sum(rest, "indexed") >= Stats!StoredIn(catalog)
    <3>1. /\ Stats!Sum(deltas, "indexed") = Stats!Sum(s.deltas, "indexed") + Stats!Sum(rest, "indexed")
          /\ Stats!Sum(s.deltas, "indexed") \in Int /\ Stats!Sum(rest, "indexed") \in Int
      BY <1>5
    <3>2. CASE totals.seeded
      <4>1. totals'.indexed = totals.indexed + Stats!Sum(s.deltas, "indexed")
        BY <1>8, <3>2
      <4> QED BY <1>7, <2>1, <2>2, <3>1, <3>2, <4>1
    <3>3. CASE ~totals.seeded /\ s.recount
      <4>1. totals'.indexed = Stats!StoredIn(s.catalog)
        BY <1>8, <3>3
      <4> QED BY <1>3, <1>7, <3>1, <4>1
    <3>4. CASE ~totals.seeded /\ ~s.recount
      BY <1>8, <3>4
    <3> QED BY <3>2, <3>3, <3>4
  <2>5. totals'.closed + Stats!Sum(rest, "closed") = history.closed
    BY <1>5, <1>8, <2>1, <2>2
  <2> QED BY <1>1, <2>3, <2>4, <2>5 DEF Stats!TotalsAddUp
<1> QED BY <1>9, <1>10, <1>11, <1>12 DEF StatsInv

LEMMA InitStats ==
  ASSUME Stats!Init
  PROVE  StatsInv
<1>1. Stats!TypeOK
  <2>1. history \in [writes: 0..MaxWrites, closed: Nat]
    BY StatsAssumption DEF Stats!Init
  <2> QED BY <2>1, NoRollupTyped DEF Stats!Init, Stats!TypeOK, Stats!Unseeded
<1>2. DeltasInv
  BY FS_EmptySet DEF Stats!Init, DeltasInv
<1>3. SnapshotsInv
  BY DEF Stats!Init, SnapshotsInv, Stats!NoRollup
<1>4. Stats!TotalsAddUp
  <2>1. \A field, v : {d \in {} : d[field] = v} = {}
    OBVIOUS
  <2>2. Stats!Sum({}, "closed") = 0
    BY <2>1, FS_EmptySet, StatsCardinality DEF Stats!Sum, Stats!Count
  <2> QED BY <2>2 DEF Stats!Init, Stats!TotalsAddUp, Stats!Unseeded
<1> QED BY <1>1, <1>2, <1>3, <1>4 DEF StatsInv

LEMMA StatsStep == StatsInv /\ [Stats!Next]_(Stats!catalogStatsVars) => StatsInv'
<1> SUFFICES ASSUME StatsInv, [Stats!Next]_(Stats!catalogStatsVars)
             PROVE  StatsInv'
  OBVIOUS
<1>1. ASSUME NEW i \in Entry, NEW to \in Stats!State, Stats!WriteIssue(i, to)
      PROVE  StatsInv'
  BY <1>1, WriteIssueKeeps
<1>2. ASSUME NEW p \in Ingester, NEW recount \in BOOLEAN, Stats!BeginRollup(p, recount)
      PROVE  StatsInv'
  BY <1>2, BeginRollupKeeps
<1>3. ASSUME NEW p \in Ingester, Stats!CommitRollup(p)
      PROVE  StatsInv'
  BY <1>3, CommitRollupKeeps
<1>4. ASSUME NEW p \in Ingester, Stats!AbortRollup(p)
      PROVE  StatsInv'
  BY <1>4, AbortRollupKeeps
<1>5. CASE UNCHANGED Stats!catalogStatsVars
  BY <1>5 DEF Stats!catalogStatsVars, StatsInv, Stats!TypeOK, DeltasInv, SnapshotsInv, Snapshot, Stats!TotalsAddUp
<1> QED BY <1>1, <1>2, <1>3, <1>4, <1>5 DEF Stats!Next

\* One part moves, by its own steps; the others stand still.
LEMMA StatsPart ==
  ASSUME PartsNext \/ UNCHANGED allVars, part = "stats"
  PROVE  part' = "stats" /\ [Stats!Next]_(Stats!catalogStatsVars)
BY DEF PartsNext, allVars, statsVars, Stats!catalogStatsVars

(* Folded and unfolded together are exact: once counted, the totals and the *)
(* deltas still to be folded give the open issues there are and cover the   *)
(* stored ones, and no closing is missed or counted twice, whatever rollups *)
(* and recounts any number of ingesters run between the writes (stats.go,   *)
(* RollupStats).                                                            *)
THEOREM TotalsAlwaysAddUp == PartsSpec => []TotalsAddUp
<1> DEFINE I == part = "stats" => StatsInv
<1>1. PartsInit => I
  BY InitStats DEF PartsInit
<1>2. I /\ [PartsNext]_allVars => I'
  <2> SUFFICES ASSUME I, [PartsNext]_allVars, part' = "stats"
               PROVE  StatsInv'
    OBVIOUS
  <2>1. part = "stats"
    BY DEF PartsNext, allVars
  <2>2. [Stats!Next]_(Stats!catalogStatsVars)
    BY <2>1, StatsPart
  <2> QED BY <2>1, <2>2, StatsStep
<1>3. I => TotalsAddUp
  BY DEF TotalsAddUp, StatsInv
<1> QED BY <1>1, <1>2, <1>3, PTL DEF PartsSpec

----------------------------------------------------------------------------
(* Claims (IssueClaims). *)

Fresh(p) == {i \in Task : claims[i].holder = p /\ ~claims[i].lapsed}

\* One of a person's transactions at a time has counted, and it has room.
CountsInv ==
  \A t \in Try, p \in Person : try[t].step = "counted" /\ try[t].person = p =>
    /\ Cardinality(Fresh(p)) < MaxActive
    /\ \A u \in Try : try[u].step = "counted" /\ try[u].person = p => u = t

CapInv == \A p \in Person : Cardinality(Fresh(p)) <= MaxActive

ClaimsInv == Claims!TypeOK /\ CountsInv /\ CapInv

----------------------------------------------------------------------------
LEMMA ClaimsCardinality ==
  ASSUME NEW S
  PROVE  Claims!Cardinality(S) = Cardinality(S)
BY DEF Claims!Cardinality, Cardinality

LEMMA FreshIsFinite ==
  \A p : IsFiniteSet(Fresh(p)) /\ Cardinality(Fresh(p)) \in Nat
<1> TAKE p
<1>1. Fresh(p) \subseteq Task
  BY DEF Fresh
<1>2. IsFiniteSet(Fresh(p))
  BY <1>1, FS_Subset, ClaimsAssumption
<1> QED BY <1>2, FS_CardinalityType

LEMMA FreshGrowsBy ==
  ASSUME NEW p, NEW D, IsFiniteSet(D), D \subseteq Fresh(p)
  PROVE  Cardinality(D) \in Nat /\ Cardinality(D) <= Cardinality(Fresh(p))
BY FreshIsFinite, FS_Subset, FS_CardinalityType

\* A step after which nobody holds more, and no transaction has counted.
LEMMA NoNewClaim ==
  ASSUME CountsInv, CapInv, \A p \in Person : Fresh(p)' \subseteq Fresh(p),
         \A t \in Try : try'[t].step = "counted" => try[t].step = "counted" /\ try'[t] = try[t] /\ try[t].person \in Person
  PROVE  CountsInv' /\ CapInv'
<1>1. \A p \in Person : /\ Cardinality(Fresh(p)') <= Cardinality(Fresh(p))
                        /\ Cardinality(Fresh(p)) \in Nat /\ Cardinality(Fresh(p)') \in Nat
  <2> TAKE p \in Person
  <2>1. IsFiniteSet(Fresh(p)) /\ Fresh(p)' \subseteq Fresh(p)
    BY FreshIsFinite
  <2> HIDE DEF Fresh
  <2> QED BY <2>1, FS_Subset, FS_CardinalityType
<1>2. CapInv'
  <2> SUFFICES ASSUME NEW p \in Person
               PROVE  Cardinality(Fresh(p)') <= MaxActive
    BY DEF CapInv
  <2>1. Cardinality(Fresh(p)) <= MaxActive
    BY DEF CapInv
  <2> QED BY <1>1, <2>1, ClaimsAssumption
<1>3. CountsInv'
  <2> SUFFICES ASSUME NEW t \in Try, NEW p \in Person, try'[t].step = "counted", try'[t].person = p
               PROVE  /\ Cardinality(Fresh(p)') < MaxActive
                      /\ \A u \in Try : try'[u].step = "counted" /\ try'[u].person = p => u = t
    BY DEF CountsInv
  <2>1. try[t].step = "counted" /\ try[t].person = p
    OBVIOUS
  <2>2. /\ Cardinality(Fresh(p)) < MaxActive
        /\ \A u \in Try : try[u].step = "counted" /\ try[u].person = p => u = t
    BY <2>1 DEF CountsInv
  <2>3. Cardinality(Fresh(p)') < MaxActive
    BY <1>1, <2>2, ClaimsAssumption
  <2>4. \A u \in Try : try'[u].step = "counted" /\ try'[u].person = p => u = t
    BY <2>2
  <2> QED BY <2>3, <2>4
<1> QED BY <1>2, <1>3

LEMMA CountHeldKeeps ==
  ASSUME ClaimsInv, NEW t \in Try, Claims!CountHeld(t)
  PROVE  ClaimsInv'
<1> DEFINE p == try[t].person
<1>1. /\ try[t].step = "checked" /\ try' = [try EXCEPT ![t].step = "counted"]
      /\ \A u \in Try : try[u].person = p => try[u].step # "counted"
      /\ Cardinality(Claims!Held(p)) < MaxActive
      /\ UNCHANGED <<open, claims, pulls>>
  BY ClaimsCardinality DEF Claims!CountHeld, Claims!HasLock
<1>2. /\ try[t] \in [step: {"checked", "counted"}, person: Person, issue: Task, retires: BOOLEAN]
      /\ DOMAIN try = Try
  BY <1>1 DEF ClaimsInv, Claims!TypeOK, Claims!NoTry
<1>3. Claims!TypeOK'
  <2>1. try' \in [Try -> {Claims!NoTry} \cup [step: {"checked", "counted"}, person: Person, issue: Task, retires: BOOLEAN]]
    BY <1>1, <1>2 DEF ClaimsInv, Claims!TypeOK
  <2> QED BY <1>1, <2>1 DEF ClaimsInv, Claims!TypeOK
<1>4. \A u \in Try : try'[u].person = try[u].person /\ (u # t => try'[u] = try[u])
  BY <1>1, <1>2
<1>5. CapInv'
  BY <1>1 DEF ClaimsInv, CapInv, Fresh
<1>6. Cardinality(Fresh(p)) < MaxActive
  <2>1. Fresh(p) \subseteq Claims!Held(p)
    BY <1>2, ClaimsAssumption DEF Fresh, Claims!Held, Claims!Active, Claims!IsClaimed, Claims!Unclaimed
  <2>2. Claims!Held(p) \subseteq Task
    BY DEF Claims!Held
  <2>3. IsFiniteSet(Claims!Held(p))
    BY <2>2, FS_Subset, ClaimsAssumption
  <2>4. /\ Cardinality(Fresh(p)) <= Cardinality(Claims!Held(p))
        /\ Cardinality(Fresh(p)) \in Nat /\ Cardinality(Claims!Held(p)) \in Nat
    BY <2>1, <2>3, FS_Subset, FS_CardinalityType
  <2> HIDE DEF p
  <2> QED BY <1>1, <2>4, ClaimsAssumption
<1>7. CountsInv'
  <2> SUFFICES ASSUME NEW u \in Try, NEW q \in Person, try'[u].step = "counted", try'[u].person = q
               PROVE  /\ Cardinality(Fresh(q)) < MaxActive
                      /\ \A w \in Try : try'[w].step = "counted" /\ try'[w].person = q => w = u
    BY <1>1 DEF CountsInv, Fresh
  <2>1. CASE u = t
    BY <1>1, <1>4, <1>6, <2>1
  <2>2. CASE u # t
    <3>1. try[u].step = "counted" /\ try[u].person = q
      BY <1>4, <2>2
    <3>2. q # p
      BY <1>1, <3>1
    <3>3. /\ Cardinality(Fresh(q)) < MaxActive
          /\ \A w \in Try : try[w].step = "counted" /\ try[w].person = q => w = u
      BY <3>1 DEF ClaimsInv, CountsInv
    <3> QED BY <1>4, <3>2, <3>3
  <2> QED BY <2>1, <2>2
<1> QED BY <1>3, <1>5, <1>7 DEF ClaimsInv

LEMMA InsertClaimKeeps ==
  ASSUME ClaimsInv, NEW t \in Try, Claims!InsertClaim(t)
  PROVE  ClaimsInv'
<1>0. /\ try[t].step = "counted"
      /\ claims' = [claims EXCEPT ![try[t].issue] = [holder |-> try[t].person, lapsed |-> FALSE]]
      /\ try' = [try EXCEPT ![t] = Claims!NoTry] /\ UNCHANGED <<open, pulls>>
  BY DEF Claims!InsertClaim
<1>p. PICK p \in Person, i \in Task : try[t].person = p /\ try[t].issue = i
  BY <1>0 DEF ClaimsInv, Claims!TypeOK, Claims!NoTry
<1> DEFINE new == [holder |-> p, lapsed |-> FALSE]
<1>1. claims' = [claims EXCEPT ![i] = new] /\ try' = [try EXCEPT ![t] = Claims!NoTry] /\ UNCHANGED <<open, pulls>>
  BY <1>0, <1>p
<1>2. DOMAIN try = Try /\ DOMAIN claims = Task
  BY DEF ClaimsInv, Claims!TypeOK
<1>3. Claims!TypeOK'
  BY <1>1, <1>2 DEF ClaimsInv, Claims!TypeOK
<1>4. /\ Cardinality(Fresh(p)) < MaxActive
      /\ \A u \in Try : try[u].step = "counted" /\ try[u].person = p => u = t
  BY <1>0, <1>p DEF ClaimsInv, CountsInv
<1>5. \A q \in Person : q # p => Fresh(q)' \subseteq Fresh(q)
  BY <1>1, <1>2 DEF Fresh
<1>6. Fresh(p)' \subseteq Fresh(p) \cup {i}
  BY <1>1, <1>2 DEF Fresh
<1> HIDE DEF new
<1>7. \A q \in Person : q # p => /\ Cardinality(Fresh(q)') <= Cardinality(Fresh(q))
                                 /\ Cardinality(Fresh(q)) \in Nat /\ Cardinality(Fresh(q)') \in Nat
  <2> SUFFICES ASSUME NEW q \in Person, q # p
               PROVE  /\ Cardinality(Fresh(q)') <= Cardinality(Fresh(q))
                      /\ Cardinality(Fresh(q)) \in Nat /\ Cardinality(Fresh(q)') \in Nat
    OBVIOUS
  <2>1. IsFiniteSet(Fresh(q)) /\ Fresh(q)' \subseteq Fresh(q)
    BY <1>5, FreshIsFinite
  <2> QED BY <2>1, FS_Subset, FS_CardinalityType
<1>8. Cardinality(Fresh(p)') <= MaxActive
  <2>1. IsFiniteSet(Fresh(p)) /\ Cardinality(Fresh(p)) \in Nat
    BY FreshIsFinite
  <2>2. IsFiniteSet(Fresh(p) \cup {i}) /\ Cardinality(Fresh(p) \cup {i}) <= Cardinality(Fresh(p)) + 1
    <3>1. /\ IsFiniteSet(Fresh(p) \cup {i})
          /\ Cardinality(Fresh(p) \cup {i}) = IF i \in Fresh(p) THEN Cardinality(Fresh(p)) ELSE Cardinality(Fresh(p)) + 1
      BY <2>1, FS_AddElement, Zenon
    <3>2. CASE i \in Fresh(p)
      BY <2>1, <3>1, <3>2
    <3>3. CASE i \notin Fresh(p)
      BY <2>1, <3>1, <3>3
    <3> QED BY <3>1, <3>2, <3>3
  <2>3. Cardinality(Fresh(p)') <= Cardinality(Fresh(p) \cup {i})
    BY <1>6, <2>2, FS_Subset
  <2>4. Cardinality(Fresh(p)') \in Nat /\ Cardinality(Fresh(p) \cup {i}) \in Nat
    BY <1>6, <2>2, FS_Subset, FS_CardinalityType
  <2> QED BY <1>4, <2>1, <2>2, <2>3, <2>4, ClaimsAssumption
<1>9. CapInv'
  <2> SUFFICES ASSUME NEW q \in Person
               PROVE  Cardinality(Fresh(q)') <= MaxActive
    BY DEF CapInv
  <2>1. Cardinality(Fresh(q)) <= MaxActive
    BY DEF ClaimsInv, CapInv
  <2>2. CASE q = p
    BY <1>8, <2>2
  <2>3. CASE q # p
    BY <1>7, <2>1, <2>3, ClaimsAssumption
  <2> QED BY <2>2, <2>3
<1>10. CountsInv'
  <2> SUFFICES ASSUME NEW u \in Try, NEW q \in Person, try'[u].step = "counted", try'[u].person = q
               PROVE  /\ Cardinality(Fresh(q)') < MaxActive
                      /\ \A w \in Try : try'[w].step = "counted" /\ try'[w].person = q => w = u
    BY DEF CountsInv
  <2>1. u # t /\ \A w \in Try : try'[w].step = "counted" => try'[w] = try[w]
    BY <1>1, <1>2 DEF Claims!NoTry
  <2>2. try[u].step = "counted" /\ try[u].person = q
    BY <2>1
  <2>3. /\ Cardinality(Fresh(q)) < MaxActive
        /\ \A w \in Try : try[w].step = "counted" /\ try[w].person = q => w = u
    BY <2>2 DEF ClaimsInv, CountsInv
  <2>4. q # p
    BY <1>4, <2>1, <2>2
  <2>5. Cardinality(Fresh(q)') < MaxActive
    BY <1>7, <2>3, <2>4, ClaimsAssumption
  <2>6. \A w \in Try : try'[w].step = "counted" /\ try'[w].person = q => w = u
    BY <2>1, <2>3
  <2> QED BY <2>5, <2>6
<1> QED BY <1>3, <1>9, <1>10 DEF ClaimsInv

LEMMA InitClaims ==
  ASSUME Claims!Init
  PROVE  ClaimsInv
<1>1. Claims!TypeOK
  BY DEF Claims!Init, Claims!TypeOK
<1>2. CountsInv
  BY DEF Claims!Init, CountsInv, Claims!NoTry
<1>3. CapInv
  <2>1. \A p \in Person : Fresh(p) = {}
    BY ClaimsAssumption DEF Claims!Init, Fresh, Claims!Unclaimed
  <2> QED BY <2>1, FS_EmptySet, ClaimsAssumption DEF CapInv
<1> QED BY <1>1, <1>2, <1>3 DEF ClaimsInv

LEMMA ClaimsStep == ClaimsInv /\ [Claims!Next]_(Claims!issueClaimsVars) => ClaimsInv'
<1> SUFFICES ASSUME ClaimsInv, [Claims!Next]_(Claims!issueClaimsVars)
             PROVE  ClaimsInv'
  OBVIOUS
<1>t. /\ Claims!TypeOK /\ CountsInv /\ CapInv
      /\ \A t \in Try : try[t].step = "counted" => try[t].person \in Person
  BY DEF ClaimsInv, Claims!TypeOK, Claims!NoTry
<1>0. ASSUME Claims!TypeOK', \A p \in Person : Fresh(p)' \subseteq Fresh(p),
             \A t \in Try : try'[t].step = "counted" => try'[t] = try[t]
      PROVE  ClaimsInv'
  <2>1. CountsInv' /\ CapInv'
    BY <1>t, <1>0, NoNewClaim
  <2> QED BY <1>0, <2>1 DEF ClaimsInv
<1>1. ASSUME NEW t \in Try, Claims!CountHeld(t)
      PROVE  ClaimsInv'
  BY <1>1, CountHeldKeeps
<1>2. ASSUME NEW t \in Try, Claims!InsertClaim(t)
      PROVE  ClaimsInv'
  BY <1>2, InsertClaimKeeps
<1>3. ASSUME NEW t \in Try, Claims!RefuseClaim(t)
      PROVE  ClaimsInv'
  <2>1. Claims!TypeOK'
    BY <1>t, <1>3 DEF Claims!TypeOK, Claims!RefuseClaim
  <2>2. \A p \in Person : Fresh(p)' \subseteq Fresh(p)
    BY <1>3 DEF Claims!RefuseClaim, Fresh
  <2>3. \A u \in Try : try'[u].step = "counted" => try'[u] = try[u]
    BY <1>t, <1>3 DEF Claims!TypeOK, Claims!RefuseClaim, Claims!NoTry
  <2> QED BY <1>0, <2>1, <2>2, <2>3
<1>4. ASSUME NEW t \in Try, NEW p \in Person, NEW i \in Task, Claims!BeginClaim(t, p, i)
      PROVE  ClaimsInv'
  <2>1. Claims!TypeOK'
    BY <1>t, <1>4 DEF Claims!TypeOK, Claims!BeginClaim, Claims!IsClaimed
  <2>2. \A q \in Person : Fresh(q)' \subseteq Fresh(q)
    BY <1>4 DEF Claims!BeginClaim, Fresh
  <2>3. \A u \in Try : try'[u].step = "counted" => try'[u] = try[u]
    BY <1>t, <1>4 DEF Claims!TypeOK, Claims!BeginClaim
  <2> QED BY <1>0, <2>1, <2>2, <2>3
<1>5. ASSUME NEW i \in Task, Claims!ReleaseClaim(i)
      PROVE  ClaimsInv'
  <2>1. Claims!TypeOK'
    BY <1>t, <1>5 DEF Claims!TypeOK, Claims!ReleaseClaim
  <2>2. \A q \in Person : Fresh(q)' \subseteq Fresh(q)
    BY <1>t, <1>5, ClaimsAssumption DEF Claims!TypeOK, Claims!ReleaseClaim, Fresh, Claims!Unclaimed
  <2>3. try' = try
    BY <1>5 DEF Claims!ReleaseClaim
  <2> QED BY <1>0, <2>1, <2>2, <2>3
<1>6. ASSUME NEW i \in Task, Claims!Lapse(i)
      PROVE  ClaimsInv'
  <2>1. claims[i] \in [holder: Person, lapsed: BOOLEAN]
    BY <1>t, <1>6 DEF Claims!TypeOK, Claims!Lapse, Claims!IsClaimed
  <2>2. Claims!TypeOK'
    BY <1>t, <1>6, <2>1 DEF Claims!TypeOK, Claims!Lapse
  <2>3. \A q \in Person : Fresh(q)' \subseteq Fresh(q)
    BY <1>t, <1>6 DEF Claims!TypeOK, Claims!Lapse, Fresh
  <2>4. try' = try
    BY <1>6 DEF Claims!Lapse
  <2> QED BY <1>0, <2>2, <2>3, <2>4
<1>7. ASSUME NEW i \in Task, NEW p \in Person, Claims!SyncPulls(p, i)
      PROVE  ClaimsInv'
  <2>1. Claims!TypeOK'
    BY <1>t, <1>7 DEF Claims!TypeOK, Claims!SyncPulls
  <2>2. try' = try /\ claims' = claims
    BY <1>7 DEF Claims!SyncPulls
  <2> QED BY <1>0, <2>1, <2>2 DEF Fresh
<1>8. ASSUME NEW i \in Task, Claims!CloseIssue(i)
      PROVE  ClaimsInv'
  <2>1. Claims!TypeOK'
    BY <1>t, <1>8 DEF Claims!TypeOK, Claims!CloseIssue
  <2>2. try' = try /\ claims' = claims
    BY <1>8 DEF Claims!CloseIssue
  <2> QED BY <1>0, <2>1, <2>2 DEF Fresh
<1>9. CASE UNCHANGED Claims!issueClaimsVars
  <2>1. Claims!TypeOK'
    BY <1>t, <1>9 DEF Claims!TypeOK, Claims!issueClaimsVars
  <2>2. try' = try /\ claims' = claims
    BY <1>9 DEF Claims!issueClaimsVars
  <2> QED BY <1>0, <2>1, <2>2 DEF Fresh
<1> QED BY <1>1, <1>2, <1>3, <1>4, <1>5, <1>6, <1>7, <1>8, <1>9 DEF Claims!Next

(* Nobody holds more claims within their days than they may, however many   *)
(* requests run at once: the count a transaction takes under the person's   *)
(* lock is still right when it inserts (claim.go, Claim).                   *)
THEOREM ClaimsStayCapped == PartsSpec => []FreshClaimsCapped
<1> DEFINE I == part = "claims" => ClaimsInv
<1>1. PartsInit => I
  BY InitClaims DEF PartsInit
<1>2. I /\ [PartsNext]_allVars => I'
  <2> SUFFICES ASSUME I, [PartsNext]_allVars, part' = "claims"
               PROVE  ClaimsInv'
    OBVIOUS
  <2>1. part = "claims"
    BY DEF PartsNext, allVars
  <2>2. [Claims!Next]_(Claims!issueClaimsVars)
    BY <2>1 DEF PartsNext, allVars, claimsVars, Claims!issueClaimsVars
  <2> QED BY <2>1, <2>2, ClaimsStep
<1>3. I => FreshClaimsCapped
  BY ClaimsCardinality DEF FreshClaimsCapped, Claims!FreshClaimsCapped, ClaimsInv, CapInv, Fresh
<1> QED BY <1>1, <1>2, <1>3, PTL DEF PartsSpec

----------------------------------------------------------------------------
(* Learning paths (LearningPath). *)

\* A paid path is finished, so no start reuses it and nobody gives it up.
PaidInv ==
  /\ \A k \in paid : paths[k].status = "finished"
  /\ \A v \in Visit : visit[v].kind = "swap" => visit[v].path \in PathId /\ visit[v].position \in Position

PathsInv == Paths!TypeOK /\ PaidInv /\ Paths!PaidPathsAreEarned

Path == [status: {"none", "open", "finished", "abandoned"}, steps: [Position -> Paths!Step], skips: SUBSET Lesson]

----------------------------------------------------------------------------
LEMMA PathsTyped ==
  ASSUME PathsInv
  PROVE  /\ paths \in [PathId -> Path] /\ merged \subseteq Lesson /\ paid \subseteq PathId
         /\ visit \in [Visit -> [kind: {"none", "start", "swap"}, path: PathId \cup {0}, position: Position \cup {0},
                                 found: Lesson \cup {Dropped}, issue: Lesson \cup {Dropped}]]
         /\ award \in PathId \cup {0} /\ Paths!NoVisit \in [kind: {"none", "start", "swap"}, path: PathId \cup {0},
              position: Position \cup {0}, found: Lesson \cup {Dropped}, issue: Lesson \cup {Dropped}]
BY DEF PathsInv, Paths!TypeOK, Path, Paths!NoVisit

\* A step that leaves the paths alone.
LEMMA SamePaths ==
  ASSUME PathsInv, paths' = paths, paid' = paid, merged \subseteq merged', Paths!TypeOK',
         \A v \in Visit : visit'[v].kind = "swap" =>
           visit'[v] = visit[v] \/ (visit'[v].path \in PathId /\ visit'[v].position \in Position)
  PROVE  PathsInv'
<1>1. PaidInv'
  BY DEF PathsInv, PaidInv
<1>2. Paths!PaidPathsAreEarned'
  BY DEF PathsInv, Paths!PaidPathsAreEarned
<1> QED BY <1>1, <1>2 DEF PathsInv

LEMMA CommitStartKeeps ==
  ASSUME PathsInv, NEW v \in Visit, Paths!CommitStart(v)
  PROVE  PathsInv'
<1>1. PICK k \in Paths!Unused, pick \in [Position -> Lesson] :
        paths' = [paths EXCEPT ![k] = [status |-> "open", skips |-> {},
                   steps |-> [p \in Position |-> [issue |-> pick[p], done |-> FALSE]]]]
  BY DEF Paths!CommitStart
<1> DEFINE new == [status |-> "open", skips |-> {},
                   steps |-> [p \in Position |-> [issue |-> pick[p], done |-> FALSE]]]
<1>2. k \in PathId /\ paths[k].status = "none" /\ visit' = [visit EXCEPT ![v] = Paths!NoVisit]
      /\ UNCHANGED <<merged, paid, award>>
  BY DEF Paths!CommitStart, Paths!Unused, Paths!Ends
<1>3. new \in Path /\ \A p \in Position : ~new.steps[p].done
  BY DEF Path, Paths!Step
<1>4. k \notin paid
  BY <1>2 DEF PathsInv, PaidInv
<1>5. paths' = [paths EXCEPT ![k] = new] /\ new.status = "open"
  BY <1>1
<1> HIDE DEF new
<1>6. Paths!TypeOK'
  BY <1>2, <1>3, <1>5, PathsTyped DEF Paths!TypeOK, Path
<1>7. paths'[k] = new /\ \A j \in PathId : j # k => paths'[j] = paths[j]
  BY <1>2, <1>5, PathsTyped
<1>8. PaidInv'
  <2>1. \A j \in paid' : paths'[j].status = "finished"
    BY <1>2, <1>4, <1>7, PathsTyped DEF PathsInv, PaidInv
  <2>2. \A w \in Visit : visit'[w].kind = "swap" => visit'[w].path \in PathId /\ visit'[w].position \in Position
    BY <1>2, PathsTyped DEF PathsInv, PaidInv, Paths!NoVisit
  <2> QED BY <2>1, <2>2 DEF PaidInv
<1>9. Paths!PaidPathsAreEarned'
  <2>1. \A j \in PathId, p \in Position :
          paths'[j].steps[p].done => paths'[j].steps[p].issue \in merged' \cup {Dropped}
    BY <1>2, <1>3, <1>7 DEF PathsInv, Paths!PaidPathsAreEarned
  <2>2. \A j \in paid', p \in Position : paths'[j].steps[p].done
    BY <1>2, <1>4, <1>7, PathsTyped DEF PathsInv, Paths!PaidPathsAreEarned
  <2> QED BY <2>1, <2>2 DEF Paths!PaidPathsAreEarned
<1> QED BY <1>6, <1>8, <1>9 DEF PathsInv

LEMMA CommitSwapKeeps ==
  ASSUME PathsInv, NEW v \in Visit, Paths!CommitSwap(v)
  PROVE  PathsInv'
<1>1. /\ visit[v].kind = "swap" /\ visit[v].path \in PathId /\ visit[v].position \in Position
      /\ visit' = [visit EXCEPT ![v] = Paths!NoVisit] /\ UNCHANGED <<merged, paid, award>>
  BY DEF Paths!CommitSwap, Paths!Ends, PathsInv, PaidInv
<1>2. PICK k \in PathId, p \in Position, i \in Lesson \cup {Dropped}, f \in SUBSET Lesson :
        /\ visit[v].path = k /\ visit[v].position = p /\ i = visit[v].issue /\ f = {visit[v].found} \ {Dropped}
  BY <1>1, PathsTyped
<1>3. /\ ~paths[k].steps[p].done
      /\ paths' = [paths EXCEPT ![k].steps[p].issue = i, ![k].skips = @ \cup f]
  BY <1>2 DEF Paths!CommitSwap, Paths!StillToDo
<1> DEFINE new == [paths[k] EXCEPT !.steps = [paths[k].steps EXCEPT ![p] = [paths[k].steps[p] EXCEPT !.issue = i]],
                                   !.skips = paths[k].skips \cup f]
<1>4. paths[k] \in Path
  BY PathsTyped
<1>5. /\ new \in Path /\ new.status = paths[k].status /\ new.steps[p].done = paths[k].steps[p].done
      /\ \A q \in Position : q # p => new.steps[q] = paths[k].steps[q]
  BY <1>4 DEF Path, Paths!Step
<1>6. paths' = [paths EXCEPT ![k] = new]
  <2>1. paths' \in [PathId -> Path] /\ \A j \in PathId : paths'[j] = IF j = k THEN new ELSE paths[j]
    BY <1>3, <1>4, <1>5, PathsTyped DEF Path, Paths!Step
  <2> HIDE DEF new
  <2> QED BY <2>1, PathsTyped
<1> HIDE DEF new
<1>7. Paths!TypeOK'
  BY <1>1, <1>5, <1>6, PathsTyped DEF Paths!TypeOK, Path
<1>8. paths'[k] = new /\ \A j \in PathId : j # k => paths'[j] = paths[j]
  BY <1>6, PathsTyped
<1>9. PaidInv'
  <2>1. \A j \in paid' : paths'[j].status = "finished"
    BY <1>1, <1>5, <1>8, PathsTyped DEF PathsInv, PaidInv
  <2>2. \A w \in Visit : visit'[w].kind = "swap" => visit'[w].path \in PathId /\ visit'[w].position \in Position
    BY <1>1, PathsTyped DEF PathsInv, PaidInv, Paths!NoVisit
  <2> QED BY <2>1, <2>2 DEF PaidInv
<1>10. Paths!PaidPathsAreEarned'
  <2>1. \A j \in PathId, q \in Position :
          paths'[j].steps[q].done => paths'[j].steps[q].issue \in merged' \cup {Dropped}
    <3> SUFFICES ASSUME NEW j \in PathId, NEW q \in Position, paths'[j].steps[q].done
                 PROVE  paths'[j].steps[q].issue \in merged' \cup {Dropped}
      OBVIOUS
    <3>1. paths'[j].steps[q] = paths[j].steps[q]
      <4>1. CASE j # k
        BY <1>8, <4>1
      <4>2. CASE j = k
        <5>1. new.steps[q].done /\ paths'[j] = new
          BY <1>8, <4>2
        <5>2. q # p
          BY <1>3, <1>5, <5>1
        <5> QED BY <1>5, <4>2, <5>1, <5>2
      <4> QED BY <4>1, <4>2
    <3>2. paths[j].steps[q].issue \in merged \cup {Dropped}
      BY <3>1 DEF PathsInv, Paths!PaidPathsAreEarned
    <3> QED BY <1>1, <3>1, <3>2
  <2>2. \A j \in paid', q \in Position : paths'[j].steps[q].done
    BY <1>1, <1>3, <1>5, <1>8, PathsTyped DEF PathsInv, Paths!PaidPathsAreEarned
  <2> QED BY <2>1, <2>2 DEF Paths!PaidPathsAreEarned
<1> QED BY <1>7, <1>9, <1>10 DEF PathsInv

LEMMA AbandonPathKeeps ==
  ASSUME PathsInv, NEW k \in PathId, Paths!AbandonPath(k)
  PROVE  PathsInv'
<1>1. /\ paths[k].status = "open" /\ paths' = [paths EXCEPT ![k].status = "abandoned"]
      /\ UNCHANGED <<merged, paid, visit, award>>
  BY DEF Paths!AbandonPath, Paths!Open
<1>2. /\ paths' \in [PathId -> Path] /\ \A j \in PathId : paths'[j].steps = paths[j].steps
      /\ \A j \in PathId : j # k => paths'[j] = paths[j]
  <2>1. paths[k] \in Path
    BY PathsTyped
  <2>2. [paths[k] EXCEPT !.status = "abandoned"] \in Path
    BY <2>1 DEF Path
  <2>3. /\ paths'[k] = [paths[k] EXCEPT !.status = "abandoned"]
        /\ \A j \in PathId : j # k => paths'[j] = paths[j]
    BY <1>1, PathsTyped
  <2>4. paths'[k].steps = paths[k].steps
    BY <2>1, <2>3 DEF Path
  <2>5. paths' \in [PathId -> Path]
    BY <1>1, <2>2, PathsTyped
  <2> QED BY <2>3, <2>4, <2>5
<1>3. k \notin paid
  BY <1>1 DEF PathsInv, PaidInv
<1>4. Paths!TypeOK'
  BY <1>1, <1>2, PathsTyped DEF Paths!TypeOK, Path
<1>5. PaidInv'
  BY <1>1, <1>2, <1>3, PathsTyped DEF PathsInv, PaidInv
<1>6. Paths!PaidPathsAreEarned'
  BY <1>1, <1>2, PathsTyped DEF PathsInv, Paths!PaidPathsAreEarned
<1> QED BY <1>4, <1>5, <1>6 DEF PathsInv

LEMMA PruneLessonKeeps ==
  ASSUME PathsInv, NEW i \in Lesson, Paths!PruneLesson(i)
  PROVE  PathsInv'
<1> DEFINE Steps(k) == [p \in Position |-> IF paths[k].steps[p].issue = i
                          THEN [paths[k].steps[p] EXCEPT !.issue = Dropped] ELSE paths[k].steps[p]]
<1>1. /\ paths' = [k \in PathId |-> [paths[k] EXCEPT !.steps = Steps(k), !.skips = @ \ {i}]]
      /\ merged' = merged \ {i} /\ UNCHANGED <<paid, award>>
      /\ visit' = [v \in Visit |-> IF i \in {visit[v].found, visit[v].issue} THEN Paths!NoVisit ELSE visit[v]]
  BY DEF Paths!PruneLesson
<1>2. \A k \in PathId : Steps(k) \in [Position -> Paths!Step]
  <2> SUFFICES ASSUME NEW k \in PathId, NEW p \in Position
               PROVE  Steps(k)[p] \in Paths!Step
    OBVIOUS
  <2>1. paths[k].steps[p] \in Paths!Step
    BY PathsTyped DEF Path
  <2> QED BY <2>1 DEF Paths!Step
<1>3. \A k \in PathId, p \in Position :
        /\ Steps(k)[p].done = paths[k].steps[p].done
        /\ Steps(k)[p].issue = IF paths[k].steps[p].issue = i THEN Dropped ELSE paths[k].steps[p].issue
  <2> SUFFICES ASSUME NEW k \in PathId, NEW p \in Position
               PROVE  /\ Steps(k)[p].done = paths[k].steps[p].done
                      /\ Steps(k)[p].issue = IF paths[k].steps[p].issue = i THEN Dropped ELSE paths[k].steps[p].issue
    OBVIOUS
  <2>1. paths[k].steps[p] \in Paths!Step
    BY PathsTyped DEF Path
  <2> QED BY <2>1 DEF Paths!Step
<1> HIDE DEF Steps
<1>4. paths' \in [PathId -> Path] /\ \A k \in PathId : paths'[k].steps = Steps(k) /\ paths'[k].status = paths[k].status
  <2> SUFFICES ASSUME NEW k \in PathId
               PROVE  /\ [paths[k] EXCEPT !.steps = Steps(k), !.skips = @ \ {i}] \in Path
                      /\ [paths[k] EXCEPT !.steps = Steps(k), !.skips = @ \ {i}].steps = Steps(k)
                      /\ [paths[k] EXCEPT !.steps = Steps(k), !.skips = @ \ {i}].status = paths[k].status
    BY <1>1
  <2>1. paths[k] \in Path
    BY PathsTyped
  <2> QED BY <1>2, <2>1 DEF Path
<1>5. Paths!TypeOK'
  <2>1. merged' \subseteq Lesson /\ paid' \subseteq PathId /\ award' \in PathId \cup {0}
    BY <1>1, PathsTyped
  <2>2. visit' \in [Visit -> [kind: {"none", "start", "swap"}, path: PathId \cup {0}, position: Position \cup {0},
                             found: Lesson \cup {Dropped}, issue: Lesson \cup {Dropped}]]
    BY <1>1, PathsTyped
  <2> QED BY <1>4, <2>1, <2>2 DEF Paths!TypeOK, Path
<1>6. PaidInv'
  <2>1. \A j \in paid' : paths'[j].status = "finished"
    BY <1>1, <1>4, PathsTyped DEF PathsInv, PaidInv
  <2>2. \A w \in Visit : visit'[w].kind = "swap" => visit'[w].path \in PathId /\ visit'[w].position \in Position
    BY <1>1 DEF PathsInv, PaidInv, Paths!NoVisit
  <2> QED BY <2>1, <2>2 DEF PaidInv
<1>7. Paths!PaidPathsAreEarned'
  <2>1. ASSUME NEW k \in PathId, NEW p \in Position, paths'[k].steps[p].done
        PROVE  paths'[k].steps[p].issue \in merged' \cup {Dropped}
    <3>1. paths'[k].steps[p] = Steps(k)[p]
      BY <1>4
    <3>2. paths[k].steps[p].done
      BY <1>3, <2>1, <3>1
    <3>3. paths[k].steps[p].issue \in merged \cup {Dropped}
      BY <3>2 DEF PathsInv, Paths!PaidPathsAreEarned
    <3>4. CASE paths[k].steps[p].issue = i
      BY <1>3, <3>1, <3>4
    <3>5. CASE paths[k].steps[p].issue # i
      <4>1. paths'[k].steps[p].issue = paths[k].steps[p].issue
        BY <1>3, <3>1, <3>5
      <4>2. merged' = merged \ {i}
        BY <1>1
      <4> QED BY <3>3, <3>5, <4>1, <4>2
    <3> QED BY <3>4, <3>5
  <2>2. ASSUME NEW k \in paid', NEW p \in Position
        PROVE  paths'[k].steps[p].done
    <3>1. k \in PathId /\ paths[k].steps[p].done
      BY <1>1, PathsTyped DEF PathsInv, Paths!PaidPathsAreEarned
    <3> QED BY <1>3, <1>4, <3>1
  <2> QED BY <2>1, <2>2 DEF Paths!PaidPathsAreEarned
<1> QED BY <1>5, <1>6, <1>7 DEF PathsInv

LEMMA PayPathKeeps ==
  ASSUME PathsInv, Paths!PayPath
  PROVE  PathsInv'
<1>1. award' = 0 /\ UNCHANGED <<merged, visit>>
  BY DEF Paths!PayPath
<1>2. PICK k \in PathId : award = k
  BY PathsTyped DEF Paths!PayPath
<1> DEFINE steps == Paths!Marked(k)
<1>3. /\ steps \in [Position -> Paths!Step]
      /\ \A p \in Position : /\ steps[p].issue = paths[k].steps[p].issue
                             /\ steps[p].done <=> paths[k].steps[p].done \/ paths[k].steps[p].issue \in merged
  <2>1. paths[k].steps \in [Position -> Paths!Step]
    BY PathsTyped DEF Path
  <2> QED BY <2>1 DEF Paths!Marked, Paths!Step
<1>4. /\ paid' \in {paid, paid \cup {k}} /\ (k \in paid' => \A p \in Position : steps[p].done)
      /\ \E status \in {paths[k].status, "finished"} :
           /\ paths' = [paths EXCEPT ![k].steps = steps, ![k].status = status]
           /\ (k \in paid' => status = "finished")
  <2>1. CASE \A p \in Position : steps[p].done
    BY <1>2, <2>1 DEF Paths!PayPath
  <2>2. CASE ~(\A p \in Position : steps[p].done)
    <3>1. paid' = paid /\ paths' = [paths EXCEPT ![k].steps = steps]
      BY <1>2, <2>2 DEF Paths!PayPath
    <3>2. k \in paid => \A p \in Position : paths[k].steps[p].done
      BY DEF PathsInv, Paths!PaidPathsAreEarned
    <3>3. k \notin paid
      BY <1>3, <2>2, <3>2
    <3>4. [paths EXCEPT ![k].steps = steps] = [paths EXCEPT ![k].steps = steps, ![k].status = paths[k].status]
      <4> HIDE DEF steps
      <4>1. paths \in [PathId -> Path]
        BY PathsTyped
      <4> QED BY <4>1, <1>3 DEF Path
    <3> QED BY <3>1, <3>3, <3>4
  <2> QED BY <2>1, <2>2
<1> HIDE DEF steps
<1>5. PICK status \in {paths[k].status, "finished"} :
        /\ paths' = [paths EXCEPT ![k].steps = steps, ![k].status = status]
        /\ (k \in paid' => status = "finished")
  BY <1>4
<1>6. /\ paths' \in [PathId -> Path] /\ paths'[k].steps = steps /\ paths'[k].status = status
      /\ \A j \in PathId : j # k => paths'[j] = paths[j]
  <2>1. paths[k] \in Path /\ paths \in [PathId -> Path]
    BY PathsTyped
  <2>2. status \in {"none", "open", "finished", "abandoned"}
    BY <1>5, <2>1 DEF Path
  <2> DEFINE new == [paths[k] EXCEPT !.steps = steps, !.status = status]
  <2>3. new \in Path /\ new.steps = steps /\ new.status = status
    BY <1>3, <2>1, <2>2 DEF Path
  <2>4. paths' = [paths EXCEPT ![k] = new]
    <3>1. \A j \in PathId : paths'[j] = IF j = k THEN new ELSE paths[j]
      BY <1>5, <2>1 DEF Path
    <3>2. DOMAIN paths' = PathId /\ paths' = [j \in PathId |-> paths'[j]]
      BY <1>5, <2>1
    <3> HIDE DEF new
    <3> QED BY <2>1, <3>1, <3>2
  <2> HIDE DEF new
  <2> QED BY <2>1, <2>3, <2>4
<1>7. Paths!TypeOK'
  BY <1>1, <1>4, <1>6, PathsTyped DEF Paths!TypeOK, Path
<1>8. PaidInv'
  <2>1. \A j \in paid' : paths'[j].status = "finished"
    BY <1>4, <1>5, <1>6, PathsTyped DEF PathsInv, PaidInv
  <2> QED BY <1>1, <2>1 DEF PathsInv, PaidInv
<1>9. Paths!PaidPathsAreEarned'
  <2>1. \A j \in PathId, p \in Position :
          paths'[j].steps[p].done => paths'[j].steps[p].issue \in merged' \cup {Dropped}
    <3> SUFFICES ASSUME NEW j \in PathId, NEW p \in Position, paths'[j].steps[p].done
                 PROVE  paths'[j].steps[p].issue \in merged \cup {Dropped}
      BY <1>1
    <3>1. paths[j].steps[p].done => paths[j].steps[p].issue \in merged \cup {Dropped}
      BY DEF PathsInv, Paths!PaidPathsAreEarned
    <3>2. CASE j # k
      BY <1>6, <3>1, <3>2
    <3>3. CASE j = k
      <4>1. paths'[j].steps[p] = steps[p]
        BY <1>6, <3>3
      <4>2. steps[p].done
        BY <4>1
      <4>3. paths[k].steps[p].done \/ paths[k].steps[p].issue \in merged
        BY <1>3, <4>2
      <4>4. steps[p].issue = paths[k].steps[p].issue
        BY <1>3
      <4> QED BY <3>1, <3>3, <4>1, <4>3, <4>4
    <3> QED BY <3>2, <3>3
  <2>2. \A j \in paid', p \in Position : paths'[j].steps[p].done
    BY <1>4, <1>6, PathsTyped DEF PathsInv, Paths!PaidPathsAreEarned
  <2> QED BY <2>1, <2>2 DEF Paths!PaidPathsAreEarned
<1> QED BY <1>7, <1>8, <1>9 DEF PathsInv

LEMMA InitPaths ==
  ASSUME Paths!Init
  PROVE  PathsInv
<1>1. Paths!TypeOK
  BY DEF Paths!Init, Paths!TypeOK, Paths!NoPath, Paths!NoVisit, Paths!Step
<1>2. PaidInv
  BY DEF Paths!Init, PaidInv, Paths!NoVisit
<1>3. Paths!PaidPathsAreEarned
  BY DEF Paths!Init, Paths!PaidPathsAreEarned, Paths!NoPath
<1> QED BY <1>1, <1>2, <1>3 DEF PathsInv

LEMMA PathsStep == PathsInv /\ [Paths!Next]_(Paths!learningPathVars) => PathsInv'
<1> SUFFICES ASSUME PathsInv, [Paths!Next]_(Paths!learningPathVars)
             PROVE  PathsInv'
  OBVIOUS
<1>1. ASSUME NEW v \in Visit, Paths!BeginStart(v)
      PROVE  PathsInv'
  <2>1. visit' = [visit EXCEPT ![v].kind = "start"] /\ UNCHANGED <<paths, merged, paid, award>>
    BY <1>1 DEF Paths!BeginStart
  <2>2. Paths!TypeOK'
    BY <2>1, PathsTyped DEF Paths!TypeOK, Path
  <2>3. \A w \in Visit : visit'[w].kind = "swap" => visit'[w] = visit[w]
    BY <2>1, PathsTyped
  <2> QED BY <2>1, <2>2, <2>3, SamePaths
<1>2. ASSUME NEW v \in Visit, Paths!CommitStart(v)
      PROVE  PathsInv'
  BY <1>2, CommitStartKeeps
<1>3. ASSUME NEW v \in Visit, Paths!CommitSwap(v)
      PROVE  PathsInv'
  BY <1>3, CommitSwapKeeps
<1>4. ASSUME NEW v \in Visit, Paths!GiveUpVisit(v)
      PROVE  PathsInv'
  <2>1. visit' = [visit EXCEPT ![v] = Paths!NoVisit] /\ UNCHANGED <<paths, merged, paid, award>>
    BY <1>4 DEF Paths!GiveUpVisit, Paths!Ends
  <2>2. Paths!TypeOK'
    BY <2>1, PathsTyped DEF Paths!TypeOK, Path
  <2>3. \A w \in Visit : visit'[w].kind = "swap" => visit'[w] = visit[w]
    BY <2>1, PathsTyped DEF Paths!NoVisit
  <2> QED BY <2>1, <2>2, <2>3, SamePaths
<1>5. ASSUME NEW v \in Visit, NEW k \in PathId, NEW p \in Position, Paths!BeginSwap(v, k, p)
      PROVE  PathsInv'
  <2>1. PICK i \in Lesson : visit' = [visit EXCEPT ![v] = [kind |-> "swap", path |-> k, position |-> p,
                                      found |-> paths[k].steps[p].issue, issue |-> i]]
    BY <1>5 DEF Paths!BeginSwap
  <2>2. UNCHANGED <<paths, merged, paid, award>>
    BY <1>5 DEF Paths!BeginSwap
  <2>3. paths[k].steps[p].issue \in Lesson \cup {Dropped}
    BY PathsTyped DEF Path, Paths!Step
  <2>4. Paths!TypeOK'
    BY <2>1, <2>2, <2>3, PathsTyped DEF Paths!TypeOK, Path
  <2>5. \A w \in Visit : visit'[w].kind = "swap" =>
          visit'[w] = visit[w] \/ (visit'[w].path \in PathId /\ visit'[w].position \in Position)
    BY <2>1, PathsTyped
  <2> QED BY <2>2, <2>4, <2>5, SamePaths
<1>6. ASSUME NEW k \in PathId, Paths!AbandonPath(k)
      PROVE  PathsInv'
  BY <1>6, AbandonPathKeeps
<1>7. ASSUME NEW k \in PathId, Paths!FindPath(k)
      PROVE  PathsInv'
  <2>1. award' = k /\ UNCHANGED <<paths, merged, paid, visit>>
    BY <1>7 DEF Paths!FindPath
  <2>2. Paths!TypeOK'
    BY <2>1, PathsTyped DEF Paths!TypeOK, Path
  <2> QED BY <2>1, <2>2, SamePaths
<1>8. ASSUME NEW i \in Lesson, Paths!PruneLesson(i)
      PROVE  PathsInv'
  BY <1>8, PruneLessonKeeps
<1>9. ASSUME NEW i \in Lesson, Paths!MergeLesson(i)
      PROVE  PathsInv'
  <2>1. merged' = merged \cup {i} /\ UNCHANGED <<paths, paid, visit, award>>
    BY <1>9 DEF Paths!MergeLesson
  <2>2. Paths!TypeOK'
    BY <2>1, PathsTyped DEF Paths!TypeOK, Path
  <2> QED BY <2>1, <2>2, SamePaths
<1>10. ASSUME Paths!PayPath
       PROVE  PathsInv'
  BY <1>10, PayPathKeeps
<1>11. CASE UNCHANGED Paths!learningPathVars
  <2>1. UNCHANGED <<paths, merged, paid, visit, award>>
    BY <1>11 DEF Paths!learningPathVars
  <2>2. Paths!TypeOK'
    BY <2>1, PathsTyped DEF Paths!TypeOK, Path
  <2> QED BY <2>1, <2>2, SamePaths
<1> QED BY <1>1, <1>2, <1>3, <1>4, <1>5, <1>6, <1>7, <1>8, <1>9, <1>10, <1>11 DEF Paths!Next

(* A path is paid for work done: every step of it was closed by a merge of  *)
(* the person's, and a swap that read the path before a merge never puts    *)
(* another issue on a step that is done by then, whatever runs at once      *)
(* (learnpath.go; ingest/prs.go, pathTx).                                   *)
THEOREM PathsAreEarned == PartsSpec => []PaidPathsAreEarned
<1> DEFINE I == part = "paths" => PathsInv
<1>1. PartsInit => I
  BY InitPaths DEF PartsInit
<1>2. I /\ [PartsNext]_allVars => I'
  <2> SUFFICES ASSUME I, [PartsNext]_allVars, part' = "paths"
               PROVE  PathsInv'
    OBVIOUS
  <2>1. part = "paths"
    BY DEF PartsNext, allVars
  <2>2. [Paths!Next]_(Paths!learningPathVars)
    BY <2>1 DEF PartsNext, allVars, pathsVars, Paths!learningPathVars
  <2> QED BY <2>1, <2>2, PathsStep
<1>3. I => PaidPathsAreEarned
  BY DEF PaidPathsAreEarned, PathsInv
<1> QED BY <1>1, <1>2, <1>3, PTL DEF PartsSpec

----------------------------------------------------------------------------
(* Issue bodies (IssueBodies). *)

\* The misses passed on are counted, and a count a caller is refused on expires.
BodiesInv == IssueTexts!TypeOK /\ spent <= redis.count /\ IssueTexts!MissesCapped

BodyRequest == [step: {"done", "missed", "asked", "fetched"}, issue: Text]

----------------------------------------------------------------------------
\* A bounded set of numbers has a least and a greatest.
LEMMA LeastExists ==
  ASSUME NEW T \in SUBSET Nat, T # {}
  PROVE  \E t \in T : \A u \in T : t <= u
<1> DEFINE R == OpToRel(<, Nat)
<1>1. IsWellFoundedOn(R, Nat)
  BY NatLessThanWellFounded
<1> HIDE DEF R
<1>2. PICK t \in T : \A u \in T : ~(<<u, t>> \in R)
  BY <1>1, WFMin
<1>3. \A u \in T : ~(u < t)
  BY <1>2 DEF R, OpToRel
<1> QED BY <1>3

LEMMA GreatestExists ==
  ASSUME NEW N \in Nat, NEW T \in SUBSET (0..N), T # {}
  PROVE  \E t \in T : \A u \in T : u <= t
<1> DEFINE S == {N - t : t \in T}
<1>0. \A t \in T : t \in 0..N /\ N - t \in Nat
  OBVIOUS
<1>1. S \subseteq Nat /\ S # {}
  BY <1>0
<1>2. \A u \in T : N - u \in S
  OBVIOUS
<1> HIDE DEF S
<1>3. PICK x \in S : \A y \in S : x <= y
  BY <1>1, LeastExists
<1>4. PICK t \in T : x = N - t
  BY DEF S
<1>5. ASSUME NEW u \in T PROVE u <= t
  <2>1. N - t <= N - u
    BY <1>2, <1>3, <1>4
  <2> QED BY <1>0, <2>1
<1> QED BY <1>5

LEMMA BodiesCardinality ==
  ASSUME NEW S
  PROVE  IssueTexts!Cardinality(S) = Cardinality(S)
BY DEF IssueTexts!Cardinality, Cardinality

LEMMA BodiesTyped ==
  ASSUME BodiesInv
  PROVE  /\ bodies \in [Text -> 0..Cardinality(Text)] /\ request \in [Request -> BodyRequest] /\ saved \subseteq Text
         /\ redis \in [count: 0..MaxCount, expires: BOOLEAN] /\ refused \in BOOLEAN
         /\ redis.count \in Nat /\ redis.count <= MaxCount /\ redis.expires \in BOOLEAN
         /\ spent \in Nat /\ spent <= redis.count /\ spent <= MissLimit /\ (refused => redis.expires)
BY BodiesCardinality, BodiesAssumption DEF BodiesInv, IssueTexts!TypeOK, IssueTexts!MissesCapped, BodyRequest

\* What the sizes of S count.
BytesOf(S) == UNION {{i} \X (1..SizeOf[i]) : i \in S}

LEMMA BytesAreFinite ==
  ASSUME NEW S, S \subseteq Text
  PROVE  IsFiniteSet(BytesOf(S)) /\ IssueTexts!Bytes(S) = Cardinality(BytesOf(S)) /\ IssueTexts!Bytes(S) \in Nat
<1> DEFINE f == [i \in S |-> {i} \X (1..SizeOf[i])]
           T == {{i} \X (1..SizeOf[i]) : i \in S}
<1>1. IsFiniteSet(S)
  BY BodiesAssumption, FS_Subset
<1>2. f \in Surjection(S, T)
  BY DEF Surjection
<1>3. IsFiniteSet(T)
  BY <1>1, <1>2, FS_Surjection
<1>4. \A i \in S : IsFiniteSet({i} \X (1..SizeOf[i]))
  <2> SUFFICES ASSUME NEW i \in S PROVE IsFiniteSet({i} \X (1..SizeOf[i]))
    OBVIOUS
  <2>1. IsFiniteSet({i}) /\ IsFiniteSet(1..SizeOf[i])
    <3>1. SizeOf[i] \in Int /\ 1 \in Int
      BY BodiesAssumption
    <3>2. IsFiniteSet(1..SizeOf[i])
      BY <3>1, FS_Interval
    <3> QED BY <3>2, FS_Singleton
  <2> QED BY <2>1, FS_Product
<1>5. IsFiniteSet(BytesOf(S))
  BY <1>3, <1>4, FS_UNION DEF BytesOf
<1>6. IssueTexts!Bytes(S) = Cardinality(BytesOf(S))
  BY BodiesCardinality DEF IssueTexts!Bytes, BytesOf
<1> QED BY <1>5, <1>6, FS_CardinalityType

LEMMA FewerBytes ==
  ASSUME NEW S, NEW R, R \subseteq S, S \subseteq Text
  PROVE  IssueTexts!Bytes(R) <= IssueTexts!Bytes(S)
<1>1. BytesOf(R) \subseteq BytesOf(S)
  BY DEF BytesOf
<1>2. IsFiniteSet(BytesOf(S)) /\ IssueTexts!Bytes(S) = Cardinality(BytesOf(S))
  BY BytesAreFinite
<1>3. IssueTexts!Bytes(R) = Cardinality(BytesOf(R))
  BY BytesAreFinite
<1> QED BY <1>1, <1>2, <1>3, FS_Subset

LEMMA BytesTogether ==
  ASSUME NEW S, NEW R, S \subseteq Text, R \subseteq Text
  PROVE  IssueTexts!Bytes(S \cup R) <= IssueTexts!Bytes(S) + IssueTexts!Bytes(R)
<1>1. BytesOf(S \cup R) = BytesOf(S) \cup BytesOf(R)
  BY DEF BytesOf
<1>2. /\ IsFiniteSet(BytesOf(S)) /\ IsFiniteSet(BytesOf(R))
      /\ IssueTexts!Bytes(S) = Cardinality(BytesOf(S)) /\ IssueTexts!Bytes(R) = Cardinality(BytesOf(R))
  BY BytesAreFinite
<1>3. IssueTexts!Bytes(S \cup R) = Cardinality(BytesOf(S \cup R))
  BY BytesAreFinite
<1> DEFINE A == BytesOf(S)
           B == BytesOf(R)
<1>4. Cardinality(A \cup B) = Cardinality(A) + Cardinality(B) - Cardinality(A \cap B)
  BY <1>2, FS_Union
<1>5. Cardinality(A) \in Nat /\ Cardinality(B) \in Nat /\ Cardinality(A \cap B) \in Nat
  <2>1. A \cap B \in SUBSET A
    OBVIOUS
  <2> QED BY <1>2, <2>1, FS_Subset, FS_CardinalityType
<1>6. /\ IssueTexts!Bytes(S) = Cardinality(A) /\ IssueTexts!Bytes(R) = Cardinality(B)
      /\ IssueTexts!Bytes(S \cup R) = Cardinality(A \cup B)
  BY <1>1, <1>2, <1>3
<1> HIDE DEF A, B
<1> QED BY <1>4, <1>5, <1>6

\* Reading and trimming give the rows there are their places, and no others.
LEMMA PlacedRows ==
  ASSUME NEW S, S \subseteq Text, NEW read \in [Text -> Nat]
  PROVE  /\ IssueTexts!Placed(S, read) \in [Text -> 0..Cardinality(Text)]
         /\ \A i \in Text : IssueTexts!Placed(S, read)[i] > 0 <=> i \in S
<1>1. \A i \in S : LET T == {j \in S : read[j] <= read[i]} IN Cardinality(T) \in 1..Cardinality(Text)
  <2> SUFFICES ASSUME NEW i \in S
               PROVE  Cardinality({j \in S : read[j] <= read[i]}) \in 1..Cardinality(Text)
    OBVIOUS
  <2> DEFINE T == {j \in S : read[j] <= read[i]}
  <2>1. T \in SUBSET Text /\ i \in T
    OBVIOUS
  <2> HIDE DEF T
  <2>2. IsFiniteSet(T) /\ Cardinality(T) <= Cardinality(Text) /\ Cardinality(Text) \in Nat
    BY <2>1, FS_Subset, FS_CardinalityType, BodiesAssumption
  <2>3. Cardinality(T) \in Nat /\ Cardinality(T) # 0
    BY <2>1, <2>2, FS_CardinalityType, FS_EmptySet
  <2>4. Cardinality(T) \in 1..Cardinality(Text)
    BY <2>2, <2>3
  <2> QED BY <2>4 DEF T
<1>2. Cardinality(Text) \in Nat
  BY FS_CardinalityType, BodiesAssumption
<1>3. \A i \in Text : IssueTexts!Placed(S, read)[i] = IF i \in S THEN Cardinality({j \in S : read[j] <= read[i]}) ELSE 0
  BY BodiesCardinality DEF IssueTexts!Placed
<1>4. \A i \in Text : /\ IssueTexts!Placed(S, read)[i] \in 0..Cardinality(Text)
                      /\ IssueTexts!Placed(S, read)[i] > 0 <=> i \in S
  <2> SUFFICES ASSUME NEW i \in Text
               PROVE  /\ IssueTexts!Placed(S, read)[i] \in 0..Cardinality(Text)
                      /\ IssueTexts!Placed(S, read)[i] > 0 <=> i \in S
    OBVIOUS
  <2> DEFINE n == Cardinality({j \in S : read[j] <= read[i]})
  <2>1. i \in S => n \in 1..Cardinality(Text)
    BY <1>1
  <2>2. IssueTexts!Placed(S, read)[i] = IF i \in S THEN n ELSE 0
    BY <1>3
  <2> HIDE DEF n
  <2> QED BY <1>2, <2>1, <2>2
<1>5. IssueTexts!Placed(S, read) = [i \in Text |-> IssueTexts!Placed(S, read)[i]]
  BY DEF IssueTexts!Placed
<1> QED BY <1>4, <1>5

LEMMA ReadRows ==
  ASSUME BodiesInv, NEW i \in Text, bodies' = IssueTexts!ReadNow(i)
  PROVE  bodies' \in [Text -> 0..Cardinality(Text)] /\ IssueTexts!Cached \subseteq IssueTexts!Cached'
<1>1. Cardinality(Text) \in Nat
  BY FS_CardinalityType, BodiesAssumption
<1> DEFINE read == [bodies EXCEPT ![i] = 0]
           S == IssueTexts!Cached \cup {i}
<1>2. read \in [Text -> Nat] /\ S \subseteq Text
  BY <1>1, BodiesTyped DEF IssueTexts!Cached
<1>3. bodies' = IssueTexts!Placed(S, read)
  BY DEF IssueTexts!ReadNow
<1> HIDE DEF read, S
<1>4. bodies' \in [Text -> 0..Cardinality(Text)] /\ \A j \in Text : bodies'[j] > 0 <=> j \in S
  BY <1>2, <1>3, PlacedRows
<1> QED BY <1>4 DEF S, IssueTexts!Cached

\* The most recently read of those trimmed is behind every one that is kept,
\* and what is kept up to the least recently read of them fits.
LEMMA PruneKeeps ==
  ASSUME BodiesInv, IssueTexts!PruneIssueBodies
  PROVE  bodies' \in [Text -> 0..Cardinality(Text)] /\ IssueTexts!OldestReadTrimmed
<1> DEFINE cached == IssueTexts!Cached
           rest == cached \ IssueTexts!Pruned
           Upto(i) == {j \in IssueTexts!Unsaved : bodies[j] <= bodies[i]}
           fixed == IssueTexts!Bytes(cached \cap saved)
<1>1. Cardinality(Text) \in Nat /\ bodies \in [Text -> 0..Cardinality(Text)] /\ bodies \in [Text -> Nat]
  BY FS_CardinalityType, BodiesAssumption, BodiesTyped
<1>2. cached \subseteq Text /\ rest \subseteq Text /\ IssueTexts!Unsaved \subseteq cached
  BY DEF IssueTexts!Cached, IssueTexts!Unsaved
<1>3. bodies' = IssueTexts!Placed(rest, bodies)
  BY DEF IssueTexts!PruneIssueBodies
<1>4. bodies' \in [Text -> 0..Cardinality(Text)] /\ \A j \in Text : bodies'[j] > 0 <=> j \in rest
  <2> HIDE DEF rest
  <2> QED BY <1>1, <1>2, <1>3, PlacedRows
<1>5. IssueTexts!Cached' = rest
  BY <1>2, <1>4 DEF IssueTexts!Cached
<1>6. \A i : i \in IssueTexts!Pruned <=> i \in IssueTexts!Unsaved /\ IssueTexts!Bytes(Upto(i)) + fixed > MaxBytes
  BY DEF IssueTexts!Pruned
<1>7. \A i \in Text : Upto(i) \subseteq Text /\ IssueTexts!Bytes(Upto(i)) \in Nat
  BY <1>2, BytesAreFinite
<1>8. fixed \in Nat /\ MaxBytes \in Nat
  BY <1>2, BytesAreFinite, BodiesAssumption
<1> HIDE DEF fixed
<1>9. \A i \in IssueTexts!Pruned, j \in IssueTexts!Unsaved \ IssueTexts!Pruned : bodies[j] < bodies[i]
  <2> SUFFICES ASSUME NEW i \in IssueTexts!Pruned, NEW j \in IssueTexts!Unsaved \ IssueTexts!Pruned, ~(bodies[j] < bodies[i])
               PROVE  FALSE
    OBVIOUS
  <2>1. i \in Text /\ j \in Text
    BY <1>2, <1>6
  <2>2. Upto(i) \subseteq Upto(j)
    BY <1>1, <1>2, <2>1
  <2>3. IssueTexts!Bytes(Upto(i)) <= IssueTexts!Bytes(Upto(j))
    <3> HIDE DEF Upto
    <3> QED BY <1>7, <2>1, <2>2, FewerBytes
  <2>4. IssueTexts!Bytes(Upto(i)) + fixed > MaxBytes /\ ~(IssueTexts!Bytes(Upto(j)) + fixed > MaxBytes)
    BY <1>6
  <2> HIDE DEF Upto
  <2> QED BY <1>7, <1>8, <2>1, <2>3, <2>4
<1>10. rest \subseteq saved \/ IssueTexts!Bytes(rest) <= MaxBytes
  <2> DEFINE left == IssueTexts!Unsaved \ IssueTexts!Pruned
             places == {bodies[j] : j \in left}
  <2> SUFFICES ASSUME left # {}
               PROVE  IssueTexts!Bytes(rest) <= MaxBytes
    BY DEF IssueTexts!Unsaved
  <2>1. places \in SUBSET (0..Cardinality(Text)) /\ places # {}
    BY <1>1, <1>2
  <2>2. PICK n \in places : \A m \in places : m <= n
    <3> HIDE DEF places
    <3> QED BY <1>1, <2>1, GreatestExists
  <2>3. PICK i \in left : \A j \in left : bodies[j] <= bodies[i]
    BY <2>2
  <2>4. i \in Text /\ IssueTexts!Bytes(Upto(i)) + fixed <= MaxBytes
    <3>1. i \in Text /\ ~(IssueTexts!Bytes(Upto(i)) + fixed > MaxBytes)
      BY <1>2, <1>6
    <3> HIDE DEF Upto
    <3> QED BY <1>7, <1>8, <3>1
  <2>5. rest \subseteq Upto(i) \cup (cached \cap saved)
    BY <2>3 DEF IssueTexts!Unsaved
  <2> HIDE DEF left, places, Upto
  <2> DEFINE all == Upto(i) \cup (cached \cap saved)
  <2>6. all \subseteq Text /\ Upto(i) \subseteq Text /\ (cached \cap saved) \subseteq Text
    BY <1>2, <1>7, <2>4
  <2>7. IssueTexts!Bytes(rest) <= IssueTexts!Bytes(all)
    BY <2>5, <2>6, FewerBytes
  <2>8. IssueTexts!Bytes(all) <= IssueTexts!Bytes(Upto(i)) + fixed
    BY <2>6, BytesTogether DEF fixed
  <2>9. IssueTexts!Bytes(all) \in Nat /\ IssueTexts!Bytes(rest) \in Nat /\ IssueTexts!Bytes(Upto(i)) \in Nat
    BY <1>2, <1>7, <2>4, <2>6, BytesAreFinite
  <2> HIDE DEF all, rest
  <2> QED BY <1>8, <2>4, <2>7, <2>8, <2>9
<1>11. \A i : i \in cached \ rest => i \in IssueTexts!Pruned /\ i \notin saved
  BY <1>6 DEF IssueTexts!Unsaved
<1>12. \A j : j \in cached \ ((cached \ rest) \cup saved) => j \in IssueTexts!Unsaved \ IssueTexts!Pruned
  BY DEF IssueTexts!Unsaved
<1>13. /\ (cached \ rest) \cap saved = {}
       /\ \A i \in cached \ rest, j \in cached \ ((cached \ rest) \cup saved) : bodies[j] < bodies[i]
  BY <1>9, <1>11, <1>12
<1> HIDE DEF cached, rest
<1> QED BY <1>4, <1>5, <1>10, <1>13 DEF IssueTexts!OldestReadTrimmed, cached

LEMMA InitBodies == IssueTexts!Init => BodiesInv
<1> SUFFICES ASSUME IssueTexts!Init PROVE BodiesInv
  OBVIOUS
<1>1. Cardinality(Text) \in Nat
  BY FS_CardinalityType, BodiesAssumption
<1>2. IssueTexts!Done \in BodyRequest
  BY BodiesAssumption DEF IssueTexts!Done, BodyRequest
<1>3. /\ bodies \in [Text -> 0..Cardinality(Text)] /\ request \in [Request -> BodyRequest]
      /\ redis \in [count: 0..MaxCount, expires: BOOLEAN] /\ spent \in 0..MaxCount
  BY <1>1, <1>2, BodiesAssumption DEF IssueTexts!Init, IssueTexts!NoKey
<1>4. saved = {} /\ redis.count = 0 /\ spent = 0 /\ refused = FALSE
  BY DEF IssueTexts!Init, IssueTexts!NoKey
<1>5. IssueTexts!TypeOK
  BY <1>3, <1>4, BodiesCardinality DEF IssueTexts!TypeOK, BodyRequest
<1> QED BY <1>4, <1>5, BodiesAssumption DEF BodiesInv, IssueTexts!MissesCapped

\* What a step has to keep.
LEMMA BodiesKept ==
  ASSUME BodiesInv, bodies' \in [Text -> 0..Cardinality(Text)], saved' \subseteq Text,
         request' \in [Request -> BodyRequest],
         NEW counted \in 0..MaxCount, NEW expires \in BOOLEAN, redis' = [count |-> counted, expires |-> expires],
         spent' \in Nat, spent' <= counted, spent' <= MissLimit, refused' \in BOOLEAN, refused' => expires
  PROVE  BodiesInv'
<1>1. redis' \in [count: 0..MaxCount, expires: BOOLEAN] /\ redis'.count = counted /\ redis'.expires = expires
  OBVIOUS
<1>2. spent' \in 0..MaxCount
  BY BodiesAssumption
<1> QED BY <1>1, <1>2, BodiesCardinality DEF BodiesInv, BodyRequest, IssueTexts!TypeOK, IssueTexts!MissesCapped

LEMMA BodiesStep ==
  ASSUME BodiesInv, [IssueTexts!Next]_(IssueTexts!issueBodiesVars)
  PROVE  BodiesInv' /\ IssueTexts!OldestReadTrimmed
<1>1. ASSUME UNCHANGED <<redis, spent, refused>>, bodies' \in [Text -> 0..Cardinality(Text)],
             saved' \subseteq Text, request' \in [Request -> BodyRequest]
      PROVE  BodiesInv'
  BY <1>1, BodiesTyped, BodiesCardinality DEF BodiesInv, BodyRequest, IssueTexts!TypeOK, IssueTexts!MissesCapped
<1>2. ASSUME IssueTexts!Cached \subseteq IssueTexts!Cached'
      PROVE  IssueTexts!OldestReadTrimmed
  BY <1>2 DEF IssueTexts!OldestReadTrimmed
<1>3. ASSUME UNCHANGED bodies
      PROVE  IssueTexts!OldestReadTrimmed /\ bodies' \in [Text -> 0..Cardinality(Text)]
  BY <1>2, <1>3, BodiesTyped DEF IssueTexts!Cached
<1>4. ASSUME NEW r \in Request
      PROVE  /\ [request EXCEPT ![r] = IssueTexts!Done] \in [Request -> BodyRequest]
             /\ \A s \in {"done", "missed", "asked", "fetched"} : [request EXCEPT ![r].step = s] \in [Request -> BodyRequest]
             /\ \A i \in Text : [request EXCEPT ![r] = [step |-> "missed", issue |-> i]] \in [Request -> BodyRequest]
             /\ request[r].issue \in Text
  <2>1. IssueTexts!Done \in BodyRequest
    BY BodiesAssumption DEF IssueTexts!Done, BodyRequest
  <2> QED BY <2>1, BodiesTyped DEF BodyRequest
<1>5. CASE UNCHANGED IssueTexts!issueBodiesVars
  BY <1>1, <1>3, <1>5, BodiesTyped DEF IssueTexts!issueBodiesVars
<1>6. ASSUME NEW r \in Request, IssueTexts!CountMiss(r)
      PROVE  BodiesInv' /\ IssueTexts!OldestReadTrimmed
  <2>1. /\ redis.count + 1 <= MaxCount /\ redis' = [count |-> redis.count + 1, expires |-> TRUE]
        /\ bodies' = bodies /\ saved' = saved /\ spent' = (IF redis.count + 1 <= MissLimit THEN spent + 1 ELSE spent)
        /\ refused' \in BOOLEAN
        /\ request' \in {[request EXCEPT ![r].step = "asked"], [request EXCEPT ![r] = IssueTexts!Done]}
    BY <1>6 DEF IssueTexts!CountMiss, IssueTexts!Expiring, IssueTexts!Goes
  <2>2. redis.count + 1 \in 0..MaxCount /\ spent' \in Nat /\ spent' <= redis.count + 1 /\ spent' <= MissLimit
    BY <2>1, BodiesAssumption, BodiesTyped
  <2>3. request' \in [Request -> BodyRequest]
    BY <1>4, <2>1
  <2>4. BodiesInv'
    BY <1>3, <2>1, <2>2, <2>3, BodiesKept, BodiesTyped
  <2> QED BY <1>3, <2>1, <2>4
<1>7. ASSUME NEW r \in Request, IssueTexts!MissUncounted(r)
      PROVE  BodiesInv' /\ IssueTexts!OldestReadTrimmed
  <2>1. /\ bodies' = bodies /\ saved' = saved /\ spent' = spent /\ refused' = FALSE
        /\ request' = [request EXCEPT ![r] = IssueTexts!Done]
        /\ \/ redis' = redis
           \/ redis.count < MaxCount /\ \E e \in {redis.expires, TRUE} : redis' = [count |-> redis.count + 1, expires |-> e]
    BY <1>7 DEF IssueTexts!MissUncounted
  <2>2. PICK n \in {redis.count, redis.count + 1}, e \in {redis.expires, TRUE} :
          redis' = [count |-> n, expires |-> e] /\ n <= MaxCount
    <3>1. redis = [count |-> redis.count, expires |-> redis.expires]
      BY BodiesTyped
    <3>2. CASE redis' = redis
      BY <3>1, <3>2, BodiesTyped
    <3>3. CASE redis' # redis
      BY <2>1, <3>3, BodiesTyped, BodiesAssumption
    <3> QED BY <3>2, <3>3
  <2>3. n \in 0..MaxCount /\ spent <= n /\ e \in BOOLEAN
    <3>1. e \in BOOLEAN
      BY <2>2, BodiesTyped
    <3>2. redis.count \in Nat /\ spent \in Nat /\ spent <= redis.count /\ MaxCount \in Nat
      BY BodiesTyped, BodiesAssumption
    <3> QED BY <2>2, <3>1, <3>2
  <2>4. BodiesInv'
    BY <1>3, <1>4, <2>1, <2>2, <2>3, BodiesKept, BodiesTyped
  <2> QED BY <1>3, <2>1, <2>4
<1>8. ASSUME IssueTexts!WindowEnds
      PROVE  BodiesInv' /\ IssueTexts!OldestReadTrimmed
  <2>1. /\ bodies' = bodies /\ saved' = saved /\ request' = request
        /\ spent' = 0 /\ refused' = FALSE /\ redis' = [count |-> 0, expires |-> FALSE]
    BY <1>8 DEF IssueTexts!WindowEnds, IssueTexts!NoKey
  <2>2. 0 \in 0..MaxCount /\ 0 <= MissLimit /\ 0 \in Nat /\ 0 <= 0
    BY BodiesAssumption
  <2>3. /\ bodies' \in [Text -> 0..Cardinality(Text)] /\ saved' \subseteq Text
        /\ request' \in [Request -> BodyRequest] /\ refused' \in BOOLEAN /\ (refused' => FALSE)
        /\ spent' \in Nat /\ spent' <= 0 /\ spent' <= MissLimit
    BY <2>1, <2>2, BodiesTyped
  <2>4. BodiesInv'
    BY <2>1, <2>2, <2>3, BodiesKept
  <2> QED BY <1>3, <2>1, <2>4
<1>9. ASSUME NEW r \in Request, IssueTexts!FetchIssueBody(r) \/ IssueTexts!NotFetched(r)
      PROVE  BodiesInv' /\ IssueTexts!OldestReadTrimmed
  <2>1. /\ UNCHANGED <<bodies, saved, redis, spent, refused>>
        /\ request' \in {[request EXCEPT ![r].step = "fetched"], [request EXCEPT ![r] = IssueTexts!Done]}
    BY <1>9 DEF IssueTexts!FetchIssueBody, IssueTexts!NotFetched, IssueTexts!Goes
  <2> QED BY <1>1, <1>3, <1>4, <2>1, BodiesTyped
<1>10. ASSUME NEW i \in Text, UNCHANGED <<saved, redis, spent, refused>>, bodies' = IssueTexts!ReadNow(i),
              request' \in [Request -> BodyRequest]
       PROVE  BodiesInv' /\ IssueTexts!OldestReadTrimmed
  <2>1. bodies' \in [Text -> 0..Cardinality(Text)] /\ IssueTexts!Cached \subseteq IssueTexts!Cached'
    BY <1>10, ReadRows
  <2> QED BY <1>1, <1>2, <1>10, <2>1, BodiesTyped
<1>11. ASSUME NEW r \in Request, NEW i \in Text, IssueTexts!GetIssueBody(r, i)
       PROVE  BodiesInv' /\ IssueTexts!OldestReadTrimmed
  <2>1. CASE i \in IssueTexts!Cached
    BY <1>10, <1>11, <2>1, BodiesTyped DEF IssueTexts!GetIssueBody
  <2>2. CASE i \notin IssueTexts!Cached
    <3>1. UNCHANGED <<bodies, saved, redis, spent, refused>> /\ request' = [request EXCEPT ![r] = [step |-> "missed", issue |-> i]]
      BY <1>11, <2>2 DEF IssueTexts!GetIssueBody
    <3> QED BY <1>1, <1>3, <1>4, <3>1, BodiesTyped
  <2> QED BY <2>1, <2>2
<1>12. ASSUME NEW r \in Request, IssueTexts!StoreBody(r)
       PROVE  BodiesInv' /\ IssueTexts!OldestReadTrimmed
  BY <1>4, <1>10, <1>12 DEF IssueTexts!StoreBody
<1>13. ASSUME NEW i \in Text, IssueTexts!Save(i)
       PROVE  BodiesInv' /\ IssueTexts!OldestReadTrimmed
  <2>1. UNCHANGED <<bodies, request, redis, spent, refused>> /\ saved' \subseteq Text
    BY <1>13, BodiesTyped DEF IssueTexts!Save
  <2> QED BY <1>1, <1>3, <2>1, BodiesTyped
<1>14. ASSUME IssueTexts!PruneIssueBodies
       PROVE  BodiesInv' /\ IssueTexts!OldestReadTrimmed
  <2>1. UNCHANGED <<saved, request, redis, spent, refused>>
    BY <1>14 DEF IssueTexts!PruneIssueBodies
  <2> QED BY <1>1, <1>14, <2>1, PruneKeeps, BodiesTyped
<1> QED BY <1>5, <1>6, <1>7, <1>8, <1>9, <1>11, <1>12, <1>13, <1>14 DEF IssueTexts!Next

(* However many requests run at once and however Redis fails, a caller spends *)
(* no more of the server's budget than its misses, and is not locked out for  *)
(* good; and trimming leaves no more than the limit beside the saved bodies,  *)
(* deletes none of these, and the least recently read of the others first     *)
(* (handlers_issues.go; redis.go, CheckRateLimit; bodies.go,                  *)
(* PruneIssueBodies).                                                         *)
THEOREM BodiesStayBounded == PartsSpec => BodiesBounded
<1> DEFINE I == part = "bodies" => BodiesInv
<1>1. PartsInit => I
  BY InitBodies DEF PartsInit
<1>2. I /\ [PartsNext]_allVars => I' /\ [part = "bodies" => IssueTexts!OldestReadTrimmed]_allVars
  <2> SUFFICES ASSUME I, [PartsNext]_allVars, part = "bodies" \/ part' = "bodies"
               PROVE  BodiesInv' /\ IssueTexts!OldestReadTrimmed
    OBVIOUS
  <2>1. part = "bodies"
    BY DEF PartsNext, allVars
  <2>2. [IssueTexts!Next]_(IssueTexts!issueBodiesVars)
    BY <2>1 DEF PartsNext, allVars, bodiesVars, IssueTexts!issueBodiesVars
  <2> QED BY <2>1, <2>2, BodiesStep
<1>3. I => (part = "bodies" => IssueTexts!MissesCapped)
  BY DEF BodiesInv
<1> QED BY <1>1, <1>2, <1>3, PTL DEF PartsSpec, BodiesBounded

----------------------------------------------------------------------------
(* The first of a finite ordered set, which the two feeds take pages from. *)

StrictOrder(R, X) ==
  /\ \A i \in X : <<i, i>> \notin R
  /\ \A i, j, k \in X : <<i, j>> \in R /\ <<j, k>> \in R => <<i, k>> \in R
  /\ \A i, j \in X : i = j \/ <<i, j>> \in R \/ <<j, i>> \in R

Preceding(R, S, i) == {j \in S : <<j, i>> \in R}
FirstIn(R, S, n) == {i \in S : Cardinality(Preceding(R, S, i)) < n}

LEMMA PrecedingFinite ==
  ASSUME NEW R, NEW S, IsFiniteSet(S), NEW i
  PROVE  IsFiniteSet(Preceding(R, S, i)) /\ Cardinality(Preceding(R, S, i)) \in Nat
<1>1. Preceding(R, S, i) \in SUBSET S
  BY DEF Preceding
<1> QED BY <1>1, FS_Subset, FS_CardinalityType

\* Fewer come before what comes before.
LEMMA FewerPrecede ==
  ASSUME NEW R, NEW X, StrictOrder(R, X), NEW S, S \subseteq X, IsFiniteSet(S),
         NEW i \in S, NEW j \in S, <<i, j>> \in R
  PROVE  Cardinality(Preceding(R, S, i)) < Cardinality(Preceding(R, S, j))
<1>1. Preceding(R, S, i) \in SUBSET Preceding(R, S, j)
  <2> SUFFICES ASSUME NEW k \in S, <<k, i>> \in R PROVE <<k, j>> \in R
    BY DEF Preceding
  <2>1. k \in X /\ i \in X /\ j \in X
    OBVIOUS
  <2> QED BY <2>1 DEF StrictOrder
<1>2. i \in Preceding(R, S, j) /\ i \notin Preceding(R, S, i)
  BY DEF StrictOrder, Preceding
<1>3. /\ IsFiniteSet(Preceding(R, S, j))
      /\ Cardinality(Preceding(R, S, j)) \in Nat /\ Cardinality(Preceding(R, S, i)) \in Nat
  BY PrecedingFinite
<1>4. /\ Cardinality(Preceding(R, S, i)) <= Cardinality(Preceding(R, S, j))
      /\ Cardinality(Preceding(R, S, j)) = Cardinality(Preceding(R, S, i)) => Preceding(R, S, j) = Preceding(R, S, i)
  BY <1>1, <1>3, FS_Subset
<1> QED BY <1>2, <1>3, <1>4

LEMMA LeastInOrder ==
  ASSUME NEW R, NEW X, StrictOrder(R, X), NEW S, S \subseteq X, IsFiniteSet(S), S # {}
  PROVE  \E m \in S : \A i \in S : i = m \/ <<m, i>> \in R
<1> DEFINE T == {Cardinality(Preceding(R, S, i)) : i \in S}
<1>1. T \in SUBSET Nat /\ T # {}
  BY PrecedingFinite
<1>2. PICK t \in T : \A u \in T : t <= u
  <2> HIDE DEF T
  <2> QED BY <1>1, LeastExists
<1>3. PICK m \in S : \A i \in S : Cardinality(Preceding(R, S, m)) <= Cardinality(Preceding(R, S, i))
  BY <1>2
<1>4. ASSUME NEW i \in S, i # m
      PROVE  <<m, i>> \in R
  <2>1. i \in X /\ m \in X
    OBVIOUS
  <2>2. <<i, m>> \notin R
    <3> SUFFICES ASSUME <<i, m>> \in R PROVE FALSE
      OBVIOUS
    <3>1. Cardinality(Preceding(R, S, i)) < Cardinality(Preceding(R, S, m))
      BY FewerPrecede
    <3>2. Cardinality(Preceding(R, S, i)) \in Nat /\ Cardinality(Preceding(R, S, m)) \in Nat
      BY PrecedingFinite
    <3> QED BY <1>3, <3>1, <3>2
  <2> QED BY <1>4, <2>1, <2>2 DEF StrictOrder
<1> QED BY <1>4

LEMMA GreatestInOrder ==
  ASSUME NEW R, NEW X, StrictOrder(R, X), NEW S, S \subseteq X, IsFiniteSet(S), S # {}
  PROVE  \E m \in S : \A i \in S : i = m \/ <<i, m>> \in R
<1> DEFINE back == {p \in X \X X : <<p[2], p[1]>> \in R}
<1>1. \A i, j \in X : <<i, j>> \in back <=> <<j, i>> \in R
  OBVIOUS
<1> HIDE DEF back
<1>2. StrictOrder(back, X)
  BY <1>1 DEF StrictOrder
<1>3. PICK m \in S : \A i \in S : i = m \/ <<m, i>> \in back
  BY <1>2, LeastInOrder
<1> QED BY <1>1, <1>3

LEMMA FirstIsSegment ==
  ASSUME NEW R, NEW X, StrictOrder(R, X), NEW S, S \subseteq X, IsFiniteSet(S), NEW n \in Nat,
         NEW i \in FirstIn(R, S, n), NEW j \in S, <<j, i>> \in R
  PROVE  j \in FirstIn(R, S, n)
<1>1. i \in S /\ Cardinality(Preceding(R, S, i)) < n
  BY DEF FirstIn
<1>2. Cardinality(Preceding(R, S, j)) < Cardinality(Preceding(R, S, i))
  BY <1>1, FewerPrecede
<1>3. Cardinality(Preceding(R, S, i)) \in Nat /\ Cardinality(Preceding(R, S, j)) \in Nat
  BY PrecedingFinite
<1> QED BY <1>1, <1>2, <1>3 DEF FirstIn

LEMMA FirstIsFinite ==
  ASSUME NEW R, NEW S, IsFiniteSet(S), NEW n
  PROVE  /\ FirstIn(R, S, n) \subseteq S /\ IsFiniteSet(FirstIn(R, S, n))
         /\ Cardinality(FirstIn(R, S, n)) \in Nat
<1>1. FirstIn(R, S, n) \in SUBSET S
  BY DEF FirstIn
<1> QED BY <1>1, FS_Subset, FS_CardinalityType

LEMMA FirstAtMost ==
  ASSUME NEW R, NEW X, StrictOrder(R, X), NEW S, S \subseteq X, IsFiniteSet(S), NEW n \in Nat
  PROVE  Cardinality(FirstIn(R, S, n)) <= n
<1> DEFINE F == FirstIn(R, S, n)
<1>1. F \subseteq S /\ IsFiniteSet(F) /\ Cardinality(F) \in Nat
  BY FirstIsFinite
<1>2. CASE F = {}
  BY <1>2, FS_EmptySet
<1>3. CASE F # {}
  <2> HIDE DEF F
  <2>1. PICK m \in F : \A i \in F : i = m \/ <<i, m>> \in R
    BY <1>1, <1>3, GreatestInOrder
  <2> DEFINE P == Preceding(R, S, m)
  <2>2. IsFiniteSet(P) /\ Cardinality(P) \in Nat /\ Cardinality(P) < n
    BY PrecedingFinite DEF F, FirstIn
  <2>3. F \in SUBSET (P \cup {m})
    BY <1>1, <2>1 DEF Preceding
  <2> HIDE DEF P
  <2>4. IsFiniteSet(P \cup {m}) /\ Cardinality(P \cup {m}) <= Cardinality(P) + 1
    <3>1. /\ IsFiniteSet(P \cup {m})
          /\ Cardinality(P \cup {m}) = IF m \in P THEN Cardinality(P) ELSE Cardinality(P) + 1
      BY <2>2, FS_AddElement
    <3>2. CASE m \in P
      BY <2>2, <3>1, <3>2
    <3>3. CASE m \notin P
      BY <2>2, <3>1, <3>3
    <3> QED BY <3>2, <3>3
  <2>5. Cardinality(F) <= Cardinality(P \cup {m}) /\ Cardinality(P \cup {m}) \in Nat
    BY <2>3, <2>4, FS_Subset, FS_CardinalityType
  <2> QED BY <1>1, <2>2, <2>4, <2>5 DEF F
<1> QED BY <1>2, <1>3

\* A page shorter than asked for is all there is.
LEMMA FirstShort ==
  ASSUME NEW R, NEW X, StrictOrder(R, X), NEW S, S \subseteq X, IsFiniteSet(S), NEW n \in Nat,
         Cardinality(FirstIn(R, S, n)) < n
  PROVE  FirstIn(R, S, n) = S
<1> DEFINE F == FirstIn(R, S, n)
<1>1. F \subseteq S /\ IsFiniteSet(F) /\ Cardinality(F) \in Nat
  BY FirstIsFinite
<1> SUFFICES ASSUME S \ F # {} PROVE FALSE
  BY <1>1
<1>2. IsFiniteSet(S \ F) /\ S \ F \subseteq X
  <2>1. S \ F \in SUBSET S
    OBVIOUS
  <2> QED BY <2>1, FS_Subset
<1> HIDE DEF F
<1>3. PICK m \in S \ F : \A i \in S \ F : i = m \/ <<m, i>> \in R
  BY <1>2, LeastInOrder
<1>4. \A i \in S : <<i, m>> \in R => i \in F
  <2> SUFFICES ASSUME NEW i \in S, <<i, m>> \in R, i \notin F PROVE FALSE
    OBVIOUS
  <2>1. i \in X /\ m \in X
    OBVIOUS
  <2>2. i = m \/ <<m, i>> \in R
    BY <1>3
  <2> QED BY <2>1, <2>2 DEF StrictOrder
<1>5. Preceding(R, S, m) \in SUBSET F
  BY <1>4 DEF Preceding
<1>6. Cardinality(Preceding(R, S, m)) <= Cardinality(F) /\ Cardinality(Preceding(R, S, m)) \in Nat
  BY <1>1, <1>5, FS_Subset, PrecedingFinite
<1>7. ~(Cardinality(Preceding(R, S, m)) < n)
  BY <1>3 DEF F, FirstIn
<1> QED BY <1>1, <1>6, <1>7 DEF F

\* The first of a set are the first of any part of it that has them.
LEMMA FirstOfPart ==
  ASSUME NEW R, NEW X, StrictOrder(R, X), NEW S, S \subseteq X, IsFiniteSet(S), NEW n \in Nat,
         NEW U, U \subseteq S, FirstIn(R, S, n) \subseteq U
  PROVE  FirstIn(R, U, n) = FirstIn(R, S, n)
<1> DEFINE F == FirstIn(R, S, n)
<1>0. IsFiniteSet(U) /\ U \subseteq X
  BY FS_Subset
<1>1. \A i : Preceding(R, U, i) \subseteq Preceding(R, S, i)
  BY DEF Preceding
<1>2. \A i : /\ Cardinality(Preceding(R, U, i)) <= Cardinality(Preceding(R, S, i))
             /\ Cardinality(Preceding(R, U, i)) \in Nat /\ Cardinality(Preceding(R, S, i)) \in Nat
             /\ IsFiniteSet(Preceding(R, U, i))
  BY <1>0, <1>1, PrecedingFinite, FS_Subset
<1>3. ASSUME NEW i \in F PROVE i \in FirstIn(R, U, n)
  BY <1>2 DEF FirstIn
<1>4. ASSUME NEW i \in FirstIn(R, U, n), i \notin F PROVE FALSE
  <2>1. i \in S /\ Cardinality(Preceding(R, U, i)) < n
    BY <1>4 DEF FirstIn
  <2>2. \A j \in F : <<j, i>> \in R
    <3> SUFFICES ASSUME NEW j \in F, <<j, i>> \notin R PROVE FALSE
      OBVIOUS
    <3>1. j \in S /\ j \in X /\ i \in X
      BY <2>1 DEF FirstIn
    <3>2. <<i, j>> \in R
      BY <1>4, <3>1 DEF StrictOrder
    <3> QED BY <1>4, <2>1, <3>2, FirstIsSegment
  <2>3. F \in SUBSET Preceding(R, U, i)
    BY <2>2 DEF Preceding
  <2>4. Cardinality(F) <= Cardinality(Preceding(R, U, i)) /\ Cardinality(F) \in Nat
    BY <1>2, <2>3, FS_Subset, FirstIsFinite
  <2>5. Cardinality(F) < n
    BY <1>2, <2>1, <2>4
  <2>6. F = S
    BY <2>5, FirstShort
  <2> QED BY <1>4, <2>1, <2>6
<1> QED BY <1>3, <1>4

----------------------------------------------------------------------------
(* Browsing by cursor (CatalogBrowse). *)

\* Where an issue and the reader's cursor stand: bucket, score, time and id.
\* The newest sort has one bucket and no scores.
PlaceOf(i) ==
  IF reader.sort = "easiest"
  THEN <<Browse!BucketOf(i), issue[i].score, issue[i].updated, i>>
  ELSE <<0, 0, created[i], i>>
CursorAt(c) ==
  IF reader.sort = "easiest"
  THEN <<IF reader.prefers THEN c.bucket ELSE 0, c.score, c.time, c.id>>
  ELSE <<0, 0, c.time, c.id>>
CursorPlace == CursorAt(reader.cursor)

BrowsePlace == Nat \X Nat \X Nat \X Nat
Precedes(p, q) ==
  \/ p[1] < q[1]
  \/ /\ p[1] = q[1]
     /\ \/ p[2] # 0 /\ (q[2] = 0 \/ p[2] < q[2])
        \/ p[2] = q[2] /\ (p[3] > q[3] \/ (p[3] = q[3] /\ p[4] > q[4]))

\* What the cursor leaves to be shown.
LeftToShow == {i \in Browse!Offered : reader.begun => Precedes(CursorPlace, PlaceOf(i))}
BrowseOrder == {p \in Listed \X Listed : Precedes(PlaceOf(p[1]), PlaceOf(p[2]))}

BrowseCursor == [bucket: 0..1, score: Score \cup {0}, time: Nat, id: Listed \cup {0}]
BrowseReader ==
  [sort: {"none", "easiest", "newest", "rated"}, prefers: BOOLEAN, begun: BOOLEAN, over: BOOLEAN,
   cursor: BrowseCursor]

\* An issue that stood still was shown or is left to be shown, and not both.
BrowseInv ==
  /\ Browse!TypeOK /\ reader \in BrowseReader
  /\ reader.sort = "none" => still = {}
  /\ still \cap seen.twice = {}
  /\ reader.over => still \cap Browse!Offered \subseteq seen.once
  /\ ~reader.over => /\ still \cap Browse!Offered \subseteq seen.once \cup LeftToShow
                     /\ still \cap seen.once \cap LeftToShow = {}

----------------------------------------------------------------------------
LEMMA PlacesOrdered ==
  /\ \A p \in BrowsePlace : ~Precedes(p, p)
  /\ \A p, q, r \in BrowsePlace : Precedes(p, q) /\ Precedes(q, r) => Precedes(p, r)
  /\ \A p, q \in BrowsePlace : p[4] = q[4] \/ Precedes(p, q) \/ Precedes(q, p)
<1>1. \A p \in BrowsePlace : p[1] \in Nat /\ p[2] \in Nat /\ p[3] \in Nat /\ p[4] \in Nat
  BY DEF BrowsePlace
<1>2. \A p \in BrowsePlace : ~Precedes(p, p)
  BY <1>1 DEF Precedes
<1>3. \A p, q, r \in BrowsePlace : Precedes(p, q) /\ Precedes(q, r) => Precedes(p, r)
  BY <1>1 DEF Precedes
<1>4. \A p, q \in BrowsePlace : p[4] = q[4] \/ Precedes(p, q) \/ Precedes(q, p)
  BY <1>1 DEF Precedes
<1> QED BY <1>2, <1>3, <1>4

LEMMA BrowseNumbers ==
  /\ \A s : s \in Score \cup {0} => s \in Nat
  /\ \A i : i \in Listed \cup {0} => i \in Nat
  /\ \A t : t \in Time => t \in Nat
<1>1. Score \subseteq Nat /\ Listed \subseteq Nat /\ Time \subseteq Nat
  BY BrowseAssumption
<1>2. ASSUME NEW s \in Score \cup {0} PROVE s \in Nat
  <2>1. CASE s = 0
    BY <2>1
  <2>2. CASE s \in Score
    BY <1>1, <2>2
  <2> QED BY <2>1, <2>2
<1>3. ASSUME NEW i \in Listed \cup {0} PROVE i \in Nat
  <2>1. CASE i = 0
    BY <2>1
  <2>2. CASE i \in Listed
    BY <1>1, <2>2
  <2> QED BY <2>1, <2>2
<1> QED BY <1>1, <1>2, <1>3

LEMMA NothingYet ==
  /\ Browse!NoCursor = [bucket |-> 0, score |-> 0, time |-> 0, id |-> 0]
  /\ Browse!NoCursor \in BrowseCursor
  /\ Browse!NoReader \in BrowseReader /\ Browse!NoReader.sort = "none"
  /\ ~Browse!NoReader.begun /\ ~Browse!NoReader.over /\ Browse!NoReader.cursor = Browse!NoCursor
<1>1. /\ Browse!NoCursor = [bucket |-> 0, score |-> 0, time |-> 0, id |-> 0]
      /\ Browse!NoReader = [sort |-> "none", prefers |-> FALSE, begun |-> FALSE, over |-> FALSE,
                            cursor |-> Browse!NoCursor]
  BY DEF Browse!NoCursor, Browse!Unrated, Browse!NoReader
<1>2. Browse!NoCursor \in BrowseCursor
  BY <1>1 DEF BrowseCursor
<1> QED BY <1>1, <1>2 DEF BrowseReader

LEMMA CursorTyped ==
  ASSUME BrowseInv
  PROVE  /\ reader.cursor \in BrowseCursor /\ reader.cursor.bucket \in 0..1 /\ reader.cursor.score \in Nat
         /\ reader.cursor.time \in Nat /\ reader.cursor.id \in Nat /\ reader.prefers \in BOOLEAN
<1>1. reader.cursor \in BrowseCursor /\ reader.prefers \in BOOLEAN
  BY DEF BrowseInv, BrowseReader
<1>2. /\ reader.cursor.bucket \in 0..1 /\ reader.cursor.score \in Score \cup {0}
      /\ reader.cursor.time \in Nat /\ reader.cursor.id \in Listed \cup {0}
  BY <1>1 DEF BrowseCursor
<1> QED BY <1>1, <1>2, BrowseNumbers

LEMMA IssueTyped ==
  ASSUME issue \in [Listed -> {Browse!Shut} \cup [open: {TRUE}, score: Score \cup {0}, updated: Time]],
         NEW i \in Listed
  PROVE  issue[i].score \in Score \cup {0} /\ issue[i].score \in Nat /\ issue[i].updated \in Nat
<1>1. CASE issue[i] = Browse!Shut
  BY <1>1 DEF Browse!Shut, Browse!Unrated
<1>2. CASE issue[i] \in [open: {TRUE}, score: Score \cup {0}, updated: Time]
  <2>1. issue[i].score \in Score \cup {0} /\ issue[i].updated \in Time
    BY <1>2
  <2> QED BY <2>1, BrowseNumbers
<1> QED BY <1>1, <1>2

LEMMA BrowseTyped ==
  ASSUME BrowseInv
  PROVE  /\ issue \in [Listed -> {Browse!Shut} \cup [open: {TRUE}, score: Score \cup {0}, updated: Time]]
         /\ \A i \in Listed : PlaceOf(i) \in BrowsePlace /\ PlaceOf(i)[4] = i
         /\ CursorPlace \in BrowsePlace
         /\ Browse!Offered \subseteq Listed /\ IsFiniteSet(Browse!Offered)
         /\ still \subseteq Listed /\ seen.once \subseteq Listed /\ seen.twice \subseteq seen.once
         /\ created \in Creations /\ \A i \in Listed : created[i] \in Nat
<1>0. created \in Creations /\ \A i \in Listed : created[i] \in Nat
  BY BrowseAssumption DEF BrowseInv, Browse!TypeOK
<1>1. /\ issue \in [Listed -> {Browse!Shut} \cup [open: {TRUE}, score: Score \cup {0}, updated: Time]]
      /\ still \subseteq Listed /\ seen.once \subseteq Listed /\ seen.twice \subseteq seen.once
  BY DEF BrowseInv, Browse!TypeOK, Browse!Unrated
<1>2. \A i \in Listed : issue[i].score \in Nat /\ issue[i].updated \in Nat /\ i \in Nat /\ created[i] \in Nat
                        /\ Browse!BucketOf(i) \in Nat
  BY <1>0, <1>1, IssueTyped, BrowseAssumption DEF Browse!BucketOf
<1>3. \A i \in Listed : PlaceOf(i) \in BrowsePlace /\ PlaceOf(i)[4] = i
  BY <1>2 DEF PlaceOf, BrowsePlace
<1>4. CursorPlace \in BrowsePlace
  <2>1. /\ reader.cursor.bucket \in Nat /\ reader.cursor.score \in Nat
        /\ reader.cursor.time \in Nat /\ reader.cursor.id \in Nat
    BY CursorTyped
  <2> QED BY <2>1 DEF CursorPlace, CursorAt, BrowsePlace
<1>5. Browse!Offered \in SUBSET Listed
  BY DEF Browse!Offered, Browse!IsOpen
<1>6. IsFiniteSet(Browse!Offered)
  BY <1>5, FS_Subset, BrowseAssumption
<1> QED BY <1>0, <1>1, <1>3, <1>4, <1>5, <1>6

LEMMA BrowseOrders ==
  ASSUME BrowseInv
  PROVE  StrictOrder(BrowseOrder, Listed) /\ \A i, j \in Listed : <<i, j>> \in BrowseOrder <=> Precedes(PlaceOf(i), PlaceOf(j))
<1>1. \A i, j \in Listed : <<i, j>> \in BrowseOrder <=> Precedes(PlaceOf(i), PlaceOf(j))
  BY DEF BrowseOrder
<1>2. \A i \in Listed : PlaceOf(i) \in BrowsePlace /\ PlaceOf(i)[4] = i
  BY BrowseTyped
<1>3. \A i \in Listed : <<i, i>> \notin BrowseOrder
  BY <1>1, <1>2, PlacesOrdered
<1>4. \A i, j, k \in Listed : <<i, j>> \in BrowseOrder /\ <<j, k>> \in BrowseOrder => <<i, k>> \in BrowseOrder
  BY <1>1, <1>2, PlacesOrdered
<1>5. \A i, j \in Listed : i = j \/ <<i, j>> \in BrowseOrder \/ <<j, i>> \in BrowseOrder
  BY <1>1, <1>2, PlacesOrdered
<1> QED BY <1>1, <1>3, <1>4, <1>5 DEF StrictOrder

\* The sorts' orders are orders of places.
LEMMA BeforeIsPrecedes ==
  ASSUME BrowseInv, NEW i \in Listed, NEW j \in Listed
  PROVE  Browse!Before(i, j) <=> Precedes(PlaceOf(i), PlaceOf(j))
<1>1. CASE reader.sort = "easiest"
  BY <1>1 DEF Browse!Before, Browse!EasierThan, Browse!ScoreBefore, Browse!Later, Browse!Unrated, PlaceOf, Precedes
<1>2. CASE reader.sort # "easiest"
  <2>1. Browse!Before(i, j) <=> (created[i] > created[j] \/ (created[i] = created[j] /\ i > j))
    BY <1>2 DEF Browse!Before, Browse!NewerThan, Browse!Later
  <2>2. PlaceOf(i) = <<0, 0, created[i], i>> /\ PlaceOf(j) = <<0, 0, created[j], j>>
    BY <1>2 DEF PlaceOf
  <2> QED BY <2>1, <2>2 DEF Precedes
<1> QED BY <1>1, <1>2

\* The ranges after a cursor together hold every issue after it, and no other.
LEMMA LeftIsLeft ==
  ASSUME BrowseInv
  PROVE  /\ reader.sort = "easiest" => UNION {Browse!LeftIn(b) : b \in Browse!Buckets} = LeftToShow
         /\ reader.sort \in {"newest", "rated"} => Browse!AfterCursor = LeftToShow
<1>1. ASSUME reader.sort = "easiest"
      PROVE  UNION {Browse!LeftIn(b) : b \in Browse!Buckets} = LeftToShow
  <2> DEFINE c == reader.cursor
             from == IF reader.prefers THEN c.bucket ELSE 0
  <2>0. c.bucket \in 0..1 /\ c.score \in Nat /\ from \in 0..1
    BY CursorTyped
  <2>1. \A i \in Listed : Browse!BucketOf(i) \in Browse!Buckets /\ Browse!BucketOf(i) \in 0..1 /\ issue[i].score \in Nat
    <3>1. \A i \in Listed : issue[i].score \in Nat
      BY BrowseTyped, IssueTyped
    <3> QED BY <3>1 DEF Browse!BucketOf, Browse!Buckets
  <2>2. \A i : i \in UNION {Browse!LeftIn(b) : b \in Browse!Buckets} <=> i \in Browse!IsOpen /\ i \in Browse!LeftIn(Browse!BucketOf(i))
    <3>1. \A b, i : i \in Browse!LeftIn(b) => i \in Browse!IsOpen /\ b = Browse!BucketOf(i)
      BY DEF Browse!LeftIn
    <3>2. Browse!IsOpen \subseteq Listed
      BY DEF Browse!IsOpen
    <3> QED BY <2>1, <3>1, <3>2
  <2>3. ASSUME NEW i \in Browse!IsOpen
        PROVE  i \in Browse!LeftIn(Browse!BucketOf(i)) <=> (reader.begun => Precedes(CursorPlace, PlaceOf(i)))
    <3> DEFINE b == Browse!BucketOf(i)
               a == issue[i]
               after == Browse!Later(c.time, c.id, a.updated, i)
    <3>0. i \in Listed /\ b \in 0..1 /\ a.score \in Nat
      BY <2>1 DEF Browse!IsOpen
    <3>1. Precedes(CursorPlace, PlaceOf(i)) <=>
            \/ from < b
            \/ from = b /\ \/ c.score # 0 /\ (a.score = 0 \/ c.score < a.score)
                           \/ c.score = a.score /\ after
      BY <1>1 DEF Precedes, CursorPlace, CursorAt, PlaceOf, Browse!Later
    <3>2. (\E seg \in Browse!Segments(c) : Browse!InSegment(i, seg, c)) <=>
            \/ a.score = c.score /\ after
            \/ c.score # 0 /\ (a.score = 0 \/ a.score > c.score)
      <4>1. CASE c.score = 0
        BY <4>1, <2>0, <3>0 DEF Browse!Segments, Browse!InSegment, Browse!Unrated
      <4>2. CASE c.score # 0
        <5>1. Browse!Segments(c) = {"within", "higher", "unrated"}
          BY <4>2 DEF Browse!Segments, Browse!Unrated
        <5>2. /\ Browse!InSegment(i, "within", c) <=> a.score = c.score /\ after
              /\ Browse!InSegment(i, "higher", c) <=> a.score # 0 /\ a.score > c.score
              /\ Browse!InSegment(i, "unrated", c) <=> a.score = 0
          BY DEF Browse!InSegment, Browse!Unrated
        <5> QED BY <4>2, <5>1, <5>2, <2>0, <3>0
      <4> QED BY <4>1, <4>2
    <3>3. i \in Browse!LeftIn(b) <=>
            \/ ~reader.begun \/ b > from
            \/ ~(b < from) /\ \E seg \in Browse!Segments(c) : Browse!InSegment(i, seg, c)
      BY DEF Browse!LeftIn
    <3> HIDE DEF after, a, b, c, from
    <3>4. from \in 0..1 /\ c.score \in Nat
      BY <2>0
    <3> QED BY <3>0, <3>1, <3>2, <3>3, <3>4 DEF b
  <2>4. Browse!Offered = Browse!IsOpen
    BY <1>1 DEF Browse!Offered
  <2> QED BY <2>2, <2>3, <2>4 DEF LeftToShow
<1>2. ASSUME reader.sort \in {"newest", "rated"}
      PROVE  Browse!AfterCursor = LeftToShow
  <2>1. \A i : Browse!Later(reader.cursor.time, reader.cursor.id, created[i], i) <=> Precedes(CursorPlace, PlaceOf(i))
    BY <1>2 DEF Browse!Later, Precedes, CursorPlace, CursorAt, PlaceOf
  <2> QED BY <2>1 DEF Browse!AfterCursor, LeftToShow
<1> QED BY <1>1, <1>2

LEMMA BrowseCardinality ==
  ASSUME NEW S
  PROVE  Browse!Cardinality(S) = Cardinality(S)
BY DEF Browse!Cardinality, Cardinality

LEMMA FirstOfIsFirst ==
  ASSUME BrowseInv, NEW n, NEW S, S \subseteq Listed
  PROVE  Browse!FirstOf(S, n) = FirstIn(BrowseOrder, S, n)
<1>1. \A i \in S : {j \in S : Browse!Before(j, i)} = Preceding(BrowseOrder, S, i)
  BY BeforeIsPrecedes, BrowseOrders DEF Preceding
<1> QED BY <1>1, BrowseCardinality DEF Browse!FirstOf, FirstIn

\* The newest of each difficulty, merged, are the newest of all.
LEMMA MergedIsFirst ==
  ASSUME BrowseInv, NEW n \in Nat, NEW S, S \subseteq Listed
  PROVE  Browse!Merged(S, n) = FirstIn(BrowseOrder, S, n)
<1> DEFINE Part(s) == {i \in S : issue[i].score = s}
           U == UNION {Browse!FirstOf(Part(s), n) : s \in Score \cup {0}}
<1>0. IsFiniteSet(S) /\ StrictOrder(BrowseOrder, Listed)
  BY FS_Subset, BrowseAssumption, BrowseOrders
<1>1. \A s : /\ Browse!FirstOf(Part(s), n) = FirstIn(BrowseOrder, Part(s), n)
             /\ FirstIn(BrowseOrder, Part(s), n) \subseteq S
  <2> SUFFICES ASSUME NEW s
               PROVE  /\ Browse!FirstOf(Part(s), n) = FirstIn(BrowseOrder, Part(s), n)
                      /\ FirstIn(BrowseOrder, Part(s), n) \subseteq S
    OBVIOUS
  <2>1. Part(s) \subseteq S
    OBVIOUS
  <2> HIDE DEF Part
  <2> QED BY <2>1, FirstOfIsFirst DEF FirstIn
<1>2. U \subseteq S
  <2> HIDE DEF Part
  <2> QED BY <1>1
<1>3. FirstIn(BrowseOrder, S, n) \subseteq U
  <2> SUFFICES ASSUME NEW i \in FirstIn(BrowseOrder, S, n) PROVE i \in U
    OBVIOUS
  <2> DEFINE s == issue[i].score
  <2>1. i \in S /\ i \in Listed /\ Cardinality(Preceding(BrowseOrder, S, i)) < n
    BY DEF FirstIn
  <2>2. s \in Score \cup {0} /\ i \in Part(s)
    <3>1. s \in Score \cup {0}
      BY <2>1, BrowseTyped, IssueTyped
    <3> QED BY <2>1, <3>1
  <2>3. Preceding(BrowseOrder, Part(s), i) \in SUBSET Preceding(BrowseOrder, S, i)
    BY DEF Preceding
  <2>4. /\ Cardinality(Preceding(BrowseOrder, Part(s), i)) <= Cardinality(Preceding(BrowseOrder, S, i))
        /\ Cardinality(Preceding(BrowseOrder, Part(s), i)) \in Nat /\ Cardinality(Preceding(BrowseOrder, S, i)) \in Nat
    BY <1>0, <2>3, PrecedingFinite, FS_Subset, FS_CardinalityType
  <2>5. i \in FirstIn(BrowseOrder, Part(s), n)
    BY <1>0, <2>1, <2>2, <2>4 DEF FirstIn
  <2> HIDE DEF Part
  <2> QED BY <1>1, <2>2, <2>5
<1>4. FirstIn(BrowseOrder, U, n) = FirstIn(BrowseOrder, S, n)
  <2> HIDE DEF U
  <2> QED BY <1>0, <1>2, <1>3, FirstOfPart
<1>5. Browse!Merged(S, n) = Browse!FirstOf(U, n)
  BY DEF Browse!Merged, Browse!Unrated
<1>6. Browse!FirstOf(U, n) = FirstIn(BrowseOrder, U, n)
  <2> HIDE DEF U
  <2> QED BY <1>2, FirstOfIsFirst
<1> QED BY <1>4, <1>5, <1>6

LEMMA LastIsLast ==
  ASSUME BrowseInv, NEW S, S \subseteq Listed, S # {}
  PROVE  Browse!LastOf(S) \in S /\ \A j \in S : j = Browse!LastOf(S) \/ <<j, Browse!LastOf(S)>> \in BrowseOrder
<1>0. IsFiniteSet(S) /\ StrictOrder(BrowseOrder, Listed)
  BY FS_Subset, BrowseAssumption, BrowseOrders
<1>1. \A i, j \in S : Browse!Before(i, j) <=> <<i, j>> \in BrowseOrder
  BY BeforeIsPrecedes, BrowseOrders
<1>2. PICK m \in S : \A i \in S : i = m \/ <<i, m>> \in BrowseOrder
  BY <1>0, GreatestInOrder
<1>3. \A j \in S : ~Browse!Before(m, j)
  BY <1>0, <1>1, <1>2 DEF StrictOrder
<1>4. Browse!LastOf(S) \in S /\ \A j \in S : ~Browse!Before(Browse!LastOf(S), j)
  BY <1>3 DEF Browse!LastOf
<1> QED BY <1>0, <1>1, <1>4 DEF StrictOrder

\* A page shows the first of what is left, and moves the cursor to its last.
LEMMA TurnKeeps ==
  ASSUME BrowseInv, NEW n \in Nat \ {0}, reader.sort # "none", ~reader.over,
         NEW page, page = FirstIn(BrowseOrder, LeftToShow, n),
         NEW cursor \in BrowseCursor, page # {} => CursorAt(cursor) = PlaceOf(Browse!LastOf(page)),
         Browse!Turn(page, n, cursor)
  PROVE  BrowseInv'
<1> DEFINE last == Browse!LastOf(page)
<1>1. /\ StrictOrder(BrowseOrder, Listed) /\ LeftToShow \subseteq Browse!Offered /\ LeftToShow \subseteq Listed
      /\ IsFiniteSet(LeftToShow)
  <2>1. LeftToShow \in SUBSET Browse!Offered
    BY DEF LeftToShow
  <2> QED BY <2>1, BrowseOrders, BrowseTyped, FS_Subset
<1>2. page \subseteq LeftToShow /\ IsFiniteSet(page) /\ Cardinality(page) \in Nat
  BY <1>1, FirstIsFinite
<1>3. /\ seen' = [once |-> seen.once \cup page, twice |-> seen.twice \cup (page \cap seen.once)]
      /\ reader' = [reader EXCEPT !.begun = TRUE, !.over = Browse!Ends(page, n),
                                  !.cursor = IF Browse!Ends(page, n) THEN Browse!NoCursor ELSE cursor]
      /\ created' = created /\ issue' = issue /\ still' = still
  BY DEF Browse!Turn
<1>4. Browse!Ends(page, n) <=> Cardinality(page) < n
  BY BrowseCardinality DEF Browse!Ends
<1>5. Browse!NoCursor \in BrowseCursor
  BY DEF Browse!NoCursor, Browse!Unrated, BrowseCursor
<1>6. /\ reader' \in BrowseReader /\ reader'.sort = reader.sort /\ reader'.prefers = reader.prefers
      /\ reader'.begun /\ reader'.over = Browse!Ends(page, n)
      /\ ~Browse!Ends(page, n) => reader'.cursor = cursor
  <2>1. Browse!Ends(page, n) \in BOOLEAN
    BY DEF Browse!Ends
  <2>2. reader \in BrowseReader
    BY DEF BrowseInv
  <2> DEFINE next == IF Browse!Ends(page, n) THEN Browse!NoCursor ELSE cursor
  <2>3. next \in BrowseCursor /\ (~Browse!Ends(page, n) => next = cursor)
    BY <1>5
  <2> HIDE DEF next
  <2>4. reader' = [reader EXCEPT !.begun = TRUE, !.over = Browse!Ends(page, n), !.cursor = next]
    BY <1>3 DEF next
  <2> QED BY <2>1, <2>2, <2>3, <2>4 DEF BrowseReader
<1>7. seen'.once = seen.once \cup page /\ seen'.twice = seen.twice \cup (page \cap seen.once)
  BY <1>3
<1>8. Browse!TypeOK'
  <2>1. /\ created' \in Creations
        /\ issue' \in [Listed -> {Browse!Shut} \cup [open: {TRUE}, score: Score \cup {0}, updated: Time]]
        /\ still' \subseteq Listed /\ seen'.once \subseteq Listed /\ seen'.twice \subseteq seen'.once
    BY <1>1, <1>2, <1>3, <1>7, BrowseTyped
  <2>2. /\ reader'.sort \in {"none", "easiest", "newest", "rated"}
        /\ reader'.cursor.bucket \in 0..1 /\ reader'.cursor.id \in Listed \cup {0}
    BY <1>6 DEF BrowseReader, BrowseCursor
  <2> QED BY <2>1, <2>2 DEF Browse!TypeOK, Browse!Unrated
<1>9. Browse!Offered' = Browse!Offered /\ \A i : PlaceOf(i)' = PlaceOf(i)
  BY <1>3, <1>6 DEF Browse!Offered, Browse!IsOpen, PlaceOf, Browse!BucketOf
<1>10. still' \cap seen'.twice = {}
  BY <1>2, <1>3, <1>7 DEF BrowseInv
<1>11. CASE Browse!Ends(page, n)
  <2>1. page = LeftToShow
    BY <1>1, <1>4, <1>11, FirstShort
  <2>2. still' \cap Browse!Offered' \subseteq seen'.once
    BY <1>3, <1>7, <1>9, <2>1 DEF BrowseInv
  <2> QED BY <1>6, <1>8, <1>10, <1>11, <2>2 DEF BrowseInv
<1>12. CASE ~Browse!Ends(page, n)
  <2>1. page # {}
    BY <1>4, <1>12, FS_EmptySet
  <2>2. last \in page /\ \A j \in page : j = last \/ <<j, last>> \in BrowseOrder
    BY <1>1, <1>2, <2>1, LastIsLast
  <2>3. CursorPlace' = PlaceOf(last)
    BY <1>6, <1>12, <2>1 DEF CursorPlace, CursorAt
  <2>4. \A i : i \in LeftToShow' <=> i \in Browse!Offered /\ Precedes(PlaceOf(last), PlaceOf(i))
    BY <1>6, <1>9, <2>3 DEF LeftToShow
  <2>5. \A i \in Listed : Precedes(PlaceOf(last), PlaceOf(i)) <=> <<last, i>> \in BrowseOrder
    BY <1>1, <1>2, <2>2, BrowseOrders
  <2>6. \A i \in LeftToShow \ page : i \in LeftToShow'
    <3> SUFFICES ASSUME NEW i \in LeftToShow \ page, <<last, i>> \notin BrowseOrder PROVE FALSE
      BY <1>1, <2>4, <2>5
    <3>1. <<i, last>> \in BrowseOrder
      BY <1>1, <1>2, <2>2 DEF StrictOrder
    <3> QED BY <1>1, <2>2, <3>1, FirstIsSegment
  <2>7. \A i \in LeftToShow' : i \in LeftToShow /\ i \notin page
    <3> SUFFICES ASSUME NEW i \in LeftToShow' PROVE i \in LeftToShow /\ i \notin page
      OBVIOUS
    <3>1. i \in Browse!Offered /\ i \in Listed /\ <<last, i>> \in BrowseOrder /\ Precedes(PlaceOf(last), PlaceOf(i))
      BY <2>4, <2>5, BrowseTyped
    <3>2. i \notin page
      BY <1>1, <1>2, <2>2, <3>1 DEF StrictOrder
    <3>3. reader.begun => Precedes(CursorPlace, PlaceOf(last))
      BY <1>2, <2>2 DEF LeftToShow
    <3>4. /\ CursorPlace \in BrowsePlace /\ PlaceOf(i) \in BrowsePlace /\ PlaceOf(last) \in BrowsePlace
      BY <1>1, <1>2, <2>2, <3>1, BrowseTyped
    <3>5. reader.begun => Precedes(CursorPlace, PlaceOf(i))
      BY <3>1, <3>3, <3>4, PlacesOrdered
    <3> QED BY <3>1, <3>2, <3>5 DEF LeftToShow
  <2>8. still' \cap Browse!Offered' \subseteq seen'.once \cup LeftToShow'
    BY <1>3, <1>7, <1>9, <2>6 DEF BrowseInv
  <2>9. still' \cap seen'.once \cap LeftToShow' = {}
    BY <1>3, <1>7, <2>7 DEF BrowseInv
  <2> QED BY <1>3, <1>6, <1>8, <1>10, <1>12, <2>8, <2>9 DEF BrowseInv
<1> QED BY <1>11, <1>12

LEMMA InitBrowse == Browse!Init => BrowseInv
<1> SUFFICES ASSUME Browse!Init PROVE BrowseInv
  OBVIOUS
<1>1. reader \in BrowseReader /\ reader.sort = "none" /\ ~reader.over /\ reader.cursor.bucket = 0 /\ reader.cursor.id = 0
  <2>1. reader = Browse!NoReader
    BY DEF Browse!Init
  <2>2. Browse!NoCursor.bucket = 0 /\ Browse!NoCursor.id = 0
    BY NothingYet
  <2> QED BY <2>1, <2>2, NothingYet
<1>2. /\ created \in Creations
      /\ issue \in [Listed -> {Browse!Shut} \cup [open: {TRUE}, score: Score \cup {0}, updated: Time]]
      /\ seen = [once |-> {}, twice |-> {}] /\ still = {}
  BY DEF Browse!Init, Browse!Unrated
<1>3. Browse!TypeOK
  <2>1. /\ still \subseteq Listed /\ seen.once \subseteq Listed /\ seen.twice \subseteq seen.once
    BY <1>2
  <2>2. reader.sort \in {"none", "easiest", "newest", "rated"} /\ reader.cursor.bucket \in 0..1
        /\ reader.cursor.id \in Listed \cup {0}
    BY <1>1
  <2> QED BY <1>2, <2>1, <2>2 DEF Browse!TypeOK, Browse!Unrated
<1> QED BY <1>1, <1>2, <1>3 DEF BrowseInv

LEMMA BrowseStep == BrowseInv /\ [Browse!Next]_(Browse!catalogBrowseVars) => BrowseInv'
<1> SUFFICES ASSUME BrowseInv, [Browse!Next]_(Browse!catalogBrowseVars) PROVE BrowseInv'
  OBVIOUS
<1>1. CASE UNCHANGED Browse!catalogBrowseVars
  BY <1>1 DEF Browse!catalogBrowseVars, BrowseInv, Browse!TypeOK, Browse!Offered, Browse!IsOpen, LeftToShow, CursorPlace, CursorAt,
              PlaceOf, Browse!BucketOf
<1>2. ASSUME still' = {}, Browse!TypeOK', reader' \in BrowseReader
      PROVE  BrowseInv'
  BY <1>2 DEF BrowseInv
<1>3. ASSUME NEW sort \in {"easiest", "newest", "rated"}, NEW prefers \in BOOLEAN, Browse!BeginReading(sort, prefers)
      PROVE  BrowseInv'
  <2>1. /\ reader' = [Browse!NoReader EXCEPT !.sort = sort, !.prefers = prefers]
        /\ seen' = [once |-> {}, twice |-> {}] /\ still' = Listed
        /\ created' = created /\ issue' = issue
    BY <1>3 DEF Browse!BeginReading
  <2>2. /\ reader' \in BrowseReader /\ reader'.sort = sort /\ ~reader'.begun /\ ~reader'.over
        /\ reader'.cursor.bucket = 0 /\ reader'.cursor.id = 0
    <3>1. Browse!NoReader \in BrowseReader /\ ~Browse!NoReader.begun /\ ~Browse!NoReader.over
          /\ Browse!NoReader.cursor.bucket = 0 /\ Browse!NoReader.cursor.id = 0
      BY NothingYet
    <3> QED BY <2>1, <3>1 DEF BrowseReader
  <2>3. seen'.once = {} /\ seen'.twice = {}
    BY <2>1
  <2>4. LeftToShow' = Browse!Offered'
    BY <2>2 DEF LeftToShow
  <2>5. Browse!TypeOK'
    <3>1. /\ created' \in Creations
          /\ issue' \in [Listed -> {Browse!Shut} \cup [open: {TRUE}, score: Score \cup {0}, updated: Time]]
          /\ still' \subseteq Listed /\ seen'.once \subseteq Listed /\ seen'.twice \subseteq seen'.once
      BY <2>1, <2>3, BrowseTyped
    <3>2. /\ reader'.sort \in {"none", "easiest", "newest", "rated"}
          /\ reader'.cursor.bucket \in 0..1 /\ reader'.cursor.id \in Listed \cup {0}
      BY <2>2
    <3> QED BY <3>1, <3>2 DEF Browse!TypeOK, Browse!Unrated
  <2> QED BY <1>3, <2>1, <2>2, <2>3, <2>4, <2>5 DEF BrowseInv
<1>4. LeftToShow \subseteq Listed
  BY BrowseTyped DEF LeftToShow
<1>5. ASSUME NEW n \in 1..MaxPage, Browse!EasiestPage(n)
      PROVE  BrowseInv'
  <2>1. n \in Nat \ {0}
    BY BrowseAssumption
  <2> DEFINE page == Browse!FirstOf(UNION {Browse!LeftIn(b) : b \in Browse!Buckets}, n)
             last == Browse!LastOf(page)
             cursor == IF page = {} THEN Browse!NoCursor
                       ELSE [bucket |-> Browse!BucketOf(last), score |-> issue[last].score,
                             time |-> issue[last].updated, id |-> last]
  <2>2. reader.sort = "easiest" /\ ~reader.over /\ Browse!Turn(page, n, cursor)
    BY <1>5 DEF Browse!EasiestPage
  <2>3. page = FirstIn(BrowseOrder, LeftToShow, n)
    BY <1>4, <2>2, LeftIsLeft, FirstOfIsFirst
  <2>4. page \subseteq Listed
    BY <1>4, <2>3 DEF FirstIn
  <2>5. page # {} => last \in Listed /\ issue[last].score \in Score \cup {0} /\ issue[last].updated \in Nat
                     /\ Browse!BucketOf(last) \in 0..1
    <3> SUFFICES ASSUME page # {}
                 PROVE  last \in Listed /\ issue[last].score \in Score \cup {0} /\ issue[last].updated \in Nat
                        /\ Browse!BucketOf(last) \in 0..1
      OBVIOUS
    <3> HIDE DEF page
    <3>1. last \in Listed
      BY <2>4, LastIsLast
    <3>2. issue[last].score \in Score \cup {0} /\ issue[last].updated \in Nat
      BY <3>1, BrowseTyped, IssueTyped
    <3> QED BY <3>1, <3>2 DEF Browse!BucketOf
  <2> HIDE DEF page
  <2>6. cursor \in BrowseCursor
    BY <2>5 DEF BrowseCursor, Browse!NoCursor, Browse!Unrated
  <2>7. page # {} => CursorAt(cursor) = PlaceOf(last)
    <3>1. ~reader.prefers => Browse!BucketOf(last) = 0
      BY DEF Browse!BucketOf
    <3> QED BY <2>2, <3>1 DEF CursorAt, PlaceOf
  <2> QED BY <2>1, <2>2, <2>3, <2>6, <2>7, TurnKeeps
<1>6. ASSUME NEW n \in 1..MaxPage, Browse!NewestPage(n)
      PROVE  BrowseInv'
  <2>1. n \in Nat \ {0}
    BY BrowseAssumption
  <2> DEFINE page == IF reader.sort = "rated" THEN Browse!Merged(Browse!AfterCursor, n)
                     ELSE Browse!FirstOf(Browse!AfterCursor, n)
             last == Browse!LastOf(page)
             cursor == IF page = {} THEN Browse!NoCursor
                       ELSE [Browse!NoCursor EXCEPT !.time = created[last], !.id = last]
  <2>2. reader.sort \in {"newest", "rated"} /\ ~reader.over /\ Browse!Turn(page, n, cursor)
    BY <1>6 DEF Browse!NewestPage
  <2>3. page = FirstIn(BrowseOrder, LeftToShow, n)
    BY <1>4, <2>1, <2>2, LeftIsLeft, FirstOfIsFirst, MergedIsFirst
  <2>4. page \subseteq Listed
    BY <1>4, <2>3 DEF FirstIn
  <2> HIDE DEF page
  <2>5. page # {} => last \in Listed /\ created[last] \in Nat
    BY <2>4, LastIsLast, BrowseTyped
  <2>6. cursor \in BrowseCursor
    <3>1. CASE page = {}
      BY <3>1, NothingYet
    <3>2. CASE page # {}
      <4>1. cursor = [bucket |-> 0, score |-> 0, time |-> created[last], id |-> last]
        <5>1. cursor = [Browse!NoCursor EXCEPT !.time = created[last], !.id = last]
          BY <3>2
        <5>2. Browse!NoCursor = [bucket |-> 0, score |-> 0, time |-> 0, id |-> 0]
          BY NothingYet
        <5> HIDE DEF cursor
        <5> QED BY <5>1, <5>2
      <4> HIDE DEF cursor
      <4>2. last \in Listed /\ created[last] \in Nat
        BY <2>5, <3>2
      <4> QED BY <4>1, <4>2 DEF BrowseCursor
    <3> QED BY <3>1, <3>2
  <2>7. page # {} => CursorAt(cursor) = PlaceOf(last)
    BY <2>2 DEF CursorAt, PlaceOf, Browse!NoCursor
  <2> QED BY <2>1, <2>2, <2>3, <2>6, <2>7, TurnKeeps
<1>7. CASE Browse!LeaveReading
  <2>1. /\ created' = created /\ issue' = issue /\ still' = {} /\ reader' = Browse!NoReader
        /\ seen'.once = {} /\ seen'.twice = {}
    BY <1>7 DEF Browse!LeaveReading
  <2>2. reader' \in BrowseReader /\ reader'.sort = "none" /\ reader'.cursor.bucket = 0 /\ reader'.cursor.id = 0
    <3>1. Browse!NoCursor.bucket = 0 /\ Browse!NoCursor.id = 0
      BY NothingYet
    <3> QED BY <2>1, <3>1, NothingYet
  <2>3. Browse!TypeOK'
    <3>1. /\ created' \in Creations
          /\ issue' \in [Listed -> {Browse!Shut} \cup [open: {TRUE}, score: Score \cup {0}, updated: Time]]
          /\ still' \subseteq Listed /\ seen'.once \subseteq Listed /\ seen'.twice \subseteq seen'.once
      BY <2>1, BrowseTyped
    <3>2. /\ reader'.sort \in {"none", "easiest", "newest", "rated"}
          /\ reader'.cursor.bucket \in 0..1 /\ reader'.cursor.id \in Listed \cup {0}
      BY <2>2
    <3> QED BY <3>1, <3>2 DEF Browse!TypeOK, Browse!Unrated
  <2> QED BY <1>2, <2>1, <2>2, <2>3
<1>8. CASE Browse!ChangePreferences
  <2>1. /\ created' = created /\ issue' = issue /\ seen' = seen /\ still' = {}
        /\ reader' = [reader EXCEPT !.prefers = ~@]
    BY <1>8 DEF Browse!ChangePreferences
  <2>2. reader' \in BrowseReader /\ reader'.sort = reader.sort /\ reader'.cursor = reader.cursor
    BY <2>1 DEF BrowseInv, BrowseReader
  <2> QED BY <1>2, <2>1, <2>2 DEF BrowseInv, Browse!TypeOK
<1>9. ASSUME NEW i \in Listed, Browse!StoreIssue(i)
      PROVE  BrowseInv'
  <2>1. /\ created' = created /\ reader' = reader /\ seen' = seen /\ still' = still \ {i}
        /\ \E v \in {Browse!Shut} \cup [open: {TRUE}, score: Score \cup {0}, updated: Time] : issue' = [issue EXCEPT ![i] = v]
    BY <1>9 DEF Browse!StoreIssue, Browse!Unrated
  <2>2. /\ issue' \in [Listed -> {Browse!Shut} \cup [open: {TRUE}, score: Score \cup {0}, updated: Time]]
        /\ \A j \in Listed : j # i => issue'[j] = issue[j]
    BY <2>1, BrowseTyped
  <2>3. Browse!TypeOK'
    BY <2>1, <2>2 DEF BrowseInv, Browse!TypeOK, Browse!Unrated
  <2>4. \A j \in still' : j \in Listed /\ j \in still /\ issue'[j] = issue[j]
    BY <2>1, <2>2, BrowseTyped
  <2>5. \A j \in still' : j \in Browse!Offered' <=> j \in Browse!Offered
    BY <2>1, <2>4 DEF Browse!Offered, Browse!IsOpen
  <2>6. \A j \in still' : PlaceOf(j)' = PlaceOf(j) /\ CursorPlace' = CursorPlace
    BY <2>1, <2>4 DEF PlaceOf, CursorPlace, CursorAt, Browse!BucketOf
  <2>7. \A j \in still' : j \in LeftToShow' <=> j \in LeftToShow
    BY <2>1, <2>5, <2>6 DEF LeftToShow
  <2> QED BY <2>1, <2>3, <2>4, <2>5, <2>7 DEF BrowseInv
<1> QED BY <1>1, <1>3, <1>5, <1>6, <1>7, <1>8, <1>9 DEF Browse!Next

----------------------------------------------------------------------------
(* Walking the shuffled order (ShuffledFeed). *)

Past(k, p, at) == k[p] > at[1] \/ (k[p] = at[1] /\ p > at[2])
WalkOrder == {p \in Project \X Project : Past(key, p[2], <<key[p[1]], p[1]>>)}

FeedPlace == (Key \cup {-1}) \X (Project \cup {0})
FeedCursor == FeedPlace \cup {Shuffled!End}
FeedReader ==
  [sort: {"none", "shuffle", "foryou", "pick"}, at: FeedCursor, start: Nat, wrapped: BOOLEAN,
   offset: Nat, want: Nat]
FeedChunk == [drawn: BOOLEAN, ids: Seq(Project), next: FeedCursor, wrapped: BOOLEAN]
Injects(ids) == \A m, n \in 1..Len(ids) : ids[m] = ids[n] => m = n

\* The repositories the walk comes to from a cursor: the feeds that go round
\* the end stop where they began.
ComeSet(k, f, at, wrapped) ==
  {p \in Project :
     /\ at # Shuffled!End
     /\ \/ f.sort = "shuffle" /\ Past(k, p, at)
        \/ f.sort # "shuffle" /\ wrapped /\ k[p] < f.start /\ Past(k, p, at)
        \/ f.sort # "shuffle" /\ ~wrapped /\ (k[p] < f.start \/ Past(k, p, at))}

\* What is left of a chunk, and with what comes after it all that is to come.
Unserved(c, offset) == {c.ids[n] : n \in {m \in 1..Len(c.ids) : m > offset}}
LeftOf(f, c) == IF c.drawn THEN Unserved(c, f.offset) ELSE {}
AfterOf(k, f, c) == IF c.drawn THEN ComeSet(k, f, c.next, c.wrapped) ELSE ComeSet(k, f, f.at, f.wrapped)
ComingOf(k, f, c) == LeftOf(f, c) \cup AfterOf(k, f, c)

\* The first round is past its start.
RoundFrom(f, at, wrapped) ==
  f.sort \in {"foryou", "pick"} /\ at # Shuffled!End /\ ~wrapped => at[1] >= f.start

FeedTypes ==
  /\ key \in [Project -> Key] /\ matching \subseteq Project
  /\ feed \in FeedReader /\ kept \in FeedChunk /\ Injects(kept.ids)
  /\ shown.once \subseteq Project /\ shown.twice \subseteq shown.once /\ steady \subseteq Project

FeedShape ==
  /\ feed.sort = "none" => steady = {}
  /\ kept.drawn => feed.sort = "foryou" /\ feed.at # Shuffled!End /\ feed.offset > 0
  /\ feed.offset > 0 => feed.sort = "foryou" /\ feed.at # Shuffled!End
  /\ feed.sort = "pick" /\ feed.at # Shuffled!End => feed.want > 0
  /\ RoundFrom(feed, feed.at, feed.wrapped)
  /\ kept.drawn => RoundFrom(feed, kept.next, kept.wrapped)

\* A chunk lost halfway is drawn in another order: nothing is promised then.
Followed == kept.drawn \/ feed.offset = 0

\* What stands still was shown or is to come, and not both: Pick, which skips
\* what it has shown, may come to it again.
Unmissed ==
  Followed /\ (feed.sort = "pick" => feed.want > 0) =>
    steady \cap matching \subseteq shown.once \cup ComingOf(key, feed, kept)
Unrepeated ==
  Followed /\ feed.sort # "pick" =>
    /\ steady \cap shown.once \cap ComingOf(key, feed, kept) = {}
    /\ steady \cap LeftOf(feed, kept) \cap AfterOf(key, feed, kept) = {}

ShuffledInv ==
  FeedTypes /\ FeedShape /\ Unmissed /\ Unrepeated /\ steady \cap shown.twice = {}

----------------------------------------------------------------------------
LEMMA FeedNumbers ==
  /\ \A k \in Key : k \in Nat
  /\ \A p \in Project : p \in Nat /\ p > 0
  /\ \A at \in FeedPlace : at[1] \in Int /\ at[1] >= -1 /\ at[2] \in Nat /\ at # Shuffled!End
  /\ Shuffled!End \notin FeedPlace
<1>1. Key \subseteq Nat /\ Project \subseteq Nat \ {0}
  BY ShuffledAssumption
<1>2. \A p \in Project : p \in Nat /\ p > 0
  BY <1>1
<1>3. ASSUME NEW at \in FeedPlace
      PROVE  at[1] \in Int /\ at[1] >= -1 /\ at[2] \in Nat /\ at # Shuffled!End
  <2>1. at[1] \in Key \cup {-1} /\ at[2] \in Project \cup {0}
    BY DEF FeedPlace
  <2>2. at[1] \in Int /\ at[1] >= -1
    <3>1. CASE at[1] = -1
      BY <3>1
    <3>2. CASE at[1] \in Key
      <4>1. at[1] \in Nat
        BY <1>1, <3>2
      <4> QED BY <4>1
    <3> QED BY <2>1, <3>1, <3>2
  <2>3. at[2] \in Nat
    <3>1. CASE at[2] = 0
      BY <3>1
    <3>2. CASE at[2] \in Project
      BY <1>1, <3>2
    <3> QED BY <2>1, <3>1, <3>2
  <2>4. Shuffled!End[1] = -2
    BY DEF Shuffled!End
  <2> QED BY <2>2, <2>3, <2>4
<1>4. Shuffled!End \notin FeedPlace
  BY <1>3
<1> QED BY <1>1, <1>2, <1>3, <1>4

LEMMA FeedTyped ==
  ASSUME FeedTypes
  PROVE  /\ \A p \in Project : key[p] \in Key /\ key[p] \in Nat
         /\ feed.at \in FeedCursor /\ feed.start \in Nat /\ feed.offset \in Nat /\ feed.want \in Nat
         /\ feed.wrapped \in BOOLEAN /\ kept.drawn \in BOOLEAN /\ kept.next \in FeedCursor
         /\ kept.wrapped \in BOOLEAN
<1>1. \A p \in Project : key[p] \in Key
  BY DEF FeedTypes
<1>2. feed \in FeedReader /\ kept \in FeedChunk
  BY DEF FeedTypes
<1>3. \A p \in Project : key[p] \in Nat
  BY <1>1, FeedNumbers
<1>4. /\ feed.at \in FeedCursor /\ feed.start \in Nat /\ feed.offset \in Nat /\ feed.want \in Nat
      /\ feed.wrapped \in BOOLEAN
  BY <1>2 DEF FeedReader
<1>5. kept.drawn \in BOOLEAN /\ kept.next \in FeedCursor /\ kept.wrapped \in BOOLEAN
  BY <1>2 DEF FeedChunk
<1> QED BY <1>1, <1>3, <1>4, <1>5

LEMMA ShuffledCardinality ==
  ASSUME NEW S
  PROVE  Shuffled!Cardinality(S) = Cardinality(S)
BY DEF Shuffled!Cardinality, Cardinality

LEMMA WalkOrders ==
  ASSUME FeedTypes
  PROVE  /\ StrictOrder(WalkOrder, Project)
         /\ \A p, q \in Project : <<q, p>> \in WalkOrder <=> Past(key, p, <<key[q], q>>)
<1>1. \A p, q \in Project : <<q, p>> \in WalkOrder <=> Past(key, p, <<key[q], q>>)
  BY DEF WalkOrder
<1>2. \A p, q \in Project : <<q, p>> \in WalkOrder <=> (key[p] > key[q] \/ (key[p] = key[q] /\ p > q))
  BY <1>1 DEF Past
<1>3. \A p \in Project : key[p] \in Nat /\ p \in Nat
  BY FeedTyped, FeedNumbers
<1>4. \A p \in Project : <<p, p>> \notin WalkOrder
  BY <1>2, <1>3
<1>5. ASSUME NEW i \in Project, NEW j \in Project, NEW k \in Project,
             <<i, j>> \in WalkOrder, <<j, k>> \in WalkOrder
      PROVE  <<i, k>> \in WalkOrder
  BY <1>2, <1>3, <1>5
<1>6. ASSUME NEW i \in Project, NEW j \in Project, i # j
      PROVE  <<i, j>> \in WalkOrder \/ <<j, i>> \in WalkOrder
  <2>1. key[i] \in Nat /\ key[j] \in Nat /\ i \in Nat /\ j \in Nat
    BY <1>3
  <2> QED BY <1>2, <1>6, <2>1
<1> QED BY <1>1, <1>4, <1>5, <1>6 DEF StrictOrder

\* What is past a place past a cursor is past the cursor.
LEMMA PastOn ==
  ASSUME FeedTypes, NEW at \in FeedPlace, NEW p \in Project, NEW l \in Project
  PROVE  /\ Past(key, l, at) /\ Past(key, p, <<key[l], l>>) => Past(key, p, at)
         /\ Past(key, p, at) => key[p] >= at[1]
         /\ Past(key, p, <<key[l], l>>) => key[p] >= key[l]
         /\ ~Past(key, p, <<key[l], l>>) => key[p] <= key[l]
         /\ <<key[l], l>> \in FeedPlace
<1>1. /\ key[p] \in Nat /\ key[l] \in Nat /\ p \in Nat /\ l \in Nat /\ at[1] \in Int /\ at[2] \in Nat
      /\ key[l] \in Key
  BY FeedTyped, FeedNumbers
<1>2. /\ Past(key, p, <<key[l], l>>) <=> key[p] > key[l] \/ (key[p] = key[l] /\ p > l)
      /\ Past(key, p, at) <=> key[p] > at[1] \/ (key[p] = at[1] /\ p > at[2])
      /\ Past(key, l, at) <=> key[l] > at[1] \/ (key[l] = at[1] /\ l > at[2])
  BY DEF Past
<1>3. <<key[l], l>> \in FeedPlace
  BY <1>1 DEF FeedPlace
<1> QED BY <1>1, <1>2, <1>3

LEMMA WalkFirst ==
  ASSUME FeedTypes, NEW S, S \subseteq Project, NEW n
  PROVE  Shuffled!First(S, n) = FirstIn(WalkOrder, S, n)
<1>1. \A p \in S : {q \in S : Shuffled!Beyond(p, Shuffled!Place(q))} = Preceding(WalkOrder, S, p)
  BY WalkOrders DEF Preceding, Shuffled!Beyond, Shuffled!Place, Past
<1> QED BY <1>1, ShuffledCardinality DEF Shuffled!First, FirstIn

LEMMA WalkLast ==
  ASSUME FeedTypes, NEW S, S \subseteq Project, S # {}
  PROVE  \E l \in S : /\ Shuffled!LastOf(S) = <<key[l], l>>
                      /\ \A j \in S : j = l \/ <<j, l>> \in WalkOrder
<1>0. IsFiniteSet(S) /\ StrictOrder(WalkOrder, Project)
  BY FS_Subset, ShuffledAssumption, WalkOrders
<1>1. \A p, q \in S : Shuffled!Beyond(q, Shuffled!Place(p)) <=> <<p, q>> \in WalkOrder
  BY WalkOrders DEF Shuffled!Beyond, Shuffled!Place, Past
<1>2. PICK m \in S : \A i \in S : i = m \/ <<i, m>> \in WalkOrder
  BY <1>0, GreatestInOrder
<1>3. \A j \in S : ~Shuffled!Beyond(j, Shuffled!Place(m))
  BY <1>0, <1>1, <1>2 DEF StrictOrder
<1> DEFINE l == CHOOSE p \in S : \A q \in S : ~Shuffled!Beyond(q, Shuffled!Place(p))
<1>4. l \in S /\ \A q \in S : ~Shuffled!Beyond(q, Shuffled!Place(l))
  BY <1>3
<1>5. Shuffled!LastOf(S) = <<key[l], l>>
  BY DEF Shuffled!LastOf, Shuffled!Place
<1> HIDE DEF l
<1>6. \A j \in S : j = l \/ <<j, l>> \in WalkOrder
  BY <1>0, <1>1, <1>4 DEF StrictOrder
<1> QED BY <1>4, <1>5, <1>6

\* A walk finds the first so many matches in what it has read, which is all
\* that is ahead or the first of it.
WalkReads(at, limit, w, walked, stopped) ==
  /\ \/ walked = Shuffled!Ahead(at) /\ ~stopped
     \/ \E n \in Nat \ {0} : walked = Shuffled!First(Shuffled!Ahead(at), n) /\ stopped
                             /\ Shuffled!Ahead(at) # {}
  /\ w.hits = Shuffled!First(walked \cap matching, limit)
  /\ w.next = IF ~(Cardinality(w.hits) = limit) /\ ~stopped THEN Shuffled!End
              ELSE IF Cardinality(w.hits) = limit THEN Shuffled!LastOf(w.hits)
              ELSE Shuffled!LastOf(walked)

LEMMA WalkParts ==
  ASSUME FeedTypes, NEW at, NEW limit \in Nat \ {0}, NEW w \in Shuffled!Walks(at, limit)
  PROVE  \E walked \in SUBSET Shuffled!Ahead(at), stopped \in BOOLEAN : WalkReads(at, limit, w, walked, stopped)
<1> DEFINE ahead == Shuffled!Ahead(at)
           Hits(walked) == Shuffled!First(walked \cap matching, limit)
           Next(walked, stopped) ==
             IF ~(Cardinality(Hits(walked)) = limit) /\ ~stopped THEN Shuffled!End
             ELSE IF Cardinality(Hits(walked)) = limit THEN Shuffled!LastOf(Hits(walked))
             ELSE Shuffled!LastOf(walked)
<1>1. \/ w = [hits |-> Hits(ahead), next |-> Next(ahead, FALSE)]
      \/ \E n \in {m \in 2 * limit..Cardinality(Project) : m <= Cardinality(ahead)} :
           w = [hits |-> Hits(Shuffled!First(ahead, n)), next |-> Next(Shuffled!First(ahead, n), TRUE)]
  BY ShuffledCardinality DEF Shuffled!Walks, Shuffled!NextPlace
<1>2. ahead \in SUBSET Project /\ IsFiniteSet(Project)
  BY ShuffledAssumption DEF Shuffled!Ahead
<1>3. CASE w = [hits |-> Hits(ahead), next |-> Next(ahead, FALSE)]
  <2>1. w.hits = Hits(ahead) /\ w.next = Next(ahead, FALSE)
    BY <1>3
  <2> HIDE DEF ahead
  <2>2. w.next = IF ~(Cardinality(w.hits) = limit) /\ ~FALSE THEN Shuffled!End
                 ELSE IF Cardinality(w.hits) = limit THEN Shuffled!LastOf(w.hits)
                 ELSE Shuffled!LastOf(ahead)
    BY <2>1
  <2>3. ahead \in SUBSET ahead
    OBVIOUS
  <2>4. WalkReads(at, limit, w, ahead, FALSE)
    BY <2>1, <2>2 DEF ahead, WalkReads
  <2> QED BY <2>3, <2>4 DEF ahead
<1>4. ASSUME NEW n \in {m \in 2 * limit..Cardinality(Project) : m <= Cardinality(ahead)},
             w = [hits |-> Hits(Shuffled!First(ahead, n)), next |-> Next(Shuffled!First(ahead, n), TRUE)]
      PROVE  \E walked \in SUBSET ahead :
               /\ \E k \in Nat \ {0} : walked = Shuffled!First(ahead, k) /\ ahead # {}
               /\ w.hits = Hits(walked)
               /\ w.next = IF Cardinality(w.hits) = limit THEN Shuffled!LastOf(w.hits) ELSE Shuffled!LastOf(walked)
  <2> DEFINE walked == Shuffled!First(ahead, n)
  <2>1. n \in Nat \ {0} /\ n <= Cardinality(ahead)
    BY <1>2, FS_CardinalityType
  <2>2. ahead # {}
    BY <2>1, FS_EmptySet
  <2>3. walked \in SUBSET ahead
    BY DEF Shuffled!First
  <2>4. w.hits = Hits(walked) /\ w.next = Next(walked, TRUE)
    BY <1>4
  <2> HIDE DEF walked
  <2>5. w.next = IF Cardinality(w.hits) = limit THEN Shuffled!LastOf(w.hits) ELSE Shuffled!LastOf(walked)
    BY <2>4
  <2> QED BY <2>1, <2>2, <2>3, <2>4, <2>5 DEF walked
<1>5. CASE \E n \in {m \in 2 * limit..Cardinality(Project) : m <= Cardinality(ahead)} :
             w = [hits |-> Hits(Shuffled!First(ahead, n)), next |-> Next(Shuffled!First(ahead, n), TRUE)]
  <2>1. PICK walked \in SUBSET ahead :
               /\ \E k \in Nat \ {0} : walked = Shuffled!First(ahead, k) /\ ahead # {}
               /\ w.hits = Hits(walked)
               /\ w.next = IF Cardinality(w.hits) = limit THEN Shuffled!LastOf(w.hits) ELSE Shuffled!LastOf(walked)
    BY <1>4, <1>5
  <2>2. w.next = IF ~(Cardinality(w.hits) = limit) /\ ~TRUE THEN Shuffled!End
                 ELSE IF Cardinality(w.hits) = limit THEN Shuffled!LastOf(w.hits)
                 ELSE Shuffled!LastOf(walked)
    BY <2>1
  <2>3. WalkReads(at, limit, w, walked, TRUE)
    BY <2>1, <2>2 DEF WalkReads
  <2> QED BY <2>3
<1> QED BY <1>1, <1>3, <1>5

\* A walk cuts the order at its next place: it finds the matches before it,
\* and where there is no next place it finds them all.
LEMMA WalkCut ==
  ASSUME FeedTypes, NEW at \in FeedPlace, NEW limit \in Nat \ {0}, NEW w \in Shuffled!Walks(at, limit)
  PROVE  /\ w.hits \subseteq Project /\ w.hits \subseteq matching /\ IsFiniteSet(w.hits)
         /\ \A p \in w.hits : Past(key, p, at)
         /\ \/ /\ w.next = Shuffled!End
               /\ \A p \in matching : Past(key, p, at) => p \in w.hits
            \/ \E l \in Project :
                 /\ w.next = <<key[l], l>> /\ Past(key, l, at)
                 /\ \A p \in matching : Past(key, p, at) => (p \in w.hits <=> ~Past(key, p, <<key[l], l>>))
<1> DEFINE ahead == Shuffled!Ahead(at)
<1>0. /\ IsFiniteSet(Project) /\ StrictOrder(WalkOrder, Project) /\ matching \subseteq Project
      /\ \A p, q \in Project : <<q, p>> \in WalkOrder <=> Past(key, p, <<key[q], q>>)
  BY WalkOrders, ShuffledAssumption DEF FeedTypes
<1>1. ahead \subseteq Project /\ IsFiniteSet(ahead) /\ \A p \in Project : p \in ahead <=> Past(key, p, at)
  <2>1. ahead \in SUBSET Project
    BY DEF Shuffled!Ahead
  <2>2. \A p \in Project : p \in ahead <=> Past(key, p, at)
    BY DEF Shuffled!Ahead, Shuffled!Beyond, Past
  <2> QED BY <1>0, <2>1, <2>2, FS_Subset
<1>11. PICK walked \in SUBSET ahead, stopped \in BOOLEAN : WalkReads(at, limit, w, walked, stopped)
  BY WalkParts
<1>2. /\ \/ walked = ahead /\ ~stopped
         \/ \E n \in Nat \ {0} : walked = Shuffled!First(ahead, n) /\ stopped /\ ahead # {}
      /\ w.hits = Shuffled!First(walked \cap matching, limit)
      /\ w.next = IF ~(Cardinality(w.hits) = limit) /\ ~stopped THEN Shuffled!End
                  ELSE IF Cardinality(w.hits) = limit THEN Shuffled!LastOf(w.hits)
                  ELSE Shuffled!LastOf(walked)
  BY <1>11 DEF WalkReads
<1> HIDE DEF ahead
<1> DEFINE found == walked \cap matching
<1>3. /\ walked \subseteq Project /\ found \subseteq Project /\ IsFiniteSet(walked) /\ IsFiniteSet(found)
      /\ w.hits = FirstIn(WalkOrder, found, limit)
  <2>1. walked \subseteq Project /\ found \subseteq Project
    BY <1>1, <1>2
  <2>2. IsFiniteSet(walked) /\ IsFiniteSet(found)
    BY <1>0, <2>1, FS_Subset
  <2>3. w.hits = FirstIn(WalkOrder, found, limit)
    BY <1>2, <2>1, WalkFirst
  <2> QED BY <2>1, <2>2, <2>3
<1>4. ASSUME NEW p \in ahead, NEW q \in walked, <<p, q>> \in WalkOrder
      PROVE  p \in walked
  <2>1. CASE walked = ahead
    BY <2>1
  <2>2. CASE \E n \in Nat \ {0} : walked = Shuffled!First(ahead, n)
    <3>1. PICK n \in Nat \ {0} : walked = FirstIn(WalkOrder, ahead, n)
      BY <1>1, <2>2, WalkFirst
    <3> QED BY <1>0, <1>1, <1>4, <3>1, FirstIsSegment
  <2> QED BY <1>2, <2>1, <2>2
<1>5. w.hits \subseteq found /\ IsFiniteSet(w.hits) /\ Cardinality(w.hits) \in Nat /\ Cardinality(w.hits) <= limit
  BY <1>0, <1>3, FirstIsFinite, FirstAtMost
<1>6. w.hits \subseteq Project /\ w.hits \subseteq matching /\ \A p \in w.hits : p \in walked /\ Past(key, p, at)
  BY <1>1, <1>2, <1>3, <1>5
<1>7. Cardinality(w.hits) # limit => w.hits = found
  BY <1>0, <1>3, <1>5, FirstShort
<1> HIDE DEF found
<1>8. CASE Cardinality(w.hits) # limit /\ ~stopped
  <2>1. w.next = Shuffled!End /\ walked = ahead
    BY <1>2, <1>8
  <2>2. \A p \in matching : Past(key, p, at) => p \in w.hits
    BY <1>0, <1>1, <1>7, <1>8, <2>1 DEF found
  <2> QED BY <1>5, <1>6, <2>1, <2>2
<1>9. CASE Cardinality(w.hits) = limit
  <2>1. w.hits # {}
    BY <1>9, FS_EmptySet
  <2>2. PICK l \in w.hits : /\ Shuffled!LastOf(w.hits) = <<key[l], l>>
                            /\ \A j \in w.hits : j = l \/ <<j, l>> \in WalkOrder
    BY <1>6, <2>1, WalkLast
  <2>3. l \in Project /\ w.next = <<key[l], l>> /\ Past(key, l, at) /\ l \in walked
    BY <1>2, <1>6, <1>9, <2>2
  <2>4. ASSUME NEW p \in matching, Past(key, p, at)
        PROVE  p \in w.hits <=> ~Past(key, p, <<key[l], l>>)
    <3>1. p \in Project /\ p \in ahead
      BY <1>0, <1>1, <2>4
    <3>2. ASSUME p \in w.hits PROVE <<l, p>> \notin WalkOrder
      BY <1>0, <2>2, <2>3, <3>1, <3>2 DEF StrictOrder
    <3>3. ASSUME <<l, p>> \notin WalkOrder PROVE p \in w.hits
      <4>1. CASE p = l
        BY <4>1
      <4>2. CASE p # l
        <5>1. <<p, l>> \in WalkOrder
          BY <1>0, <2>3, <3>1, <3>3, <4>2 DEF StrictOrder
        <5>2. p \in found
          BY <1>4, <2>3, <3>1, <5>1 DEF found
        <5> QED BY <1>0, <1>3, <5>1, <5>2, FirstIsSegment
      <4> QED BY <4>1, <4>2
    <3> QED BY <1>0, <2>3, <3>1, <3>2, <3>3
  <2> QED BY <1>5, <1>6, <2>3, <2>4
<1>10. CASE Cardinality(w.hits) # limit /\ stopped
  <2>1. PICK n \in Nat \ {0} : walked = FirstIn(WalkOrder, ahead, n) /\ ahead # {}
    BY <1>1, <1>2, <1>10, WalkFirst
  <2>2. walked # {}
    <3> SUFFICES ASSUME walked = {} PROVE FALSE
      OBVIOUS
    <3>1. Cardinality(FirstIn(WalkOrder, ahead, n)) < n
      BY <2>1, FS_EmptySet
    <3> QED BY <1>0, <1>1, <2>1, <3>1, FirstShort
  <2>3. PICK l \in walked : /\ Shuffled!LastOf(walked) = <<key[l], l>>
                            /\ \A j \in walked : j = l \/ <<j, l>> \in WalkOrder
    BY <1>3, <2>2, WalkLast
  <2>4. l \in Project /\ w.next = <<key[l], l>> /\ Past(key, l, at)
    BY <1>1, <1>2, <1>3, <1>10, <2>3
  <2>5. ASSUME NEW p \in matching, Past(key, p, at)
        PROVE  p \in w.hits <=> ~Past(key, p, <<key[l], l>>)
    <3>1. p \in Project /\ p \in ahead
      BY <1>0, <1>1, <2>5
    <3>2. p \in w.hits <=> p \in walked
      BY <1>7, <1>10 DEF found
    <3>3. ASSUME p \in walked PROVE <<l, p>> \notin WalkOrder
      BY <1>0, <2>3, <2>4, <3>1, <3>3 DEF StrictOrder
    <3>4. ASSUME <<l, p>> \notin WalkOrder PROVE p \in walked
      <4>1. p = l \/ <<p, l>> \in WalkOrder
        BY <1>0, <2>4, <3>1, <3>4 DEF StrictOrder
      <4> QED BY <1>4, <2>3, <3>1, <4>1
    <3> QED BY <1>0, <2>4, <3>1, <3>2, <3>3, <3>4
  <2> QED BY <1>5, <1>6, <2>4, <2>5
<1> QED BY <1>8, <1>9, <1>10

----------------------------------------------------------------------------
\* The places drawn put a chunk in an order without gaps or repeats.
LEMMA InOrderSorts ==
  ASSUME NEW S, S \subseteq Project, NEW draw \in Draws
  PROVE  LET ids == Shuffled!InOrder(S, draw) IN
         /\ ids \in Seq(Project) /\ Len(ids) = Cardinality(S) /\ Injects(ids)
         /\ {ids[n] : n \in 1..Len(ids)} = S
<1> DEFINE ids == Shuffled!InOrder(S, draw)
           N == Cardinality(S)
           R == {p \in Project \X Project : draw[p[1]] < draw[p[2]]}
           rank == [p \in S |-> Cardinality(Preceding(R, S, p))]
           Nth(n) == CHOOSE p \in S : Shuffled!Cardinality({q \in S : draw[q] < draw[p]}) = n - 1
<1>0. IsFiniteSet(S) /\ N \in Nat /\ IsFiniteSet(Project)
  BY ShuffledAssumption, FS_Subset, FS_CardinalityType
<1>1. /\ \A p \in Project : draw[p] \in Nat
      /\ \A p, q \in Project : draw[p] = draw[q] => p = q
  BY ShuffledAssumption
<1>2. \A p, q \in Project : <<p, q>> \in R <=> draw[p] < draw[q]
  OBVIOUS
<1> HIDE DEF R
<1>3. StrictOrder(R, Project)
  BY <1>1, <1>2 DEF StrictOrder
<1>4. \A p \in S : {q \in S : draw[q] < draw[p]} = Preceding(R, S, p)
  BY <1>2 DEF Preceding
<1>5. \A p \in S : rank[p] \in Nat
  BY <1>0, PrecedingFinite
<1>6. \A p, q \in S : p # q => rank[p] # rank[q]
  <2>1. ASSUME NEW p \in S, NEW q \in S, <<p, q>> \in R PROVE rank[p] < rank[q]
    BY <1>0, <1>3, <2>1, FewerPrecede
  <2>2. \A p, q \in S : p # q => <<p, q>> \in R \/ <<q, p>> \in R
    BY <1>3 DEF StrictOrder
  <2> HIDE DEF rank
  <2> SUFFICES ASSUME NEW p \in S, NEW q \in S, p # q, rank[p] = rank[q] PROVE FALSE
    OBVIOUS
  <2>3. ~(rank[p] < rank[q]) /\ ~(rank[q] < rank[p])
    BY <1>5
  <2> QED BY <2>1, <2>2, <2>3
<1>7. \A p \in S : rank[p] \in 0..N - 1
  <2> SUFFICES ASSUME NEW p \in S PROVE rank[p] < N
    BY <1>0, <1>5
  <2>1. Preceding(R, S, p) \in SUBSET S /\ p \notin Preceding(R, S, p)
    BY <1>3 DEF Preceding, StrictOrder
  <2> QED BY <1>0, <1>5, <2>1, FS_Subset
<1>8. \A r \in 0..N - 1 : \E p \in S : rank[p] = r
  <2> SUFFICES ASSUME NEW r \in 0..N - 1, \A p \in S : rank[p] # r PROVE FALSE
    OBVIOUS
  <2> DEFINE T == (0..N - 1) \ {r}
  <2>1. IsFiniteSet(0..N - 1) /\ Cardinality(0..N - 1) = N
    BY <1>0, FS_Interval
  <2>2. IsFiniteSet(T) /\ Cardinality(T) = N - 1
    BY <2>1, FS_RemoveElement
  <2>3. rank \in [S -> T]
    BY <1>7
  <2> HIDE DEF T, rank, N
  <2>4. Cardinality(T) < Cardinality(S)
    BY <1>0, <2>2 DEF N
  <2>5. \E p, q \in S : p # q /\ rank[p] = rank[q]
    BY <1>0, <2>2, <2>3, <2>4, FS_PigeonHole
  <2> QED BY <1>6, <2>5
<1>9. ids = [n \in 1..N |-> CHOOSE p \in S : Shuffled!Cardinality({q \in S : draw[q] < draw[p]}) = n - 1]
  BY ShuffledCardinality DEF Shuffled!InOrder
<1>10. \A p \in S : Shuffled!Cardinality({q \in S : draw[q] < draw[p]}) = rank[p]
  BY <1>4, ShuffledCardinality
<1> HIDE DEF ids, rank, N
<1>11. \A n \in 1..N : ids[n] \in S /\ rank[ids[n]] = n - 1
  <2> SUFFICES ASSUME NEW n \in 1..N PROVE ids[n] \in S /\ rank[ids[n]] = n - 1
    OBVIOUS
  <2>1. n - 1 \in 0..N - 1
    BY <1>0
  <2>2. \E p \in S : Shuffled!Cardinality({q \in S : draw[q] < draw[p]}) = n - 1
    BY <1>8, <1>10, <2>1
  <2>3. ids[n] = CHOOSE p \in S : Shuffled!Cardinality({q \in S : draw[q] < draw[p]}) = n - 1
    BY <1>9
  <2>4. ids[n] \in S /\ Shuffled!Cardinality({q \in S : draw[q] < draw[ids[n]]}) = n - 1
    BY <2>2, <2>3
  <2> QED BY <1>10, <2>4
<1>12. ids \in Seq(S) /\ Len(ids) = N
  <2>0. ids = [n \in 1..N |-> Nth(n)]
    BY <1>9
  <2> HIDE DEF Nth
  <2>1. ids = [n \in 1..N |-> ids[n]]
    BY <2>0
  <2>2. ids \in [1..N -> S]
    BY <1>11, <2>1
  <2> QED BY <1>0, <2>2
<1>13. ids \in Seq(Project)
  BY <1>12
<1>14. Injects(ids)
  BY <1>0, <1>11, <1>12 DEF Injects
<1>15. S \subseteq {ids[n] : n \in 1..Len(ids)}
  <2> SUFFICES ASSUME NEW p \in S PROVE \E n \in 1..N : ids[n] = p
    BY <1>12
  <2>1. rank[p] + 1 \in 1..N
    BY <1>0, <1>5, <1>7
  <2>2. ids[rank[p] + 1] \in S /\ rank[ids[rank[p] + 1]] = (rank[p] + 1) - 1
    BY <1>11, <2>1
  <2>3. rank[ids[rank[p] + 1]] = rank[p]
    BY <1>5, <2>2
  <2> QED BY <1>6, <2>1, <2>2, <2>3
<1>16. {ids[n] : n \in 1..Len(ids)} \subseteq S
  BY <1>11, <1>12
<1> QED BY <1>12, <1>13, <1>14, <1>15, <1>16 DEF ids, N

----------------------------------------------------------------------------
(* A chunk of the For you feed, and what a page takes of it. *)

LEMMA ComesIn ==
  ASSUME NEW k, NEW f, NEW at, NEW wrapped, NEW p \in Project
  PROVE  p \in ComeSet(k, f, at, wrapped) <=>
           /\ at # Shuffled!End
           /\ \/ f.sort = "shuffle" /\ Past(k, p, at)
              \/ f.sort # "shuffle" /\ wrapped /\ k[p] < f.start /\ Past(k, p, at)
              \/ f.sort # "shuffle" /\ ~wrapped /\ (k[p] < f.start \/ Past(k, p, at))
BY DEF ComeSet

LEMMA TopIsBefore ==
  ASSUME FeedTypes
  PROVE  /\ Shuffled!Top \in FeedPlace /\ Shuffled!Top # Shuffled!End
         /\ \A p \in Project : Past(key, p, Shuffled!Top)
<1>1. Shuffled!Top = <<-1, 0>> /\ Shuffled!Top[1] = -1
  BY DEF Shuffled!Top
<1>2. Shuffled!Top \in FeedPlace
  BY <1>1 DEF FeedPlace
<1>3. \A p \in Project : Past(key, p, Shuffled!Top)
  BY <1>1, FeedTyped DEF Past
<1> QED BY <1>2, <1>3, FeedNumbers

\* Where a walk that goes round the end is next, and whether it went round.
RoundNext(start, place, wrapped, next, went) ==
  \/ place = Shuffled!End /\ ~wrapped /\ next = Shuffled!Top /\ went = TRUE
  \/ place = Shuffled!End /\ wrapped /\ next = Shuffled!End /\ went = TRUE
  \/ place # Shuffled!End /\ wrapped /\ place[1] >= start /\ next = Shuffled!End /\ went = TRUE
  \/ place # Shuffled!End /\ ~(wrapped /\ place[1] >= start) /\ next = place /\ went = wrapped

\* The walk's cursors and its place in a round: where one piece of the walk
\* ends, what is left is what was to come and was not in the piece.
LEMMA RoundCut ==
  ASSUME FeedTypes, feed.sort \in {"foryou", "pick"}, NEW at \in FeedPlace, NEW wrapped \in BOOLEAN,
         RoundFrom(feed, at, wrapped), NEW limit \in Nat \ {0}, NEW w \in Shuffled!Walks(at, limit),
         NEW next, NEW went,
         RoundNext(feed.start, w.next, wrapped, next, went)
  PROVE  /\ next \in FeedCursor /\ went \in BOOLEAN /\ RoundFrom(feed, next, went)
         /\ ComeSet(key, feed, at, wrapped) \cap matching
              \subseteq w.hits \cup ComeSet(key, feed, next, went)
         /\ ComeSet(key, feed, next, went) \subseteq ComeSet(key, feed, at, wrapped)
         /\ w.hits \cap ComeSet(key, feed, next, went) = {}
         /\ \A p \in w.hits : (wrapped => key[p] < feed.start) => p \in ComeSet(key, feed, at, wrapped)
<1>0. /\ matching \subseteq Project /\ feed.start \in Nat /\ at # Shuffled!End /\ feed.sort # "shuffle"
      /\ at[1] \in Int
      /\ \A p \in Project : key[p] \in Nat /\ (Past(key, p, at) => key[p] >= at[1])
  BY FeedTyped, FeedNumbers, PastOn DEF FeedTypes
<1>1. /\ w.hits \subseteq Project /\ w.hits \subseteq matching
      /\ \A p \in w.hits : Past(key, p, at)
      /\ \/ /\ w.next = Shuffled!End
            /\ \A p \in matching : Past(key, p, at) => p \in w.hits
         \/ \E l \in Project :
              /\ w.next = <<key[l], l>> /\ Past(key, l, at)
              /\ \A p \in matching : Past(key, p, at) => (p \in w.hits <=> ~Past(key, p, <<key[l], l>>))
  BY WalkCut
<1>2. \A p \in Project : p \in ComeSet(key, feed, at, wrapped) <=>
        IF wrapped THEN key[p] < feed.start /\ Past(key, p, at) ELSE key[p] < feed.start \/ Past(key, p, at)
  BY <1>0, ComesIn
<1>3. ~wrapped => \A p \in Project : Past(key, p, at) => ~(key[p] < feed.start)
  BY <1>0 DEF RoundFrom
<1>4. \A p \in w.hits : (wrapped => key[p] < feed.start) => p \in ComeSet(key, feed, at, wrapped)
  BY <1>1, <1>2
<1>5. CASE w.next = Shuffled!End /\ ~wrapped
  <2>1. next = Shuffled!Top /\ went = TRUE
    BY <1>5 DEF RoundNext
  <2>2. next \in FeedPlace /\ next # Shuffled!End /\ \A p \in Project : Past(key, p, next)
    BY <2>1, TopIsBefore
  <2>3. \A p \in Project : p \in ComeSet(key, feed, next, went) <=> key[p] < feed.start
    BY <1>0, <2>1, <2>2, ComesIn
  <2>4. \A p \in matching : Past(key, p, at) => p \in w.hits
    BY <1>1, <1>5, PastOn, FeedNumbers
  <2>5. ComeSet(key, feed, at, wrapped) \cap matching \subseteq w.hits \cup ComeSet(key, feed, next, went)
    BY <1>0, <1>2, <1>5, <2>3, <2>4
  <2>6. ComeSet(key, feed, next, went) \subseteq ComeSet(key, feed, at, wrapped)
    <3>1. ComeSet(key, feed, next, went) \subseteq Project
      BY DEF ComeSet
    <3> QED BY <1>2, <1>5, <2>3, <3>1
  <2>7. w.hits \cap ComeSet(key, feed, next, went) = {}
    BY <1>1, <1>3, <1>5, <2>3
  <2>8. next \in FeedCursor /\ went \in BOOLEAN /\ RoundFrom(feed, next, went)
    BY <2>1, <2>2 DEF FeedCursor, RoundFrom
  <2> QED BY <1>4, <2>5, <2>6, <2>7, <2>8
<1>6. CASE w.next = Shuffled!End /\ wrapped
  <2>1. next = Shuffled!End /\ went = TRUE
    BY <1>6 DEF RoundNext
  <2>2. ComeSet(key, feed, next, went) = {}
    BY <2>1 DEF ComeSet
  <2>3. \A p \in matching : Past(key, p, at) => p \in w.hits
    BY <1>1, <1>6, PastOn, FeedNumbers
  <2>4. ComeSet(key, feed, at, wrapped) \cap matching \subseteq w.hits \cup ComeSet(key, feed, next, went)
    BY <1>0, <1>2, <1>6, <2>3
  <2>5. next \in FeedCursor /\ went \in BOOLEAN /\ RoundFrom(feed, next, went)
    BY <2>1 DEF FeedCursor, RoundFrom
  <2> QED BY <1>4, <2>2, <2>4, <2>5
<1>7. CASE w.next # Shuffled!End
  <2>1. PICK l \in Project :
              /\ w.next = <<key[l], l>> /\ Past(key, l, at)
              /\ \A p \in matching : Past(key, p, at) => (p \in w.hits <=> ~Past(key, p, <<key[l], l>>))
    BY <1>1, <1>7
  <2>2. /\ w.next \in FeedPlace /\ w.next[1] = key[l]
        /\ \A p \in Project : /\ Past(key, p, w.next) => Past(key, p, at)
                              /\ Past(key, p, w.next) => key[p] >= key[l]
                              /\ ~Past(key, p, w.next) => key[p] <= key[l]
    BY <2>1, PastOn
  <2>3. \A p \in matching : Past(key, p, at) => (p \in w.hits <=> ~Past(key, p, w.next))
    BY <2>1
  <2>4. CASE wrapped /\ w.next[1] >= feed.start
    <3>1. next = Shuffled!End /\ went = TRUE
      BY <1>7, <2>4 DEF RoundNext
    <3>2. ComeSet(key, feed, next, went) = {}
      BY <3>1 DEF ComeSet
    <3>3. \A p \in Project : key[p] < feed.start => ~Past(key, p, w.next)
      BY <1>0, <2>2, <2>4
    <3>4. ComeSet(key, feed, at, wrapped) \cap matching \subseteq w.hits \cup ComeSet(key, feed, next, went)
      BY <1>0, <1>2, <2>3, <2>4, <3>3
    <3>5. next \in FeedCursor /\ went \in BOOLEAN /\ RoundFrom(feed, next, went)
      BY <3>1 DEF FeedCursor, RoundFrom
    <3> QED BY <1>4, <3>2, <3>4, <3>5
  <2>5. CASE ~(wrapped /\ w.next[1] >= feed.start)
    <3>1. next = w.next /\ went = wrapped
      BY <1>7, <2>5 DEF RoundNext
    <3>2. \A p \in Project : p \in ComeSet(key, feed, next, went) <=>
            IF wrapped THEN key[p] < feed.start /\ Past(key, p, w.next)
            ELSE key[p] < feed.start \/ Past(key, p, w.next)
      BY <1>0, <1>7, <3>1, ComesIn
    <3>3. ComeSet(key, feed, at, wrapped) \cap matching \subseteq w.hits \cup ComeSet(key, feed, next, went)
      BY <1>0, <1>2, <2>3, <3>2
    <3>4. ComeSet(key, feed, next, went) \subseteq ComeSet(key, feed, at, wrapped)
      <4>1. ComeSet(key, feed, next, went) \subseteq Project
        BY DEF ComeSet
      <4> QED BY <1>2, <2>2, <3>2, <4>1
    <3>5. w.hits \cap ComeSet(key, feed, next, went) = {}
      BY <1>1, <1>3, <2>3, <3>2
    <3>6. RoundFrom(feed, next, went)
      <4> SUFFICES ASSUME ~wrapped PROVE w.next[1] >= feed.start
        BY <3>1 DEF RoundFrom
      <4>1. ~(key[l] < feed.start)
        BY <1>3, <2>1
      <4> QED BY <1>0, <2>2, <4>1
    <3>7. next \in FeedCursor /\ went \in BOOLEAN
      BY <2>2, <3>1 DEF FeedCursor
    <3> QED BY <1>4, <3>3, <3>4, <3>5, <3>6, <3>7
  <2> QED BY <2>4, <2>5
<1> QED BY <1>5, <1>6, <1>7

LEMMA ChunkCut ==
  ASSUME FeedTypes, feed.sort = "foryou", feed.at # Shuffled!End, RoundFrom(feed, feed.at, feed.wrapped),
         NEW c \in Shuffled!Chunks
  PROVE  /\ c \in FeedChunk /\ c.drawn /\ Injects(c.ids) /\ RoundFrom(feed, c.next, c.wrapped)
         /\ Unserved(c, 0) \subseteq ComeSet(key, feed, feed.at, feed.wrapped)
         /\ ComeSet(key, feed, c.next, c.wrapped) \subseteq ComeSet(key, feed, feed.at, feed.wrapped)
         /\ Unserved(c, 0) \cap ComeSet(key, feed, c.next, c.wrapped) = {}
         /\ ComeSet(key, feed, feed.at, feed.wrapped) \cap matching
              \subseteq Unserved(c, 0) \cup ComeSet(key, feed, c.next, c.wrapped)
<1> DEFINE Kept(w) == IF feed.wrapped THEN {p \in w.hits : ~Shuffled!Stops(key[p])} ELSE w.hits
           Over(w) == w.next = Shuffled!End \/ (feed.wrapped /\ (Kept(w) # w.hits \/ Shuffled!Stops(w.next[1])))
           Goes(w) == IF ~Over(w) THEN w.next ELSE IF feed.wrapped THEN Shuffled!End ELSE Shuffled!Top
<1>1. PICK w \in Shuffled!Walks(feed.at, Pool), draw \in Draws :
        c = [drawn |-> TRUE, ids |-> Shuffled!InOrder(Kept(w), draw), next |-> Goes(w),
             wrapped |-> feed.wrapped \/ Over(w)]
  BY DEF Shuffled!Chunks
<1> DEFINE hits == Kept(w)
           over == Over(w)
           next == Goes(w)
           went == feed.wrapped \/ over
<1>2. c = [drawn |-> TRUE, ids |-> Shuffled!InOrder(hits, draw), next |-> next, wrapped |-> went]
  BY <1>1
<1>3. /\ feed.at \in FeedPlace /\ feed.wrapped \in BOOLEAN /\ feed.start \in Nat /\ Pool \in Nat \ {0}
      /\ matching \subseteq Project /\ \A p \in Project : key[p] \in Nat
  BY FeedTyped, ShuffledAssumption DEF FeedCursor, FeedTypes
<1>4. /\ w.hits \subseteq Project
      /\ \A p \in w.hits : p \in matching /\ Past(key, p, feed.at)
      /\ w.next # Shuffled!End => \E l \in Project :
              /\ w.next = <<key[l], l>>
              /\ \A p \in w.hits : ~Past(key, p, <<key[l], l>>)
  BY <1>3, WalkCut
<1>5. /\ hits \subseteq w.hits /\ hits = {p \in w.hits : feed.wrapped => key[p] < feed.start}
      /\ ~feed.wrapped => hits = w.hits
  BY <1>3, <1>4 DEF Shuffled!Stops
<1>6. over <=> w.next = Shuffled!End \/ (feed.wrapped /\ (hits # w.hits \/ w.next[1] >= feed.start))
  BY DEF Shuffled!Stops
<1>7. /\ ~over => next = w.next
      /\ over /\ feed.wrapped => next = Shuffled!End
      /\ over /\ ~feed.wrapped => next = Shuffled!Top
  OBVIOUS
<1>8. went = (feed.wrapped \/ over)
  OBVIOUS
<1>9. over \in BOOLEAN
  BY <1>3
<1> HIDE DEF Kept, Over, Goes, hits, over, next, went
<1>10. feed.wrapped /\ hits # w.hits /\ w.next # Shuffled!End => w.next[1] >= feed.start
  <2> SUFFICES ASSUME feed.wrapped, hits # w.hits, w.next # Shuffled!End PROVE w.next[1] >= feed.start
    OBVIOUS
  <2>1. PICK l \in Project : w.next = <<key[l], l>> /\ \A p \in w.hits : ~Past(key, p, <<key[l], l>>)
    BY <1>4
  <2>2. PICK q \in w.hits : ~(key[q] < feed.start)
    BY <1>5
  <2>3. q \in Project /\ key[q] <= key[l]
    BY <1>3, <1>4, <2>1, <2>2, PastOn
  <2>4. w.next[1] = key[l] /\ key[l] \in Nat /\ key[q] \in Nat
    BY <1>3, <2>1, <2>3
  <2> QED BY <1>3, <2>2, <2>3, <2>4
<1>11. RoundNext(feed.start, w.next, feed.wrapped, next, went)
  <2>1. CASE w.next = Shuffled!End
    <3>1. over /\ went = TRUE
      BY <1>6, <1>8, <2>1
    <3> QED BY <1>3, <1>7, <2>1, <3>1 DEF RoundNext
  <2>2. CASE w.next # Shuffled!End /\ over
    <3>1. feed.wrapped /\ w.next[1] >= feed.start
      BY <1>6, <1>10, <2>2
    <3> QED BY <1>7, <1>8, <2>2, <3>1 DEF RoundNext
  <2>3. CASE w.next # Shuffled!End /\ ~over
    <3>1. ~(feed.wrapped /\ w.next[1] >= feed.start)
      BY <1>6, <2>3
    <3> QED BY <1>3, <1>7, <1>8, <1>9, <2>3, <3>1 DEF RoundNext
  <2> QED BY <1>9, <2>1, <2>2, <2>3
<1>12. /\ next \in FeedCursor /\ went \in BOOLEAN /\ RoundFrom(feed, next, went)
       /\ ComeSet(key, feed, feed.at, feed.wrapped) \cap matching
            \subseteq w.hits \cup ComeSet(key, feed, next, went)
       /\ ComeSet(key, feed, next, went) \subseteq ComeSet(key, feed, feed.at, feed.wrapped)
       /\ w.hits \cap ComeSet(key, feed, next, went) = {}
       /\ \A p \in w.hits : (feed.wrapped => key[p] < feed.start) =>
            p \in ComeSet(key, feed, feed.at, feed.wrapped)
  <2>1. feed.sort \in {"foryou", "pick"}
    OBVIOUS
  <2> QED BY <1>3, <1>11, <2>1, RoundCut
<1>13. ComeSet(key, feed, feed.at, feed.wrapped) \cap w.hits \subseteq hits
  <2> SUFFICES ASSUME NEW p \in w.hits, p \in ComeSet(key, feed, feed.at, feed.wrapped), feed.wrapped
               PROVE  key[p] < feed.start
    BY <1>5
  <2> QED BY <1>4, ComesIn
<1>14. /\ Shuffled!InOrder(hits, draw) \in Seq(Project) /\ Injects(Shuffled!InOrder(hits, draw))
       /\ {Shuffled!InOrder(hits, draw)[n] : n \in 1..Len(Shuffled!InOrder(hits, draw))} = hits
  <2>1. hits \subseteq Project
    BY <1>4, <1>5
  <2> QED BY <2>1, InOrderSorts
<1>15. /\ c \in FeedChunk /\ c.drawn /\ Injects(c.ids) /\ c.next = next /\ c.wrapped = went
  BY <1>2, <1>12, <1>14 DEF FeedChunk
<1>16. Unserved(c, 0) = hits
  <2>1. c.ids = Shuffled!InOrder(hits, draw)
    BY <1>2
  <2>2. {m \in 1..Len(c.ids) : m > 0} = 1..Len(c.ids)
    BY <1>14, <2>1
  <2> QED BY <1>14, <2>1, <2>2 DEF Unserved
<1> QED BY <1>5, <1>12, <1>13, <1>15, <1>16

\* As many ids are taken as places they were taken from.
LEMMA SliceCount ==
  ASSUME NEW ids \in Seq(Project), Injects(ids), NEW a \in Nat, NEW b \in Nat, a <= b, b <= Len(ids)
  PROVE  Cardinality({ids[n] : n \in a + 1..b}) = b - a
<1> DEFINE I == a + 1..b
           T == {ids[n] : n \in I}
           f == [n \in I |-> ids[n]]
           g == [p \in T |-> CHOOSE n \in I : ids[n] = p]
<1>1. IsFiniteSet(I) /\ Cardinality(I) = b - a
  <2>1. Cardinality(I) = IF a + 1 > b THEN 0 ELSE b - (a + 1) + 1
    BY FS_Interval
  <2>2. IsFiniteSet(I)
    BY FS_Interval
  <2> HIDE DEF I
  <2>3. CASE a + 1 > b
    BY <2>1, <2>2, <2>3
  <2>4. CASE ~(a + 1 > b)
    BY <2>1, <2>2, <2>4
  <2> QED BY <2>3, <2>4
<1>2. I \subseteq 1..Len(ids) /\ Len(ids) \in Nat
  OBVIOUS
<1>3. T \in SUBSET Project
  BY <1>2
<1>4. IsFiniteSet(T) /\ Cardinality(T) \in Nat
  BY <1>3, FS_Subset, FS_CardinalityType, ShuffledAssumption
<1>5. f \in [I -> T] /\ \A m, n \in I : f[m] = f[n] => m = n
  BY <1>2 DEF Injects
<1>6. \A p \in T : g[p] \in I /\ ids[g[p]] = p
  <2> SUFFICES ASSUME NEW p \in T PROVE g[p] \in I /\ ids[g[p]] = p
    OBVIOUS
  <2>1. \E n \in I : ids[n] = p
    OBVIOUS
  <2> QED BY <2>1
<1>7. g \in [T -> I] /\ \A p, q \in T : g[p] = g[q] => p = q
  <2>1. g \in [T -> I]
    BY <1>6
  <2> HIDE DEF g
  <2> QED BY <1>6, <2>1
<1> HIDE DEF I, T, f, g
<1>8. ~(Cardinality(T) < Cardinality(I))
  BY <1>1, <1>4, <1>5, FS_PigeonHole
<1>9. ~(Cardinality(I) < Cardinality(T))
  BY <1>1, <1>4, <1>7, FS_PigeonHole
<1>10. Cardinality(T) = b - a
  BY <1>1, <1>4, <1>8, <1>9
<1> QED BY <1>10 DEF I, T

TakenFrom(c, offset, limit) == {c.ids[n] : n \in DOMAIN c.ids \cap (offset + 1..offset + limit)}

\* A page takes the next of a chunk, and all of it when it comes to its end.
TakesPage(c, offset, limit) ==
  LET taken == TakenFrom(c, offset, limit) IN
  /\ taken \subseteq Unserved(c, offset) /\ Unserved(c, offset) \subseteq Project
  /\ Cardinality(taken) \in Nat
  /\ offset + Cardinality(taken) < Len(c.ids) =>
       /\ offset + Cardinality(taken) > 0
       /\ Unserved(c, offset + Cardinality(taken)) \subseteq Unserved(c, offset) \ taken
       /\ Unserved(c, offset) \subseteq taken \cup Unserved(c, offset + Cardinality(taken))
  /\ ~(offset + Cardinality(taken) < Len(c.ids)) => Unserved(c, offset) = taken

LEMMA PageTakes ==
  ASSUME NEW c \in FeedChunk, Injects(c.ids), NEW offset \in Nat, NEW limit \in Nat \ {0}
  PROVE  TakesPage(c, offset, limit)
<1> DEFINE taken == TakenFrom(c, offset, limit)
<1> DEFINE ids == c.ids
           size == Len(ids)
<1>1. ids \in Seq(Project) /\ DOMAIN ids = 1..size /\ size \in Nat /\ \A n \in 1..size : ids[n] \in Project
  <2>1. ids \in Seq(Project)
    BY DEF FeedChunk
  <2> HIDE DEF ids
  <2> QED BY <2>1
<1>2. \A m, n \in 1..size : ids[m] = ids[n] => m = n
  BY DEF Injects
<1>3. taken = {ids[n] : n \in 1..size \cap (offset + 1..offset + limit)}
  BY <1>1 DEF TakenFrom
<1>4. \A k : Unserved(c, k) = {ids[n] : n \in {m \in 1..size : m > k}}
  BY DEF Unserved
<1>5. Injects(ids)
  OBVIOUS
<1> HIDE DEF ids, size, taken
<1>6. Unserved(c, offset) \in SUBSET Project
  BY <1>1, <1>4
<1>7. taken \subseteq Unserved(c, offset)
  BY <1>3, <1>4
<1>8. Cardinality(taken) \in Nat
  <2>1. taken \in SUBSET Project
    BY <1>6, <1>7
  <2> QED BY <2>1, FS_Subset, FS_CardinalityType, ShuffledAssumption
<1>9. CASE offset + limit <= size
  <2>1. 1..size \cap (offset + 1..offset + limit) = offset + 1..offset + limit
    BY <1>1, <1>9
  <2>2. Cardinality(taken) = limit
    <3>1. Cardinality({ids[n] : n \in offset + 1..offset + limit}) = (offset + limit) - offset
      <4>1. offset + limit \in Nat /\ offset <= offset + limit /\ offset + limit <= Len(ids)
        BY <1>9 DEF size
      <4> QED BY <1>1, <1>5, <4>1, SliceCount
    <3>2. taken = {ids[n] : n \in offset + 1..offset + limit}
      BY <1>3, <2>1
    <3>3. Cardinality(taken) = (offset + limit) - offset
      BY <3>1, <3>2
    <3> QED BY <3>3
  <2>3. Unserved(c, offset + limit) \subseteq Unserved(c, offset) \ taken
    <3> SUFFICES ASSUME NEW n \in 1..size, n > offset + limit
                 PROVE  ids[n] \in Unserved(c, offset) /\ ids[n] \notin taken
      BY <1>4
    <3>1. ids[n] \in Unserved(c, offset)
      BY <1>1, <1>4
    <3>2. \A m \in 1..size \cap (offset + 1..offset + limit) : ids[m] # ids[n]
      BY <1>1, <1>2
    <3> QED BY <1>3, <3>1, <3>2
  <2>4. Unserved(c, offset) \subseteq taken \cup Unserved(c, offset + limit)
    <3> SUFFICES ASSUME NEW n \in 1..size, n > offset
                 PROVE  ids[n] \in taken \/ ids[n] \in Unserved(c, offset + limit)
      BY <1>4
    <3>1. CASE n <= offset + limit
      <4>1. n \in 1..size \cap (offset + 1..offset + limit)
        BY <1>1, <3>1
      <4> QED BY <1>3, <4>1
    <3>2. CASE n > offset + limit
      BY <1>1, <1>4, <3>2
    <3> QED BY <1>1, <3>1, <3>2
  <2>5. ~(offset + limit < size) => Unserved(c, offset) = taken
    <3> SUFFICES ASSUME ~(offset + limit < size) PROVE Unserved(c, offset + limit) = {}
      BY <1>7, <2>4
    <3>1. {m \in 1..size : m > offset + limit} = {}
      BY <1>1
    <3> QED BY <1>4, <3>1
  <2>6. /\ Cardinality(taken) = limit /\ Len(c.ids) = size /\ offset + limit > 0
    BY <2>2 DEF ids, size
  <2> QED BY <1>6, <1>7, <1>8, <2>3, <2>4, <2>5, <2>6 DEF TakesPage, taken
<1>10. CASE ~(offset + limit <= size)
  <2>1. Unserved(c, offset) \subseteq taken
    <3> SUFFICES ASSUME NEW n \in 1..size, n > offset PROVE ids[n] \in taken
      BY <1>4
    <3>1. n \in 1..size \cap (offset + 1..offset + limit)
      BY <1>1, <1>10
    <3> QED BY <1>3, <3>1
  <2>2. ~(offset + Cardinality(taken) < size)
    <3>1. CASE size <= offset
      BY <1>1, <1>8, <3>1
    <3>2. CASE offset < size
      <4>1. 1..size \cap (offset + 1..offset + limit) = offset + 1..size
        BY <1>1, <1>10, <3>2
      <4>2. Cardinality({ids[n] : n \in offset + 1..size}) = size - offset
        <5>1. size \in Nat /\ offset <= size /\ size <= Len(ids)
          BY <1>1, <3>2 DEF size
        <5> QED BY <1>1, <1>5, <5>1, SliceCount
      <4>3. Cardinality(taken) = size - offset
        BY <1>3, <4>1, <4>2
      <4> QED BY <1>1, <4>3
    <3> QED BY <1>1, <3>1, <3>2
  <2>3. Len(c.ids) = size
    BY DEF ids, size
  <2> QED BY <1>6, <1>7, <1>8, <2>1, <2>2, <2>3 DEF TakesPage, taken
<1> QED BY <1>1, <1>9, <1>10

\* What was to come is shown or is still to come.
LEMMA PageShows ==
  ASSUME NEW still0, NEW match, NEW once, NEW twice, NEW coming, NEW later, NEW page,
         still0 \cap match \subseteq once \cup coming, still0 \cap once \cap coming = {},
         still0 \cap twice = {}, page \subseteq coming, later \subseteq coming,
         still0 \cap page \cap later = {}, coming \cap match \subseteq page \cup later
  PROVE  /\ still0 \cap match \subseteq (once \cup page) \cup later
         /\ still0 \cap (once \cup page) \cap later = {}
         /\ still0 \cap (twice \cup (page \cap once)) = {}
OBVIOUS

----------------------------------------------------------------------------
LEMMA NoWalk ==
  /\ Shuffled!NoChunk \in FeedChunk /\ ~Shuffled!NoChunk.drawn /\ Injects(Shuffled!NoChunk.ids)
  /\ Shuffled!NoFeed \in FeedReader
  /\ Shuffled!NoFeed = [sort |-> "none", at |-> Shuffled!Top, start |-> 0, wrapped |-> FALSE, offset |-> 0, want |-> 0]
<1>1. Shuffled!NoChunk = [drawn |-> FALSE, ids |-> <<>>, next |-> Shuffled!End, wrapped |-> FALSE]
  BY DEF Shuffled!NoChunk
<1>2. Shuffled!NoFeed = [sort |-> "none", at |-> Shuffled!Top, start |-> 0, wrapped |-> FALSE, offset |-> 0, want |-> 0]
  BY DEF Shuffled!NoFeed
<1>3. Shuffled!Top \in FeedCursor
  BY DEF Shuffled!Top, FeedCursor, FeedPlace
<1>4. Shuffled!NoFeed \in FeedReader
  BY <1>2, <1>3 DEF FeedReader
<1>5. <<>> \in Seq(Project) /\ Len(<<>>) = 0
  OBVIOUS
<1>6. Injects(<<>>)
  BY <1>5 DEF Injects
<1>7. Shuffled!End \in FeedCursor
  BY DEF FeedCursor
<1>8. /\ Shuffled!NoChunk \in FeedChunk /\ ~Shuffled!NoChunk.drawn /\ Injects(Shuffled!NoChunk.ids)
  BY <1>1, <1>5, <1>6, <1>7 DEF FeedChunk
<1> QED BY <1>2, <1>4, <1>8

\* The walk's cursors are read by its sort and its start alone.
LEMMA SameWalk ==
  ASSUME NEW f, NEW g, f.sort = g.sort, f.start = g.start
  PROVE  /\ \A k, at, wrapped : ComeSet(k, f, at, wrapped) = ComeSet(k, g, at, wrapped)
         /\ \A at, wrapped : RoundFrom(f, at, wrapped) <=> RoundFrom(g, at, wrapped)
BY DEF ComeSet, RoundFrom

\* With nothing that stands still there is nothing to promise.
LEMMA NothingSteady ==
  ASSUME FeedTypes', FeedShape', steady' = {}
  PROVE  ShuffledInv'
BY DEF ShuffledInv, Unmissed, Unrepeated

LEMMA PageKeeps ==
  ASSUME ShuffledInv, feed.sort # "pick", NEW page, page \subseteq Project, Shuffled!Shows(page),
         key' = key, matching' = matching, steady' = steady,
         feed' \in FeedReader, feed'.sort = feed.sort, kept' \in FeedChunk, Injects(kept'.ids), FeedShape',
         NEW coming, steady \cap matching \subseteq shown.once \cup coming,
         steady \cap shown.once \cap coming = {},
         page \subseteq coming, ComingOf(key, feed', kept') \subseteq coming,
         steady \cap page \cap ComingOf(key, feed', kept') = {},
         coming \cap matching \subseteq page \cup ComingOf(key, feed', kept'),
         steady \cap LeftOf(feed', kept') \cap AfterOf(key, feed', kept') = {}
  PROVE  ShuffledInv'
<1> DEFINE later == ComingOf(key, feed', kept')
<1>1. shown'.once = shown.once \cup page /\ shown'.twice = shown.twice \cup (page \cap shown.once)
  BY DEF Shuffled!Shows
<1>2. /\ shown.once \subseteq Project /\ shown.twice \subseteq shown.once /\ steady \subseteq Project
      /\ key \in [Project -> Key] /\ matching \subseteq Project /\ steady \cap shown.twice = {}
  BY DEF ShuffledInv, FeedTypes
<1>3. FeedTypes'
  <2>1. shown'.once \subseteq Project /\ shown'.twice \subseteq shown'.once
    BY <1>1, <1>2
  <2>2. key' \in [Project -> Key] /\ matching' \subseteq Project /\ steady' \subseteq Project
    BY <1>2
  <2> QED BY <2>1, <2>2 DEF FeedTypes
<1>4. /\ steady \cap matching \subseteq (shown.once \cup page) \cup later
      /\ steady \cap (shown.once \cup page) \cap later = {}
      /\ steady \cap (shown.twice \cup (page \cap shown.once)) = {}
  <2> HIDE DEF later
  <2> QED BY <1>2, PageShows DEF later
<1>5. Unmissed' /\ Unrepeated' /\ steady' \cap shown'.twice = {}
  BY <1>1, <1>4 DEF Unmissed, Unrepeated
<1> QED BY <1>3, <1>5 DEF ShuffledInv

LEMMA BeginKeeps ==
  ASSUME ShuffledInv, NEW sort \in {"shuffle", "foryou", "pick"}, NEW start \in Key, NEW want \in Nat,
         sort = "pick" => want > 0, Shuffled!BeginWalk(sort, start, want)
  PROVE  ShuffledInv'
<1> DEFINE at == IF sort = "shuffle" THEN Shuffled!Top ELSE <<start, 0>>
<1>1. /\ feed' = [Shuffled!NoFeed EXCEPT !.sort = sort, !.start = start, !.want = want, !.at = at]
      /\ shown' = [once |-> {}, twice |-> {}] /\ kept' = Shuffled!NoChunk /\ steady' = Project
      /\ key' = key /\ matching' = matching
  BY DEF Shuffled!BeginWalk
<1>2. /\ start \in Nat /\ FeedTypes /\ key \in [Project -> Key] /\ matching \subseteq Project
      /\ \A p \in Project : key[p] \in Nat /\ p \in Nat /\ p > 0
  BY FeedTyped, FeedNumbers DEF ShuffledInv, FeedTypes
<1>3. /\ at \in FeedPlace /\ at # Shuffled!End /\ (sort # "shuffle" => at[1] = start)
      /\ \A p \in Project : IF sort = "shuffle" THEN Past(key, p, at) ELSE key[p] < start \/ Past(key, p, at)
  <2>1. CASE sort = "shuffle"
    BY <2>1, <1>2, TopIsBefore
  <2>2. CASE sort # "shuffle"
    <3>1. at = <<start, 0>> /\ at[1] = start /\ at[2] = 0
      BY <2>2
    <3>2. at \in FeedPlace
      BY <3>1 DEF FeedPlace
    <3>3. at # Shuffled!End
      BY <3>2, FeedNumbers
    <3>4. \A p \in Project : key[p] < start \/ Past(key, p, at)
      BY <1>2, <3>1 DEF Past
    <3> QED BY <2>2, <3>1, <3>2, <3>3, <3>4
  <2> QED BY <2>1, <2>2
<1> HIDE DEF at
<1>4. feed' = [sort |-> sort, at |-> at, start |-> start, wrapped |-> FALSE, offset |-> 0, want |-> want]
  BY <1>1, NoWalk
<1>5. /\ feed' \in FeedReader /\ feed'.sort = sort /\ feed'.at = at /\ feed'.start = start /\ ~feed'.wrapped
      /\ feed'.offset = 0 /\ feed'.want = want
  BY <1>2, <1>3, <1>4 DEF FeedReader, FeedCursor
<1>6. shown'.once = {} /\ shown'.twice = {} /\ kept' \in FeedChunk /\ ~kept'.drawn /\ Injects(kept'.ids)
  BY <1>1, NoWalk
<1>7. FeedTypes'
  BY <1>1, <1>2, <1>5, <1>6 DEF FeedTypes
<1>8. FeedShape'
  <2>1. RoundFrom(feed', feed'.at, feed'.wrapped)
    BY <1>2, <1>3, <1>5 DEF RoundFrom
  <2> QED BY <1>5, <1>6, <2>1 DEF FeedShape
<1>9. ComingOf(key', feed', kept') = Project /\ LeftOf(feed', kept') = {}
  <2>1. LeftOf(feed', kept') = {} /\ AfterOf(key', feed', kept') = ComeSet(key, feed', at, feed'.wrapped)
    BY <1>1, <1>5, <1>6 DEF LeftOf, AfterOf
  <2>2. \A p \in Project : p \in ComeSet(key, feed', at, feed'.wrapped)
    BY <1>3, <1>5, ComesIn
  <2>3. ComeSet(key, feed', at, feed'.wrapped) \subseteq Project
    BY DEF ComeSet
  <2> QED BY <2>1, <2>2, <2>3 DEF ComingOf
<1>10. Unmissed' /\ Unrepeated' /\ steady' \cap shown'.twice = {}
  BY <1>1, <1>6, <1>9 DEF Unmissed, Unrepeated
<1> QED BY <1>7, <1>8, <1>10 DEF ShuffledInv

LEMMA ShufflePageKeeps ==
  ASSUME ShuffledInv, NEW limit \in Nat \ {0}, Shuffled!ShufflePage(limit)
  PROVE  ShuffledInv'
<1>1. /\ feed.sort = "shuffle" /\ feed.at # Shuffled!End
      /\ key' = key /\ matching' = matching /\ kept' = kept /\ steady' = steady
  BY DEF Shuffled!ShufflePage
<1>2. PICK w \in Shuffled!Walks(feed.at, limit) : Shuffled!Shows(w.hits) /\ Shuffled!Moves(w.next, FALSE)
  BY DEF Shuffled!ShufflePage
<1>3. /\ FeedTypes /\ feed \in FeedReader /\ kept \in FeedChunk /\ Injects(kept.ids) /\ feed.at \in FeedPlace
      /\ matching \subseteq Project /\ ~kept.drawn /\ feed.offset = 0 /\ FeedShape
  BY <1>1, FeedTyped DEF ShuffledInv, FeedTypes, FeedShape, FeedCursor
<1>4. /\ w.hits \subseteq Project /\ w.hits \subseteq matching
      /\ \A p \in w.hits : Past(key, p, feed.at)
      /\ \/ /\ w.next = Shuffled!End
            /\ \A p \in matching : Past(key, p, feed.at) => p \in w.hits
         \/ \E l \in Project :
              /\ w.next = <<key[l], l>> /\ Past(key, l, feed.at)
              /\ \A p \in matching : Past(key, p, feed.at) => (p \in w.hits <=> ~Past(key, p, <<key[l], l>>))
  BY <1>3, WalkCut
<1>5. w.next \in FeedCursor
  <2>1. \A l \in Project : <<key[l], l>> \in FeedPlace
    BY <1>3, PastOn
  <2> QED BY <1>4, <2>1 DEF FeedCursor
<1>6. feed' = [feed EXCEPT !.at = w.next, !.wrapped = FALSE, !.offset = 0]
  BY <1>2 DEF Shuffled!Moves
<1>7. /\ feed' \in FeedReader /\ feed'.sort = "shuffle" /\ feed'.start = feed.start /\ feed'.at = w.next
      /\ feed'.offset = 0
  BY <1>1, <1>3, <1>5, <1>6 DEF FeedReader
<1>8. FeedShape'
  BY <1>1, <1>3, <1>7 DEF FeedShape, RoundFrom
<1> DEFINE coming == ComeSet(key, feed, feed.at, feed.wrapped)
           later == ComeSet(key, feed', feed'.at, feed'.wrapped)
<1>9. /\ ComingOf(key, feed, kept) = coming /\ ComingOf(key, feed', kept') = later
      /\ LeftOf(feed', kept') = {}
  BY <1>1, <1>3 DEF ComingOf, LeftOf, AfterOf
<1>10. \A p \in Project : /\ p \in coming <=> Past(key, p, feed.at)
                          /\ p \in later <=> w.next # Shuffled!End /\ Past(key, p, w.next)
  BY <1>1, <1>7, ComesIn
<1>11. coming \subseteq Project /\ later \subseteq Project
  BY DEF ComeSet
<1> HIDE DEF coming, later
<1>12. /\ later \subseteq coming /\ w.hits \cap later = {} /\ coming \cap matching \subseteq w.hits \cup later
  <2>1. CASE w.next = Shuffled!End
    <3>1. \A p \in matching : Past(key, p, feed.at) => p \in w.hits
      BY <1>3, <1>4, <2>1, PastOn, FeedNumbers
    <3> QED BY <1>3, <1>10, <1>11, <2>1, <3>1
  <2>2. CASE w.next # Shuffled!End
    <3>1. PICK l \in Project :
              /\ w.next = <<key[l], l>> /\ Past(key, l, feed.at)
              /\ \A p \in matching : Past(key, p, feed.at) => (p \in w.hits <=> ~Past(key, p, <<key[l], l>>))
      BY <1>4, <2>2
    <3>2. \A p \in Project : Past(key, p, w.next) => Past(key, p, feed.at)
      BY <1>3, <3>1, PastOn
    <3>3. \A p \in matching : Past(key, p, feed.at) => (p \in w.hits <=> ~Past(key, p, w.next))
      BY <3>1
    <3> QED BY <1>3, <1>4, <1>10, <1>11, <2>2, <3>2, <3>3
  <2> QED BY <2>1, <2>2
<1>13. w.hits \subseteq coming
  BY <1>4, <1>10
<1>14. steady \cap matching \subseteq shown.once \cup coming /\ steady \cap shown.once \cap coming = {}
  BY <1>1, <1>3, <1>9 DEF ShuffledInv, Unmissed, Unrepeated, Followed
<1> QED BY <1>1, <1>2, <1>3, <1>4, <1>7, <1>8, <1>9, <1>12, <1>13, <1>14, PageKeeps

\* Pick skips what it has shown, so it shows nothing again; while it has not
\* enough it shows all that is new.
LEMMA PickPageKeeps ==
  ASSUME ShuffledInv, NEW limit \in Nat \ {0}, Shuffled!PickPage(limit)
  PROVE  ShuffledInv'
<1>1. /\ feed.sort = "pick" /\ feed.at # Shuffled!End
      /\ key' = key /\ matching' = matching /\ kept' = kept /\ steady' = steady
  BY DEF Shuffled!PickPage
<1> DEFINE Taken(w) == Shuffled!First(w.hits \ shown.once, feed.want)
           Goes(w) == IF w.next = Shuffled!End /\ ~feed.wrapped THEN Shuffled!Top
                      ELSE IF feed.wrapped /\ w.next[1] >= feed.start THEN Shuffled!End ELSE w.next
<1>2. PICK w \in Shuffled!Walks(feed.at, limit) :
        /\ Shuffled!Shows(Taken(w))
        /\ feed' = [feed EXCEPT !.want = @ - Cardinality(Taken(w)),
                                !.at = IF Cardinality(Taken(w)) = feed.want THEN Shuffled!End ELSE Goes(w),
                                !.wrapped = @ \/ w.next = Shuffled!End]
  BY ShuffledCardinality DEF Shuffled!PickPage
<1> DEFINE fresh == w.hits \ shown.once
           taken == Taken(w)
           count == Cardinality(taken)
           next == Goes(w)
           at == IF count = feed.want THEN Shuffled!End ELSE next
           went == feed.wrapped \/ w.next = Shuffled!End
<1>3. /\ FeedTypes /\ feed \in FeedReader /\ kept \in FeedChunk /\ Injects(kept.ids) /\ feed.at \in FeedPlace
      /\ matching \subseteq Project /\ ~kept.drawn /\ feed.offset = 0 /\ FeedShape
      /\ feed.want \in Nat /\ feed.want > 0 /\ feed.wrapped \in BOOLEAN /\ feed.start \in Nat
      /\ RoundFrom(feed, feed.at, feed.wrapped)
      /\ shown.once \subseteq Project /\ shown.twice \subseteq shown.once /\ steady \subseteq Project
  BY <1>1, FeedTyped DEF ShuffledInv, FeedTypes, FeedShape, FeedCursor
<1>4. Shuffled!End[1] = -2
  BY DEF Shuffled!End
<1>5. RoundNext(feed.start, w.next, feed.wrapped, next, went)
  <2>1. CASE w.next = Shuffled!End
    BY <1>3, <1>4, <2>1 DEF RoundNext
  <2>2. CASE w.next # Shuffled!End
    BY <1>3, <2>2 DEF RoundNext
  <2> QED BY <2>1, <2>2
<1>6. w.hits \subseteq Project /\ IsFiniteSet(w.hits)
  BY <1>3, WalkCut
<1>7. fresh \subseteq Project /\ IsFiniteSet(fresh) /\ taken = FirstIn(WalkOrder, fresh, feed.want)
  <2>1. fresh \in SUBSET w.hits
    OBVIOUS
  <2>2. fresh \subseteq Project /\ IsFiniteSet(fresh)
    BY <1>6, <2>1, FS_Subset
  <2> QED BY <1>3, <2>2, WalkFirst
<1>8. shown'.once = shown.once \cup taken /\ shown'.twice = shown.twice \cup (taken \cap shown.once)
  BY <1>2 DEF Shuffled!Shows
<1>9. feed' = [feed EXCEPT !.want = feed.want - count, !.at = at, !.wrapped = went]
  BY <1>2
<1> HIDE DEF Taken, Goes, taken, next, went
<1>10. /\ taken \subseteq fresh /\ count \in Nat /\ count <= feed.want
       /\ count # feed.want => taken = fresh
  <2>1. StrictOrder(WalkOrder, Project)
    BY <1>3, WalkOrders
  <2>2. taken \subseteq fresh /\ count \in Nat /\ count <= feed.want
    BY <1>3, <1>7, <2>1, FirstIsFinite, FirstAtMost
  <2>3. count # feed.want => count < feed.want
    BY <1>3, <2>2
  <2>4. count < feed.want => taken = fresh
    BY <1>3, <1>7, <2>1, FirstShort
  <2> QED BY <2>2, <2>3, <2>4
<1>11. /\ next \in FeedCursor /\ went \in BOOLEAN /\ RoundFrom(feed, next, went)
       /\ ComeSet(key, feed, feed.at, feed.wrapped) \cap matching
            \subseteq w.hits \cup ComeSet(key, feed, next, went)
  <2>1. feed.sort \in {"foryou", "pick"}
    BY <1>1
  <2> QED BY <1>3, <1>5, <2>1, RoundCut
<1>12. at \in FeedCursor /\ feed.want - count \in Nat
  BY <1>3, <1>10, <1>11 DEF FeedCursor
<1>13. /\ feed' \in FeedReader /\ feed'.sort = "pick" /\ feed'.start = feed.start /\ feed'.at = at
       /\ feed'.offset = 0 /\ feed'.want = feed.want - count /\ feed'.wrapped = went
  <2> HIDE DEF at, count
  <2> QED BY <1>1, <1>3, <1>9, <1>11, <1>12 DEF FeedReader
<1>14. FeedTypes'
  BY <1>1, <1>3, <1>7, <1>8, <1>10, <1>13 DEF FeedTypes
<1>15. FeedShape'
  <2>1. RoundFrom(feed', feed'.at, feed'.wrapped)
    <3>1. CASE at = Shuffled!End
      BY <1>13, <3>1 DEF RoundFrom
    <3>2. CASE at # Shuffled!End
      <4>1. at = next
        BY <3>2
      <4> QED BY <1>1, <1>11, <1>13, <4>1, SameWalk
    <3> QED BY <3>1, <3>2
  <2>2. at # Shuffled!End => feed.want - count > 0
    BY <1>3, <1>10
  <2> QED BY <1>1, <1>3, <1>13, <2>1, <2>2 DEF FeedShape
<1>16. steady' \cap shown'.twice = {}
  BY <1>1, <1>8, <1>10 DEF ShuffledInv
<1>17. Unrepeated'
  BY <1>13 DEF Unrepeated
<1>18. Unmissed'
  <2> SUFFICES ASSUME feed'.want > 0
               PROVE  steady \cap matching \subseteq (shown.once \cup taken) \cup ComingOf(key, feed', kept')
    BY <1>1, <1>8, <1>13 DEF Unmissed
  <2>1. count # feed.want
    BY <1>3, <1>13
  <2>2. taken = fresh /\ feed'.at = next
    BY <1>10, <1>13, <2>1
  <2>3. ComingOf(key, feed', kept') = ComeSet(key, feed, next, went)
    <3>1. ComingOf(key, feed', kept') = ComeSet(key, feed', next, went)
      BY <1>1, <1>3, <1>13, <2>2 DEF ComingOf, LeftOf, AfterOf
    <3> QED BY <1>1, <1>13, <3>1, SameWalk
  <2>4. ComingOf(key, feed, kept) = ComeSet(key, feed, feed.at, feed.wrapped)
    BY <1>3 DEF ComingOf, LeftOf, AfterOf
  <2>5. steady \cap matching \subseteq shown.once \cup ComeSet(key, feed, feed.at, feed.wrapped)
    BY <1>3, <2>4 DEF ShuffledInv, Unmissed, Followed
  <2> QED BY <1>11, <2>2, <2>3, <2>5
<1> QED BY <1>14, <1>15, <1>16, <1>17, <1>18 DEF ShuffledInv

LEMMA ForYouPageKeeps ==
  ASSUME ShuffledInv, NEW limit \in Nat \ {0}, Shuffled!ForYouPage(limit)
  PROVE  ShuffledInv'
<1>1. /\ feed.sort = "foryou" /\ feed.at # Shuffled!End /\ key' = key /\ matching' = matching
      /\ steady' = IF ~kept.drawn /\ feed.offset > 0 THEN {} ELSE steady
  BY DEF Shuffled!ForYouPage
<1> DEFINE Taken(c) == {c.ids[n] : n \in DOMAIN c.ids \cap (feed.offset + 1..feed.offset + limit)}
<1>2. PICK c \in IF kept.drawn THEN {kept} ELSE Shuffled!Chunks :
        /\ Shuffled!Shows(Taken(c))
        /\ IF feed.offset + Cardinality(Taken(c)) < Len(c.ids)
           THEN kept' = c /\ feed' = [feed EXCEPT !.offset = feed.offset + Cardinality(Taken(c))]
           ELSE kept' = Shuffled!NoChunk /\ Shuffled!Moves(c.next, c.wrapped)
  BY ShuffledCardinality DEF Shuffled!ForYouPage
<1> DEFINE taken == Taken(c)
           offset == feed.offset + Cardinality(taken)
           after == ComeSet(key, feed, c.next, c.wrapped)
           coming == Unserved(c, feed.offset) \cup after
<1>3. /\ FeedTypes /\ feed \in FeedReader /\ kept \in FeedChunk /\ Injects(kept.ids)
      /\ matching \subseteq Project /\ FeedShape /\ feed.offset \in Nat /\ kept.drawn \in BOOLEAN
      /\ shown.once \subseteq Project /\ shown.twice \subseteq shown.once /\ steady \subseteq Project
      /\ RoundFrom(feed, feed.at, feed.wrapped) /\ (kept.drawn => RoundFrom(feed, kept.next, kept.wrapped))
  BY FeedTyped DEF ShuffledInv, FeedTypes, FeedShape
<1>4. c \in FeedChunk /\ c.drawn /\ Injects(c.ids) /\ RoundFrom(feed, c.next, c.wrapped)
  <2>1. CASE kept.drawn
    BY <1>2, <1>3, <2>1
  <2>2. CASE ~kept.drawn
    BY <1>1, <1>2, <1>3, <2>2, ChunkCut
  <2> QED BY <2>1, <2>2
<1>5. c.next \in FeedCursor /\ c.wrapped \in BOOLEAN
  BY <1>4 DEF FeedChunk
<1>6. /\ taken \subseteq Unserved(c, feed.offset) /\ Unserved(c, feed.offset) \subseteq Project
      /\ Cardinality(taken) \in Nat
      /\ offset < Len(c.ids) =>
           /\ offset > 0
           /\ Unserved(c, offset) \subseteq Unserved(c, feed.offset) \ taken
           /\ Unserved(c, feed.offset) \subseteq taken \cup Unserved(c, offset)
      /\ ~(offset < Len(c.ids)) => Unserved(c, feed.offset) = taken
  <2>1. taken = TakenFrom(c, feed.offset, limit)
    BY DEF TakenFrom
  <2>2. TakesPage(c, feed.offset, limit)
    BY <1>3, <1>4, PageTakes
  <2> HIDE DEF taken
  <2> QED BY <2>1, <2>2 DEF TakesPage
<1>7. Shuffled!Shows(taken) /\ offset \in Nat
  BY <1>2, <1>3, <1>6
<1>8. /\ offset < Len(c.ids) => kept' = c /\ feed' = [feed EXCEPT !.offset = offset]
      /\ ~(offset < Len(c.ids)) =>
           kept' = Shuffled!NoChunk /\ feed' = [feed EXCEPT !.at = c.next, !.wrapped = c.wrapped, !.offset = 0]
  BY <1>2 DEF Shuffled!Moves
<1> HIDE DEF Taken, taken, offset, after, coming
<1>9. /\ feed' \in FeedReader /\ feed'.sort = "foryou" /\ feed'.start = feed.start /\ feed'.want = feed.want
      /\ offset < Len(c.ids) => feed'.offset = offset /\ feed'.at = feed.at /\ feed'.wrapped = feed.wrapped
      /\ ~(offset < Len(c.ids)) => feed'.offset = 0 /\ feed'.at = c.next /\ feed'.wrapped = c.wrapped
  <2>1. CASE offset < Len(c.ids)
    <3>1. feed' = [feed EXCEPT !.offset = offset]
      BY <1>8, <2>1
    <3> QED BY <1>1, <1>3, <1>7, <2>1, <3>1 DEF FeedReader
  <2>2. CASE ~(offset < Len(c.ids))
    <3>1. feed' = [feed EXCEPT !.at = c.next, !.wrapped = c.wrapped, !.offset = 0]
      BY <1>8, <2>2
    <3> QED BY <1>1, <1>3, <1>5, <2>2, <3>1 DEF FeedReader
  <2> QED BY <2>1, <2>2
<1>10. kept' \in FeedChunk /\ Injects(kept'.ids) /\ (kept'.drawn <=> offset < Len(c.ids))
  <2>1. CASE offset < Len(c.ids)
    BY <1>4, <1>8, <2>1
  <2>2. CASE ~(offset < Len(c.ids))
    BY <1>8, <2>2, NoWalk
  <2> QED BY <2>1, <2>2
<1>11. FeedShape'
  <2>1. feed.start = feed'.start /\ feed.sort = feed'.sort
    BY <1>1, <1>9
  <2>2. CASE offset < Len(c.ids)
    <3>1. RoundFrom(feed', feed'.at, feed'.wrapped) /\ RoundFrom(feed', kept'.next, kept'.wrapped)
      BY <1>3, <1>4, <1>8, <1>9, <2>1, <2>2, SameWalk
    <3> QED BY <1>1, <1>6, <1>9, <1>10, <2>2, <3>1 DEF FeedShape
  <2>3. CASE ~(offset < Len(c.ids))
    <3>1. RoundFrom(feed', feed'.at, feed'.wrapped)
      BY <1>4, <1>9, <2>1, <2>3, SameWalk
    <3> QED BY <1>9, <1>10, <2>3, <3>1 DEF FeedShape
  <2> QED BY <2>2, <2>3
<1>12. CASE ~kept.drawn /\ feed.offset > 0
  <2>1. steady' = {}
    BY <1>1, <1>12
  <2>2. FeedTypes'
    <3>1. shown'.once = shown.once \cup taken /\ shown'.twice = shown.twice \cup (taken \cap shown.once)
      BY <1>7 DEF Shuffled!Shows
    <3> QED BY <1>1, <1>3, <1>6, <1>9, <1>10, <2>1, <3>1 DEF FeedTypes
  <2> QED BY <1>11, <2>1, <2>2, NothingSteady
<1>13. CASE kept.drawn \/ ~(feed.offset > 0)
  <2>1. steady' = steady
    BY <1>1, <1>13
  <2>2. Followed /\ feed.sort # "pick"
    BY <1>1, <1>3, <1>13 DEF Followed
  <2>3. /\ steady \cap matching \subseteq shown.once \cup ComingOf(key, feed, kept)
        /\ steady \cap shown.once \cap ComingOf(key, feed, kept) = {}
        /\ steady \cap LeftOf(feed, kept) \cap AfterOf(key, feed, kept) = {}
    BY <2>2 DEF ShuffledInv, Unmissed, Unrepeated
  <2>4. /\ steady \cap matching \subseteq shown.once \cup coming
        /\ steady \cap shown.once \cap coming = {}
        /\ steady \cap Unserved(c, feed.offset) \cap after = {}
    <3>1. CASE kept.drawn
      <4>1. c = kept
        BY <1>2, <3>1
      <4>2. LeftOf(feed, kept) = Unserved(c, feed.offset) /\ AfterOf(key, feed, kept) = after
        BY <3>1, <4>1 DEF LeftOf, AfterOf, after
      <4> QED BY <2>3, <4>2 DEF ComingOf, coming
    <3>2. CASE ~kept.drawn
      <4>1. c \in Shuffled!Chunks /\ feed.offset = 0
        BY <1>2, <1>3, <1>13, <3>2
      <4>2. ComingOf(key, feed, kept) = ComeSet(key, feed, feed.at, feed.wrapped)
        BY <3>2 DEF ComingOf, LeftOf, AfterOf
      <4>3. /\ Unserved(c, 0) \subseteq ComeSet(key, feed, feed.at, feed.wrapped)
            /\ after \subseteq ComeSet(key, feed, feed.at, feed.wrapped)
            /\ Unserved(c, 0) \cap after = {}
            /\ ComeSet(key, feed, feed.at, feed.wrapped) \cap matching \subseteq Unserved(c, 0) \cup after
        BY <1>1, <1>3, <4>1, ChunkCut DEF after
      <4> QED BY <2>3, <4>1, <4>2, <4>3 DEF coming
    <3> QED BY <3>1, <3>2
  <2>5. /\ LeftOf(feed', kept') = IF offset < Len(c.ids) THEN Unserved(c, offset) ELSE {}
        /\ AfterOf(key, feed', kept') = after
    <3>1. ComeSet(key, feed', c.next, c.wrapped) = after
      BY <1>1, <1>9, SameWalk DEF after
    <3>2. CASE offset < Len(c.ids)
      BY <1>8, <1>9, <1>10, <3>1, <3>2 DEF LeftOf, AfterOf
    <3>3. CASE ~(offset < Len(c.ids))
      BY <1>9, <1>10, <3>1, <3>3 DEF LeftOf, AfterOf
    <3> QED BY <3>2, <3>3
  <2>6. /\ LeftOf(feed', kept') \subseteq Unserved(c, feed.offset) \ taken
        /\ Unserved(c, feed.offset) \subseteq taken \cup LeftOf(feed', kept')
    BY <1>6, <2>5
  <2>7. /\ taken \subseteq coming /\ ComingOf(key, feed', kept') \subseteq coming
        /\ steady \cap taken \cap ComingOf(key, feed', kept') = {}
        /\ coming \cap matching \subseteq taken \cup ComingOf(key, feed', kept')
        /\ steady \cap LeftOf(feed', kept') \cap AfterOf(key, feed', kept') = {}
    BY <1>6, <2>4, <2>5, <2>6 DEF ComingOf, coming
  <2>8. taken \subseteq Project
    BY <1>6
  <2> QED BY <1>1, <1>7, <1>9, <1>10, <1>11, <2>1, <2>2, <2>4, <2>7, <2>8, PageKeeps
<1> QED BY <1>3, <1>12, <1>13

LEMMA InitShuffled == Shuffled!Init => ShuffledInv
<1> SUFFICES ASSUME Shuffled!Init PROVE ShuffledInv
  OBVIOUS
<1>1. /\ key \in [Project -> Key] /\ matching \subseteq Project /\ feed = Shuffled!NoFeed
      /\ kept = Shuffled!NoChunk /\ shown.once = {} /\ shown.twice = {} /\ steady = {}
  BY DEF Shuffled!Init
<1>2. FeedTypes
  BY <1>1, NoWalk DEF FeedTypes
<1>3. FeedShape
  BY <1>1, NoWalk DEF FeedShape, RoundFrom
<1> QED BY <1>1, <1>2, <1>3 DEF ShuffledInv, Unmissed, Unrepeated

LEMMA ShuffledStep == ShuffledInv /\ [Shuffled!Next]_(Shuffled!shuffledFeedVars) => ShuffledInv'
<1> SUFFICES ASSUME ShuffledInv, [Shuffled!Next]_(Shuffled!shuffledFeedVars) PROVE ShuffledInv'
  OBVIOUS
<1>0. /\ FeedTypes /\ FeedShape /\ key \in [Project -> Key] /\ matching \subseteq Project
      /\ feed \in FeedReader /\ kept \in FeedChunk /\ Injects(kept.ids)
      /\ shown.once \subseteq Project /\ shown.twice \subseteq shown.once /\ steady \subseteq Project
  BY DEF ShuffledInv, FeedTypes
<1>1. CASE UNCHANGED Shuffled!shuffledFeedVars
  BY <1>1 DEF Shuffled!shuffledFeedVars, ShuffledInv, FeedTypes, FeedShape, Unmissed, Unrepeated, Followed
<1>2. ASSUME NEW sort \in {"shuffle", "foryou"}, NEW start \in Key, Shuffled!BeginWalk(sort, start, 0)
      PROVE  ShuffledInv'
  BY <1>2, BeginKeeps
<1>3. ASSUME NEW start \in Key, NEW want \in 1..MaxLimit, Shuffled!BeginWalk("pick", start, want)
      PROVE  ShuffledInv'
  <2>1. want \in Nat /\ want > 0
    BY ShuffledAssumption
  <2> QED BY <1>3, <2>1, BeginKeeps
<1>4. ASSUME NEW limit \in 1..MaxLimit,
             Shuffled!ShufflePage(limit) \/ Shuffled!PickPage(limit) \/ Shuffled!ForYouPage(limit)
      PROVE  ShuffledInv'
  <2>1. limit \in Nat \ {0}
    BY ShuffledAssumption
  <2> QED BY <1>4, <2>1, ShufflePageKeeps, PickPageKeeps, ForYouPageKeeps
<1>5. CASE Shuffled!LoseChunk
  <2>1. /\ kept.drawn /\ kept' = Shuffled!NoChunk
        /\ key' = key /\ matching' = matching /\ feed' = feed /\ shown' = shown /\ steady' = steady
    BY <1>5 DEF Shuffled!LoseChunk
  <2>2. kept' \in FeedChunk /\ ~kept'.drawn /\ Injects(kept'.ids)
    BY <2>1, NoWalk
  <2>3. FeedTypes'
    BY <1>0, <2>1, <2>2 DEF FeedTypes
  <2>4. FeedShape'
    BY <1>0, <2>1, <2>2 DEF FeedShape
  <2>5. ~Followed'
    <3>1. feed.offset > 0 /\ feed.offset \in Nat
      BY <1>0, <2>1, FeedTyped DEF FeedShape
    <3> QED BY <2>1, <2>2, <3>1 DEF Followed
  <2> QED BY <2>1, <2>3, <2>4, <2>5 DEF ShuffledInv, Unmissed, Unrepeated
<1>6. CASE Shuffled!LeaveWalk
  <2>1. /\ feed' = Shuffled!NoFeed /\ kept' = Shuffled!NoChunk /\ steady' = {}
        /\ shown'.once = {} /\ shown'.twice = {} /\ key' = key /\ matching' = matching
    BY <1>6 DEF Shuffled!LeaveWalk
  <2>2. FeedTypes'
    BY <1>0, <2>1, NoWalk DEF FeedTypes
  <2>3. FeedShape'
    BY <2>1, NoWalk DEF FeedShape, RoundFrom
  <2> QED BY <2>1, <2>2, <2>3, NothingSteady
<1>7. CASE Shuffled!Reshuffle
  <2>1. /\ key' \in [Project -> Key] /\ steady' = {}
        /\ matching' = matching /\ feed' = feed /\ kept' = kept /\ shown' = shown
    BY <1>7 DEF Shuffled!Reshuffle
  <2>2. FeedTypes'
    BY <1>0, <2>1 DEF FeedTypes
  <2>3. FeedShape'
    BY <1>0, <2>1 DEF FeedShape
  <2> QED BY <2>1, <2>2, <2>3, NothingSteady
<1>8. ASSUME NEW p \in Project, Shuffled!ChangeMatch(p)
      PROVE  ShuffledInv'
  <2>1. /\ steady' = steady \ {p} /\ matching' \subseteq Project
        /\ \A q \in Project : q # p => (q \in matching' <=> q \in matching)
        /\ key' = key /\ feed' = feed /\ kept' = kept /\ shown' = shown
    BY <1>0, <1>8 DEF Shuffled!ChangeMatch
  <2>2. FeedTypes'
    BY <1>0, <2>1 DEF FeedTypes
  <2>3. FeedShape'
    BY <1>0, <2>1 DEF FeedShape
  <2>4. steady' \cap matching' \subseteq steady \cap matching /\ steady' \subseteq steady
    BY <1>0, <2>1
  <2>5. Unmissed' /\ Unrepeated' /\ steady' \cap shown'.twice = {}
    BY <2>1, <2>4 DEF ShuffledInv, Unmissed, Unrepeated, Followed
  <2> QED BY <2>2, <2>3, <2>5 DEF ShuffledInv
<1> QED BY <1>1, <1>2, <1>3, <1>4, <1>5, <1>6, <1>7, <1>8 DEF Shuffled!Next

\* A walk that came to its end has nothing left to come to.
LEMMA ShuffledInvShows == ShuffledInv => Shuffled!StandingShownOnce
<1> SUFFICES ASSUME ShuffledInv PROVE Shuffled!StandingShownOnce
  OBVIOUS
<1>1. steady \cap shown.twice = {}
  BY DEF ShuffledInv
<1>2. ASSUME feed.at = Shuffled!End, feed.sort = "pick" => feed.want > 0
      PROVE  steady \cap matching \subseteq shown.once
  <2>1. ~kept.drawn /\ feed.offset = 0
    BY <1>2, FeedTyped DEF ShuffledInv, FeedShape
  <2>2. ComingOf(key, feed, kept) = {}
    BY <1>2, <2>1 DEF ComingOf, LeftOf, AfterOf, ComeSet
  <2> QED BY <1>2, <2>1, <2>2 DEF ShuffledInv, Unmissed, Followed
<1> QED BY <1>1, <1>2 DEF Shuffled!StandingShownOnce

(* What stands still while somebody pages through a feed is shown exactly      *)
(* once: what is left of the order after the cursor, with what is left of a    *)
(* drawn chunk, is always what was not shown (shuffle.go, foryou.go, pick.go;  *)
(* browse.go, segmentsAfter).                                                  *)
THEOREM FeedsShowOnce == PartsSpec => []ShownOnce
<1> DEFINE I == /\ part = "shuffled" => ShuffledInv
                /\ part = "browse" => BrowseInv
<1>1. PartsInit => I
  BY InitShuffled, InitBrowse DEF PartsInit
<1>2. I /\ [PartsNext]_allVars => I'
  <2> SUFFICES ASSUME I, [PartsNext]_allVars PROVE I'
    OBVIOUS
  <2>1. part' = part
    BY DEF PartsNext, allVars
  <2>2. CASE part = "shuffled"
    <3>1. [Shuffled!Next]_(Shuffled!shuffledFeedVars)
      BY <2>2 DEF PartsNext, allVars, shuffledVars, Shuffled!shuffledFeedVars
    <3> QED BY <2>1, <2>2, <3>1, ShuffledStep
  <2>3. CASE part = "browse"
    <3>1. [Browse!Next]_(Browse!catalogBrowseVars)
      BY <2>3 DEF PartsNext, allVars, browseVars, Browse!catalogBrowseVars
    <3> QED BY <2>1, <2>3, <3>1, BrowseStep
  <2> QED BY <2>1, <2>2, <2>3
<1>3. I => ShownOnce
  BY ShuffledInvShows DEF ShownOnce, BrowseInv, Browse!StillSeenOnce
<1> QED BY <1>1, <1>2, <1>3, PTL DEF PartsSpec

----------------------------------------------------------------------------
(* Recursion over the subsets of a finite set, one member after another: what *)
(* the plan of awards is computed by.                                         *)

\* What is true of no member, and of a set when it is of the set without some
\* member, is true of every set.
Inherited(D, Good) == \A S \in SUBSET D : S # {} => \E p \in S : S \ {p} \in Good => S \in Good

LEMMA SubsetInduction ==
  ASSUME NEW D, IsFiniteSet(D), NEW Good, {} \in Good, Inherited(D, Good)
  PROVE  SUBSET D \subseteq Good
<1> SUFFICES ASSUME NEW X \in SUBSET D, X \notin Good PROVE FALSE
  OBVIOUS
<1> DEFINE Bad == {S \in SUBSET D : S \notin Good}
           R == StrictSubsetOrdering(D)
<1>1. IsWellFoundedOn(R, SUBSET D)
  <2>1. FiniteSubsetsOf(D) = SUBSET D
    BY FS_FiniteSubsetsOfFinite
  <2>2. IsWellFoundedOn(StrictSubsetOrdering(D), FiniteSubsetsOf(D))
    BY FS_StrictSubsetOrderingWellFounded
  <2> QED BY <2>1, <2>2
<1>2. Bad \subseteq SUBSET D /\ X \in Bad
  OBVIOUS
<1>3. \E x \in Bad : \A y \in Bad : ~(<<y, x>> \in R)
  <2> HIDE DEF Bad, R
  <2> QED BY <1>1, <1>2, WFMin
<1>4. PICK S \in Bad : \A y \in Bad : ~(<<y, S>> \in R)
  BY <1>3
<1>5. S \in SUBSET D /\ S \notin Good /\ S # {}
  <2>1. S \in Bad
    BY <1>4
  <2>2. S \in SUBSET D /\ S \notin Good
    BY <2>1
  <2>3. S # {}
    BY <2>2
  <2> QED BY <2>2, <2>3
<1>6. PICK p \in S : S \ {p} \in Good => S \in Good
  BY <1>5 DEF Inherited
<1>7. S \ {p} \in Bad
  BY <1>5, <1>6
<1>8. <<S \ {p}, S>> \in R
  BY <1>5 DEF StrictSubsetOrdering
<1> QED BY <1>4, <1>7, <1>8

LEMMA NumberInduction ==
  ASSUME NEW Good, 0 \in Good, \A n \in Nat : n \in Good => n + 1 \in Good
  PROVE  Nat \subseteq Good
<1> SUFFICES ASSUME NEW x \in Nat, x \notin Good PROVE FALSE
  OBVIOUS
<1> DEFINE Bad == {n \in Nat : n \notin Good}
<1>1. Bad \in SUBSET Nat /\ Bad # {}
  OBVIOUS
<1>2. PICK n \in Bad : \A m \in Bad : n <= m
  <2> HIDE DEF Bad
  <2> QED BY <1>1, LeastExists
<1>3. n \in Nat \ {0} /\ n - 1 \in Nat /\ (n - 1) + 1 = n
  BY <1>2
<1>4. n - 1 \in Good
  BY <1>2, <1>3
<1> QED BY <1>2, <1>3, <1>4

\* Where each set's last member is added by a step, there is such a function.
Walks(f, D, base, last, step) ==
  \A S \in D : f[S] = IF S = {} THEN base ELSE step[<<f[S \ {last[S]}], last[S]>>]

LEMMA WalkExists ==
  ASSUME NEW D, IsFiniteSet(D), NEW V, NEW base \in V, NEW step \in [V \X D -> V],
         NEW last, \A S \in SUBSET D : S # {} => last[S] \in S
  PROVE  \E f \in [SUBSET D -> V] : Walks(f, SUBSET D, base, last, step)
<1> DEFINE Small(n) == {S \in SUBSET D : Cardinality(S) <= n}
           Reached(n) == \E f \in [Small(n) -> V] : Walks(f, Small(n), base, last, step)
           Good == {n \in Nat : Reached(n)}
<1>1. \A S \in SUBSET D : IsFiniteSet(S) /\ Cardinality(S) \in Nat /\ Cardinality(S) <= Cardinality(D)
  BY FS_Subset, FS_CardinalityType
<1>2. Cardinality(D) \in Nat
  BY FS_CardinalityType
<1>3. 0 \in Good
  <2>1. Small(0) = {{}}
    BY <1>1, FS_EmptySet
  <2> DEFINE f == [S \in Small(0) |-> base]
  <2>2. f \in [Small(0) -> V] /\ Walks(f, Small(0), base, last, step)
    BY <2>1 DEF Walks
  <2> QED BY <2>2
<1>4. ASSUME NEW n \in Nat, n \in Good
      PROVE  n + 1 \in Good
  <2>1. PICK f \in [Small(n) -> V] : Walks(f, Small(n), base, last, step)
    BY <1>4
  <2> DEFINE g == [S \in Small(n + 1) |-> IF S = {} THEN base ELSE step[<<f[S \ {last[S]}], last[S]>>]]
  <2>2. ASSUME NEW S \in Small(n + 1), S # {}
        PROVE  S \ {last[S]} \in Small(n) /\ last[S] \in D
    <3>1. S \in SUBSET D /\ last[S] \in S /\ Cardinality(S) <= n + 1
      BY <2>2
    <3>2. Cardinality(S \ {last[S]}) = Cardinality(S) - 1
      BY <1>1, <3>1, FS_RemoveElement
    <3> QED BY <1>1, <3>1, <3>2
  <2>3. ASSUME NEW S \in Small(n)
        PROVE  S \in Small(n + 1) /\ g[S] = f[S]
    <3>1. S \in SUBSET D /\ Cardinality(S) <= n /\ Cardinality(S) \in Nat
      BY <1>1, <2>3
    <3>2. S \in Small(n + 1)
      BY <3>1
    <3>3. f[S] = IF S = {} THEN base ELSE step[<<f[S \ {last[S]}], last[S]>>]
      BY <2>1, <2>3 DEF Walks
    <3> QED BY <3>2, <3>3
  <2>4. g \in [Small(n + 1) -> V]
    <3> SUFFICES ASSUME NEW S \in Small(n + 1) PROVE g[S] \in V
      OBVIOUS
    <3>1. CASE S = {}
      BY <3>1
    <3>2. CASE S # {}
      <4>1. f[S \ {last[S]}] \in V /\ last[S] \in D
        BY <2>1, <2>2, <3>2
      <4> QED BY <3>2, <4>1
    <3> QED BY <3>1, <3>2
  <2>5. Walks(g, Small(n + 1), base, last, step)
    <3> SUFFICES ASSUME NEW S \in Small(n + 1)
                 PROVE  g[S] = IF S = {} THEN base ELSE step[<<g[S \ {last[S]}], last[S]>>]
      BY DEF Walks
    <3>1. CASE S = {}
      BY <3>1
    <3>2. CASE S # {}
      <4>1. g[S \ {last[S]}] = f[S \ {last[S]}]
        BY <2>2, <2>3, <3>2
      <4> QED BY <3>2, <4>1
    <3> QED BY <3>1, <3>2
  <2>6. Reached(n + 1)
    <3> HIDE DEF g, Small
    <3> QED BY <2>4, <2>5
  <2> HIDE DEF Reached
  <2> QED BY <2>6
<1>5. Cardinality(D) \in Good
  <2> HIDE DEF Good
  <2> QED BY <1>2, <1>3, <1>4, NumberInduction
<1>6. Small(Cardinality(D)) = SUBSET D
  BY <1>1
<1> QED BY <1>5, <1>6
----------------------------------------------------------------------------
(* The ledger of a person's pull requests (XPLedger). *)

PointsIn(S) == UNION {{a} \X (1..a.amount) : a \in S}
PointsOff(S) == UNION {{a} \X (1..(0 - a.amount)) : a \in S}

LEMMA LedgerCardinality ==
  ASSUME NEW S
  PROVE  Ledger!Cardinality(S) = Cardinality(S)
BY DEF Ledger!Cardinality, Cardinality

LEMMA RunOf ==
  ASSUME NEW a, NEW n \in Int
  PROVE  IsFiniteSet({a} \X (1..n)) /\ Cardinality({a} \X (1..n)) = (IF n >= 0 THEN n ELSE 0)
<1>1. IsFiniteSet({a}) /\ Cardinality({a}) = 1
  BY FS_Singleton
<1>2. IsFiniteSet(1..n) /\ Cardinality(1..n) = (IF n >= 0 THEN n ELSE 0)
  <2>1. IsFiniteSet(1..n) /\ Cardinality(1..n) = (IF 1 > n THEN 0 ELSE n - 1 + 1)
    BY FS_Interval
  <2> QED BY <2>1
<1>3. /\ IsFiniteSet({a} \X (1..n))
      /\ Cardinality({a} \X (1..n)) = Cardinality({a}) * Cardinality(1..n)
  BY <1>1, <1>2, FS_Product
<1> DEFINE m == Cardinality(1..n)
<1>4. m \in Int /\ 1 * m = m
  BY <1>2
<1> QED BY <1>1, <1>2, <1>3, <1>4

LEMMA PointsFinite ==
  ASSUME NEW S, IsFiniteSet(S), \A a \in S : a.amount \in Int
  PROVE  IsFiniteSet(PointsIn(S)) /\ IsFiniteSet(PointsOff(S))
<1>1. \A f : \A T : f \in Surjection(S, T) => IsFiniteSet(T)
  BY FS_Surjection
<1> DEFINE T == {{a} \X (1..a.amount) : a \in S}
           U == {{a} \X (1..(0 - a.amount)) : a \in S}
           f == [a \in S |-> {a} \X (1..a.amount)]
           g == [a \in S |-> {a} \X (1..(0 - a.amount))]
<1>2. f \in Surjection(S, T) /\ g \in Surjection(S, U)
  BY DEF Surjection
<1>3. IsFiniteSet(T) /\ IsFiniteSet(U)
  <2> HIDE DEF T, U, f, g
  <2> QED BY <1>1, <1>2
<1>4. \A X \in T : IsFiniteSet(X)
  BY RunOf
<1>5. \A X \in U : IsFiniteSet(X)
  <2> SUFFICES ASSUME NEW a \in S PROVE IsFiniteSet({a} \X (1..(0 - a.amount)))
    OBVIOUS
  <2>1. 0 - a.amount \in Int
    OBVIOUS
  <2> QED BY <2>1, RunOf
<1>6. IsFiniteSet(UNION T) /\ IsFiniteSet(UNION U)
  <2> HIDE DEF T, U
  <2> QED BY <1>3, <1>4, <1>5, FS_UNION
<1> QED BY <1>6 DEF PointsIn, PointsOff

LEMMA TotalCounts ==
  ASSUME NEW S, IsFiniteSet(S), \A a \in S : a.amount \in Int
  PROVE  /\ Ledger!Total(S) = Cardinality(PointsIn(S)) - Cardinality(PointsOff(S))
         /\ Ledger!Total(S) \in Int
<1>1. Cardinality(PointsIn(S)) \in Nat /\ Cardinality(PointsOff(S)) \in Nat
  BY PointsFinite, FS_CardinalityType
<1>2. Ledger!Total(S) = Cardinality(PointsIn(S)) - Cardinality(PointsOff(S))
  BY LedgerCardinality DEF Ledger!Total, PointsIn, PointsOff
<1> QED BY <1>1, <1>2

\* One award more adds its amount.
LEMMA TotalAdds ==
  ASSUME NEW S, IsFiniteSet(S), \A b \in S : b.amount \in Nat, NEW a, a \notin S, a.amount \in Nat
  PROVE  Ledger!Total(S \cup {a}) = Ledger!Total(S) + a.amount
<1> DEFINE run == {a} \X (1..a.amount)
<1>1. IsFiniteSet(S \cup {a}) /\ \A b \in S \cup {a} : b.amount \in Nat /\ b.amount \in Int
  BY FS_AddElement
<1>2. \A b \in S \cup {a} : 1..(0 - b.amount) = {}
  BY <1>1
<1>3. PointsOff(S) = {} /\ PointsOff(S \cup {a}) = {}
  BY <1>2 DEF PointsOff
<1>4. PointsIn(S \cup {a}) = PointsIn(S) \cup run
  BY DEF PointsIn
<1>5. PointsIn(S) \cap run = {}
  BY DEF PointsIn
<1>6. IsFiniteSet(run) /\ Cardinality(run) = a.amount
  <2>1. a.amount \in Int /\ a.amount >= 0
    OBVIOUS
  <2>2. IsFiniteSet(run) /\ Cardinality(run) = (IF a.amount >= 0 THEN a.amount ELSE 0)
    BY <2>1, RunOf
  <2> QED BY <2>1, <2>2
<1>7. IsFiniteSet(PointsIn(S)) /\ Cardinality(PointsIn(S)) \in Nat
  BY PointsFinite, FS_CardinalityType
<1> HIDE DEF run
<1>8. Cardinality(PointsIn(S) \cup run) = Cardinality(PointsIn(S)) + Cardinality(run) - Cardinality(PointsIn(S) \cap run)
  BY <1>6, <1>7, FS_Union
<1>9. Cardinality(PointsIn(S) \cup run) = Cardinality(PointsIn(S)) + a.amount
  <2>1. Cardinality(PointsIn(S) \cap run) = 0
    BY <1>5, FS_EmptySet
  <2> QED BY <1>6, <1>7, <1>8, <2>1
<1>10. Ledger!Total(S) = Cardinality(PointsIn(S)) - 0
  BY <1>1, <1>3, TotalCounts, FS_EmptySet
<1>11. Ledger!Total(S \cup {a}) = Cardinality(PointsIn(S) \cup run) - 0
  BY <1>1, <1>3, <1>4, TotalCounts, FS_EmptySet
<1> QED BY <1>7, <1>9, <1>10, <1>11

\* An award and what takes it back come to nothing.
LEMMA TotalCancels ==
  /\ Ledger!Total({}) = 0
  /\ \A a, b : a # b /\ a.amount \in Nat /\ b.amount = 0 - a.amount => Ledger!Total({a, b}) = 0
<1>1. Ledger!Total({}) = 0
  <2>1. PointsIn({}) = {} /\ PointsOff({}) = {}
    BY DEF PointsIn, PointsOff
  <2>2. Ledger!Total({}) = Cardinality(PointsIn({})) - Cardinality(PointsOff({}))
    BY FS_EmptySet, TotalCounts
  <2> QED BY <2>1, <2>2, FS_EmptySet
<1>2. ASSUME NEW a, NEW b, a # b, a.amount \in Nat, b.amount = 0 - a.amount
      PROVE  Ledger!Total({a, b}) = 0
  <2> DEFINE n == a.amount
  <2>1. n \in Nat /\ n \in Int /\ b.amount \in Int /\ 0 - b.amount = n
    BY <1>2
  <2>2. PointsIn({a, b}) = ({a} \X (1..n)) \cup ({b} \X (1..(0 - n)))
    BY <1>2 DEF PointsIn
  <2>3. PointsOff({a, b}) = ({a} \X (1..(0 - n))) \cup ({b} \X (1..(0 - b.amount)))
    BY <1>2 DEF PointsOff
  <2>4. 1..(0 - n) = {}
    BY <2>1
  <2>5. PointsIn({a, b}) = {a} \X (1..n) /\ PointsOff({a, b}) = {b} \X (1..n)
    BY <2>1, <2>2, <2>3, <2>4
  <2>6. Cardinality({a} \X (1..n)) = n /\ Cardinality({b} \X (1..n)) = n
    <3> HIDE DEF n
    <3>1. \A x : Cardinality({x} \X (1..n)) = (IF n >= 0 THEN n ELSE 0)
      BY <2>1, RunOf
    <3>2. n >= 0
      BY <2>1
    <3> QED BY <3>1, <3>2
  <2>7. IsFiniteSet({a, b})
    <3>1. IsFiniteSet({a} \cup {b})
      BY FS_Singleton, FS_AddElement
    <3>2. {a} \cup {b} = {a, b}
      OBVIOUS
    <3> QED BY <3>1, <3>2
  <2>8. Ledger!Total({a, b}) = Cardinality(PointsIn({a, b})) - Cardinality(PointsOff({a, b}))
    <3>1. \A x \in {a, b} : x.amount \in Int
      BY <2>1
    <3> QED BY <2>7, <3>1, TotalCounts
  <2>9. Cardinality(PointsIn({a, b})) = n /\ Cardinality(PointsOff({a, b})) = n
    BY <2>5, <2>6
  <2> QED BY <2>1, <2>8, <2>9
<1> QED BY <1>1, <1>2
----------------------------------------------------------------------------
IsMerge(a) == a.source \in {"merged", "backfill"}

\* What the rules say of a set of awards by itself.
CapsKept(done) ==
  /\ DailyCap > 0 => \A repo, d : Ledger!Total(Ledger!OnDay(done, repo, d)) <= DailyCap
  /\ \A w : Cardinality(Ledger!OpenedIn(done, w)) <= WeeklyCap
OnceOnly(done) ==
  \A a, b \in done : a # b =>
    /\ ~(a.source = b.source /\ a.pull = b.pull)
    /\ ~(a.source = "opened" /\ b.source = "opened" /\ a.issue = b.issue)
    /\ ~(a.first /\ b.first /\ RepoOf[a.pull] = RepoOf[b.pull])
    /\ ~(IsMerge(a) /\ IsMerge(b) /\ a.pull = b.pull)
Kinds(done) ==
  \A a \in done :
    /\ IsMerge(a) => a.amount \in Nat
    /\ a.first => IsMerge(a)
    /\ a.source = "opened" => a.amount = Opened
    /\ a.source = "opened_reversed" =>
         \E b \in done : b.source = "opened" /\ b.pull = a.pull /\ a.amount = 0 - b.amount

FairAwards(done) ==
  /\ done \subseteq Ledger!Award /\ IsFiniteSet(done)
  /\ CapsKept(done) /\ OnceOnly(done) /\ Kinds(done)

\* A merge is paid for a pull request that was merged, on its day.
Grounded(done, rows) ==
  \A a \in done : IsMerge(a) => /\ rows[a.pull].state = "MERGED" /\ a.day = rows[a.pull].merged
                                /\ a.source = "merged" => a.day >= Joined

\* The stored pull requests: the merged ones have their day.
StoredRow == [state: {"NONE", "OPEN", "CLOSED", "MERGED"}, merged: Ledger!Day, issues: SUBSET Issue, excluded: BOOLEAN]

----------------------------------------------------------------------------
LEMMA LedgerNumbers ==
  /\ IsFiniteSet(PullRequest) /\ PullRequest \subseteq Nat
  /\ Issue \subseteq Nat \ {0} /\ Links \subseteq SUBSET Issue
  /\ Ledger!Day = 0..LastDay /\ LastDay \in Nat /\ CreatedOn \in [PullRequest -> 0..LastDay]
  /\ Joined \in Nat /\ WeekLen \in Nat \ {0} /\ Worth \in [PullRequest -> Nat]
  /\ FirstMerge \in Nat /\ Backfill \in Nat /\ DailyCap \in Nat /\ Opened \in Nat /\ WeeklyCap \in Nat
  /\ \A q \in DOMAIN QuestNeed : QuestNeed[q] \in Nat /\ QuestNeed[q] > 0
BY LedgerAssumption DEF Ledger!Day

LEMMA AwardTypes ==
  ASSUME NEW a \in Ledger!Award
  PROVE  /\ a.source \in {"merged", "backfill", "opened", "opened_reversed"}
         /\ a.pull \in PullRequest /\ a.amount \in Int /\ a.issue \in Issue \cup {0}
         /\ a.first \in BOOLEAN /\ a.day \in Ledger!Day
BY DEF Ledger!Award

LEMMA MaxWithZero ==
  ASSUME NEW x \in Int
  PROVE  Ledger!Max({x, 0}) = IF x >= 0 THEN x ELSE 0
<1> DEFINE m == IF x >= 0 THEN x ELSE 0
<1>1. m \in {x, 0} /\ \A y \in {x, 0} : m >= y
  OBVIOUS
<1>2. \A n \in {x, 0} : (\A y \in {x, 0} : n >= y) => n = m
  OBVIOUS
<1> QED BY <1>1, <1>2 DEF Ledger!Max

LEMMA MinIsMember ==
  ASSUME NEW S \in SUBSET Nat, S # {}
  PROVE  Ledger!Min(S) \in S
<1>1. \E x \in S : \A y \in S : x <= y
  BY LeastExists
<1> QED BY <1>1 DEF Ledger!Min

LEMMA PartsOfLedger ==
  ASSUME NEW done, done \subseteq Ledger!Award, IsFiniteSet(done), NEW T, T \subseteq done
  PROVE  /\ IsFiniteSet(T) /\ Cardinality(T) \in Nat /\ Ledger!Total(T) \in Int
         /\ \A a \in T : a.amount \in Int
<1>1. T \in SUBSET done
  OBVIOUS
<1>2. IsFiniteSet(T)
  BY <1>1, FS_Subset
<1>3. \A a \in T : a.amount \in Int
  BY AwardTypes
<1> QED BY <1>2, <1>3, TotalCounts, FS_CardinalityType

----------------------------------------------------------------------------
\* A merge pays no more than what is left of the day.
LEMMA CappedFits ==
  ASSUME NEW done, done \subseteq Ledger!Award, IsFiniteSet(done), NEW repo, NEW d, NEW amount \in Nat
  PROVE  /\ Ledger!Capped(done, repo, d, amount) \in Nat
         /\ DailyCap > 0 /\ Ledger!Total(Ledger!OnDay(done, repo, d)) <= DailyCap =>
              Ledger!Total(Ledger!OnDay(done, repo, d)) + Ledger!Capped(done, repo, d, amount) <= DailyCap
<1> DEFINE daily == Ledger!Total(Ledger!OnDay(done, repo, d))
           room == Ledger!Max({DailyCap - daily, 0})
<1>1. daily \in Int
  <2>1. Ledger!OnDay(done, repo, d) \subseteq done
    BY DEF Ledger!OnDay, Ledger!MergesOf
  <2> QED BY <2>1, PartsOfLedger
<1>2. Ledger!Capped(done, repo, d, amount) = IF DailyCap > 0 /\ amount > room THEN room ELSE amount
  BY DEF Ledger!Capped
<1> HIDE DEF daily
<1>3. DailyCap \in Nat /\ DailyCap - daily \in Int
  BY <1>1, LedgerNumbers
<1>4. room = IF DailyCap - daily >= 0 THEN DailyCap - daily ELSE 0
  BY <1>3, MaxWithZero
<1> HIDE DEF room
<1>5. /\ Ledger!Capped(done, repo, d, amount) \in Nat
      /\ DailyCap > 0 /\ daily <= DailyCap => daily + Ledger!Capped(done, repo, d, amount) <= DailyCap
  BY <1>1, <1>2, <1>3, <1>4
<1> QED BY <1>5 DEF daily

PaysMerge(a, done, p) ==
  /\ a \in Ledger!Award /\ a.pull = p /\ a.day = stored[p].merged /\ IsMerge(a) /\ a.amount \in Nat
  /\ a.source = "merged" => a.day >= Joined
  /\ a.first => Ledger!MergesOf(done, RepoOf[p]) = {}
  /\ DailyCap > 0 /\ Ledger!Total(Ledger!OnDay(done, RepoOf[p], a.day)) <= DailyCap =>
       Ledger!Total(Ledger!OnDay(done, RepoOf[p], a.day)) + a.amount <= DailyCap

LEMMA MergeAwardPays ==
  ASSUME NEW done, done \subseteq Ledger!Award, IsFiniteSet(done),
         NEW p \in PullRequest, stored[p] \in StoredRow
  PROVE  PaysMerge(Ledger!MergeAward(done, p), done, p)
<1> DEFINE repo == RepoOf[p]
           d == stored[p].merged
           first == Ledger!MergesOf(done, repo) = {}
           full == Worth[p] + (IF first THEN FirstMerge ELSE 0)
           amount == IF d < Joined THEN (full * Backfill) \div 100 ELSE full
           source == IF d < Joined THEN "backfill" ELSE "merged"
           a == Ledger!MergeAward(done, p)
<1>1. d \in Ledger!Day /\ d \in Nat /\ Joined \in Nat
  BY LedgerNumbers DEF StoredRow
<1>2. full \in Nat /\ Backfill \in Nat
  BY LedgerNumbers
<1>3. amount \in Nat
  <2> HIDE DEF full
  <2>1. \A m, n \in Nat : m * n \in Nat
    OBVIOUS
  <2>2. \A m \in Nat : m \div 100 \in Nat
    OBVIOUS
  <2>3. (full * Backfill) \div 100 \in Nat
    <3>1. full * Backfill \in Nat
      BY <1>2, <2>1
    <3> QED BY <2>2, <3>1
  <2> QED BY <1>2, <2>3
<1>4. a = [source |-> source, pull |-> p, issue |-> 0, amount |-> Ledger!Capped(done, repo, d, amount),
           first |-> first, day |-> d]
  BY DEF Ledger!MergeAward
<1> HIDE DEF a, d, amount, full
<1>5. /\ Ledger!Capped(done, repo, d, amount) \in Nat
      /\ DailyCap > 0 /\ Ledger!Total(Ledger!OnDay(done, repo, d)) <= DailyCap =>
           Ledger!Total(Ledger!OnDay(done, repo, d)) + Ledger!Capped(done, repo, d, amount) <= DailyCap
  BY <1>3, CappedFits
<1>6. /\ a.source = source /\ a.pull = p /\ a.issue = 0 /\ a.day = d /\ (a.first <=> first) /\ a.first \in BOOLEAN
      /\ a.amount = Ledger!Capped(done, repo, d, amount)
  BY <1>4
<1>7. a \in Ledger!Award
  BY <1>1, <1>4, <1>5 DEF Ledger!Award
<1>8. IsMerge(a) /\ (a.source = "merged" => a.day >= Joined)
  BY <1>1, <1>6 DEF IsMerge
<1>9. a.day = stored[p].merged
  BY <1>6 DEF d
<1>10. /\ a.amount \in Nat
       /\ DailyCap > 0 /\ Ledger!Total(Ledger!OnDay(done, repo, a.day)) <= DailyCap =>
            Ledger!Total(Ledger!OnDay(done, repo, a.day)) + a.amount <= DailyCap
  BY <1>5, <1>6
<1> QED BY <1>6, <1>7, <1>8, <1>9, <1>10 DEF PaysMerge, a
LEMMA MergeKeeps ==
  ASSUME NEW done, FairAwards(done), NEW p \in PullRequest, stored[p] \in StoredRow,
         ~Ledger!IsPaid(done, "merged", p), ~Ledger!IsPaid(done, "backfill", p)
  PROVE  /\ FairAwards(Ledger!PayMerge(done, p))
         /\ PaysMerge(Ledger!MergeAward(done, p), done, p)
<1> DEFINE a == Ledger!MergeAward(done, p)
           more == done \cup {a}
<1>1. /\ done \subseteq Ledger!Award /\ IsFiniteSet(done)
      /\ CapsKept(done) /\ OnceOnly(done) /\ Kinds(done)
  BY DEF FairAwards
<1>2. PaysMerge(a, done, p)
  BY <1>1, MergeAwardPays
<1>3. Ledger!PayMerge(done, p) = more
  BY DEF Ledger!PayMerge
<1> HIDE DEF a
<1>4. /\ a \in Ledger!Award /\ a.pull = p /\ IsMerge(a) /\ a.amount \in Nat
      /\ a.first => Ledger!MergesOf(done, RepoOf[p]) = {}
      /\ DailyCap > 0 /\ Ledger!Total(Ledger!OnDay(done, RepoOf[p], a.day)) <= DailyCap =>
           Ledger!Total(Ledger!OnDay(done, RepoOf[p], a.day)) + a.amount <= DailyCap
  BY <1>2 DEF PaysMerge
<1>5. \A b \in done : ~(IsMerge(b) /\ b.pull = p)
  BY DEF IsMerge, Ledger!IsPaid
<1>6. a \notin done
  BY <1>4, <1>5
<1>7. more \subseteq Ledger!Award /\ IsFiniteSet(more)
  BY <1>1, <1>4, FS_AddElement
<1>8. CapsKept(more)
  <2>1. ASSUME DailyCap > 0, NEW repo, NEW d
        PROVE  Ledger!Total(Ledger!OnDay(more, repo, d)) <= DailyCap
    <3> DEFINE S == Ledger!OnDay(done, repo, d)
    <3>1. Ledger!Total(S) <= DailyCap
      BY <1>1, <2>1 DEF CapsKept
    <3>2. CASE repo = RepoOf[p] /\ d = a.day
      <4>1. Ledger!OnDay(more, repo, d) = S \cup {a}
        BY <1>4, <3>2 DEF Ledger!OnDay, Ledger!MergesOf, IsMerge
      <4>2. S \subseteq done /\ \A b \in S : IsMerge(b)
        BY DEF Ledger!OnDay, Ledger!MergesOf, IsMerge
      <4>3. IsFiniteSet(S) /\ a \notin S /\ \A b \in S : b.amount \in Nat
        <5>1. IsFiniteSet(S)
          BY <1>1, <4>2, PartsOfLedger
        <5>2. \A b \in S : b.amount \in Nat
          BY <1>1, <4>2 DEF Kinds
        <5> QED BY <1>6, <4>2, <5>1, <5>2
      <4>4. Ledger!Total(S \cup {a}) = Ledger!Total(S) + a.amount
        <5> HIDE DEF S
        <5> QED BY <1>4, <4>3, TotalAdds
      <4> QED BY <1>4, <2>1, <3>1, <3>2, <4>1, <4>4
    <3>3. CASE ~(repo = RepoOf[p] /\ d = a.day)
      <4>1. Ledger!OnDay(more, repo, d) = S
        BY <1>4, <3>3 DEF Ledger!OnDay, Ledger!MergesOf
      <4> QED BY <3>1, <4>1
    <3> QED BY <3>2, <3>3
  <2>2. ASSUME NEW w PROVE Cardinality(Ledger!OpenedIn(more, w)) <= WeeklyCap
    <3>1. Ledger!OpenedIn(more, w) = Ledger!OpenedIn(done, w)
      BY <1>4 DEF Ledger!OpenedIn, IsMerge
    <3> QED BY <1>1, <3>1 DEF CapsKept
  <2> QED BY <2>1, <2>2 DEF CapsKept
<1>9. OnceOnly(more)
  <2>1. ASSUME NEW b \in done
        PROVE  /\ ~(a.source = b.source /\ a.pull = b.pull)
               /\ ~(a.source = "opened" /\ b.source = "opened")
               /\ ~(a.first /\ b.first /\ RepoOf[a.pull] = RepoOf[b.pull])
               /\ ~(IsMerge(a) /\ IsMerge(b) /\ a.pull = b.pull)
    <3>1. ~(IsMerge(b) /\ b.pull = p)
      BY <1>5
    <3>2. a.source = b.source => IsMerge(b)
      BY <1>4 DEF IsMerge
    <3>3. a.source # "opened"
      BY <1>4 DEF IsMerge
    <3>4. b.first => IsMerge(b)
      BY <1>1 DEF Kinds
    <3>5. IsMerge(b) /\ RepoOf[b.pull] = RepoOf[p] => b \in Ledger!MergesOf(done, RepoOf[p])
      BY DEF IsMerge, Ledger!MergesOf
    <3> QED BY <1>4, <3>1, <3>2, <3>3, <3>4, <3>5
  <2> QED BY <1>1, <2>1 DEF OnceOnly
<1>10. Kinds(more)
  <2>1. /\ a.source # "opened" /\ a.source # "opened_reversed"
    BY <1>4 DEF IsMerge
  <2> QED BY <1>1, <1>4, <2>1 DEF Kinds
<1> QED BY <1>2, <1>3, <1>7, <1>8, <1>9, <1>10 DEF FairAwards, a

----------------------------------------------------------------------------
\* Nothing is paid for opening p: its issues were all paid for, or its week is full.
Declined(done, p) ==
  \/ Opened = 0 \/ stored[p].state = "CLOSED" \/ Ledger!OpeningsOf(done, p) = {}
  \/ Cardinality(Ledger!OpenedIn(done, Ledger!Week(CreatedOn[p]))) >= WeeklyCap

PaysOpening(a, done, p) ==
  /\ a \in Ledger!Award /\ a.source = "opened" /\ a.pull = p /\ a.amount = Opened /\ a.first = FALSE
  /\ ~Ledger!OpenedFor(done, a.issue)
  /\ Cardinality(Ledger!OpenedIn(done, Ledger!Week(a.day))) < WeeklyCap
  /\ stored[p].state # "CLOSED"

LEMMA OpeningCases ==
  ASSUME NEW done, done \subseteq Ledger!Award, IsFiniteSet(done), NEW p \in PullRequest, stored[p] \in StoredRow
  PROVE  IF Declined(done, p) THEN Ledger!PayOpening(done, p) = done
         ELSE \E a : PaysOpening(a, done, p) /\ Ledger!PayOpening(done, p) = done \cup {a}
<1> DEFINE week == Ledger!OpenedIn(done, Ledger!Week(CreatedOn[p]))
           a == [source |-> "opened", pull |-> p, amount |-> Opened,
                 issue |-> Ledger!Min(Ledger!OpeningsOf(done, p)), first |-> FALSE, day |-> CreatedOn[p]]
<1>1. Ledger!Cardinality(week) = Cardinality(week)
  BY LedgerCardinality
<1>2. Ledger!PayOpening(done, p) = IF Declined(done, p) THEN done ELSE done \cup {a}
  BY <1>1 DEF Ledger!PayOpening, Declined
<1>3. ASSUME ~Declined(done, p)
      PROVE  PaysOpening(a, done, p)
  <2>1. Ledger!OpeningsOf(done, p) # {} /\ stored[p].state # "CLOSED" /\ ~(Cardinality(week) >= WeeklyCap)
    BY <1>3 DEF Declined
  <2>2. Ledger!OpeningsOf(done, p) \subseteq Issue
    BY DEF Ledger!OpeningsOf, StoredRow
  <2>3. Ledger!Min(Ledger!OpeningsOf(done, p)) \in Ledger!OpeningsOf(done, p)
    <3>1. Ledger!OpeningsOf(done, p) \in SUBSET Nat
      BY <2>2, LedgerNumbers
    <3> QED BY <2>1, <3>1, MinIsMember
  <2>4. a.issue \in Issue /\ ~Ledger!OpenedFor(done, a.issue)
    BY <2>2, <2>3 DEF Ledger!OpeningsOf
  <2>5. CreatedOn[p] \in Ledger!Day /\ Opened \in Int
    BY LedgerNumbers
  <2>6. a \in Ledger!Award
    <3> HIDE DEF Ledger!Min
    <3>1. a.issue = Ledger!Min(Ledger!OpeningsOf(done, p))
      OBVIOUS
    <3> QED BY <2>4, <2>5, <3>1 DEF Ledger!Award
  <2>7. Cardinality(week) \in Nat
    <3>1. week \subseteq done
      BY DEF Ledger!OpenedIn
    <3> QED BY <3>1, PartsOfLedger
  <2>8. Cardinality(Ledger!OpenedIn(done, Ledger!Week(a.day))) < WeeklyCap
    <3>1. a.day = CreatedOn[p] /\ WeeklyCap \in Nat
      BY LedgerNumbers
    <3> HIDE DEF a
    <3>2. ~(Cardinality(week) >= WeeklyCap)
      BY <2>1
    <3> HIDE DEF week
    <3>3. Cardinality(week) < WeeklyCap
      BY <2>7, <3>1, <3>2
    <3> QED BY <3>1, <3>3 DEF week
  <2> QED BY <2>1, <2>4, <2>6, <2>8 DEF PaysOpening
<1> HIDE DEF a
<1> QED BY <1>2, <1>3

LEMMA OpeningKeeps ==
  ASSUME NEW done, FairAwards(done), NEW p \in PullRequest, ~Ledger!IsPaid(done, "opened", p),
         NEW a, PaysOpening(a, done, p)
  PROVE  FairAwards(done \cup {a})
<1> DEFINE more == done \cup {a}
<1>1. /\ done \subseteq Ledger!Award /\ IsFiniteSet(done)
      /\ CapsKept(done) /\ OnceOnly(done) /\ Kinds(done)
  BY DEF FairAwards
<1>2. /\ a \in Ledger!Award /\ a.source = "opened" /\ a.pull = p /\ a.amount = Opened /\ a.first = FALSE
      /\ ~Ledger!OpenedFor(done, a.issue)
      /\ Cardinality(Ledger!OpenedIn(done, Ledger!Week(a.day))) < WeeklyCap
  BY DEF PaysOpening
<1>3. ~IsMerge(a) /\ a.source # "opened_reversed"
  BY <1>2 DEF IsMerge
<1>4. more \subseteq Ledger!Award /\ IsFiniteSet(more)
  BY <1>1, <1>2, FS_AddElement
<1>5. CapsKept(more)
  <2>1. ASSUME DailyCap > 0, NEW repo, NEW d
        PROVE  Ledger!Total(Ledger!OnDay(more, repo, d)) <= DailyCap
    <3>1. Ledger!OnDay(more, repo, d) = Ledger!OnDay(done, repo, d)
      BY <1>3 DEF Ledger!OnDay, Ledger!MergesOf, IsMerge
    <3> QED BY <1>1, <2>1, <3>1 DEF CapsKept
  <2>2. ASSUME NEW w PROVE Cardinality(Ledger!OpenedIn(more, w)) <= WeeklyCap
    <3> DEFINE S == Ledger!OpenedIn(done, w)
    <3>1. Cardinality(S) <= WeeklyCap
      BY <1>1 DEF CapsKept
    <3>2. CASE w = Ledger!Week(a.day)
      <4>1. Ledger!OpenedIn(more, w) = S \cup {a}
        BY <1>2, <3>2 DEF Ledger!OpenedIn
      <4>2. S \subseteq done
        BY DEF Ledger!OpenedIn
      <4>3. IsFiniteSet(S) /\ Cardinality(S) \in Nat /\ Cardinality(S) < WeeklyCap /\ WeeklyCap \in Nat
        BY <1>1, <1>2, <3>2, <4>2, PartsOfLedger, LedgerNumbers
      <4> HIDE DEF S
      <4>4. Cardinality(S \cup {a}) = IF a \in S THEN Cardinality(S) ELSE Cardinality(S) + 1
        BY <4>3, FS_AddElement
      <4>5. Cardinality(S \cup {a}) <= WeeklyCap
        <5> DEFINE n == Cardinality(S)
        <5>1. n \in Nat /\ n < WeeklyCap /\ WeeklyCap \in Nat
          BY <4>3
        <5>2. Cardinality(S \cup {a}) = IF a \in S THEN n ELSE n + 1
          BY <4>4
        <5> HIDE DEF n
        <5>3. n <= WeeklyCap /\ n + 1 <= WeeklyCap
          BY <5>1
        <5>4. CASE a \in S
          BY <5>2, <5>3, <5>4
        <5>5. CASE a \notin S
          BY <5>2, <5>3, <5>5
        <5> QED BY <5>4, <5>5
      <4> QED BY <4>1, <4>5
    <3>3. CASE w # Ledger!Week(a.day)
      <4>1. Ledger!OpenedIn(more, w) = S
        BY <3>3 DEF Ledger!OpenedIn
      <4> QED BY <3>1, <4>1
    <3> QED BY <3>2, <3>3
  <2> QED BY <2>1, <2>2 DEF CapsKept
<1>6. OnceOnly(more)
  <2>1. ASSUME NEW b \in done
        PROVE  /\ ~(a.source = b.source /\ a.pull = b.pull)
               /\ ~(b.source = "opened" /\ a.issue = b.issue)
    BY <1>2 DEF Ledger!IsPaid, Ledger!OpenedFor
  <2> QED BY <1>1, <1>2, <1>3, <2>1 DEF OnceOnly
<1>7. Kinds(more)
  BY <1>1, <1>2, <1>3 DEF Kinds
<1> QED BY <1>4, <1>5, <1>6, <1>7 DEF FairAwards

----------------------------------------------------------------------------
\* What is opened and not taken back, of a pull request closed unmerged.
LEMMA ReversalsKeep ==
  ASSUME NEW base, NEW done, FairAwards(base), FairAwards(done), base \subseteq done,
         \A a \in done \ base : a.source # "opened_reversed"
  PROVE  FairAwards(done \cup Ledger!Reversals(base))
<1> DEFINE back == Ledger!Reversals(base)
           more == done \cup back
           taken == {b \in base : /\ b.source = "opened" /\ stored[b.pull].state = "CLOSED"
                                  /\ ~Ledger!IsPaid(base, "opened_reversed", b.pull)}
           turned == [a \in taken |-> [a EXCEPT !.source = "opened_reversed", !.amount = 0 - @]]
<1>1. /\ done \subseteq Ledger!Award /\ IsFiniteSet(done)
      /\ CapsKept(done) /\ OnceOnly(done) /\ Kinds(done)
  BY DEF FairAwards
<1>2. base \subseteq Ledger!Award /\ IsFiniteSet(base) /\ Kinds(base)
  BY DEF FairAwards
<1>3. back = {turned[a] : a \in taken}
  BY DEF Ledger!Reversals
<1>4. ASSUME NEW b \in taken
      PROVE  /\ turned[b] \in Ledger!Award /\ turned[b].source = "opened_reversed"
             /\ turned[b].pull = b.pull /\ turned[b].amount = 0 - b.amount
             /\ turned[b].first = b.first /\ b \in base /\ b.source = "opened"
             /\ ~Ledger!IsPaid(base, "opened_reversed", b.pull) /\ b.first = FALSE
  <2>1. b \in base /\ b.source = "opened" /\ ~Ledger!IsPaid(base, "opened_reversed", b.pull)
    OBVIOUS
  <2>2. b \in Ledger!Award
    BY <1>2, <2>1
  <2>3. turned[b] = [b EXCEPT !.source = "opened_reversed", !.amount = 0 - b.amount]
    OBVIOUS
  <2> HIDE DEF turned, taken
  <2>4. /\ turned[b] \in Ledger!Award /\ turned[b].source = "opened_reversed"
        /\ turned[b].pull = b.pull /\ turned[b].amount = 0 - b.amount /\ turned[b].first = b.first
    <3>1. 0 - b.amount \in Int
      BY <2>2, AwardTypes
    <3> DEFINE n == 0 - b.amount
    <3> HIDE DEF n
    <3>2. /\ [b EXCEPT !.source = "opened_reversed", !.amount = n] \in Ledger!Award
          /\ [b EXCEPT !.source = "opened_reversed", !.amount = n].source = "opened_reversed"
          /\ [b EXCEPT !.source = "opened_reversed", !.amount = n].pull = b.pull
          /\ [b EXCEPT !.source = "opened_reversed", !.amount = n].amount = n
          /\ [b EXCEPT !.source = "opened_reversed", !.amount = n].first = b.first
      <4>1. n \in Int
        BY <3>1 DEF n
      <4> QED BY <2>2, <4>1 DEF Ledger!Award
    <3> QED BY <2>3, <3>2 DEF n
  <2>5. b.first = FALSE
    <3>1. ~IsMerge(b) /\ b.first \in BOOLEAN
      BY <2>1, <2>2, AwardTypes DEF IsMerge
    <3> QED BY <1>2, <2>1, <3>1 DEF Kinds
  <2> QED BY <2>1, <2>4, <2>5
<1> HIDE DEF turned, back
<1>5. IsFiniteSet(back)
  <2>1. taken \in SUBSET base
    OBVIOUS
  <2>2. IsFiniteSet(taken)
    BY <1>2, <2>1, FS_Subset
  <2>3. turned \in Surjection(taken, back)
    <3>1. DOMAIN turned = taken /\ turned = [x \in taken |-> turned[x]]
      BY DEF turned
    <3> QED BY <1>3, <3>1 DEF Surjection
  <2> QED BY <2>2, <2>3, FS_Surjection
<1> HIDE DEF taken
<1>6. ASSUME NEW a \in back
      PROVE  /\ a \in Ledger!Award /\ a.source = "opened_reversed" /\ ~IsMerge(a) /\ a.first = FALSE
             /\ \E b \in base : b.source = "opened" /\ b.pull = a.pull /\ a.amount = 0 - b.amount
             /\ ~Ledger!IsPaid(base, "opened_reversed", a.pull)
  <2>1. PICK b \in taken : a = turned[b]
    BY <1>3
  <2> QED BY <1>4, <2>1 DEF IsMerge
<1>7. more \subseteq Ledger!Award /\ IsFiniteSet(more)
  BY <1>1, <1>5, <1>6, FS_Union
<1>8. CapsKept(more)
  <2>1. \A repo, d : Ledger!OnDay(more, repo, d) = Ledger!OnDay(done, repo, d)
    BY <1>6 DEF Ledger!OnDay, Ledger!MergesOf
  <2>2. \A w : Ledger!OpenedIn(more, w) = Ledger!OpenedIn(done, w)
    BY <1>6 DEF Ledger!OpenedIn
  <2> QED BY <1>1, <2>1, <2>2 DEF CapsKept
<1>9. OnceOnly(more)
  <2>1. ASSUME NEW a \in back, NEW b \in back, a # b
        PROVE  a.pull # b.pull
    <3>1. PICK x \in taken : a = turned[x]
      BY <1>3
    <3>2. PICK y \in taken : b = turned[y]
      BY <1>3
    <3>3. x # y /\ x \in done /\ y \in done /\ x.source = "opened" /\ y.source = "opened"
      BY <1>4, <2>1, <3>1, <3>2
    <3>4. x.pull # y.pull
      BY <1>1, <3>3 DEF OnceOnly
    <3> QED BY <1>4, <3>1, <3>2, <3>4
  <2>2. ASSUME NEW a \in back, NEW b \in done
        PROVE  ~(a.source = b.source /\ a.pull = b.pull)
    <3>1. CASE b \in base
      BY <1>6, <3>1 DEF Ledger!IsPaid
    <3>2. CASE b \notin base
      BY <1>6, <3>2
    <3> QED BY <3>1, <3>2
  <2>3. \A a \in back : a.source # "opened" /\ ~a.first /\ ~IsMerge(a)
    BY <1>6
  <2>4. \A a, b \in done : a # b =>
          /\ ~(a.source = b.source /\ a.pull = b.pull)
          /\ ~(a.source = "opened" /\ b.source = "opened" /\ a.issue = b.issue)
          /\ ~(a.first /\ b.first /\ RepoOf[a.pull] = RepoOf[b.pull])
          /\ ~(IsMerge(a) /\ IsMerge(b) /\ a.pull = b.pull)
    BY <1>1 DEF OnceOnly
  <2> QED BY <2>1, <2>2, <2>3, <2>4 DEF OnceOnly
<1>10. Kinds(more)
  <2>1. \A a \in back : /\ ~IsMerge(a) /\ a.first = FALSE /\ a.source = "opened_reversed"
                        /\ \E b \in done : b.source = "opened" /\ b.pull = a.pull /\ a.amount = 0 - b.amount
    BY <1>6
  <2> QED BY <1>1, <2>1 DEF Kinds
<1> QED BY <1>7, <1>8, <1>9, <1>10 DEF FairAwards, back

----------------------------------------------------------------------------
(* Awards are planned one after another, oldest first. *)

Numbered(day) == \A p \in PullRequest : p \in Nat /\ day[p] \in Nat

LEMMA LastOfIsMember ==
  ASSUME NEW day, Numbered(day), NEW S \in SUBSET PullRequest, S # {}
  PROVE  Ledger!LastOf(S, day) \in S
<1> DEFINE R == {e \in PullRequest \X PullRequest :
                   day[e[1]] < day[e[2]] \/ (day[e[1]] = day[e[2]] /\ e[1] < e[2])}
<1>1. \A p, q \in PullRequest : <<p, q>> \in R <=> day[p] < day[q] \/ (day[p] = day[q] /\ p < q)
  OBVIOUS
<1> HIDE DEF R
<1>2. StrictOrder(R, PullRequest)
  <2> DEFINE Before(p, q) == day[p] < day[q] \/ (day[p] = day[q] /\ p < q)
  <2>1. \A p, q \in PullRequest : <<p, q>> \in R <=> Before(p, q)
    BY <1>1
  <2>2. \A p \in PullRequest : ~Before(p, p)
    BY DEF Numbered
  <2>3. \A p, q, r \in PullRequest : Before(p, q) /\ Before(q, r) => Before(p, r)
    <3> SUFFICES ASSUME NEW p \in PullRequest, NEW q \in PullRequest, NEW r \in PullRequest,
                        Before(p, q), Before(q, r)
                 PROVE  Before(p, r)
      OBVIOUS
    <3>1. p \in Nat /\ q \in Nat /\ r \in Nat /\ day[p] \in Nat /\ day[q] \in Nat /\ day[r] \in Nat
      BY DEF Numbered
    <3> QED BY <3>1
  <2>4. \A p, q \in PullRequest : p = q \/ Before(p, q) \/ Before(q, p)
    BY DEF Numbered
  <2> HIDE DEF Before
  <2> QED BY <2>1, <2>2, <2>3, <2>4 DEF StrictOrder
<1>3. IsFiniteSet(S)
  BY LedgerNumbers, FS_Subset
<1>4. PICK m \in S : \A q \in S : q = m \/ <<q, m>> \in R
  BY <1>2, <1>3, GreatestInOrder
<1>5. \A q \in S : day[q] < day[m] \/ (day[q] = day[m] /\ q <= m)
  <2> SUFFICES ASSUME NEW q \in S PROVE day[q] < day[m] \/ (day[q] = day[m] /\ q <= m)
    OBVIOUS
  <2>1. q \in PullRequest /\ m \in PullRequest /\ q \in Nat /\ m \in Nat
    BY DEF Numbered
  <2>2. CASE q = m
    BY <2>1, <2>2
  <2>3. CASE q # m
    <3>1. <<q, m>> \in R
      BY <1>4, <2>3
    <3>2. day[q] < day[m] \/ (day[q] = day[m] /\ q < m)
      BY <1>1, <2>1, <3>1
    <3> DEFINE dq == day[q]
               dm == day[m]
    <3> HIDE DEF dq, dm
    <3>3. dq < dm \/ (dq = dm /\ q < m)
      BY <3>2 DEF dq, dm
    <3>4. dq < dm \/ (dq = dm /\ q <= m)
      BY <2>1, <3>3
    <3> QED BY <3>4 DEF dq, dm
  <2> QED BY <2>2, <2>3
<1> QED BY <1>5 DEF Ledger!LastOf

AwardSets == {X \in SUBSET Ledger!Award : IsFiniteSet(X)}
Rows == \A p \in PullRequest : stored[p] \in StoredRow
MergedOn == [p \in PullRequest |-> stored[p].merged]

\* f gives what was paid when the members of a set have had their turn.
MergesInTurn(f, T, done) ==
  f = [S \in SUBSET T |-> IF S = {} THEN done
                          ELSE Ledger!PayMerge(f[S \ {Ledger!LastOf(S, MergedOn)}], Ledger!LastOf(S, MergedOn))]
OpeningsInTurn(f, T, done) ==
  f = [S \in SUBSET T |-> IF S = {} THEN done
                          ELSE Ledger!PayOpening(f[S \ {Ledger!LastOf(S, CreatedOn)}], Ledger!LastOf(S, CreatedOn))]

LEMMA PayMergesWalks ==
  ASSUME NEW done \in AwardSets, Rows
  PROVE  \E f : MergesInTurn(f, Ledger!MergesToPay(done), done) /\ Ledger!PayMerges(done) = f[Ledger!MergesToPay(done)]
<1> DEFINE T == Ledger!MergesToPay(done)
           last == [S \in SUBSET T |-> Ledger!LastOf(S, MergedOn)]
           step == [x \in AwardSets \X T |-> Ledger!PayMerge(x[1], x[2])]
<1>1. T \subseteq PullRequest /\ IsFiniteSet(T)
  <2>1. T \in SUBSET PullRequest
    BY DEF Ledger!MergesToPay
  <2> QED BY <2>1, LedgerNumbers, FS_Subset
<1>2. Ledger!PayMerges(done) = (CHOOSE f : MergesInTurn(f, T, done))[T]
  BY DEF Ledger!PayMerges, MergesInTurn, MergedOn
<1> HIDE DEF T
<1>3. Numbered(MergedOn)
  BY LedgerNumbers DEF Numbered, MergedOn, Rows, StoredRow
<1>4. \A S \in SUBSET T : S # {} => last[S] \in S
  BY <1>1, <1>3, LastOfIsMember
<1>5. step \in [AwardSets \X T -> AwardSets]
  <2> SUFFICES ASSUME NEW x \in AwardSets \X T PROVE Ledger!PayMerge(x[1], x[2]) \in AwardSets
    OBVIOUS
  <2>1. x[1] \subseteq Ledger!Award /\ IsFiniteSet(x[1]) /\ x[2] \in PullRequest /\ stored[x[2]] \in StoredRow
    BY <1>1 DEF AwardSets, Rows
  <2>2. Ledger!MergeAward(x[1], x[2]) \in Ledger!Award
    BY <2>1, MergeAwardPays DEF PaysMerge
  <2>3. IsFiniteSet(x[1] \cup {Ledger!MergeAward(x[1], x[2])})
    BY <2>1, FS_AddElement
  <2> QED BY <2>1, <2>2, <2>3 DEF Ledger!PayMerge, AwardSets
<1>6. PICK f \in [SUBSET T -> AwardSets] : Walks(f, SUBSET T, done, last, step)
  <2> HIDE DEF last, step
  <2> QED BY <1>1, <1>4, <1>5, WalkExists
<1>7. MergesInTurn(f, T, done)
  <2>1. ASSUME NEW S \in SUBSET T
        PROVE  f[S] = IF S = {} THEN done
                      ELSE Ledger!PayMerge(f[S \ {Ledger!LastOf(S, MergedOn)}], Ledger!LastOf(S, MergedOn))
    <3>1. f[S] = IF S = {} THEN done ELSE step[<<f[S \ {last[S]}], last[S]>>]
      BY <1>6 DEF Walks
    <3>2. CASE S = {}
      BY <3>1, <3>2
    <3>3. CASE S # {}
      <4>1. last[S] = Ledger!LastOf(S, MergedOn) /\ last[S] \in T /\ f[S \ {last[S]}] \in AwardSets
        BY <1>4, <1>6, <3>3
      <4>2. step[<<f[S \ {last[S]}], last[S]>>] = Ledger!PayMerge(f[S \ {last[S]}], last[S])
        <5> HIDE DEF last
        <5> QED BY <4>1
      <4> QED BY <3>1, <3>3, <4>1, <4>2
    <3> QED BY <3>2, <3>3
  <2>2. f = [S \in SUBSET T |-> f[S]]
    BY <1>6
  <2> QED BY <2>1, <2>2 DEF MergesInTurn
<1>8. MergesInTurn(CHOOSE g : MergesInTurn(g, T, done), T, done)
  BY <1>7
<1> QED BY <1>2, <1>8 DEF T

LEMMA PayOpeningsWalks ==
  ASSUME NEW done \in AwardSets, Rows
  PROVE  \E f : OpeningsInTurn(f, Ledger!OpeningsToPay(done), done) /\ Ledger!PayOpenings(done) = f[Ledger!OpeningsToPay(done)]
<1> DEFINE T == Ledger!OpeningsToPay(done)
           last == [S \in SUBSET T |-> Ledger!LastOf(S, CreatedOn)]
           step == [x \in AwardSets \X T |-> Ledger!PayOpening(x[1], x[2])]
<1>1. T \subseteq PullRequest /\ IsFiniteSet(T)
  <2>1. T \in SUBSET PullRequest
    BY DEF Ledger!OpeningsToPay
  <2> QED BY <2>1, LedgerNumbers, FS_Subset
<1>2. Ledger!PayOpenings(done) = (CHOOSE f : OpeningsInTurn(f, T, done))[T]
  BY DEF Ledger!PayOpenings, OpeningsInTurn
<1> HIDE DEF T
<1>3. Numbered(CreatedOn)
  BY LedgerNumbers DEF Numbered
<1>4. \A S \in SUBSET T : S # {} => last[S] \in S
  BY <1>1, <1>3, LastOfIsMember
<1>5. step \in [AwardSets \X T -> AwardSets]
  <2> SUFFICES ASSUME NEW x \in AwardSets \X T PROVE Ledger!PayOpening(x[1], x[2]) \in AwardSets
    OBVIOUS
  <2>1. /\ x[1] \in AwardSets /\ x[1] \subseteq Ledger!Award /\ IsFiniteSet(x[1])
        /\ x[2] \in PullRequest /\ stored[x[2]] \in StoredRow
    BY <1>1 DEF AwardSets, Rows
  <2>2. CASE Declined(x[1], x[2])
    BY <2>1, <2>2, OpeningCases
  <2>3. CASE ~Declined(x[1], x[2])
    <3>1. PICK a : PaysOpening(a, x[1], x[2]) /\ Ledger!PayOpening(x[1], x[2]) = x[1] \cup {a}
      BY <2>1, <2>3, OpeningCases
    <3>2. a \in Ledger!Award
      BY <3>1 DEF PaysOpening
    <3>3. IsFiniteSet(x[1] \cup {a})
      BY <2>1, FS_AddElement
    <3> QED BY <2>1, <3>1, <3>2, <3>3 DEF AwardSets
  <2> QED BY <2>2, <2>3
<1>6. PICK f \in [SUBSET T -> AwardSets] : Walks(f, SUBSET T, done, last, step)
  <2> HIDE DEF last, step
  <2> QED BY <1>1, <1>4, <1>5, WalkExists
<1>7. OpeningsInTurn(f, T, done)
  <2>1. ASSUME NEW S \in SUBSET T
        PROVE  f[S] = IF S = {} THEN done
                      ELSE Ledger!PayOpening(f[S \ {Ledger!LastOf(S, CreatedOn)}], Ledger!LastOf(S, CreatedOn))
    <3>1. f[S] = IF S = {} THEN done ELSE step[<<f[S \ {last[S]}], last[S]>>]
      BY <1>6 DEF Walks
    <3>2. CASE S = {}
      BY <3>1, <3>2
    <3>3. CASE S # {}
      <4>1. last[S] = Ledger!LastOf(S, CreatedOn) /\ last[S] \in T /\ f[S \ {last[S]}] \in AwardSets
        BY <1>4, <1>6, <3>3
      <4>2. step[<<f[S \ {last[S]}], last[S]>>] = Ledger!PayOpening(f[S \ {last[S]}], last[S])
        <5> HIDE DEF last
        <5> QED BY <4>1
      <4> QED BY <3>1, <3>3, <4>1, <4>2
    <3> QED BY <3>2, <3>3
  <2>2. f = [S \in SUBSET T |-> f[S]]
    BY <1>6
  <2> QED BY <2>1, <2>2 DEF OpeningsInTurn
<1>8. OpeningsInTurn(CHOOSE g : OpeningsInTurn(g, T, done), T, done)
  BY <1>7
<1> QED BY <1>2, <1>8 DEF T

----------------------------------------------------------------------------
\* What has been paid once the merges of S, or the openings of S, had their turn.
MergesDone(now, done, S) ==
  /\ FairAwards(now) /\ done \subseteq now
  /\ \A a \in now \ done : /\ IsMerge(a) /\ a.pull \in S /\ a.day = stored[a.pull].merged
                           /\ a.source = "merged" => a.day >= Joined
  /\ \A p \in S : \E a \in now : IsMerge(a) /\ a.pull = p
OpeningsDone(now, done, S) ==
  /\ FairAwards(now) /\ done \subseteq now
  /\ \A a \in now \ done : a.source = "opened" /\ a.pull \in S /\ stored[a.pull].state # "CLOSED"
  /\ \A p \in S : Ledger!IsPaid(now, "opened", p) \/ Declined(now, p)

LEMMA MergeTurn ==
  ASSUME NEW done, NEW now, NEW S, MergesDone(now, done, S), NEW p \in PullRequest, p \notin S,
         stored[p] \in StoredRow, ~Ledger!IsPaid(done, "merged", p), ~Ledger!IsPaid(done, "backfill", p)
  PROVE  MergesDone(Ledger!PayMerge(now, p), done, S \cup {p})
<1> DEFINE a == Ledger!MergeAward(now, p)
           more == Ledger!PayMerge(now, p)
<1>1. /\ FairAwards(now) /\ done \subseteq now
      /\ \A b \in now \ done : /\ IsMerge(b) /\ b.pull \in S /\ b.day = stored[b.pull].merged
                               /\ b.source = "merged" => b.day >= Joined
      /\ \A q \in S : \E b \in now : IsMerge(b) /\ b.pull = q
  BY DEF MergesDone
<1>2. ~Ledger!IsPaid(now, "merged", p) /\ ~Ledger!IsPaid(now, "backfill", p)
  BY <1>1 DEF Ledger!IsPaid
<1>3. FairAwards(more) /\ PaysMerge(a, now, p)
  BY <1>1, <1>2, MergeKeeps
<1>4. more = now \cup {a}
  BY DEF Ledger!PayMerge
<1> HIDE DEF a, more
<1>5. a.pull = p /\ a.day = stored[p].merged /\ IsMerge(a) /\ (a.source = "merged" => a.day >= Joined)
  BY <1>3 DEF PaysMerge
<1>6. \A b \in more \ done : /\ IsMerge(b) /\ b.pull \in S \cup {p} /\ b.day = stored[b.pull].merged
                             /\ b.source = "merged" => b.day >= Joined
  BY <1>1, <1>4, <1>5
<1>7. \A q \in S \cup {p} : \E b \in more : IsMerge(b) /\ b.pull = q
  BY <1>1, <1>4, <1>5
<1>8. done \subseteq more
  BY <1>1, <1>4
<1> QED BY <1>3, <1>6, <1>7, <1>8 DEF MergesDone, more

\* Who is declined stays so as more is paid.
LEMMA DeclinedStays ==
  ASSUME NEW old, NEW now, FairAwards(now), old \subseteq now, NEW p, Declined(old, p)
  PROVE  Declined(now, p)
<1>1. CASE Opened = 0 \/ stored[p].state = "CLOSED"
  BY <1>1 DEF Declined
<1>2. CASE Ledger!OpeningsOf(old, p) = {}
  <2>1. Ledger!OpeningsOf(now, p) \subseteq Ledger!OpeningsOf(old, p)
    BY DEF Ledger!OpeningsOf, Ledger!OpenedFor
  <2> QED BY <1>2, <2>1 DEF Declined
<1>3. CASE Cardinality(Ledger!OpenedIn(old, Ledger!Week(CreatedOn[p]))) >= WeeklyCap
  <2> DEFINE w == Ledger!Week(CreatedOn[p])
             S == Ledger!OpenedIn(old, w)
             U == Ledger!OpenedIn(now, w)
  <2>1. S \in SUBSET U /\ U \subseteq now
    BY DEF Ledger!OpenedIn
  <2>2. now \subseteq Ledger!Award /\ IsFiniteSet(now)
    BY DEF FairAwards
  <2>3. IsFiniteSet(U) /\ Cardinality(U) \in Nat
    BY <2>1, <2>2, PartsOfLedger
  <2>4. Cardinality(S) >= WeeklyCap
    BY <1>3
  <2> HIDE DEF S, U, w
  <2>5. Cardinality(S) <= Cardinality(U) /\ Cardinality(S) \in Nat
    BY <2>1, <2>3, FS_Subset, FS_CardinalityType
  <2>6. WeeklyCap \in Nat
    BY LedgerNumbers
  <2>7. Cardinality(U) >= WeeklyCap
    BY <2>3, <2>4, <2>5, <2>6
  <2> QED BY <2>7 DEF Declined, U, w
<1> QED BY <1>1, <1>2, <1>3 DEF Declined

LEMMA OpeningTurn ==
  ASSUME NEW done, NEW now, NEW S, OpeningsDone(now, done, S), NEW p \in PullRequest, p \notin S,
         stored[p] \in StoredRow, ~Ledger!IsPaid(done, "opened", p)
  PROVE  OpeningsDone(Ledger!PayOpening(now, p), done, S \cup {p})
<1> DEFINE more == Ledger!PayOpening(now, p)
<1>1. /\ FairAwards(now) /\ done \subseteq now
      /\ \A a \in now \ done : a.source = "opened" /\ a.pull \in S /\ stored[a.pull].state # "CLOSED"
      /\ \A q \in S : Ledger!IsPaid(now, "opened", q) \/ Declined(now, q)
  BY DEF OpeningsDone
<1>2. now \subseteq Ledger!Award /\ IsFiniteSet(now)
  BY <1>1 DEF FairAwards
<1>3. ~Ledger!IsPaid(now, "opened", p)
  BY <1>1 DEF Ledger!IsPaid
<1>4. IF Declined(now, p) THEN more = now
      ELSE \E a : PaysOpening(a, now, p) /\ more = now \cup {a}
  BY <1>2, OpeningCases
<1> HIDE DEF more
<1>5. CASE Declined(now, p)
  BY <1>1, <1>4, <1>5 DEF OpeningsDone, more
<1>6. CASE ~Declined(now, p)
  <2>1. PICK a : PaysOpening(a, now, p) /\ more = now \cup {a}
    BY <1>4, <1>6
  <2>2. FairAwards(more)
    BY <1>1, <1>3, <2>1, OpeningKeeps
  <2>3. a.source = "opened" /\ a.pull = p /\ stored[p].state # "CLOSED"
    BY <2>1 DEF PaysOpening
  <2>4. \A b \in more \ done : b.source = "opened" /\ b.pull \in S \cup {p} /\ stored[b.pull].state # "CLOSED"
    BY <1>1, <2>1, <2>3
  <2>5. now \subseteq more /\ done \subseteq more
    BY <1>1, <2>1
  <2>6. ASSUME NEW q \in S \cup {p}
        PROVE  Ledger!IsPaid(more, "opened", q) \/ Declined(more, q)
    <3>1. CASE q = p
      BY <2>1, <2>3, <3>1 DEF Ledger!IsPaid
    <3>2. CASE q \in S
      <4>1. CASE Ledger!IsPaid(now, "opened", q)
        BY <2>5, <4>1 DEF Ledger!IsPaid
      <4>2. CASE Declined(now, q)
        BY <2>2, <2>5, <4>2, DeclinedStays
      <4> QED BY <1>1, <3>2, <4>1, <4>2
    <3> QED BY <3>1, <3>2
  <2> QED BY <2>2, <2>4, <2>5, <2>6 DEF OpeningsDone, more
<1> QED BY <1>5, <1>6

LEMMA MergesAllDone ==
  ASSUME NEW done, FairAwards(done), Rows
  PROVE  MergesDone(Ledger!PayMerges(done), done, Ledger!MergesToPay(done))
<1> DEFINE T == Ledger!MergesToPay(done)
<1>1. done \in AwardSets
  BY DEF FairAwards, AwardSets
<1>2. PICK f : MergesInTurn(f, T, done) /\ Ledger!PayMerges(done) = f[T]
  BY <1>1, PayMergesWalks
<1>3. T \in SUBSET PullRequest /\ IsFiniteSet(T)
  <2>1. T \in SUBSET PullRequest
    BY DEF Ledger!MergesToPay
  <2> QED BY <2>1, LedgerNumbers, FS_Subset
<1>4. \A p \in T : ~Ledger!IsPaid(done, "merged", p) /\ ~Ledger!IsPaid(done, "backfill", p)
  BY DEF Ledger!MergesToPay
<1> DEFINE Good == {S \in SUBSET T : MergesDone(f[S], done, S)}
<1> HIDE DEF T
<1>5. {} \in Good
  <2>1. f[{}] = done
    BY <1>2 DEF MergesInTurn
  <2>2. MergesDone(done, done, {})
    BY DEF MergesDone
  <2> QED BY <2>1, <2>2
<1>6. ASSUME NEW S \in SUBSET T, S # {}
      PROVE  \E p \in S : S \ {p} \in Good => S \in Good
  <2> DEFINE p == Ledger!LastOf(S, MergedOn)
  <2>1. p \in S
    <3>1. Numbered(MergedOn)
      BY LedgerNumbers DEF Numbered, MergedOn, Rows, StoredRow
    <3> QED BY <1>3, <1>6, <3>1, LastOfIsMember
  <2>2. f[S] = Ledger!PayMerge(f[S \ {p}], p)
    BY <1>2, <1>6 DEF MergesInTurn
  <2> HIDE DEF p
  <2>3. ASSUME S \ {p} \in Good
        PROVE  S \in Good
    <3>1. MergesDone(f[S \ {p}], done, S \ {p})
      BY <2>3
    <3>2. p \in PullRequest /\ stored[p] \in StoredRow
      BY <1>3, <2>1 DEF Rows
    <3>3. ~Ledger!IsPaid(done, "merged", p) /\ ~Ledger!IsPaid(done, "backfill", p)
      BY <1>4, <2>1
    <3>4. MergesDone(Ledger!PayMerge(f[S \ {p}], p), done, (S \ {p}) \cup {p})
      BY <3>1, <3>2, <3>3, MergeTurn
    <3>5. (S \ {p}) \cup {p} = S
      BY <2>1
    <3> QED BY <2>2, <3>4, <3>5
  <2> QED BY <2>1, <2>3
<1>7. Inherited(T, Good)
  <2> HIDE DEF Good
  <2> QED BY <1>6 DEF Inherited
<1>8. T \in Good
  <2> HIDE DEF Good
  <2>1. SUBSET T \subseteq Good
    BY <1>3, <1>5, <1>7, SubsetInduction
  <2> QED BY <2>1
<1> QED BY <1>2, <1>8 DEF T

LEMMA OpeningsAllDone ==
  ASSUME NEW done, FairAwards(done), Rows
  PROVE  OpeningsDone(Ledger!PayOpenings(done), done, Ledger!OpeningsToPay(done))
<1> DEFINE T == Ledger!OpeningsToPay(done)
<1>1. done \in AwardSets
  BY DEF FairAwards, AwardSets
<1>2. PICK f : OpeningsInTurn(f, T, done) /\ Ledger!PayOpenings(done) = f[T]
  BY <1>1, PayOpeningsWalks
<1>3. T \in SUBSET PullRequest /\ IsFiniteSet(T)
  <2>1. T \in SUBSET PullRequest
    BY DEF Ledger!OpeningsToPay
  <2> QED BY <2>1, LedgerNumbers, FS_Subset
<1>4. \A p \in T : ~Ledger!IsPaid(done, "opened", p)
  BY DEF Ledger!OpeningsToPay
<1> DEFINE Good == {S \in SUBSET T : OpeningsDone(f[S], done, S)}
<1> HIDE DEF T
<1>5. {} \in Good
  <2>1. f[{}] = done
    BY <1>2 DEF OpeningsInTurn
  <2>2. OpeningsDone(done, done, {})
    BY DEF OpeningsDone
  <2> QED BY <2>1, <2>2
<1>6. ASSUME NEW S \in SUBSET T, S # {}
      PROVE  \E p \in S : S \ {p} \in Good => S \in Good
  <2> DEFINE p == Ledger!LastOf(S, CreatedOn)
  <2>1. p \in S
    <3>1. Numbered(CreatedOn)
      BY LedgerNumbers DEF Numbered
    <3> QED BY <1>3, <1>6, <3>1, LastOfIsMember
  <2>2. f[S] = Ledger!PayOpening(f[S \ {p}], p)
    BY <1>2, <1>6 DEF OpeningsInTurn
  <2> HIDE DEF p
  <2>3. ASSUME S \ {p} \in Good
        PROVE  S \in Good
    <3>1. OpeningsDone(f[S \ {p}], done, S \ {p})
      BY <2>3
    <3>2. p \in PullRequest /\ stored[p] \in StoredRow
      BY <1>3, <2>1 DEF Rows
    <3>3. ~Ledger!IsPaid(done, "opened", p)
      BY <1>4, <2>1
    <3>4. OpeningsDone(Ledger!PayOpening(f[S \ {p}], p), done, (S \ {p}) \cup {p})
      BY <3>1, <3>2, <3>3, OpeningTurn
    <3>5. (S \ {p}) \cup {p} = S
      BY <2>1
    <3> QED BY <2>2, <3>4, <3>5
  <2> QED BY <2>1, <2>3
<1>7. Inherited(T, Good)
  <2> HIDE DEF Good
  <2> QED BY <1>6 DEF Inherited
<1>8. T \in Good
  <2> HIDE DEF Good
  <2>1. SUBSET T \subseteq Good
    BY <1>3, <1>5, <1>7, SubsetInduction
  <2> QED BY <2>1
<1> QED BY <1>2, <1>8 DEF T

\* Nothing to pay pays nothing.
LEMMA MergesIdle ==
  ASSUME NEW done \in AwardSets, Rows, Ledger!MergesToPay(done) = {}
  PROVE  Ledger!PayMerges(done) = done
<1>1. PICK f : MergesInTurn(f, {}, done) /\ Ledger!PayMerges(done) = f[{}]
  BY PayMergesWalks
<1> QED BY <1>1 DEF MergesInTurn

LEMMA OpeningsIdle ==
  ASSUME NEW done \in AwardSets, Rows, \A p \in Ledger!OpeningsToPay(done) : Declined(done, p)
  PROVE  Ledger!PayOpenings(done) = done
<1> DEFINE T == Ledger!OpeningsToPay(done)
<1>1. PICK f : OpeningsInTurn(f, T, done) /\ Ledger!PayOpenings(done) = f[T]
  BY PayOpeningsWalks
<1>2. T \in SUBSET PullRequest /\ IsFiniteSet(T)
  <2>1. T \in SUBSET PullRequest
    BY DEF Ledger!OpeningsToPay
  <2> QED BY <2>1, LedgerNumbers, FS_Subset
<1>3. \A p \in T : Declined(done, p)
  OBVIOUS
<1> DEFINE Good == {S \in SUBSET T : f[S] = done}
<1> HIDE DEF T
<1>4. {} \in Good
  BY <1>1 DEF OpeningsInTurn
<1>5. ASSUME NEW S \in SUBSET T, S # {}
      PROVE  \E p \in S : S \ {p} \in Good => S \in Good
  <2> DEFINE p == Ledger!LastOf(S, CreatedOn)
  <2>1. p \in S
    <3>1. Numbered(CreatedOn)
      BY LedgerNumbers DEF Numbered
    <3> QED BY <1>2, <1>5, <3>1, LastOfIsMember
  <2>2. f[S] = Ledger!PayOpening(f[S \ {p}], p)
    BY <1>1, <1>5 DEF OpeningsInTurn
  <2> HIDE DEF p
  <2>3. done \subseteq Ledger!Award /\ IsFiniteSet(done) /\ p \in PullRequest /\ stored[p] \in StoredRow
    BY <1>2, <2>1 DEF AwardSets, Rows
  <2>4. Ledger!PayOpening(done, p) = done
    BY <1>3, <2>1, <2>3, OpeningCases
  <2> QED BY <2>1, <2>2, <2>4
<1>6. Inherited(T, Good)
  <2> HIDE DEF Good
  <2> QED BY <1>5 DEF Inherited
<1>7. T \in Good
  <2> HIDE DEF Good
  <2>1. SUBSET T \subseteq Good
    BY <1>2, <1>4, <1>6, SubsetInduction
  <2> QED BY <2>1
<1> QED BY <1>1, <1>7 DEF T

----------------------------------------------------------------------------
\* There is nothing left to pay: what awarding leaves behind.
Quiet(done) ==
  /\ Ledger!MergesToPay(done) = {}
  /\ \A p \in Ledger!OpeningsToPay(done) : Declined(done, p)
  /\ Ledger!Reversals(done) = {}

MergedRows(rows) == \A p \in PullRequest : rows[p].merged = 0 <=> rows[p].state # "MERGED"

LedgerInv ==
  /\ Ledger!TypeOK /\ MergedRows(stored)
  /\ FairAwards(ledger) /\ Grounded(ledger, stored)
  /\ settled => Quiet(ledger)
  /\ quests # {} => \E a \in ledger : a.source = "merged"

LEMMA RowsAreTyped ==
  ASSUME stored \in [PullRequest -> Ledger!PullRow \cup {Ledger!Unseen}]
  PROVE  Rows
<1> SUFFICES ASSUME NEW p \in PullRequest PROVE stored[p] \in StoredRow
  BY DEF Rows
<1>1. stored[p] \in Ledger!PullRow \cup {Ledger!Unseen}
  OBVIOUS
<1>2. Ledger!PullRow \subseteq StoredRow
  BY LedgerNumbers DEF Ledger!PullRow, StoredRow
<1>3. Ledger!Unseen \in StoredRow
  BY LedgerNumbers DEF Ledger!Unseen, StoredRow
<1> QED BY <1>1, <1>2, <1>3

LEMMA PlanKeeps ==
  ASSUME NEW done, FairAwards(done), Grounded(done, stored), Rows
  PROVE  /\ FairAwards(Ledger!Plan(done)) /\ Grounded(Ledger!Plan(done), stored)
         /\ done \subseteq Ledger!Plan(done) /\ Quiet(Ledger!Plan(done))
<1> DEFINE one == Ledger!PayMerges(done)
           two == Ledger!PayOpenings(one)
           back == Ledger!Reversals(done)
           new == Ledger!Plan(done)
<1>1. MergesDone(one, done, Ledger!MergesToPay(done))
  BY MergesAllDone
<1>2. /\ FairAwards(one) /\ done \subseteq one
      /\ \A a \in one \ done : /\ IsMerge(a) /\ a.pull \in Ledger!MergesToPay(done) /\ a.day = stored[a.pull].merged
                               /\ a.source = "merged" => a.day >= Joined
      /\ \A p \in Ledger!MergesToPay(done) : \E a \in one : IsMerge(a) /\ a.pull = p
  BY <1>1 DEF MergesDone
<1>3. OpeningsDone(two, one, Ledger!OpeningsToPay(one))
  BY <1>2, OpeningsAllDone
<1>4. /\ FairAwards(two) /\ one \subseteq two
      /\ \A a \in two \ one : a.source = "opened" /\ stored[a.pull].state # "CLOSED"
      /\ \A p \in Ledger!OpeningsToPay(one) : Ledger!IsPaid(two, "opened", p) \/ Declined(two, p)
  BY <1>3 DEF OpeningsDone
<1>5. new = two \cup back
  BY DEF Ledger!Plan
<1> HIDE DEF one, two, back, new
<1>6. done \subseteq two /\ \A a \in two \ done : a.source # "opened_reversed"
  BY <1>2, <1>4 DEF IsMerge
<1>7. FairAwards(new)
  <2>1. FairAwards(two \cup Ledger!Reversals(done))
    BY <1>4, <1>6, ReversalsKeep
  <2> QED BY <1>5, <2>1 DEF back
<1>8. \A a \in back : a.source = "opened_reversed"
  BY DEF back, Ledger!Reversals, FairAwards, Ledger!Award
<1>9. Grounded(new, stored)
  <2> SUFFICES ASSUME NEW a \in new, IsMerge(a)
               PROVE  /\ stored[a.pull].state = "MERGED" /\ a.day = stored[a.pull].merged
                      /\ a.source = "merged" => a.day >= Joined
    BY DEF Grounded
  <2>1. a \in one
    BY <1>4, <1>5, <1>8 DEF IsMerge
  <2>2. CASE a \in done
    BY <2>2 DEF Grounded
  <2>3. CASE a \notin done
    <3>1. a.pull \in Ledger!MergesToPay(done)
      BY <1>2, <2>1, <2>3
    <3>2. stored[a.pull].state = "MERGED"
      BY <3>1 DEF Ledger!MergesToPay
    <3> QED BY <1>2, <2>1, <2>3, <3>2
  <2> QED BY <2>2, <2>3
<1>10. Ledger!MergesToPay(new) = {}
  <2> SUFFICES ASSUME NEW p \in Ledger!MergesToPay(new) PROVE FALSE
    OBVIOUS
  <2>1. \A a \in new : ~(IsMerge(a) /\ a.pull = p)
    BY DEF Ledger!MergesToPay, Ledger!IsPaid, IsMerge
  <2>2. p \in Ledger!MergesToPay(done)
    BY <1>5, <1>6, <2>1 DEF Ledger!MergesToPay, Ledger!IsPaid, IsMerge
  <2>3. PICK a \in one : IsMerge(a) /\ a.pull = p
    BY <1>2, <2>2
  <2> QED BY <1>4, <1>5, <2>1, <2>3
<1>11. ASSUME NEW p \in Ledger!OpeningsToPay(new)
       PROVE  Declined(new, p)
  <2>1. ~Ledger!IsPaid(new, "opened", p)
    BY DEF Ledger!OpeningsToPay
  <2>2. ~Ledger!IsPaid(two, "opened", p) /\ ~Ledger!IsPaid(one, "opened", p)
    BY <1>4, <1>5, <2>1 DEF Ledger!IsPaid
  <2>3. p \in Ledger!OpeningsToPay(one)
    BY <2>2 DEF Ledger!OpeningsToPay
  <2>4. Declined(two, p)
    BY <1>4, <2>2, <2>3
  <2> QED BY <1>5, <1>7, <2>4, DeclinedStays
<1>12. Ledger!Reversals(new) = {}
  <2> SUFFICES ASSUME NEW b \in new, b.source = "opened", stored[b.pull].state = "CLOSED",
                      ~Ledger!IsPaid(new, "opened_reversed", b.pull)
               PROVE  FALSE
    BY DEF Ledger!Reversals
  <2>1. b \in done
    <3>1. b \in two
      BY <1>5, <1>8
    <3>2. b \in one
      BY <1>4, <3>1
    <3> QED BY <1>2, <3>2 DEF IsMerge
  <2>2. ~Ledger!IsPaid(done, "opened_reversed", b.pull)
    BY <1>5, <1>6 DEF Ledger!IsPaid
  <2> DEFINE r == [b EXCEPT !.source = "opened_reversed", !.amount = 0 - @]
  <2>3. r \in back
    BY <2>1, <2>2 DEF back, Ledger!Reversals
  <2>4. r.source = "opened_reversed" /\ r.pull = b.pull
    <3>1. b \in Ledger!Award
      BY <2>1 DEF FairAwards
    <3> QED BY <3>1 DEF Ledger!Award
  <2> HIDE DEF r
  <2> QED BY <1>5, <2>3, <2>4 DEF Ledger!IsPaid
<1>13. done \subseteq new
  BY <1>5, <1>6
<1> QED BY <1>7, <1>9, <1>10, <1>11, <1>12, <1>13 DEF Quiet, new

\* Planning again pays nothing, and what was opened and closed has come to nothing.
LEMMA QuietSettles ==
  ASSUME LedgerInv, settled
  PROVE  Ledger!AwardsSettle
<1>1. /\ stored \in [PullRequest -> Ledger!PullRow \cup {Ledger!Unseen}]
      /\ FairAwards(ledger) /\ Grounded(ledger, stored) /\ Quiet(ledger)
      /\ quests # {} => \E a \in ledger : a.source = "merged"
  BY DEF LedgerInv, Ledger!TypeOK
<1>2. Rows
  BY <1>1, RowsAreTyped
<1>3. /\ ledger \subseteq Ledger!Award /\ IsFiniteSet(ledger) /\ ledger \in AwardSets
      /\ OnceOnly(ledger) /\ Kinds(ledger)
  BY <1>1 DEF FairAwards, AwardSets
<1>4. Ledger!Plan(ledger) = ledger
  <2>1. Ledger!PayMerges(ledger) = ledger
    BY <1>1, <1>2, <1>3, MergesIdle DEF Quiet
  <2>2. Ledger!PayOpenings(ledger) = ledger
    BY <1>1, <1>2, <1>3, OpeningsIdle DEF Quiet
  <2>3. Ledger!Reversals(ledger) = {}
    BY <1>1 DEF Quiet
  <2> QED BY <2>1, <2>2, <2>3 DEF Ledger!Plan
<1>5. ASSUME NEW p \in PullRequest, stored[p].state = "CLOSED"
      PROVE  Ledger!Total({a \in ledger : a.pull = p}) = 0
  <2> DEFINE S == {a \in ledger : a.pull = p}
  <2>1. \A a \in S : a.source \in {"opened", "opened_reversed"}
    <3> SUFFICES ASSUME NEW a \in S PROVE a.source \in {"opened", "opened_reversed"}
      OBVIOUS
    <3>1. ~IsMerge(a)
      BY <1>1, <1>5 DEF Grounded
    <3>2. a.source \in {"merged", "backfill", "opened", "opened_reversed"}
      BY <1>3, AwardTypes
    <3> QED BY <3>1, <3>2 DEF IsMerge
  <2>2. \A a, b \in S : a.source = b.source => a = b
    BY <1>3 DEF OnceOnly
  <2>3. \A a \in S : a.source = "opened_reversed" =>
          \E b \in S : b.source = "opened" /\ a.amount = 0 - b.amount
    <3> SUFFICES ASSUME NEW a \in S, a.source = "opened_reversed"
                 PROVE  \E b \in S : b.source = "opened" /\ a.amount = 0 - b.amount
      OBVIOUS
    <3>1. PICK b \in ledger : b.source = "opened" /\ b.pull = a.pull /\ a.amount = 0 - b.amount
      BY <1>3 DEF Kinds
    <3> QED BY <3>1
  <2>4. \A b \in S : b.source = "opened" => \E a \in S : a.source = "opened_reversed"
    <3> SUFFICES ASSUME NEW b \in S, b.source = "opened", ~Ledger!IsPaid(ledger, "opened_reversed", b.pull)
                 PROVE  FALSE
      BY DEF Ledger!IsPaid
    <3>1. [b EXCEPT !.source = "opened_reversed", !.amount = 0 - @] \in Ledger!Reversals(ledger)
      BY <1>5 DEF Ledger!Reversals
    <3> QED BY <1>1, <3>1 DEF Quiet
  <2>5. \A b \in S : b.source = "opened" => b.amount \in Nat
    BY <1>3, LedgerNumbers DEF Kinds
  <2> HIDE DEF S
  <2>6. CASE S = {}
    BY <2>6, TotalCancels DEF S
  <2>7. CASE S # {}
    <3>1. PICK b \in S : b.source = "opened"
      BY <2>1, <2>3, <2>7
    <3>2. PICK a \in S : a.source = "opened_reversed"
      BY <2>4, <3>1
    <3>3. a.amount = 0 - b.amount
      BY <2>2, <2>3, <3>1, <3>2
    <3>4. S = {b, a}
      BY <2>1, <2>2, <3>1, <3>2
    <3>5. Ledger!Total({b, a}) = 0
      <4>1. b # a
        BY <3>1, <3>2
      <4>2. b.amount \in Nat
        BY <2>5, <3>1
      <4> QED BY <3>3, <4>1, <4>2, TotalCancels
    <3> QED BY <3>4, <3>5 DEF S
  <2> QED BY <2>6, <2>7
<1>6. ASSUME quests # {}
      PROVE  \E p \in PullRequest : stored[p].merged >= Joined
  <2>1. PICK a \in ledger : a.source = "merged"
    BY <1>1, <1>6
  <2>2. IsMerge(a) /\ a.pull \in PullRequest
    BY <1>3, <2>1, AwardTypes DEF IsMerge
  <2>3. a.day = stored[a.pull].merged /\ a.day >= Joined
    BY <1>1, <2>1, <2>2 DEF Grounded
  <2> QED BY <2>2, <2>3
<1> QED BY <1>4, <1>5, <1>6 DEF Ledger!AwardsSettle

LEMMA LedgerInvIsFair == LedgerInv => Ledger!RulesHoldOverTheLedger /\ Ledger!AwardsSettle
<1> SUFFICES ASSUME LedgerInv PROVE Ledger!RulesHoldOverTheLedger /\ Ledger!AwardsSettle
  OBVIOUS
<1>1. CapsKept(ledger) /\ OnceOnly(ledger)
  BY DEF LedgerInv, FairAwards
<1>2. DailyCap > 0 => \A p \in PullRequest, d \in Ledger!Day : Ledger!Total(Ledger!OnDay(ledger, RepoOf[p], d)) <= DailyCap
  BY <1>1 DEF CapsKept
<1>3. \A d \in Ledger!Day : Ledger!Cardinality(Ledger!OpenedIn(ledger, Ledger!Week(d))) <= WeeklyCap
  BY <1>1, LedgerCardinality DEF CapsKept
<1>4. \A a, b \in ledger : a # b =>
        /\ ~(a.source = "opened" /\ b.source = "opened" /\ a.issue = b.issue)
        /\ ~(a.first /\ b.first /\ RepoOf[a.pull] = RepoOf[b.pull])
        /\ ~(a.source = "merged" /\ b.source = "backfill" /\ a.pull = b.pull)
  BY <1>1 DEF OnceOnly, IsMerge
<1>5. Ledger!RulesHoldOverTheLedger
  BY <1>2, <1>3, <1>4 DEF Ledger!RulesHoldOverTheLedger
<1>6. CASE settled
  BY <1>5, <1>6, QuietSettles
<1>7. CASE ~settled
  BY <1>5, <1>7 DEF Ledger!AwardsSettle
<1> QED BY <1>6, <1>7

----------------------------------------------------------------------------
LEMMA InitLedger == Ledger!Init => LedgerInv
<1> SUFFICES ASSUME Ledger!Init PROVE LedgerInv
  OBVIOUS
<1>1. /\ stored = [p \in PullRequest |-> Ledger!Unseen]
      /\ ledger = {} /\ quests = {} /\ settled = TRUE
  BY DEF Ledger!Init
<1>2. Ledger!TypeOK
  BY <1>1 DEF Ledger!TypeOK
<1>3. MergedRows(stored)
  BY <1>1 DEF MergedRows, Ledger!Unseen
<1>4. FairAwards(ledger)
  <2>1. ledger \subseteq Ledger!Award /\ IsFiniteSet(ledger) /\ OnceOnly(ledger) /\ Kinds(ledger)
    BY <1>1, FS_EmptySet DEF OnceOnly, Kinds
  <2>2. CapsKept(ledger)
    <3>1. \A repo, d : Ledger!OnDay({}, repo, d) = {}
      BY DEF Ledger!OnDay, Ledger!MergesOf
    <3>2. \A w : Ledger!OpenedIn({}, w) = {}
      BY DEF Ledger!OpenedIn
    <3>3. DailyCap \in Nat /\ WeeklyCap \in Nat
      BY LedgerNumbers
    <3>4. Ledger!Total({}) = 0 /\ Cardinality({}) = 0
      BY TotalCancels, FS_EmptySet
    <3> QED BY <1>1, <3>1, <3>2, <3>3, <3>4 DEF CapsKept
  <2> QED BY <2>1, <2>2 DEF FairAwards
<1>5. Grounded(ledger, stored)
  BY <1>1 DEF Grounded
<1>6. Quiet(ledger)
  BY <1>1 DEF Quiet, Ledger!MergesToPay, Ledger!OpeningsToPay, Ledger!Reversals, Ledger!Unseen
<1> QED BY <1>1, <1>2, <1>3, <1>4, <1>5, <1>6 DEF LedgerInv

LEMMA StoreKeeps ==
  ASSUME LedgerInv, NEW p \in PullRequest, NEW row \in Ledger!PullRow, Ledger!Store(p, row)
  PROVE  LedgerInv'
<1>1. /\ stored \in [PullRequest -> Ledger!PullRow \cup {Ledger!Unseen}] /\ MergedRows(stored)
      /\ FairAwards(ledger) /\ Grounded(ledger, stored)
      /\ quests # {} => \E a \in ledger : a.source = "merged"
  BY DEF LedgerInv, Ledger!TypeOK
<1>2. /\ row.merged = 0 <=> row.state # "MERGED"
      /\ stored[p].state = "MERGED" => row.state = "MERGED" /\ row.merged = stored[p].merged
      /\ stored' = [stored EXCEPT ![p] = row]
      /\ settled' = FALSE /\ UNCHANGED <<ledger, quests>>
  BY DEF Ledger!Store
<1>3. \A q \in PullRequest : stored'[q] = IF q = p THEN row ELSE stored[q]
  BY <1>1, <1>2
<1>4. Ledger!TypeOK'
  BY <1>2, <1>1 DEF LedgerInv, Ledger!TypeOK
<1>5. MergedRows(stored')
  BY <1>1, <1>2, <1>3 DEF MergedRows
<1>6. Grounded(ledger, stored')
  <2> SUFFICES ASSUME NEW a \in ledger, IsMerge(a)
               PROVE  /\ stored'[a.pull].state = "MERGED" /\ a.day = stored'[a.pull].merged
                      /\ a.source = "merged" => a.day >= Joined
    BY DEF Grounded
  <2>1. /\ stored[a.pull].state = "MERGED" /\ a.day = stored[a.pull].merged
        /\ a.source = "merged" => a.day >= Joined
    BY <1>1 DEF Grounded
  <2>2. a.pull \in PullRequest
    BY <1>1, AwardTypes DEF FairAwards
  <2>3. CASE a.pull = p
    BY <1>2, <1>3, <2>1, <2>2, <2>3
  <2>4. CASE a.pull # p
    BY <1>3, <2>1, <2>2, <2>4
  <2> QED BY <2>3, <2>4
<1>7. FairAwards(ledger)'
  BY <1>1, <1>2
<1> QED BY <1>1, <1>2, <1>4, <1>5, <1>6, <1>7 DEF LedgerInv

LEMMA AwardKeeps ==
  ASSUME LedgerInv, Ledger!AwardXP
  PROVE  LedgerInv'
<1> DEFINE new == Ledger!Plan(ledger)
<1>1. /\ stored \in [PullRequest -> Ledger!PullRow \cup {Ledger!Unseen}] /\ MergedRows(stored)
      /\ FairAwards(ledger) /\ Grounded(ledger, stored) /\ quests \subseteq DOMAIN QuestNeed
      /\ quests # {} => \E a \in ledger : a.source = "merged"
  BY DEF LedgerInv, Ledger!TypeOK
<1>2. /\ ledger' = new /\ quests' = quests \cup Ledger!QuestsDone(new)
      /\ settled' = TRUE /\ stored' = stored
  BY DEF Ledger!AwardXP
<1>3. Rows
  BY <1>1, RowsAreTyped
<1>4. FairAwards(new) /\ Grounded(new, stored) /\ ledger \subseteq new /\ Quiet(new)
  BY <1>1, <1>3, PlanKeeps
<1>5. ASSUME NEW q \in Ledger!QuestsDone(new)
      PROVE  q \in DOMAIN QuestNeed /\ \E a \in new : a.source = "merged"
  <2> DEFINE here == {a \in new : a.source = "merged"}
             T == IF q = "merges" THEN here ELSE {RepoOf[a.pull] : a \in here}
  <2>1. q \in DOMAIN QuestNeed /\ Cardinality(T) >= QuestNeed[q]
    BY LedgerCardinality DEF Ledger!QuestsDone
  <2>2. T # {}
    <3> SUFFICES ASSUME T = {} PROVE FALSE
      OBVIOUS
    <3>1. Cardinality(T) = 0
      BY FS_EmptySet
    <3>2. QuestNeed[q] \in Nat /\ QuestNeed[q] > 0
      BY <2>1, LedgerNumbers
    <3> QED BY <2>1, <3>1, <3>2
  <2>3. here # {}
    BY <2>2
  <2> QED BY <2>1, <2>3
<1> HIDE DEF new
<1>6. quests' \subseteq DOMAIN QuestNeed
  BY <1>1, <1>2, <1>5
<1>7. quests' # {} => \E a \in ledger' : a.source = "merged"
  <2>1. CASE quests # {}
    BY <1>1, <1>2, <1>4, <2>1
  <2>2. CASE quests = {}
    BY <1>2, <1>5, <2>2
  <2> QED BY <2>1, <2>2
<1>8. Ledger!TypeOK'
  <2>1. new \subseteq Ledger!Award /\ OnceOnly(new)
    BY <1>4 DEF FairAwards
  <2>2. \A a, b \in new : a.source = b.source /\ a.pull = b.pull => a = b
    BY <2>1 DEF OnceOnly
  <2> QED BY <1>1, <1>2, <1>6, <2>1, <2>2 DEF Ledger!TypeOK
<1>9. Quiet(ledger)'
  <2>1. Quiet(ledger')
    BY <1>2, <1>4
  <2>2. stored' = stored
    BY <1>2
  <2>3. Ledger!MergesToPay(ledger)' = Ledger!MergesToPay(ledger')
    BY <2>2 DEF Ledger!MergesToPay, Ledger!IsPaid
  <2>4. Ledger!OpeningsToPay(ledger)' = Ledger!OpeningsToPay(ledger')
    BY <2>2 DEF Ledger!OpeningsToPay, Ledger!IsPaid
  <2>5. Ledger!Reversals(ledger)' = Ledger!Reversals(ledger')
    BY <2>2 DEF Ledger!Reversals, Ledger!IsPaid
  <2>6. ASSUME NEW p, Declined(ledger', p)
        PROVE  Declined(ledger, p)'
    BY <2>2, <2>6 DEF Declined, Ledger!OpeningsOf, Ledger!OpenedFor, Ledger!OpenedIn, Ledger!Week
  <2>7. \A p \in Ledger!OpeningsToPay(ledger)' : Declined(ledger, p)'
    BY <2>1, <2>4, <2>6 DEF Quiet
  <2> QED BY <2>1, <2>3, <2>5, <2>7 DEF Quiet
<1>10. FairAwards(ledger)'
  BY <1>2, <1>4
<1>11. Grounded(ledger', stored') /\ MergedRows(stored')
  BY <1>1, <1>2, <1>4
<1> QED BY <1>2, <1>7, <1>8, <1>9, <1>10, <1>11 DEF LedgerInv

LEMMA LedgerStep == LedgerInv /\ [Ledger!Next]_(Ledger!xpLedgerVars) => LedgerInv'
<1> SUFFICES ASSUME LedgerInv, [Ledger!Next]_(Ledger!xpLedgerVars)
             PROVE  LedgerInv'
  OBVIOUS
<1>1. CASE Ledger!AwardXP
  BY <1>1, AwardKeeps
<1>2. ASSUME NEW p \in PullRequest, NEW row \in Ledger!PullRow, Ledger!Store(p, row)
      PROVE  LedgerInv'
  BY <1>2, StoreKeeps
<1>3. CASE UNCHANGED Ledger!xpLedgerVars
  <2>1. UNCHANGED <<stored, ledger, quests, settled>>
    BY <1>3 DEF Ledger!xpLedgerVars
  <2>2. FairAwards(ledger)' /\ Grounded(ledger', stored') /\ MergedRows(stored')
    BY <2>1 DEF LedgerInv
  <2>3. Quiet(ledger)' = Quiet(ledger)
    BY <2>1 DEF Quiet, Declined, Ledger!MergesToPay, Ledger!OpeningsToPay, Ledger!IsPaid,
             Ledger!Reversals, Ledger!OpeningsOf, Ledger!OpenedFor, Ledger!OpenedIn, Ledger!Week
  <2>4. Ledger!TypeOK'
    BY <2>1 DEF LedgerInv, Ledger!TypeOK
  <2> QED BY <2>1, <2>2, <2>3, <2>4 DEF LedgerInv
<1> QED BY <1>1, <1>2, <1>3 DEF Ledger!Next

(* However pull requests arrive and change, the daily and the weekly caps     *)
(* hold over the whole ledger, no merge, first merge or opening is paid       *)
(* twice, and awarding again over the same pull requests changes nothing      *)
(* (awardTx, Plan): the invariant of the ledger, whatever the person's pull   *)
(* requests, the settings and the days.                                       *)
THEOREM LedgerStaysFair == PartsSpec => []LedgerIsFair
<1> DEFINE I == part = "ledger" => LedgerInv
<1>1. PartsInit => I
  BY InitLedger DEF PartsInit
<1>2. I /\ [PartsNext]_allVars => I'
  <2> SUFFICES ASSUME I, [PartsNext]_allVars, part' = "ledger"
               PROVE  LedgerInv'
    OBVIOUS
  <2>1. part = "ledger"
    BY DEF PartsNext, allVars
  <2>2. [Ledger!Next]_(Ledger!xpLedgerVars)
    BY <2>1 DEF PartsNext, allVars, ledgerVars, Ledger!xpLedgerVars
  <2> QED BY <2>1, <2>2, LedgerStep
<1>3. I => LedgerIsFair
  BY LedgerInvIsFair DEF LedgerIsFair
<1> QED BY <1>1, <1>2, <1>3, PTL DEF PartsSpec

----------------------------------------------------------------------------
(* Every part keeps its types. *)

\* A chunk holds no more than the pool, and the reader is within it.
WithinPool == feed.offset <= Pool /\ Len(kept.ids) <= Pool

LEMMA ChunkWithinPool ==
  ASSUME FeedTypes, feed.at # Shuffled!End, NEW c \in Shuffled!Chunks
  PROVE  Len(c.ids) \in Nat /\ Len(c.ids) <= Pool
<1>1. PICK w \in Shuffled!Walks(feed.at, Pool), draw \in Draws :
        c.ids = Shuffled!InOrder(IF feed.wrapped THEN {p \in w.hits : ~Shuffled!Stops(key[p])} ELSE w.hits, draw)
  BY DEF Shuffled!Chunks
<1> DEFINE hits == IF feed.wrapped THEN {p \in w.hits : ~Shuffled!Stops(key[p])} ELSE w.hits
<1>2. Pool \in Nat \ {0} /\ IsFiniteSet(Project) /\ matching \subseteq Project
  BY ShuffledAssumption DEF FeedTypes
<1>3. PICK walked \in SUBSET Shuffled!Ahead(feed.at), stopped \in BOOLEAN :
        WalkReads(feed.at, Pool, w, walked, stopped)
  BY <1>2, WalkParts
<1> DEFINE S == walked \cap matching
<1>4. S \in SUBSET Project /\ IsFiniteSet(S) /\ w.hits = FirstIn(WalkOrder, S, Pool)
  <2>1. S \in SUBSET Project
    BY <1>2
  <2>2. IsFiniteSet(S)
    BY <1>2, <2>1, FS_Subset
  <2>3. w.hits = Shuffled!First(S, Pool)
    BY <1>3 DEF WalkReads
  <2> QED BY <2>1, <2>2, <2>3, WalkFirst
<1> HIDE DEF S
<1>5. /\ w.hits \in SUBSET Project /\ IsFiniteSet(w.hits)
      /\ Cardinality(w.hits) \in Nat /\ Cardinality(w.hits) <= Pool
  <2>1. StrictOrder(WalkOrder, Project)
    BY WalkOrders
  <2>2. Cardinality(w.hits) <= Pool
    BY <1>2, <1>4, <2>1, FirstAtMost
  <2>3. w.hits \subseteq S /\ IsFiniteSet(w.hits) /\ Cardinality(w.hits) \in Nat
    BY <1>4, FirstIsFinite
  <2> QED BY <1>4, <2>2, <2>3
<1>6. hits \in SUBSET w.hits
  OBVIOUS
<1>7. Len(c.ids) = Cardinality(hits)
  <2>1. hits \subseteq Project
    BY <1>5, <1>6
  <2>2. c.ids = Shuffled!InOrder(hits, draw)
    BY <1>1
  <2> HIDE DEF hits
  <2> QED BY <2>1, <2>2, InOrderSorts
<1> HIDE DEF hits
<1>8. Cardinality(hits) \in Nat /\ Cardinality(hits) <= Cardinality(w.hits)
  BY <1>5, <1>6, FS_Subset, FS_CardinalityType
<1> QED BY <1>2, <1>5, <1>7, <1>8

LEMMA InitWithinPool == Shuffled!Init => WithinPool
<1> SUFFICES ASSUME Shuffled!Init PROVE WithinPool
  OBVIOUS
<1>1. feed.offset = 0 /\ kept.ids = <<>> /\ Len(<<>>) = 0
  BY DEF Shuffled!Init, Shuffled!NoFeed, Shuffled!NoChunk
<1> QED BY <1>1, ShuffledAssumption DEF WithinPool

LEMMA WithinPoolStep ==
  ASSUME ShuffledInv, WithinPool, [Shuffled!Next]_(Shuffled!shuffledFeedVars)
  PROVE  WithinPool'
<1>1. FeedTypes /\ feed \in FeedReader /\ kept \in FeedChunk /\ Pool \in Nat
  BY ShuffledAssumption DEF ShuffledInv, FeedTypes
<1>2. ASSUME kept' = kept, feed'.offset \in {0, feed.offset}
      PROVE  WithinPool'
  BY <1>1, <1>2 DEF WithinPool
<1>3. ASSUME kept' = Shuffled!NoChunk, feed'.offset \in {0, feed.offset}
      PROVE  WithinPool'
  <2>1. kept'.ids = <<>> /\ Len(<<>>) = 0
    BY <1>3 DEF Shuffled!NoChunk
  <2>2. Len(kept'.ids) <= Pool
    BY <1>1, <2>1
  <2>3. feed'.offset <= Pool
    BY <1>1, <1>3 DEF WithinPool
  <2> QED BY <2>2, <2>3 DEF WithinPool
<1>4. CASE UNCHANGED Shuffled!shuffledFeedVars
  BY <1>2, <1>4 DEF Shuffled!shuffledFeedVars
<1>5. ASSUME NEW sort, NEW start, NEW want, Shuffled!BeginWalk(sort, start, want)
      PROVE  WithinPool'
  BY <1>3, <1>5, NoWalk DEF Shuffled!BeginWalk
<1>6. ASSUME NEW limit, Shuffled!ShufflePage(limit)
      PROVE  WithinPool'
  <2>1. kept' = kept /\ feed'.offset = 0
    BY <1>1, <1>6 DEF Shuffled!ShufflePage, Shuffled!Moves, FeedReader
  <2> QED BY <1>2, <2>1
<1>7. ASSUME NEW limit, Shuffled!PickPage(limit)
      PROVE  WithinPool'
  <2>1. kept' = kept /\ feed'.offset = feed.offset
    BY <1>1, <1>7 DEF Shuffled!PickPage, FeedReader
  <2> QED BY <1>2, <2>1
<1>8. ASSUME NEW limit \in Nat \ {0}, Shuffled!ForYouPage(limit)
      PROVE  WithinPool'
  <2> DEFINE Taken(c) == {c.ids[n] : n \in DOMAIN c.ids \cap (feed.offset + 1..feed.offset + limit)}
  <2>1. PICK c \in IF kept.drawn THEN {kept} ELSE Shuffled!Chunks :
          IF feed.offset + Cardinality(Taken(c)) < Len(c.ids)
          THEN kept' = c /\ feed' = [feed EXCEPT !.offset = feed.offset + Cardinality(Taken(c))]
          ELSE kept' = Shuffled!NoChunk /\ Shuffled!Moves(c.next, c.wrapped)
    BY <1>8, ShuffledCardinality DEF Shuffled!ForYouPage
  <2> DEFINE taken == Taken(c)
             offset == feed.offset + Cardinality(taken)
  <2>2. /\ feed.sort = "foryou" /\ feed.at # Shuffled!End /\ FeedShape /\ feed.offset \in Nat
        /\ RoundFrom(feed, feed.at, feed.wrapped) /\ Injects(kept.ids)
    BY <1>1, <1>8, FeedTyped DEF Shuffled!ForYouPage, ShuffledInv, FeedShape, FeedTypes
  <2>3. c \in FeedChunk /\ Injects(c.ids) /\ Len(c.ids) <= Pool
    <3>1. CASE kept.drawn
      BY <1>1, <2>1, <2>2, <3>1 DEF WithinPool
    <3>2. CASE ~kept.drawn
      BY <1>1, <2>1, <2>2, <3>2, ChunkCut, ChunkWithinPool
    <3> QED BY <3>1, <3>2
  <2>4. Cardinality(taken) \in Nat
    <3>1. taken = TakenFrom(c, feed.offset, limit)
      BY DEF TakenFrom
    <3>2. TakesPage(c, feed.offset, limit)
      BY <2>2, <2>3, PageTakes
    <3> QED BY <3>1, <3>2 DEF TakesPage
  <2>5. offset \in Nat /\ Len(c.ids) \in Nat
    BY <2>2, <2>3, <2>4 DEF FeedChunk
  <2>6. IF offset < Len(c.ids) THEN kept' = c /\ feed' = [feed EXCEPT !.offset = offset]
        ELSE kept' = Shuffled!NoChunk /\ Shuffled!Moves(c.next, c.wrapped)
    BY <2>1
  <2> HIDE DEF offset, taken, Taken
  <2>7. CASE offset < Len(c.ids)
    <3>1. kept' = c /\ feed'.offset = offset
      BY <1>1, <2>6, <2>7 DEF FeedReader
    <3> QED BY <1>1, <2>3, <2>5, <2>7, <3>1 DEF WithinPool
  <2>8. CASE ~(offset < Len(c.ids))
    <3>1. kept' = Shuffled!NoChunk /\ feed'.offset = 0
      BY <1>1, <2>6, <2>8 DEF FeedReader, Shuffled!Moves
    <3> QED BY <1>3, <3>1
  <2> QED BY <2>7, <2>8
<1>9. CASE Shuffled!LoseChunk
  BY <1>3, <1>9 DEF Shuffled!LoseChunk
<1>10. CASE Shuffled!LeaveWalk
  BY <1>3, <1>10, NoWalk DEF Shuffled!LeaveWalk
<1>11. CASE Shuffled!Reshuffle \/ \E p \in Project : Shuffled!ChangeMatch(p)
  BY <1>2, <1>11 DEF Shuffled!Reshuffle, Shuffled!ChangeMatch
<1>12. 1..MaxLimit \subseteq Nat \ {0}
  BY ShuffledAssumption
<1> QED BY <1>4, <1>5, <1>6, <1>7, <1>8, <1>9, <1>10, <1>11, <1>12 DEF Shuffled!Next

LEMMA ShuffledTypes == ShuffledInv /\ WithinPool => Shuffled!TypeOK
<1> SUFFICES ASSUME ShuffledInv, WithinPool PROVE Shuffled!TypeOK
  OBVIOUS
<1>1. /\ key \in [Project -> Key] /\ matching \subseteq Project
      /\ feed \in FeedReader /\ kept \in FeedChunk /\ Injects(kept.ids)
      /\ shown.once \subseteq Project /\ shown.twice \subseteq shown.once /\ steady \subseteq Project
  BY DEF ShuffledInv, FeedTypes
<1>2. feed.offset <= Pool /\ Len(kept.ids) <= Pool /\ Pool \in Nat
  BY ShuffledAssumption DEF WithinPool
<1>3. feed.sort \in {"none", "shuffle", "foryou", "pick"} /\ feed.offset \in 0..Pool
  BY <1>1, <1>2 DEF FeedReader
<1>4. feed.at = Shuffled!End \/ feed.at \in (Key \cup {-1}) \X (Project \cup {0})
  BY <1>1 DEF FeedReader, FeedCursor, FeedPlace
<1>5. kept.ids \in Seq(Project)
  BY <1>1 DEF FeedChunk
<1>6. \A m, n \in DOMAIN kept.ids : kept.ids[m] = kept.ids[n] => m = n
  BY <1>1, <1>5 DEF Injects
<1> QED BY <1>1, <1>2, <1>3, <1>4, <1>5, <1>6 DEF Shuffled!TypeOK

(* Whatever the sizes and the settings, what each part stores keeps its      *)
(* types: the snapshots and their deltas, the awards, one per pull request   *)
(* and kind, the cached bodies and the bookings, the claims and the tries,   *)
(* the paths and the visits, the cursors, the chunk within its pool, and     *)
(* what a reader has been shown.                                             *)
THEOREM PartsKeepTypes == PartsSpec => []PartsTypeOK
<1> DEFINE I == /\ part \in {"stats", "ledger", "bodies", "claims", "paths", "shuffled", "browse"}
                /\ part = "stats" => StatsInv
                /\ part = "ledger" => LedgerInv
                /\ part = "bodies" => BodiesInv
                /\ part = "claims" => ClaimsInv
                /\ part = "paths" => PathsInv
                /\ part = "shuffled" => ShuffledInv /\ WithinPool
                /\ part = "browse" => BrowseInv
<1>1. PartsInit => I
  BY InitStats, InitLedger, InitBodies, InitClaims, InitPaths, InitShuffled, InitWithinPool, InitBrowse DEF PartsInit
<1>2. I /\ [PartsNext]_allVars => I'
  <2> SUFFICES ASSUME I, [PartsNext]_allVars PROVE I'
    OBVIOUS
  <2>1. part' = part /\ part \in {"stats", "ledger", "bodies", "claims", "paths", "shuffled", "browse"}
    BY DEF PartsNext, allVars
  <2>2. CASE part = "stats"
    <3>1. [Stats!Next]_(Stats!catalogStatsVars)
      BY <2>2, StatsPart
    <3> QED BY <2>1, <2>2, <3>1, StatsStep
  <2>3. CASE part = "ledger"
    <3>1. [Ledger!Next]_(Ledger!xpLedgerVars)
      BY <2>3 DEF PartsNext, allVars, ledgerVars, Ledger!xpLedgerVars
    <3> QED BY <2>1, <2>3, <3>1, LedgerStep
  <2>4. CASE part = "bodies"
    <3>1. [IssueTexts!Next]_(IssueTexts!issueBodiesVars)
      BY <2>4 DEF PartsNext, allVars, bodiesVars, IssueTexts!issueBodiesVars
    <3> QED BY <2>1, <2>4, <3>1, BodiesStep
  <2>5. CASE part = "claims"
    <3>1. [Claims!Next]_(Claims!issueClaimsVars)
      BY <2>5 DEF PartsNext, allVars, claimsVars, Claims!issueClaimsVars
    <3> QED BY <2>1, <2>5, <3>1, ClaimsStep
  <2>6. CASE part = "paths"
    <3>1. [Paths!Next]_(Paths!learningPathVars)
      BY <2>6 DEF PartsNext, allVars, pathsVars, Paths!learningPathVars
    <3> QED BY <2>1, <2>6, <3>1, PathsStep
  <2>7. CASE part = "shuffled"
    <3>1. [Shuffled!Next]_(Shuffled!shuffledFeedVars)
      BY <2>7 DEF PartsNext, allVars, shuffledVars, Shuffled!shuffledFeedVars
    <3> QED BY <2>1, <2>7, <3>1, ShuffledStep, WithinPoolStep
  <2>8. CASE part = "browse"
    <3>1. [Browse!Next]_(Browse!catalogBrowseVars)
      BY <2>8 DEF PartsNext, allVars, browseVars, Browse!catalogBrowseVars
    <3> QED BY <2>1, <2>8, <3>1, BrowseStep
  <2> QED BY <2>1, <2>2, <2>3, <2>4, <2>5, <2>6, <2>7, <2>8
<1>3. I => PartsTypeOK
  <2> SUFFICES ASSUME I PROVE PartsTypeOK
    OBVIOUS
  <2>1. CASE part = "stats"
    BY <2>1 DEF PartsTypeOK, StatsInv
  <2>2. CASE part = "ledger"
    BY <2>2 DEF PartsTypeOK, LedgerInv
  <2>3. CASE part = "bodies"
    BY <2>3 DEF PartsTypeOK, BodiesInv
  <2>4. CASE part = "claims"
    BY <2>4 DEF PartsTypeOK, ClaimsInv
  <2>5. CASE part = "paths"
    BY <2>5 DEF PartsTypeOK, PathsInv
  <2>6. CASE part = "shuffled"
    BY <2>6, ShuffledTypes DEF PartsTypeOK
  <2>7. CASE part = "browse"
    BY <2>7 DEF PartsTypeOK, BrowseInv
  <2> QED BY <2>1, <2>2, <2>3, <2>4, <2>5, <2>6, <2>7
<1> QED BY <1>1, <1>2, <1>3, PTL DEF PartsSpec
===============================================================================
