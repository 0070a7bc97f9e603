----------------------------- MODULE IngestProofs -----------------------------
(***************************************************************************)
(* Proofs about what the ingester reads and counts as read, for every value *)
(* of the constants: the identity of repositories, the candidates of the    *)
(* archive, its hours, the pull requests of a person and the GitHub budget. *)
(* A theorem is of the composition MCIngest, which the run checks; each     *)
(* part keeps its own invariant, whatever the others do.                    *)
(***************************************************************************)
EXTENDS MCIngest, IngestQueueProofs, FiniteSetTheorems, NaturalsInduction, TLAPS

(* The identity of repositories (RepositoryIdentity). *)

IdentityRow ==
  [name: Name \cup {Null}, id: Project \cup {Null}, meets: BOOLEAN, eligible: BOOLEAN, reason: Identity!Reason]

\* Once a row has stored a page, it holds an id or has been set aside.
IdentityInv ==
  /\ Identity!TypeOK
  /\ \A r \in RowId : repoRows[r].id = Null /\ r \in crawled => repoRows[r].reason \in {"not_found", "duplicate"}
  /\ \A r \in RowId : repoRows[r].name = Null => repoRows[r] = Identity!NoRow /\ r \notin crawled
  /\ page.row # Null => repoRows[page.row].name # Null
  /\ hit # Identity!NoHit => hit.repo \in Project /\ hit.name \in Name

----------------------------------------------------------------------------
LEMMA IdentityTypes ==
  ASSUME IdentityInv
  PROVE  /\ repoRows \in [RowId -> IdentityRow] /\ crawled \subseteq RowId
         /\ title \in [Project -> Name \cup {Null}] /\ resolves \in [Name -> Project \cup {Null}]
         /\ moves \in 0..MaxMoves
         /\ page \in [row: RowId \cup {Null}, repo: Project \cup {Null}, meets: BOOLEAN]
         /\ hit \in [repo: Project \cup {Null}, name: Name \cup {Null}, meets: BOOLEAN]
         /\ \A r, s \in RowId : r # s /\ repoRows[r].name # Null =>
              repoRows[r].name # repoRows[s].name /\ (repoRows[r].id = Null \/ repoRows[r].id # repoRows[s].id)
         /\ \A r \in RowId : repoRows[r].eligible => repoRows[r].reason \in {"", "unjudged"}
BY DEF IdentityInv, Identity!TypeOK, IdentityRow

LEMMA TwoRowsDiffer ==
  ASSUME IdentityInv, NEW r \in RowId, NEW s \in RowId, r # s, repoRows[r].name # Null
  PROVE  repoRows[r].name # repoRows[s].name /\ (repoRows[r].id = Null \/ repoRows[r].id # repoRows[s].id)
BY IdentityTypes

\* What a change of one row has to keep, for the table to keep the invariant.
RowKept(old, new, isCrawled) ==
  /\ new \in IdentityRow
  /\ new.eligible => new.reason \in {"", "unjudged"}
  /\ new.id = Null /\ isCrawled => new.reason \in {"not_found", "duplicate"}
  /\ old.name # Null => new.name # Null
  /\ new.name = Null => new = Identity!NoRow

LEMMA RowsKept ==
  ASSUME IdentityInv, \A r \in RowId : RowKept(repoRows[r], repoRows'[r], r \in crawled),
         repoRows' = [r \in RowId |-> repoRows'[r]],
         \A r, s \in RowId : r # s /\ repoRows'[r].name # Null =>
           repoRows'[r].name # repoRows'[s].name /\ (repoRows'[r].id = Null \/ repoRows'[r].id # repoRows'[s].id),
         title' = title, resolves' = resolves, moves' = moves, crawled' = crawled,
         page' \in {page, Identity!NoPage}, hit' \in {hit, Identity!NoHit}
  PROVE  IdentityInv'
<1>1. repoRows' \in [RowId -> IdentityRow]
  BY DEF RowKept
<1>2. page' \in [row: RowId \cup {Null}, repo: Project \cup {Null}, meets: BOOLEAN]
      /\ hit' \in [repo: Project \cup {Null}, name: Name \cup {Null}, meets: BOOLEAN]
  <2>1. /\ Identity!NoPage \in [row: RowId \cup {Null}, repo: Project \cup {Null}, meets: BOOLEAN]
        /\ Identity!NoHit \in [repo: Project \cup {Null}, name: Name \cup {Null}, meets: BOOLEAN]
    BY DEF Identity!NoPage, Identity!NoHit
  <2>2. (page' = page \/ page' = Identity!NoPage) /\ (hit' = hit \/ hit' = Identity!NoHit)
    OBVIOUS
  <2>3. /\ page \in [row: RowId \cup {Null}, repo: Project \cup {Null}, meets: BOOLEAN]
        /\ hit \in [repo: Project \cup {Null}, name: Name \cup {Null}, meets: BOOLEAN]
    BY IdentityTypes
  <2> QED BY <2>1, <2>2, <2>3, Zenon
<1>3. Identity!TypeOK'
  BY <1>1, <1>2, IdentityTypes DEF Identity!TypeOK, IdentityRow, RowKept
<1>4. \A r \in RowId : repoRows'[r].id = Null /\ r \in crawled' => repoRows'[r].reason \in {"not_found", "duplicate"}
  BY DEF RowKept
<1>5. \A r \in RowId : repoRows'[r].name = Null => repoRows'[r] = Identity!NoRow /\ r \notin crawled'
  BY DEF RowKept, IdentityInv
<1>6. page'.row # Null => repoRows'[page'.row].name # Null
  <2> SUFFICES ASSUME page'.row # Null
               PROVE  repoRows'[page'.row].name # Null
    OBVIOUS
  <2>1. page' = page
    BY DEF Identity!NoPage
  <2>2. page.row \in RowId /\ repoRows[page.row].name # Null
    BY <2>1, IdentityTypes DEF IdentityInv
  <2> QED BY <2>1, <2>2 DEF RowKept
<1>7. hit' # Identity!NoHit => hit'.repo \in Project /\ hit'.name \in Name
  BY DEF IdentityInv
<1> QED BY <1>3, <1>4, <1>5, <1>6, <1>7 DEF IdentityInv

LEMMA RowItselfKept ==
  ASSUME IdentityInv, NEW r \in RowId
  PROVE  RowKept(repoRows[r], repoRows[r], r \in crawled)
BY IdentityTypes DEF RowKept, IdentityInv

LEMMA OneRowKept ==
  ASSUME IdentityInv, NEW r \in RowId, NEW new, RowKept(repoRows[r], new, r \in crawled),
         repoRows' = [repoRows EXCEPT ![r] = new],
         \A s \in RowId : s # r /\ new.name # Null =>
           repoRows[s].name # new.name /\ (new.id = Null \/ repoRows[s].id # new.id),
         title' = title, resolves' = resolves, moves' = moves, crawled' = crawled,
         page' \in {page, Identity!NoPage}, hit' \in {hit, Identity!NoHit}
  PROVE  IdentityInv'
<1>1. /\ repoRows'[r] = new /\ \A s \in RowId : s # r => repoRows'[s] = repoRows[s]
      /\ repoRows' = [s \in RowId |-> repoRows'[s]]
  BY IdentityTypes
<1>2. \A s \in RowId : RowKept(repoRows[s], repoRows'[s], s \in crawled)
  BY <1>1, RowItselfKept
<1>3. \A s, t \in RowId : s # t /\ repoRows'[s].name # Null =>
        repoRows'[s].name # repoRows'[t].name /\ (repoRows'[s].id = Null \/ repoRows'[s].id # repoRows'[t].id)
  <2> SUFFICES ASSUME NEW s \in RowId, NEW t \in RowId, s # t, repoRows'[s].name # Null
               PROVE  repoRows'[s].name # repoRows'[t].name /\ (repoRows'[s].id = Null \/ repoRows'[s].id # repoRows'[t].id)
    OBVIOUS
  <2>1. CASE s = r
    BY <1>1, <2>1
  <2>2. CASE t = r
    <3>1. new.name = Null => new = Identity!NoRow
      BY DEF RowKept
    <3>2. CASE new.name # Null
      BY <1>1, <2>2, <3>2
    <3>3. CASE new.name = Null
      BY <1>1, <2>2, <3>1, <3>3 DEF Identity!NoRow
    <3> QED BY <3>2, <3>3
  <2>3. CASE s # r /\ t # r
    BY <1>1, <2>3, IdentityTypes
  <2> QED BY <2>1, <2>2, <2>3
<1> QED BY <1>1, <1>2, <1>3, RowsKept

LEMMA SameNamesAndIds ==
  ASSUME IdentityInv, \A r \in RowId : repoRows'[r].name = repoRows[r].name /\ repoRows'[r].id = repoRows[r].id
  PROVE  \A r, s \in RowId : r # s /\ repoRows'[r].name # Null =>
           repoRows'[r].name # repoRows'[s].name /\ (repoRows'[r].id = Null \/ repoRows'[r].id # repoRows'[s].id)
<1> TAKE r, s \in RowId
<1>1. r # s /\ repoRows[r].name # Null => repoRows[r].name # repoRows[s].name /\ (repoRows[r].id = Null \/ repoRows[r].id # repoRows[s].id)
  BY IdentityTypes
<1> QED BY <1>1

LEMMA InsertKeeps ==
  ASSUME IdentityInv, NEW n \in Name, NEW g \in Project \cup {Null}, Identity!Insert(n, g),
         Identity!Named(n) = {}, g # Null => Identity!Holding(g) = {},
         title' = title, resolves' = resolves, moves' = moves, crawled' = crawled,
         page' \in {page, Identity!NoPage}, hit' \in {hit, Identity!NoHit}
  PROVE  IdentityInv'
<1> DEFINE new == [name |-> n, id |-> g, meets |-> TRUE, eligible |-> TRUE, reason |-> ""]
<1>1. PICK r \in RowId : repoRows[r] = Identity!NoRow /\ repoRows' = [repoRows EXCEPT ![r] = new]
  BY DEF Identity!Insert
<1>2. r \notin crawled
  <2>1. repoRows[r] = Identity!NoRow
    BY <1>1
  <2>2. Identity!NoRow.name = Null
    BY DEF Identity!NoRow
  <2>3. repoRows[r].name = Null
    BY <2>1, <2>2
  <2> QED BY <2>3 DEF IdentityInv
<1>3. RowKept(repoRows[r], new, r \in crawled)
  BY <1>2, IdentityAssumption DEF RowKept, IdentityRow, Identity!Reason
<1>4. \A s \in RowId : repoRows[s].name # new.name /\ (new.id = Null \/ repoRows[s].id # new.id)
  BY DEF Identity!Named, Identity!Holding
<1> HIDE DEF new
<1> QED BY <1>1, <1>3, <1>4, OneRowKept

LEMMA ImportKeeps ==
  ASSUME IdentityInv, NEW n \in Name, Identity!Import(n)
  PROVE  IdentityInv'
<1>1. UNCHANGED <<title, resolves, moves, page, hit, crawled>>
  BY DEF Identity!Import
<1>2. CASE Identity!Named(n) = {}
  <2>1. Identity!Insert(n, Null)
    BY <1>2 DEF Identity!Import
  <2> QED BY <1>1, <1>2, <2>1, InsertKeeps
<1>3. CASE Identity!Named(n) # {}
  <2>1. repoRows' = [r \in RowId |->
            IF repoRows[r].name # n THEN repoRows[r]
            ELSE IF repoRows[r].reason \in {"not_found", "duplicate"}
                 THEN [repoRows[r] EXCEPT !.meets = TRUE, !.eligible = FALSE]
                 ELSE [repoRows[r] EXCEPT !.meets = TRUE, !.eligible = TRUE, !.reason = ""]]
    BY <1>3 DEF Identity!Import
  <2>2. \A r \in RowId : /\ RowKept(repoRows[r], repoRows'[r], r \in crawled)
                         /\ repoRows'[r].name = repoRows[r].name /\ repoRows'[r].id = repoRows[r].id
    <3> TAKE r \in RowId
    <3>1. repoRows[r] \in IdentityRow /\ RowKept(repoRows[r], repoRows[r], r \in crawled)
      BY IdentityTypes, RowItselfKept
    <3>2. CASE repoRows[r].name # n
      BY <2>1, <3>1, <3>2
    <3>3. CASE repoRows[r].name = n /\ repoRows[r].reason \in {"not_found", "duplicate"}
      <4>1. repoRows'[r] = [repoRows[r] EXCEPT !.meets = TRUE, !.eligible = FALSE]
        BY <2>1, <3>3
      <4> QED BY <3>1, <3>3, <4>1, IdentityAssumption DEF RowKept, IdentityRow
    <3>4. CASE repoRows[r].name = n /\ repoRows[r].reason \notin {"not_found", "duplicate"}
      <4>1. repoRows'[r] = [repoRows[r] EXCEPT !.meets = TRUE, !.eligible = TRUE, !.reason = ""]
        BY <2>1, <3>4
      <4> QED BY <3>1, <3>4, <4>1, IdentityAssumption DEF RowKept, IdentityRow, Identity!Reason
    <3> QED BY <3>2, <3>3, <3>4
  <2>3. repoRows' = [r \in RowId |-> repoRows'[r]]
    BY <2>1
  <2>4. \A r, s \in RowId : r # s /\ repoRows'[r].name # Null =>
          repoRows'[r].name # repoRows'[s].name /\ (repoRows'[r].id = Null \/ repoRows'[r].id # repoRows'[s].id)
    BY <2>2, SameNamesAndIds
  <2> QED BY <1>1, <2>2, <2>3, <2>4, RowsKept
<1> QED BY <1>2, <1>3

LEMMA RecomputeKeeps ==
  ASSUME IdentityInv, Identity!RecomputeEligibility
  PROVE  IdentityInv'
<1>1. /\ repoRows' = [r \in RowId |->
           IF repoRows[r].name = Null \/ repoRows[r].reason \in {"not_found", "duplicate"} THEN repoRows[r]
           ELSE [repoRows[r] EXCEPT !.eligible = Identity!Judge(repoRows[r]) = "", !.reason = Identity!Judge(repoRows[r])]]
      /\ UNCHANGED <<title, resolves, moves, page, hit, crawled>>
  BY DEF Identity!RecomputeEligibility
<1>2. \A r \in RowId : /\ RowKept(repoRows[r], repoRows'[r], r \in crawled)
                       /\ repoRows'[r].name = repoRows[r].name /\ repoRows'[r].id = repoRows[r].id
  <2> TAKE r \in RowId
  <2>1. repoRows[r] \in IdentityRow /\ RowKept(repoRows[r], repoRows[r], r \in crawled)
    BY IdentityTypes, RowItselfKept
  <2>2. CASE repoRows[r].name = Null \/ repoRows[r].reason \in {"not_found", "duplicate"}
    BY <1>1, <2>1, <2>2
  <2>3. CASE ~(repoRows[r].name = Null \/ repoRows[r].reason \in {"not_found", "duplicate"})
    <3>1. repoRows'[r] = [repoRows[r] EXCEPT !.eligible = Identity!Judge(repoRows[r]) = "", !.reason = Identity!Judge(repoRows[r])]
      BY <1>1, <2>3
    <3>2. Identity!Judge(repoRows[r]) \in {"excluded", "threshold", ""}
      BY DEF Identity!Judge
    <3>3. repoRows'[r] \in IdentityRow
      BY <2>1, <3>1, <3>2 DEF IdentityRow, Identity!Reason
    <3>4. /\ repoRows'[r].name = repoRows[r].name /\ repoRows'[r].id = repoRows[r].id /\ repoRows'[r].reason = Identity!Judge(repoRows[r])
          /\ repoRows'[r].eligible = (Identity!Judge(repoRows[r]) = "")
      BY <2>1, <3>1 DEF IdentityRow
    <3>5. repoRows[r].id = Null => r \notin crawled
      BY <2>1, <2>3 DEF RowKept
    <3> QED BY <2>3, <3>3, <3>4, <3>5 DEF RowKept
  <2> QED BY <2>2, <2>3
<1>3. repoRows' = [r \in RowId |-> repoRows'[r]]
  BY <1>1
<1>4. \A r, s \in RowId : r # s /\ repoRows'[r].name # Null =>
        repoRows'[r].name # repoRows'[s].name /\ (repoRows'[r].id = Null \/ repoRows'[r].id # repoRows'[s].id)
  BY <1>2, SameNamesAndIds
<1> QED BY <1>1, <1>2, <1>3, <1>4, RowsKept

LEMMA MarkUnavailableKeeps ==
  ASSUME IdentityInv, Identity!MarkUnavailable
  PROVE  IdentityInv'
<1>1. PICK r \in RowId : page.row = r
  BY IdentityTypes DEF Identity!MarkUnavailable
<1> DEFINE new == [repoRows[r] EXCEPT !.eligible = FALSE, !.reason = "not_found"]
<1>2. repoRows[r] \in IdentityRow /\ repoRows[r].name # Null
  BY <1>1, IdentityTypes, IdentityAssumption DEF IdentityInv, Identity!MarkUnavailable
<1>3. repoRows' = [repoRows EXCEPT ![r] = new] /\ page' = Identity!NoPage
      /\ UNCHANGED <<title, resolves, moves, hit, crawled>>
  BY <1>1, <1>2, IdentityTypes DEF Identity!MarkUnavailable, IdentityRow
<1>4. RowKept(repoRows[r], new, r \in crawled) /\ new.name = repoRows[r].name /\ new.id = repoRows[r].id
  BY <1>2 DEF RowKept, IdentityRow, Identity!Reason
<1>5. \A s \in RowId : s # r /\ new.name # Null =>
        repoRows[s].name # new.name /\ (new.id = Null \/ repoRows[s].id # new.id)
  BY <1>2, <1>4, IdentityTypes
<1> HIDE DEF new
<1> QED BY <1>3, <1>4, <1>5, OneRowKept

LEMMA StorePageKeeps ==
  ASSUME IdentityInv, Identity!StorePage
  PROVE  IdentityInv'
<1>1. PICK r \in RowId, g \in Project, m \in BOOLEAN : page = [row |-> r, repo |-> g, meets |-> m]
  <2>1. page.row \in RowId /\ page.repo \in Project /\ page.meets \in BOOLEAN
    BY IdentityTypes DEF Identity!StorePage
  <2>2. page = [row |-> page.row, repo |-> page.repo, meets |-> page.meets]
    BY IdentityTypes
  <2> QED BY <2>1, <2>2
<1> DEFINE mid == [repoRows[r] EXCEPT !.meets = m]
           new == Identity!RecordRepositoryID(mid, g)
<1>2. repoRows[r] \in IdentityRow /\ repoRows[r].name # Null /\ RowKept(repoRows[r], repoRows[r], r \in crawled)
  BY <1>1, IdentityTypes, RowItselfKept, IdentityAssumption DEF IdentityInv
<1>3. repoRows' = [repoRows EXCEPT ![r] = new] /\ page' = Identity!NoPage /\ crawled' = crawled \cup {r}
      /\ UNCHANGED <<title, resolves, moves, hit>>
  BY <1>1, <1>2, IdentityTypes DEF Identity!StorePage, IdentityRow
<1>4. /\ mid \in IdentityRow /\ mid.id = repoRows[r].id /\ mid.name = repoRows[r].name
      /\ mid.eligible = repoRows[r].eligible /\ mid.reason = repoRows[r].reason
  BY <1>2 DEF IdentityRow
<1>5. /\ RowKept(repoRows[r], new, TRUE) /\ new.name = repoRows[r].name
      /\ new.id # repoRows[r].id => Identity!Holding(g) = {} /\ new.id = g
  <2> HIDE DEF mid
  <2>1. CASE mid.id # Null
    <3>1. new = mid
      BY <2>1 DEF Identity!RecordRepositoryID
    <3> QED BY <1>2, <1>4, <2>1, <3>1 DEF RowKept
  <2>2. CASE mid.id = Null /\ Identity!Holding(g) = {}
    <3>1. new = [mid EXCEPT !.id = g]
      BY <2>2 DEF Identity!RecordRepositoryID
    <3> QED BY <1>2, <1>4, <2>2, <3>1, IdentityAssumption DEF RowKept, IdentityRow
  <2>3. CASE mid.id = Null /\ Identity!Holding(g) # {}
    <3>1. new = [mid EXCEPT !.eligible = FALSE, !.reason = "duplicate"]
      BY <2>3 DEF Identity!RecordRepositoryID, Identity!MarkDuplicate
    <3> QED BY <1>2, <1>4, <2>3, <3>1 DEF RowKept, IdentityRow, Identity!Reason
  <2> QED BY <2>1, <2>2, <2>3
<1> HIDE DEF mid, new
<1>6. \A s \in RowId : s # r =>
        repoRows[s].name # new.name /\ (new.id = Null \/ repoRows[s].id # new.id)
  <2> SUFFICES ASSUME NEW s \in RowId, s # r
               PROVE  repoRows[s].name # new.name /\ (new.id = Null \/ repoRows[s].id # new.id)
    OBVIOUS
  <2>1. repoRows[r].name # repoRows[s].name /\ (repoRows[r].id = Null \/ repoRows[r].id # repoRows[s].id)
    BY <1>2, IdentityTypes
  <2>2. CASE new.id = repoRows[r].id
    BY <1>5, <2>1, <2>2
  <2>3. CASE new.id # repoRows[r].id
    <3>1. repoRows[s].id # new.id
      BY <1>5, <2>3 DEF Identity!Holding
    <3> QED BY <1>5, <2>1, <3>1
  <2> QED BY <2>2, <2>3
<1>7. /\ repoRows'[r] = new /\ \A s \in RowId : s # r => repoRows'[s] = repoRows[s]
      /\ repoRows' \in [RowId -> IdentityRow]
  BY <1>3, <1>5, IdentityTypes DEF RowKept
<1>8. Identity!TypeOK'
  <2>1. \A s, t \in RowId : s # t /\ repoRows'[s].name # Null =>
          repoRows'[s].name # repoRows'[t].name /\ (repoRows'[s].id = Null \/ repoRows'[s].id # repoRows'[t].id)
    <3> SUFFICES ASSUME NEW s \in RowId, NEW t \in RowId, s # t, repoRows'[s].name # Null
                 PROVE  repoRows'[s].name # repoRows'[t].name /\ (repoRows'[s].id = Null \/ repoRows'[s].id # repoRows'[t].id)
      OBVIOUS
    <3>1. CASE s = r
      BY <1>6, <1>7, <3>1
    <3>2. CASE t = r
      BY <1>6, <1>7, <3>2
    <3>3. CASE s # r /\ t # r
      <4>1. repoRows'[s] = repoRows[s] /\ repoRows'[t] = repoRows[t]
        BY <1>7, <3>3
      <4>2. repoRows[s].name # Null
        BY <4>1
      <4> QED BY <3>3, <4>1, <4>2, TwoRowsDiffer
    <3> QED BY <3>1, <3>2, <3>3
  <2>2. \A s \in RowId : repoRows'[s].eligible => repoRows'[s].reason \in {"", "unjudged"}
    BY <1>5, <1>7, IdentityTypes DEF RowKept
  <2>3. page' \in [row: RowId \cup {Null}, repo: Project \cup {Null}, meets: BOOLEAN]
    BY <1>3 DEF Identity!NoPage
  <2>4. crawled' \subseteq RowId
    BY <1>3, IdentityTypes
  <2> QED BY <1>3, <1>7, <2>1, <2>2, <2>3, <2>4, IdentityTypes DEF Identity!TypeOK, IdentityRow
<1>9. \A s \in RowId : repoRows'[s].id = Null /\ s \in crawled' => repoRows'[s].reason \in {"not_found", "duplicate"}
  <2> SUFFICES ASSUME NEW s \in RowId, repoRows'[s].id = Null, s \in crawled'
               PROVE  repoRows'[s].reason \in {"not_found", "duplicate"}
    OBVIOUS
  <2>1. CASE s = r
    BY <1>5, <1>7, <2>1 DEF RowKept
  <2>2. CASE s # r
    BY <1>3, <1>7, <2>2 DEF IdentityInv
  <2> QED BY <2>1, <2>2
<1>10. \A s \in RowId : repoRows'[s].name = Null => repoRows'[s] = Identity!NoRow /\ s \notin crawled'
  <2> SUFFICES ASSUME NEW s \in RowId, repoRows'[s].name = Null
               PROVE  repoRows'[s] = Identity!NoRow /\ s \notin crawled'
    OBVIOUS
  <2>1. s # r
    BY <1>2, <1>5, <1>7
  <2> QED BY <1>3, <1>7, <2>1 DEF IdentityInv
<1>11. page'.row = Null
  BY <1>3 DEF Identity!NoPage
<1> QED BY <1>3, <1>8, <1>9, <1>10, <1>11 DEF IdentityInv

LEMMA KnownRow ==
  ASSUME IdentityInv, hit # Identity!NoHit, NEW row \in IdentityRow
  PROVE  /\ Identity!Known(row) \in IdentityRow /\ Identity!Known(row).name = row.name
         /\ Identity!Known(row).id = row.id /\ Identity!Known(row).eligible = row.eligible
         /\ Identity!Known(row).reason = IF row.reason = "not_found" THEN "unjudged" ELSE row.reason
<1>1. hit.meets \in BOOLEAN
  BY IdentityTypes
<1> QED BY <1>1 DEF Identity!Known, IdentityRow, Identity!Reason

LEMMA UpdateByNameKeeps ==
  ASSUME IdentityInv, Identity!UpdateByName
  PROVE  IdentityInv'
<1>1. /\ hit # Identity!NoHit /\ Identity!Holding(hit.repo) = {} /\ hit' = Identity!NoHit
      /\ UNCHANGED <<title, resolves, moves, page, crawled>>
  BY DEF Identity!UpdateByName
<1>2. PICK r \in Identity!Named(hit.name) :
        repoRows' = IF repoRows[r].id # Null THEN repoRows
                ELSE [repoRows EXCEPT ![r] = Identity!Known([@ EXCEPT !.id = hit.repo])]
  BY DEF Identity!UpdateByName
<1>3. r \in RowId /\ repoRows[r].name = hit.name /\ hit.repo \in Project /\ hit.name \in Name
  BY <1>1 DEF Identity!Named, IdentityInv
<1>4. CASE repoRows[r].id # Null
  <2>1. repoRows' = repoRows
    BY <1>2, <1>4
  <2>2. \A s \in RowId : RowKept(repoRows[s], repoRows'[s], s \in crawled)
    BY <2>1, RowItselfKept
  <2>3. repoRows' = [s \in RowId |-> repoRows'[s]]
    BY <2>1, IdentityTypes
  <2>4. \A s, t \in RowId : s # t /\ repoRows'[s].name # Null =>
          repoRows'[s].name # repoRows'[t].name /\ (repoRows'[s].id = Null \/ repoRows'[s].id # repoRows'[t].id)
    BY <2>1, SameNamesAndIds
  <2> QED BY <1>1, <2>2, <2>3, <2>4, RowsKept
<1>5. CASE repoRows[r].id = Null
  <2> DEFINE mid == [repoRows[r] EXCEPT !.id = hit.repo]
             new == Identity!Known(mid)
  <2>1. repoRows[r] \in IdentityRow
    BY <1>3, IdentityTypes
  <2>2. repoRows' = [repoRows EXCEPT ![r] = new]
    BY <1>2, <1>3, <1>5, IdentityTypes
  <2>3. /\ mid \in IdentityRow /\ mid.name = repoRows[r].name /\ mid.id = hit.repo
        /\ mid.eligible = repoRows[r].eligible /\ mid.reason = repoRows[r].reason
    BY <1>3, <2>1 DEF IdentityRow
  <2>4. /\ new \in IdentityRow /\ new.name = hit.name /\ new.id = hit.repo /\ new.eligible = repoRows[r].eligible
        /\ new.reason = IF repoRows[r].reason = "not_found" THEN "unjudged" ELSE repoRows[r].reason
    <3> HIDE DEF mid
    <3> QED BY <1>1, <1>3, <2>3, KnownRow
  <2> HIDE DEF mid, new
  <2>5. RowKept(repoRows[r], new, r \in crawled)
    <3>1. repoRows[r].eligible => repoRows[r].reason \in {"", "unjudged"}
      BY <1>3, IdentityTypes
    <3>2. new.id # Null /\ new.name # Null
      BY <1>3, <2>4, IdentityAssumption
    <3> QED BY <2>4, <3>1, <3>2 DEF RowKept
  <2>6. \A s \in RowId : s # r => repoRows[s].name # new.name /\ repoRows[s].id # new.id
    <3> SUFFICES ASSUME NEW s \in RowId, s # r
                 PROVE  repoRows[s].name # new.name /\ repoRows[s].id # new.id
      OBVIOUS
    <3>1. repoRows[r].name # Null
      BY <1>3, IdentityAssumption
    <3>2. repoRows[r].name # repoRows[s].name
      BY <1>3, <3>1, IdentityTypes
    <3>3. repoRows[s].id # hit.repo
      BY <1>1 DEF Identity!Holding
    <3> QED BY <1>3, <2>4, <3>2, <3>3
  <2> HIDE DEF new, mid
  <2>7. page' = page /\ hit' \in {hit, Identity!NoHit}
    BY <1>1
  <2> QED BY <1>1, <1>3, <2>2, <2>5, <2>6, <2>7, OneRowKept
<1> QED BY <1>4, <1>5

LEMMA UpdateByIdKeeps ==
  ASSUME IdentityInv, Identity!UpdateById
  PROVE  IdentityInv'
<1>1. /\ hit # Identity!NoHit /\ hit' = Identity!NoHit /\ UNCHANGED <<title, resolves, moves, page, crawled>>
  BY DEF Identity!UpdateById
<1>2. PICK r \in RowId : repoRows[r].id = hit.repo /\ repoRows' = Identity!Renamed(r)
  BY DEF Identity!UpdateById, Identity!Holding
<1>3. hit.repo \in Project /\ hit.name \in Name /\ hit.repo # Null /\ hit.name # Null
  BY <1>1, IdentityAssumption DEF IdentityInv
<1> DEFINE holder == Identity!Named(hit.name) \ {r}
           mid == IF holder = {} THEN [repoRows[r] EXCEPT !.name = hit.name] ELSE repoRows[r]
           new == Identity!Known(mid)
<1>4. repoRows[r] \in IdentityRow /\ repoRows[r].name # Null
  <2>1. repoRows[r] # Identity!NoRow
    BY <1>2, <1>3 DEF Identity!NoRow
  <2> QED BY <2>1, IdentityTypes DEF IdentityInv
<1>5. repoRows' = [s \in RowId |-> IF s = r THEN new
                               ELSE IF s \in holder /\ repoRows[s].id = Null THEN Identity!MarkDuplicate(repoRows[s]) ELSE repoRows[s]]
  BY <1>2 DEF Identity!Renamed
<1>6. /\ mid \in IdentityRow /\ mid.id = hit.repo /\ mid.eligible = repoRows[r].eligible /\ mid.reason = repoRows[r].reason
      /\ mid.name = IF holder = {} THEN hit.name ELSE repoRows[r].name
  <2> HIDE DEF holder
  <2>1. CASE holder = {}
    BY <1>2, <1>3, <1>4, <2>1 DEF IdentityRow
  <2>2. CASE holder # {}
    BY <1>2, <1>4, <2>2
  <2> QED BY <2>1, <2>2
<1>7. /\ new \in IdentityRow /\ new.id = hit.repo /\ new.name = (IF holder = {} THEN hit.name ELSE repoRows[r].name)
      /\ new.eligible = repoRows[r].eligible
      /\ new.reason = IF repoRows[r].reason = "not_found" THEN "unjudged" ELSE repoRows[r].reason
  <2> HIDE DEF mid, holder
  <2> QED BY <1>1, <1>6, KnownRow
<1>8. \A s \in holder : s \in RowId /\ s # r /\ repoRows[s].name = hit.name
  BY DEF Identity!Named
<1>h. holder = {} => \A s \in RowId : s # r => repoRows[s].name # hit.name
  BY DEF Identity!Named
<1> HIDE DEF mid, new, holder
<1>9. RowKept(repoRows[r], new, r \in crawled)
  <2>1. repoRows[r].eligible => repoRows[r].reason \in {"", "unjudged"}
    BY IdentityTypes
  <2>2. new.name # Null
    BY <1>3, <1>4, <1>7
  <2> QED BY <1>3, <1>7, <2>1, <2>2 DEF RowKept
<1>10. ASSUME NEW s \in RowId, s # r
       PROVE  /\ RowKept(repoRows[s], repoRows'[s], s \in crawled)
              /\ repoRows'[s].name = repoRows[s].name /\ repoRows'[s].id = repoRows[s].id
  <2>1. repoRows[s] \in IdentityRow /\ RowKept(repoRows[s], repoRows[s], s \in crawled)
    BY IdentityTypes, RowItselfKept
  <2>2. CASE s \in holder /\ repoRows[s].id = Null
    <3>1. repoRows'[s] = [repoRows[s] EXCEPT !.eligible = FALSE, !.reason = "duplicate"]
      BY <1>5, <1>10, <2>2 DEF Identity!MarkDuplicate
    <3>2. repoRows[s].name # Null
      BY <1>3, <1>8, <2>2
    <3> QED BY <2>1, <3>1, <3>2 DEF RowKept, IdentityRow, Identity!Reason
  <2>3. CASE ~(s \in holder /\ repoRows[s].id = Null)
    <3>1. repoRows'[s] = repoRows[s]
      BY <1>5, <1>10, <2>3
    <3> QED BY <2>1, <3>1
  <2> QED BY <2>2, <2>3
<1>11. repoRows'[r] = new
  BY <1>5
<1>12. \A s \in RowId : RowKept(repoRows[s], repoRows'[s], s \in crawled)
  BY <1>9, <1>10, <1>11
<1>13. repoRows' = [s \in RowId |-> repoRows'[s]]
  BY <1>5
<1>14. \A s \in RowId : s # r => repoRows[s].name # new.name /\ repoRows[s].id # new.id
  <2> SUFFICES ASSUME NEW s \in RowId, s # r
               PROVE  repoRows[s].name # new.name /\ repoRows[s].id # new.id
    OBVIOUS
  <2>1. repoRows[r].name # repoRows[s].name /\ (repoRows[r].id = Null \/ repoRows[r].id # repoRows[s].id)
    BY <1>4, IdentityTypes
  <2> QED BY <1>2, <1>3, <1>7, <1>h, <2>1
<1>15. \A s, t \in RowId : s # t /\ repoRows'[s].name # Null =>
         repoRows'[s].name # repoRows'[t].name /\ (repoRows'[s].id = Null \/ repoRows'[s].id # repoRows'[t].id)
  <2> SUFFICES ASSUME NEW s \in RowId, NEW t \in RowId, s # t, repoRows'[s].name # Null
               PROVE  repoRows'[s].name # repoRows'[t].name /\ (repoRows'[s].id = Null \/ repoRows'[s].id # repoRows'[t].id)
    OBVIOUS
  <2>1. CASE s = r
    BY <1>10, <1>11, <1>14, <2>1
  <2>2. CASE t = r
    BY <1>10, <1>11, <1>14, <2>2
  <2>3. CASE s # r /\ t # r
    <3>1. /\ repoRows'[s].name = repoRows[s].name /\ repoRows'[s].id = repoRows[s].id
          /\ repoRows'[t].name = repoRows[t].name /\ repoRows'[t].id = repoRows[t].id
      BY <1>10, <2>3
    <3> QED BY <3>1, TwoRowsDiffer
  <2> QED BY <2>1, <2>2, <2>3
<1> QED BY <1>1, <1>12, <1>13, <1>15, RowsKept

LEMMA InsertDiscoveredKeeps ==
  ASSUME IdentityInv, Identity!InsertDiscovered
  PROVE  IdentityInv'
<1>1. /\ hit # Identity!NoHit /\ Identity!Holding(hit.repo) = {} /\ Identity!Named(hit.name) = {}
      /\ hit' = Identity!NoHit /\ UNCHANGED <<title, resolves, moves, page, crawled>>
      /\ Identity!Insert(hit.name, hit.repo) \/ repoRows' = repoRows
  BY DEF Identity!InsertDiscovered
<1>2. hit.repo \in Project /\ hit.name \in Name
  BY <1>1 DEF IdentityInv
<1>3. CASE Identity!Insert(hit.name, hit.repo)
  <2>1. PICK n \in Name, g \in Project : n = hit.name /\ g = hit.repo
    BY <1>2
  <2>2. Identity!Insert(n, g) /\ Identity!Named(n) = {} /\ Identity!Holding(g) = {}
    BY <1>1, <1>3, <2>1
  <2> QED BY <1>1, <2>2, InsertKeeps
<1>4. CASE repoRows' = repoRows
  <2>1. \A s \in RowId : RowKept(repoRows[s], repoRows'[s], s \in crawled)
    BY <1>4, RowItselfKept
  <2>2. repoRows' = [s \in RowId |-> repoRows'[s]]
    BY <1>4, IdentityTypes
  <2>3. \A s, t \in RowId : s # t /\ repoRows'[s].name # Null =>
          repoRows'[s].name # repoRows'[t].name /\ (repoRows'[s].id = Null \/ repoRows'[s].id # repoRows'[t].id)
    BY <1>4, SameNamesAndIds
  <2> QED BY <1>1, <2>1, <2>2, <2>3, RowsKept
<1> QED BY <1>1, <1>3, <1>4

LEMMA InitIdentity ==
  ASSUME Identity!Init
  PROVE  IdentityInv
<1>1. Identity!TypeOK
  <2>1. moves \in 0..MaxMoves
    BY IdentityAssumption DEF Identity!Init
  <2>2. repoRows \in [RowId -> IdentityRow]
    BY DEF Identity!Init, Identity!NoRow, IdentityRow, Identity!Reason
  <2>3. /\ title \in [Project -> Name \cup {Null}] /\ resolves \in [Name -> Project \cup {Null}] /\ crawled \subseteq RowId
        /\ page \in [row: RowId \cup {Null}, repo: Project \cup {Null}, meets: BOOLEAN]
        /\ hit \in [repo: Project \cup {Null}, name: Name \cup {Null}, meets: BOOLEAN]
    BY DEF Identity!Init, Identity!NoPage, Identity!NoHit
  <2>4. \A r \in RowId : repoRows[r].name = Null /\ ~repoRows[r].eligible
    BY DEF Identity!Init, Identity!NoRow
  <2> QED BY <2>1, <2>2, <2>3, <2>4 DEF Identity!TypeOK, IdentityRow
<1> QED BY <1>1 DEF Identity!Init, IdentityInv, Identity!NoPage

LEMMA IdentityStep == IdentityInv /\ [Identity!Next]_(Identity!repositoryIdentityVars) => IdentityInv'
<1> SUFFICES ASSUME IdentityInv, [Identity!Next]_(Identity!repositoryIdentityVars)
             PROVE  IdentityInv'
  OBVIOUS
<1>0. ASSUME repoRows' = repoRows, crawled' = crawled, Identity!TypeOK',
             page'.row # Null => repoRows[page'.row].name # Null,
             hit' # Identity!NoHit => hit'.repo \in Project /\ hit'.name \in Name
      PROVE  IdentityInv'
  BY <1>0 DEF IdentityInv
<1>1. ASSUME NEW g \in Project, NEW n \in Name, Identity!TakeName(g, n)
      PROVE  IdentityInv'
  <2>1. /\ moves < MaxMoves /\ moves' = moves + 1 /\ title' = [title EXCEPT ![g] = n]
        /\ resolves' = [resolves EXCEPT ![n] = g] /\ UNCHANGED <<repoRows, page, hit, crawled>>
    BY <1>1 DEF Identity!TakeName
  <2>2. moves' \in 0..MaxMoves
    <3>1. moves \in 0..MaxMoves
      BY IdentityTypes
    <3> QED BY <2>1, <3>1, IdentityAssumption
  <2>3. title' \in [Project -> Name \cup {Null}] /\ resolves' \in [Name -> Project \cup {Null}]
    BY <2>1, IdentityTypes
  <2>4. Identity!TypeOK'
    BY <2>1, <2>2, <2>3, IdentityTypes DEF Identity!TypeOK, IdentityRow
  <2> QED BY <1>0, <2>1, <2>4 DEF IdentityInv
<1>2. ASSUME NEW g \in Project, Identity!Vanish(g)
      PROVE  IdentityInv'
  <2>1. /\ title' = [title EXCEPT ![g] = Null]
        /\ resolves' = [n \in Name |-> IF resolves[n] = g THEN Null ELSE resolves[n]]
        /\ UNCHANGED <<moves, repoRows, page, hit, crawled>>
    BY <1>2 DEF Identity!Vanish
  <2>2. title' \in [Project -> Name \cup {Null}] /\ resolves' \in [Name -> Project \cup {Null}]
    BY <2>1, IdentityTypes
  <2>3. Identity!TypeOK'
    BY <2>1, <2>2, IdentityTypes DEF Identity!TypeOK, IdentityRow
  <2> QED BY <1>0, <2>1, <2>3 DEF IdentityInv
<1>3. ASSUME NEW g \in Project, Identity!Search(g)
      PROVE  IdentityInv'
  <2>1. PICK m \in BOOLEAN : hit' = [repo |-> g, name |-> title[g], meets |-> m]
    BY <1>3 DEF Identity!Search
  <2>2. UNCHANGED <<title, resolves, moves, repoRows, page, crawled>> /\ title[g] \in Name
    BY <1>3, IdentityTypes DEF Identity!Search
  <2>3. Identity!TypeOK'
    BY <2>1, <2>2, IdentityTypes DEF Identity!TypeOK, IdentityRow
  <2> QED BY <1>0, <2>1, <2>2, <2>3 DEF IdentityInv
<1>4. ASSUME NEW n \in Name, Identity!Import(n)
      PROVE  IdentityInv'
  BY <1>4, ImportKeeps
<1>5. ASSUME NEW r \in RowId, Identity!FetchPage(r)
      PROVE  IdentityInv'
  <2>1. PICK m \in BOOLEAN :
          page' = [row |-> r, repo |-> resolves[repoRows[r].name], meets |-> resolves[repoRows[r].name] # Null /\ m]
    BY <1>5 DEF Identity!FetchPage
  <2>2. UNCHANGED <<title, resolves, moves, repoRows, hit, crawled>> /\ repoRows[r].eligible
    BY <1>5 DEF Identity!FetchPage
  <2>3. repoRows[r].name # Null
    <3>1. ~Identity!NoRow.eligible
      BY DEF Identity!NoRow
    <3> QED BY <2>2, <3>1 DEF IdentityInv
  <2>4. resolves[repoRows[r].name] \in Project \cup {Null}
    BY <2>3, IdentityTypes DEF IdentityRow
  <2>5. Identity!TypeOK'
    BY <2>1, <2>2, <2>4, IdentityTypes DEF Identity!TypeOK, IdentityRow
  <2> QED BY <1>0, <2>1, <2>2, <2>3, <2>5 DEF IdentityInv
<1>6. ASSUME Identity!DropFetched
      PROVE  IdentityInv'
  <2>1. /\ page' \in {page, Identity!NoPage} /\ hit' \in {hit, Identity!NoHit}
        /\ UNCHANGED <<title, resolves, moves, repoRows, crawled>>
    BY <1>6 DEF Identity!DropFetched
  <2>2. \A s \in RowId : RowKept(repoRows[s], repoRows'[s], s \in crawled)
    BY <2>1, RowItselfKept
  <2>3. repoRows' = [s \in RowId |-> repoRows'[s]]
    BY <2>1, IdentityTypes
  <2>4. \A s, t \in RowId : s # t /\ repoRows'[s].name # Null =>
          repoRows'[s].name # repoRows'[t].name /\ (repoRows'[s].id = Null \/ repoRows'[s].id # repoRows'[t].id)
    BY <2>1, SameNamesAndIds
  <2> QED BY <2>1, <2>2, <2>3, <2>4, RowsKept
<1>7. CASE UNCHANGED Identity!repositoryIdentityVars
  <2>1. UNCHANGED <<title, resolves, moves, repoRows, page, hit, crawled>>
    BY <1>7 DEF Identity!repositoryIdentityVars
  <2>2. Identity!TypeOK'
    BY <2>1, IdentityTypes DEF Identity!TypeOK, IdentityRow
  <2> QED BY <1>0, <2>1, <2>2 DEF IdentityInv
<1> QED BY <1>1, <1>2, <1>3, <1>4, <1>5, <1>6, <1>7, RecomputeKeeps, MarkUnavailableKeeps, StorePageKeeps,
           UpdateByIdKeeps, UpdateByNameKeeps, InsertDiscoveredKeeps DEF Identity!Next

(* Of two rows that are one repository one is crawled once that is known: a *)
(* row that has stored a page and holds no id is a duplicate or gone, and   *)
(* no recheck, import or search makes the crawl take it up again, for any   *)
(* number of repositories, names and rows (identity.go; queue.go,           *)
(* RecomputeEligibility).                                                   *)
THEOREM TwinsStayRetired == PartsSpec => []TwinStaysRetired
<1> DEFINE I == part = "identity" => IdentityInv
<1>1. PartsInit => I
  BY InitIdentity DEF PartsInit
<1>2. I /\ [PartsNext]_allVars => I'
  <2> SUFFICES ASSUME I, [PartsNext]_allVars, part' = "identity"
               PROVE  IdentityInv'
    OBVIOUS
  <2>1. part = "identity"
    BY DEF PartsNext, allVars
  <2>2. [Identity!Next]_(Identity!repositoryIdentityVars)
    BY <2>1 DEF PartsNext, allVars, identityVars, Identity!repositoryIdentityVars
  <2> QED BY <2>1, <2>2, IdentityStep
<1>3. I => TwinStaysRetired
  <2>1. IdentityInv => Identity!TwinStaysRetired
    BY IdentityTypes DEF Identity!TwinStaysRetired, IdentityInv
  <2> QED BY <2>1 DEF TwinStaysRetired
<1> QED BY <1>1, <1>2, <1>3, PTL DEF PartsSpec

----------------------------------------------------------------------------
(* The candidates the archive names (RepoCandidates). *)

\* An applied hour either named the row, which a later check does not outdate,
\* or was over when the repository was last looked up.
CandidatesInv ==
  /\ Candidates!TypeOK
  /\ \A h \in applied : h < Candidates!HourOf(time)
  /\ \A r \in Candidate : candidates[r].checked <= answered[r] /\ answered[r] <= time
  /\ \A r \in Candidate : \A t \in active[r] : t <= time
  /\ \A r \in Candidate \ stored : \A t \in active[r] : Candidates!HourOf(t) \in applied =>
       \/ Candidates!StartOf(Candidates!HourOf(t)) <= answered[r]
       \/ candidates[r].present /\ Candidates!StartOf(Candidates!HourOf(t)) <= candidates[r].last

----------------------------------------------------------------------------
\* Hours are numbered in the order they begin, at or before their instants.
LEMMA HoursInOrder ==
  ASSUME NEW a \in Nat, NEW b \in Nat, a <= b
  PROVE  /\ Candidates!HourOf(a) \in Nat /\ Candidates!HourOf(a) <= Candidates!HourOf(b)
         /\ Candidates!StartOf(Candidates!HourOf(a)) \in Nat /\ Candidates!StartOf(Candidates!HourOf(a)) <= a
<1> DEFINE x == a \div HourLen
           y == b \div HourLen
<1>1. HourLen \in Nat /\ HourLen > 0
  BY CandidatesAssumption
<1>2. x \in Nat /\ y \in Nat /\ x * HourLen <= a /\ a < (x + 1) * HourLen /\ y * HourLen <= b /\ b < (y + 1) * HourLen
  BY <1>1
<1> HIDE DEF x, y
<1>3. x <= y
  <2> SUFFICES ASSUME y + 1 <= x
               PROVE  FALSE
    BY <1>2
  <2>1. (y + 1) * HourLen <= x * HourLen
    BY <1>1, <1>2
  <2> QED BY <1>1, <1>2, <2>1
<1>4. x * HourLen \in Nat
  BY <1>1, <1>2
<1> QED BY <1>2, <1>3, <1>4 DEF Candidates!HourOf, Candidates!StartOf, x, y

\* The hours of two instants: an earlier hour begins no later.
LEMMA StartsInOrder ==
  ASSUME NEW g \in Nat, NEW h \in Nat, g <= h
  PROVE  Candidates!StartOf(g) \in Nat /\ Candidates!StartOf(g) <= Candidates!StartOf(h)
BY CandidatesAssumption DEF Candidates!StartOf

CandidateRow == [last: 0..MaxTime, checked: 0..MaxTime, present: BOOLEAN]

LEMMA CandidateTypes ==
  ASSUME CandidatesInv
  PROVE  /\ MaxTime \in Nat /\ time \in 1..MaxTime /\ qualified \in [Candidate -> 0..MaxTime]
         /\ active \in [Candidate -> SUBSET (1..MaxTime)] /\ applied \subseteq 0..Candidates!HourOf(MaxTime)
         /\ candidates \in [Candidate -> CandidateRow]
         /\ \A r \in Candidate : candidates[r].present \/ candidates[r] = Candidates!NoRow
         /\ stored \subseteq Candidate /\ answered \in [Candidate -> 0..MaxTime]
         /\ lookup.due \subseteq Candidate /\ lookup.found \subseteq lookup.due
BY CandidatesAssumption DEF CandidatesInv, Candidates!TypeOK, Candidates!Instant, CandidateRow

\* A step that leaves the rows, the hours and the answers alone.
LEMMA SameCandidates ==
  ASSUME CandidatesInv, Candidates!TypeOK', time <= time',
         UNCHANGED <<applied, candidates, stored, answered>>,
         \A r \in Candidate : \A t \in active'[r] : t \in active[r] \/ t = time
  PROVE  CandidatesInv'
<1>1. /\ \A h \in applied : h < Candidates!HourOf(time)
      /\ \A r \in Candidate : candidates[r].checked <= answered[r] /\ answered[r] <= time
      /\ \A r \in Candidate : \A t \in active[r] : t <= time
      /\ \A r \in Candidate \ stored : \A t \in active[r] : Candidates!HourOf(t) \in applied =>
           \/ Candidates!StartOf(Candidates!HourOf(t)) <= answered[r]
           \/ candidates[r].present /\ Candidates!StartOf(Candidates!HourOf(t)) <= candidates[r].last
  BY DEF CandidatesInv
<1>2. /\ time \in Nat /\ time' \in Nat
      /\ \A r \in Candidate : candidates[r].checked \in Nat /\ answered[r] \in Nat
      /\ \A h \in applied : h \in Nat
      /\ \A r \in Candidate : \A t \in active[r] : t \in Nat
  <2>1. time' \in 1..MaxTime
    BY DEF Candidates!TypeOK, Candidates!Instant
  <2>2. \A r \in Candidate : candidates[r].checked \in Nat /\ answered[r] \in Nat
    BY CandidateTypes DEF CandidateRow
  <2>3. time \in Nat /\ (\A h \in applied : h \in Nat) /\ \A r \in Candidate : \A t \in active[r] : t \in Nat
    BY CandidateTypes
  <2> QED BY <2>1, <2>2, <2>3, CandidateTypes
<1>3. Candidates!HourOf(time) \in Nat /\ Candidates!HourOf(time') \in Nat /\ Candidates!HourOf(time) <= Candidates!HourOf(time')
  BY <1>2, HoursInOrder
<1>4. \A h \in applied' : h < Candidates!HourOf(time')
  BY <1>1, <1>2, <1>3
<1>5. \A r \in Candidate : candidates'[r].checked <= answered'[r] /\ answered'[r] <= time'
  BY <1>1, <1>2
<1>6. \A r \in Candidate : \A t \in active'[r] : t <= time'
  BY <1>1, <1>2
<1>7. \A r \in Candidate : \A t \in active'[r] : Candidates!HourOf(t) \in applied => t \in active[r]
  BY <1>1, <1>3
<1>8. \A r \in Candidate \ stored' : \A t \in active'[r] : Candidates!HourOf(t) \in applied' =>
        \/ Candidates!StartOf(Candidates!HourOf(t)) <= answered'[r]
        \/ candidates'[r].present /\ Candidates!StartOf(Candidates!HourOf(t)) <= candidates'[r].last
  BY <1>1, <1>7
<1>9. Candidates!HourOf(time)' = Candidates!HourOf(time')
  BY DEF Candidates!HourOf
<1> QED BY <1>4, <1>5, <1>6, <1>8, <1>9 DEF CandidatesInv, Candidates!HourOf, Candidates!StartOf

\* A row of a step that applies no hour and lets no instant pass.
RowStillDue(r) ==
  /\ candidates'[r] \in CandidateRow /\ (candidates'[r].present \/ candidates'[r] = Candidates!NoRow)
  /\ candidates'[r].checked <= answered'[r] /\ answered'[r] <= time /\ answered'[r] \in Nat
  /\ r \notin stored' => r \notin stored /\ \A h \in applied' :
       \/ Candidates!StartOf(h) <= answered'[r]
       \/ candidates'[r].present /\ Candidates!StartOf(h) <= candidates'[r].last
       \/ \A t \in active[r] : Candidates!HourOf(t) # h

LEMMA RowsStillDue ==
  ASSUME CandidatesInv, \A r \in Candidate : RowStillDue(r),
         candidates' = [r \in Candidate |-> candidates'[r]], answered' = [r \in Candidate |-> answered'[r]],
         UNCHANGED <<time, qualified, active>>, applied' \subseteq 0..Candidates!HourOf(MaxTime),
         \A h \in applied' : h < Candidates!HourOf(time),
         stored' \subseteq Candidate, lookup'.due \subseteq Candidate, lookup'.found \subseteq lookup'.due
  PROVE  CandidatesInv'
<1>1. candidates' \in [Candidate -> CandidateRow] /\ \A r \in Candidate : candidates'[r].present \/ candidates'[r] = Candidates!NoRow
  BY DEF RowStillDue
<1>2. answered' \in [Candidate -> 0..MaxTime]
  <2>1. \A r \in Candidate : answered'[r] \in 0..MaxTime
    <3> TAKE r \in Candidate
    <3>1. answered'[r] \in Nat /\ answered'[r] <= time
      BY DEF RowStillDue
    <3>2. time \in 1..MaxTime /\ MaxTime \in Nat
      BY CandidateTypes
    <3> QED BY <3>1, <3>2
  <2> QED BY <2>1
<1>3. Candidates!TypeOK'
  BY <1>1, <1>2, CandidateTypes DEF Candidates!TypeOK, Candidates!Instant, CandidateRow, Candidates!HourOf
<1>4. \A h \in applied' : h < Candidates!HourOf(time')
  OBVIOUS
<1>5. \A r \in Candidate : candidates'[r].checked <= answered'[r] /\ answered'[r] <= time'
  BY DEF RowStillDue
<1>6. \A r \in Candidate : \A t \in active'[r] : t <= time'
  BY DEF CandidatesInv
<1>7. \A r \in Candidate \ stored' : \A t \in active'[r] : Candidates!HourOf(t) \in applied' =>
        \/ Candidates!StartOf(Candidates!HourOf(t)) <= answered'[r]
        \/ candidates'[r].present /\ Candidates!StartOf(Candidates!HourOf(t)) <= candidates'[r].last
  <2> SUFFICES ASSUME NEW r \in Candidate \ stored', NEW t \in active[r], Candidates!HourOf(t) \in applied'
               PROVE  \/ Candidates!StartOf(Candidates!HourOf(t)) <= answered'[r]
                      \/ candidates'[r].present /\ Candidates!StartOf(Candidates!HourOf(t)) <= candidates'[r].last
    OBVIOUS
  <2> QED BY DEF RowStillDue
<1> QED BY <1>3, <1>4, <1>5, <1>6, <1>7 DEF CandidatesInv, Candidates!HourOf, Candidates!StartOf

\* What the invariant says of a row, hour by hour.
LEMMA RowDue ==
  ASSUME CandidatesInv, NEW r \in Candidate
  PROVE  /\ candidates[r] \in CandidateRow /\ (candidates[r].present \/ candidates[r] = Candidates!NoRow)
         /\ candidates[r].checked <= answered[r] /\ answered[r] <= time /\ answered[r] \in Nat
         /\ r \notin stored => \A h \in applied :
              \/ Candidates!StartOf(h) <= answered[r]
              \/ candidates[r].present /\ Candidates!StartOf(h) <= candidates[r].last
              \/ \A t \in active[r] : Candidates!HourOf(t) # h
<1>1. answered[r] \in Nat
  BY CandidateTypes
<1> QED BY <1>1, CandidateTypes DEF CandidatesInv

LEMMA ApplyHourKeeps ==
  ASSUME CandidatesInv, NEW h \in 0..Candidates!HourOf(MaxTime), Candidates!ApplyHour(h)
  PROVE  CandidatesInv'
<1>1. /\ h < Candidates!HourOf(time) /\ applied' = applied \cup {h}
      /\ candidates' = [r \in Candidate |->
           IF r \notin stored /\ \E t \in active[r] : Candidates!HourOf(t) = h
           THEN Candidates!Named(candidates[r], h) ELSE candidates[r]]
      /\ UNCHANGED <<time, qualified, active, stored, lookup, answered>>
  BY DEF Candidates!ApplyHour
<1>2. h \in Nat /\ Candidates!StartOf(h) \in Nat /\ Candidates!StartOf(h) <= time /\ time \in Nat /\ time <= MaxTime /\ MaxTime \in Nat
  <2>1. time \in Nat /\ time <= MaxTime /\ MaxTime \in Nat
    BY CandidateTypes
  <2>2. Candidates!HourOf(time) \in Nat /\ Candidates!HourOf(MaxTime) \in Nat
        /\ Candidates!StartOf(Candidates!HourOf(time)) <= time /\ Candidates!StartOf(Candidates!HourOf(time)) \in Nat
    BY <2>1, HoursInOrder
  <2>3. h \in Nat /\ h <= Candidates!HourOf(time)
    BY <1>1, <2>2
  <2>4. Candidates!StartOf(h) \in Nat /\ Candidates!StartOf(h) <= Candidates!StartOf(Candidates!HourOf(time))
    BY <2>2, <2>3, StartsInOrder
  <2> QED BY <2>1, <2>2, <2>3, <2>4
<1>3. \A r \in Candidate : RowStillDue(r)
  <2> TAKE r \in Candidate
  <2>1. CASE r \notin stored /\ \E t \in active[r] : Candidates!HourOf(t) = h
    <3> DEFINE new == Candidates!Named(candidates[r], h)
    <3>1. candidates'[r] = new
      BY <1>1, <2>1
    <3>2. /\ new \in CandidateRow /\ new.present /\ new.checked = candidates[r].checked
          /\ new.last >= candidates[r].last /\ new.last >= Candidates!StartOf(h)
      <4> DEFINE last == Candidates!Later(candidates[r].last, Candidates!StartOf(h))
      <4>1. candidates[r] \in CandidateRow
        BY RowDue
      <4>2. candidates[r].last \in 0..MaxTime /\ Candidates!StartOf(h) \in 0..MaxTime
        BY <1>2, <4>1 DEF CandidateRow
      <4>3. last \in 0..MaxTime /\ last >= candidates[r].last /\ last >= Candidates!StartOf(h)
        BY <1>2, <4>2 DEF Candidates!Later
      <4>4. new = [candidates[r] EXCEPT !.present = TRUE, !.last = last]
        BY <4>1 DEF Candidates!Named, CandidateRow
      <4> HIDE DEF last
      <4> QED BY <4>1, <4>3, <4>4 DEF CandidateRow
    <3>3. candidates[r].last \in Nat /\ new.last \in Nat /\ \A g \in applied : Candidates!StartOf(g) \in Nat
      <4>1. \A g \in applied : g \in Nat
        BY CandidateTypes
      <4>2. \A g \in applied : Candidates!StartOf(g) \in Nat
        BY <4>1, StartsInOrder
      <4> QED BY <3>2, <4>2, RowDue DEF CandidateRow
    <3> HIDE DEF new
    <3> QED BY <1>1, <1>2, <3>1, <3>2, <3>3, RowDue DEF RowStillDue
  <2>2. CASE ~(r \notin stored /\ \E t \in active[r] : Candidates!HourOf(t) = h)
    <3>1. candidates'[r] = candidates[r]
      BY <1>1, <2>2
    <3> QED BY <1>1, <2>2, <3>1, RowDue DEF RowStillDue
  <2> QED BY <2>1, <2>2
<1>4. \A g \in applied' : g < Candidates!HourOf(time)
  BY <1>1 DEF CandidatesInv
<1>5. candidates' = [r \in Candidate |-> candidates'[r]] /\ answered' = [r \in Candidate |-> answered'[r]]
  BY <1>1, CandidateTypes
<1> QED BY <1>1, <1>3, <1>4, <1>5, RowsStillDue, CandidateTypes

LEMMA PruneKeeps ==
  ASSUME CandidatesInv, Candidates!PruneRepoCandidates
  PROVE  CandidatesInv'
<1> DEFINE quiet == {r \in Candidate : Candidates!Rechecked(r) /\ candidates[r].last <= candidates[r].checked}
<1>1. /\ candidates' = [r \in Candidate |-> IF r \in quiet THEN Candidates!NoRow ELSE candidates[r]]
      /\ UNCHANGED <<time, qualified, active, applied, stored, lookup, answered>>
  BY DEF Candidates!PruneRepoCandidates
<1>2. \A r \in Candidate : RowStillDue(r)
  <2> TAKE r \in Candidate
  <2>1. CASE r \in quiet
    <3>1. candidates'[r] = Candidates!NoRow /\ candidates[r].last <= candidates[r].checked
      BY <1>1, <2>1
    <3>2. Candidates!NoRow \in CandidateRow /\ Candidates!NoRow.checked = 0
      BY CandidateTypes DEF Candidates!NoRow, CandidateRow
    <3>3. /\ candidates[r].last \in Nat /\ candidates[r].checked \in Nat
          /\ answered[r] \in Nat /\ candidates[r].checked <= answered[r]
      BY RowDue DEF CandidateRow
    <3>4. \A g \in applied : Candidates!StartOf(g) \in Nat
      <4>1. \A g \in applied : g \in Nat
        BY CandidateTypes
      <4> QED BY <4>1, StartsInOrder
    <3> QED BY <1>1, <3>1, <3>2, <3>3, <3>4, RowDue DEF RowStillDue
  <2>2. CASE r \notin quiet
    <3>1. candidates'[r] = candidates[r]
      BY <1>1, <2>2
    <3> QED BY <1>1, <3>1, RowDue DEF RowStillDue
  <2> QED BY <2>1, <2>2
<1>3. candidates' = [r \in Candidate |-> candidates'[r]] /\ answered' = [r \in Candidate |-> answered'[r]]
  BY <1>1, CandidateTypes
<1>4. \A h \in applied' : h < Candidates!HourOf(time)
  BY <1>1 DEF CandidatesInv
<1> QED BY <1>1, <1>2, <1>3, <1>4, RowsStillDue, CandidateTypes

LEMMA StoreCandidateKeeps ==
  ASSUME CandidatesInv, NEW s \in Candidate, Candidates!StoreCandidate(s)
  PROVE  CandidatesInv'
<1>1. /\ stored' \in {stored, stored \cup {s}}
      /\ candidates' = IF candidates[s].present THEN [candidates EXCEPT ![s].checked = time] ELSE candidates
      /\ lookup' = [due |-> lookup.due \ {s}, found |-> lookup.found \ {s}]
      /\ answered' = [answered EXCEPT ![s] = time]
      /\ UNCHANGED <<time, qualified, active, applied>>
  BY DEF Candidates!StoreCandidate
<1>2. answered'[s] = time /\ \A r \in Candidate : r # s => answered'[r] = answered[r] /\ candidates'[r] = candidates[r]
  BY <1>1, CandidateTypes
<1>3. time \in Nat /\ time <= MaxTime /\ MaxTime \in Nat
  BY CandidateTypes
<1>4. \A h \in applied : Candidates!StartOf(h) <= time
  <2> TAKE h \in applied
  <2>1. /\ Candidates!HourOf(time) \in Nat /\ Candidates!StartOf(Candidates!HourOf(time)) <= time
        /\ Candidates!StartOf(Candidates!HourOf(time)) \in Nat
    BY <1>3, HoursInOrder
  <2>2. h \in Nat /\ h <= Candidates!HourOf(time)
    BY <2>1, CandidateTypes DEF CandidatesInv
  <2>3. Candidates!StartOf(h) \in Nat /\ Candidates!StartOf(h) <= Candidates!StartOf(Candidates!HourOf(time))
    BY <2>1, <2>2, StartsInOrder
  <2> QED BY <1>3, <2>1, <2>3
<1>5. \A r \in Candidate : RowStillDue(r)
  <2> TAKE r \in Candidate
  <2>1. CASE r = s
    <3>1. /\ candidates'[s] \in CandidateRow /\ candidates'[s].checked <= time
          /\ candidates'[s].present \/ candidates'[s] = Candidates!NoRow
      <4>1. CASE candidates[s].present
        BY <1>1, <1>3, <4>1, CandidateTypes DEF CandidateRow
      <4>2. CASE ~candidates[s].present
        BY <1>1, <1>3, <4>2, CandidateTypes DEF Candidates!NoRow, CandidateRow
      <4> QED BY <4>1, <4>2
    <3> QED BY <1>1, <1>2, <1>3, <1>4, <2>1, <3>1 DEF RowStillDue
  <2>2. CASE r # s
    <3>1. r \notin stored' => r \notin stored
      BY <1>1
    <3> QED BY <1>1, <1>2, <2>2, <3>1, RowDue DEF RowStillDue
  <2> QED BY <2>1, <2>2
<1>6. candidates' = [r \in Candidate |-> candidates'[r]] /\ answered' = [r \in Candidate |-> answered'[r]]
  BY <1>1, CandidateTypes
<1>7. stored' \subseteq Candidate
  BY <1>1, CandidateTypes
<1>8. lookup'.due \subseteq Candidate /\ lookup'.found \subseteq lookup'.due
  BY <1>1, CandidateTypes
<1>9. \A h \in applied' : h < Candidates!HourOf(time)
  BY <1>1 DEF CandidatesInv
<1> QED BY <1>1, <1>5, <1>6, <1>7, <1>8, <1>9, RowsStillDue, CandidateTypes

LEMMA InitCandidates ==
  ASSUME Candidates!Init
  PROVE  CandidatesInv
<1>1. MaxTime \in Nat /\ 1 \in 1..MaxTime
  BY CandidatesAssumption
<1>2. Candidates!TypeOK
  BY <1>1 DEF Candidates!Init, Candidates!TypeOK, Candidates!Instant, Candidates!NoRow, Candidates!Idle
<1> QED BY <1>2 DEF Candidates!Init, CandidatesInv, Candidates!NoRow

LEMMA CandidatesStep == CandidatesInv /\ [Candidates!Next]_(Candidates!repoCandidatesVars) => CandidatesInv'
<1> SUFFICES ASSUME CandidatesInv, [Candidates!Next]_(Candidates!repoCandidatesVars)
             PROVE  CandidatesInv'
  OBVIOUS
<1>1. CASE Candidates!Tick
  <2>1. time' = time + 1 /\ time < MaxTime /\ UNCHANGED <<qualified, active, applied, candidates, stored, lookup, answered>>
    BY <1>1 DEF Candidates!Tick
  <2>2. time' \in 1..MaxTime /\ time <= time'
    <3>1. time \in 1..MaxTime /\ MaxTime \in Nat
      BY CandidateTypes
    <3> QED BY <2>1, <3>1
  <2>3. Candidates!TypeOK'
    BY <2>1, <2>2, CandidateTypes DEF Candidates!TypeOK, Candidates!Instant, CandidateRow
  <2> QED BY <2>1, <2>2, <2>3, SameCandidates
<1>0. time <= time
  BY CandidateTypes
<1>2. ASSUME NEW r \in Candidate, Candidates!Qualify(r)
      PROVE  CandidatesInv'
  <2>1. qualified' = [qualified EXCEPT ![r] = time] /\ UNCHANGED <<time, active, applied, candidates, stored, lookup, answered>>
    BY <1>2 DEF Candidates!Qualify
  <2>2. Candidates!TypeOK'
    BY <2>1, CandidateTypes DEF Candidates!TypeOK, Candidates!Instant, CandidateRow
  <2> QED BY <1>0, <2>1, <2>2, SameCandidates
<1>3. ASSUME NEW r \in Candidate, Candidates!Act(r)
      PROVE  CandidatesInv'
  <2>1. active' = [active EXCEPT ![r] = @ \cup {time}] /\ UNCHANGED <<time, qualified, applied, candidates, stored, lookup, answered>>
    BY <1>3 DEF Candidates!Act
  <2>2. Candidates!TypeOK'
    BY <2>1, CandidateTypes DEF Candidates!TypeOK, Candidates!Instant, CandidateRow
  <2>3. \A q \in Candidate : \A t \in active'[q] : t \in active[q] \/ t = time
    BY <2>1, CandidateTypes
  <2> QED BY <1>0, <2>1, <2>2, <2>3, SameCandidates
<1>4. CASE Candidates!LookUp
  <2>1. PICK due \in SUBSET Candidates!DueRepoCandidates : lookup' = [due |-> due, found |-> {r \in due : qualified[r] # 0}]
    BY <1>4 DEF Candidates!LookUp
  <2>2. UNCHANGED <<time, qualified, active, applied, candidates, stored, answered>>
    BY <1>4 DEF Candidates!LookUp
  <2>3. lookup'.due \subseteq Candidate /\ lookup'.found \subseteq lookup'.due
    BY <2>1 DEF Candidates!DueRepoCandidates
  <2>4. Candidates!TypeOK'
    BY <2>2, <2>3, CandidateTypes DEF Candidates!TypeOK, Candidates!Instant, CandidateRow
  <2> QED BY <1>0, <2>2, <2>4, SameCandidates
<1>5. CASE Candidates!AbandonLookup
  <2>1. lookup' = Candidates!Idle /\ UNCHANGED <<time, qualified, active, applied, candidates, stored, answered>>
    BY <1>5 DEF Candidates!AbandonLookup
  <2>2. Candidates!TypeOK'
    BY <2>1, CandidateTypes DEF Candidates!TypeOK, Candidates!Instant, CandidateRow, Candidates!Idle
  <2> QED BY <1>0, <2>1, <2>2, SameCandidates
<1>6. CASE UNCHANGED Candidates!repoCandidatesVars
  <2>1. UNCHANGED <<time, qualified, active, applied, candidates, stored, lookup, answered>>
    BY <1>6 DEF Candidates!repoCandidatesVars
  <2>2. Candidates!TypeOK'
    BY <2>1, CandidateTypes DEF Candidates!TypeOK, Candidates!Instant, CandidateRow
  <2> QED BY <1>0, <2>1, <2>2, SameCandidates
<1> QED BY <1>1, <1>2, <1>3, <1>4, <1>5, <1>6, PruneKeeps, StoreCandidateKeeps, ApplyHourKeeps DEF Candidates!Next

(* A repository that qualifies and was active in an applied hour that began *)
(* after its last lookup is stored or comes due, in whatever order hours    *)
(* are applied, rows pruned and lookups cut short, for hours of any length  *)
(* and any recheck interval (archive.go, DueRepoCandidates).                *)
THEOREM ActiveCandidatesComeDue == PartsSpec => []ActiveCandidateComesDue
<1> DEFINE I == part = "candidates" => CandidatesInv
<1>1. PartsInit => I
  BY InitCandidates DEF PartsInit
<1>2. I /\ [PartsNext]_allVars => I'
  <2> SUFFICES ASSUME I, [PartsNext]_allVars, part' = "candidates"
               PROVE  CandidatesInv'
    OBVIOUS
  <2>1. part = "candidates"
    BY DEF PartsNext, allVars
  <2>2. [Candidates!Next]_(Candidates!repoCandidatesVars)
    BY <2>1 DEF PartsNext, allVars, candidateVars, Candidates!repoCandidatesVars
  <2> QED BY <2>1, <2>2, CandidatesStep
<1>3. I => ActiveCandidateComesDue
  <2> SUFFICES ASSUME CandidatesInv, NEW r \in Candidate \ stored, NEW t \in active[r],
                      Candidates!HourOf(t) \in applied, Candidates!StartOf(Candidates!HourOf(t)) > answered[r]
               PROVE  Candidates!ComesDue(r)
    BY DEF ActiveCandidateComesDue, Candidates!ActiveCandidateComesDue
  <2> DEFINE begun == Candidates!StartOf(Candidates!HourOf(t))
  <2>1. t \in Nat
    BY CandidateTypes
  <2>2. begun \in Nat
    BY <2>1, HoursInOrder
  <2>3. answered[r] \in Nat /\ candidates[r].checked \in Nat /\ candidates[r].last \in Nat /\ candidates[r].checked <= answered[r]
    BY RowDue DEF CandidateRow
  <2>4. begun <= answered[r] \/ (candidates[r].present /\ begun <= candidates[r].last)
    BY DEF CandidatesInv
  <2> HIDE DEF begun
  <2>5. begun > answered[r]
    BY DEF begun
  <2>6. candidates[r].present /\ candidates[r].last > candidates[r].checked
    BY <2>2, <2>3, <2>4, <2>5
  <2> QED BY <2>6 DEF Candidates!ComesDue
<1> QED BY <1>1, <1>2, <1>3, PTL DEF PartsSpec

----------------------------------------------------------------------------
(* Pull requests (PullRequestSync).                                          *)

\* A bounded set of numbers has a least and a greatest.
LEMMA LeastExists ==
  ASSUME NEW T \in SUBSET Nat, T # {}
  PROVE  \E t \in T : \A u \in T : t <= u
<1> DEFINE R == OpToRel(<, Nat)
<1>1. IsWellFoundedOn(R, Nat)
  BY NatLessThanWellFounded
<1> HIDE DEF R
<1>2. PICK t \in T : \A u \in T : ~(<<u, t>> \in R)
  BY <1>1, WFMin
<1>3. \A u \in T : ~(u < t)
  BY <1>2 DEF R, OpToRel
<1> QED BY <1>3

LEMMA GreatestExists ==
  ASSUME NEW N \in Nat, NEW T \in SUBSET (0..N), T # {}
  PROVE  \E t \in T : \A u \in T : u <= t
<1> DEFINE S == {N - t : t \in T}
<1>0. \A t \in T : t \in 0..N /\ N - t \in Nat
  OBVIOUS
<1>1. S \subseteq Nat /\ S # {}
  BY <1>0
<1>2. \A u \in T : N - u \in S
  OBVIOUS
<1> HIDE DEF S
<1>3. PICK x \in S : \A y \in S : x <= y
  BY <1>1, LeastExists
<1>4. PICK t \in T : x = N - t
  BY DEF S
<1>5. ASSUME NEW u \in T PROVE u <= t
  <2>1. N - t <= N - u
    BY <1>2, <1>3, <1>4
  <2> QED BY <1>0, <2>1
<1> QED BY <1>5

LEMMA PullsNewest ==
  ASSUME NEW T \in SUBSET (0..PullsMax), T # {}
  PROVE  Pulls!Newest(T) \in T /\ \A u \in T : u <= Pulls!Newest(T)
<1>1. \E t \in T : \A u \in T : u <= t
  BY GreatestExists, PullsAssumption
<1> QED BY <1>1 DEF Pulls!Newest

LEMMA PullsOldest ==
  ASSUME NEW T \in SUBSET Nat, T # {}
  PROVE  Pulls!Oldest(T) \in T /\ \A u \in T : Pulls!Oldest(T) <= u
<1>1. \E t \in T : \A u \in T : t <= u
  BY LeastExists
<1> QED BY <1>1 DEF Pulls!Oldest

----------------------------------------------------------------------------
\* On GitHub every change has its own time; a pull request that does not exist
\* is not stored either.
OnGitHubInv ==
  /\ \A p \in Pull : /\ onGitHub[p].at <= pullTime
                     /\ IF onGitHub[p].state = "NONE" THEN onGitHub[p] = Pulls!NoPull /\ pulls[p] = Pulls!NoPull
                        ELSE onGitHub[p].at # 0
  /\ \A p, q \in Pull : p # q /\ onGitHub[p].state # "NONE" => onGitHub[p].at # onGitHub[q].at

\* A pass under way has read down from its high mark, which the watermark is not past.
PassInv ==
  /\ prSync.through <= pullTime /\ prSync.cursor <= pullTime /\ prSync.high <= pullTime
  /\ IF prSync.cursor = 0 THEN prSync.high = 0
     ELSE prSync.cursor <= prSync.high /\ prSync.through <= prSync.high

\* A fetched page: what is on it is older than its cursor; a pull request has
\* changed since, or the page holds it as it stands, or it is outside the page.
IsMoved(p, pg) ==
  /\ onGitHub[p].at > pg.row.high /\ onGitHub[p].at > pg.row.through /\ onGitHub[p].at > pg.row.cursor
  /\ \A q \in DOMAIN pg.pulls : onGitHub[p].at > pg.pulls[q].at
IsOutside(p, pg) ==
  /\ p \notin DOMAIN pg.pulls
  /\ \/ onGitHub[p].state = "NONE"
     \/ pg.row.cursor # 0 /\ onGitHub[p].at >= pg.row.cursor
     \/ pg.more /\ \A q \in DOMAIN pg.pulls : onGitHub[p].at < pg.pulls[q].at
FetchedPage(pg) ==
  /\ DOMAIN pg.pulls \subseteq Pull /\ pg.more \in BOOLEAN
  /\ DOMAIN pg.pulls = {} => ~pg.more
  /\ pg.row.through = prSync.through /\ pg.row.cursor = prSync.cursor /\ pg.row.high = prSync.high
  /\ \A q \in DOMAIN pg.pulls :
       /\ pg.pulls[q] \in Pulls!PullState /\ pg.pulls[q].at # 0 /\ pg.pulls[q].at <= pullTime
       /\ pg.row.cursor # 0 => pg.pulls[q].at < pg.row.cursor
  /\ \A p \in Pull : \/ IsMoved(p, pg)
                     \/ p \in DOMAIN pg.pulls /\ pg.pulls[p] = onGitHub[p]
                     \/ IsOutside(p, pg)

PullsInv ==
  /\ Pulls!TypeOK /\ OnGitHubInv /\ PassInv /\ Pulls!ChangesAreReadLater
  /\ DOMAIN reading = Coordinator
  /\ \A c \in Coordinator : reading[c].step = "page" => FetchedPage(reading[c])

----------------------------------------------------------------------------
LEMMA PullTypes ==
  ASSUME PullsInv
  PROVE  /\ PullsMax \in Nat /\ pullTime \in 0..PullsMax /\ account \in BOOLEAN
         /\ onGitHub \in [Pull -> Pulls!PullState] /\ pulls \in [Pull -> Pulls!PullState]
         /\ prSync \in [through: 0..PullsMax, cursor: 0..PullsMax, high: 0..PullsMax, due: BOOLEAN]
         /\ \A p \in Pull : onGitHub[p].at \in 0..PullsMax /\ onGitHub[p].at \in Nat
         /\ prSync.through \in Nat /\ prSync.cursor \in Nat /\ prSync.high \in Nat
BY PullsAssumption DEF PullsInv, Pulls!TypeOK, Pulls!SyncRow, Pulls!PullState, Pulls!Time

LEMMA PullsCardinality ==
  ASSUME NEW S
  PROVE  Pulls!Cardinality(S) = Cardinality(S)
BY DEF Pulls!Cardinality, Cardinality

\* The first of a set are newer than the rest of it, are at most a page of it,
\* and are some of it unless it is empty.
LEMMA FirstOfThem ==
  ASSUME PullsInv, NEW S \in SUBSET Pull, \A p \in S : onGitHub[p].state # "NONE"
  PROVE  /\ Pulls!FirstOf(S) \subseteq S
         /\ \A p \in S \ Pulls!FirstOf(S) : \A q \in Pulls!FirstOf(S) : onGitHub[p].at < onGitHub[q].at
         /\ Pulls!Cardinality(Pulls!FirstOf(S)) <= PageSize
         /\ Pulls!FirstOf(S) = {} => S = {}
<1> DEFINE F == Pulls!FirstOf(S)
           Newer(p) == {q \in S : onGitHub[q].at > onGitHub[p].at}
<1>0. PageSize \in Nat /\ PageSize > 0 /\ IsFiniteSet(Pull) /\ PullsMax \in Nat
  BY PullsAssumption
<1>1. \A p \in S : p \in F <=> Cardinality(Newer(p)) < PageSize
  BY PullsCardinality DEF Pulls!FirstOf
<1>2. F \subseteq S
  BY DEF Pulls!FirstOf
<1>3. IsFiniteSet(S) /\ IsFiniteSet(F) /\ \A p : IsFiniteSet(Newer(p)) /\ Cardinality(Newer(p)) \in Nat
  <2>1. IsFiniteSet(S) /\ IsFiniteSet(F)
    BY <1>0, <1>2, FS_Subset
  <2>2. \A p : Newer(p) \subseteq S
    OBVIOUS
  <2>3. \A p : IsFiniteSet(Newer(p))
    BY <2>1, <2>2, FS_Subset
  <2> QED BY <2>1, <2>3, FS_CardinalityType
<1>4. \A p \in S : onGitHub[p].at \in 0..PullsMax /\ onGitHub[p].at \in Nat
  BY PullTypes
<1>5. ASSUME NEW p \in S \ F, NEW q \in F, ~(onGitHub[p].at < onGitHub[q].at)
      PROVE  FALSE
  <2>1. Newer(p) \in SUBSET Newer(q)
    BY <1>2, <1>4, <1>5
  <2>2. Cardinality(Newer(p)) <= Cardinality(Newer(q))
    BY <1>3, <2>1, FS_Subset
  <2>3. Cardinality(Newer(q)) < PageSize /\ ~(Cardinality(Newer(p)) < PageSize)
    BY <1>1, <1>2, <1>5
  <2>4. Cardinality(Newer(p)) \in Nat /\ Cardinality(Newer(q)) \in Nat
    BY <1>3
  <2> HIDE DEF Newer
  <2> QED BY <1>0, <2>2, <2>3, <2>4
<1>6. Cardinality(F) <= PageSize
  <2>1. CASE F = {}
    BY <1>0, <2>1, FS_EmptySet
  <2>2. CASE F # {}
    <3> DEFINE T == {onGitHub[p].at : p \in F}
    <3>1. T \subseteq Nat /\ T # {}
      BY <1>2, <1>4, <2>2
    <3>2. PICK q \in F : \A p \in F : onGitHub[q].at <= onGitHub[p].at
      <4>1. PICK t \in T : \A u \in T : t <= u
        BY <3>1, LeastExists
      <4>2. PICK q \in F : t = onGitHub[q].at
        OBVIOUS
      <4> QED BY <4>1, <4>2
    <3>3. \A p, r \in S : p # r => onGitHub[p].at # onGitHub[r].at
      BY DEF PullsInv, OnGitHubInv
    <3>4. F \ {q} \in SUBSET Newer(q)
      BY <1>2, <1>4, <3>2, <3>3
    <3>5. Cardinality(F \ {q}) <= Cardinality(Newer(q)) /\ Cardinality(F \ {q}) = Cardinality(F) - 1
      BY <1>3, <3>2, <3>4, FS_Subset, FS_RemoveElement
    <3>6. Cardinality(Newer(q)) < PageSize /\ Cardinality(F) \in Nat
      BY <1>1, <1>2, <1>3, <3>2, FS_CardinalityType
    <3> QED BY <1>0, <1>3, <3>5, <3>6
  <2> QED BY <2>1, <2>2
<1>7. ASSUME F = {}, S # {}
      PROVE  FALSE
  <2> DEFINE T == {onGitHub[p].at : p \in S}
  <2>1. T \in SUBSET (0..PullsMax) /\ T # {}
    BY <1>4, <1>7
  <2>2. PICK q \in S : \A p \in S : onGitHub[p].at <= onGitHub[q].at
    BY <1>0, <2>1, GreatestExists
  <2>3. Newer(q) = {}
    BY <1>4, <2>2
  <2>4. Cardinality(Newer(q)) = 0
    BY <2>3, FS_EmptySet
  <2> QED BY <1>0, <1>1, <1>7, <2>4
<1> QED BY <1>2, <1>5, <1>6, <1>7, PullsCardinality

----------------------------------------------------------------------------
\* The row's types carry over, with the rows of the pages.
LEMMA PullsTypesKept ==
  ASSUME PullsInv, pullTime' \in 0..PullsMax, account' \in BOOLEAN,
         onGitHub' \in [Pull -> Pulls!PullState], pulls' \in [Pull -> Pulls!PullState],
         prSync' \in Pulls!SyncRow,
         \A c \in Coordinator : reading'[c] = reading[c] \/ reading'[c] = Pulls!NoPage,
         prSync'.cursor # 0 => prSync'.high >= prSync'.cursor
  PROVE  Pulls!TypeOK'
<1>1. \A c \in Coordinator :
        /\ reading[c].row \in Pulls!SyncRow /\ reading[c].more \in BOOLEAN
        /\ DOMAIN reading[c].pulls \subseteq Pull
        /\ Pulls!Cardinality(DOMAIN reading[c].pulls) <= PageSize
  BY DEF PullsInv, Pulls!TypeOK
<1>2. /\ Pulls!NoPage.row \in Pulls!SyncRow /\ Pulls!NoPage.more \in BOOLEAN
      /\ DOMAIN Pulls!NoPage.pulls \subseteq Pull
      /\ Pulls!Cardinality(DOMAIN Pulls!NoPage.pulls) <= PageSize
  <2>1. DOMAIN Pulls!NoPage.pulls = {}
    BY DEF Pulls!NoPage
  <2>2. Pulls!Cardinality({}) = 0
    BY PullsCardinality, FS_EmptySet
  <2> QED BY <2>1, <2>2, PullsAssumption DEF Pulls!NoPage, Pulls!SyncRow, Pulls!Time
<1>3. \A c \in Coordinator :
        /\ reading'[c].row \in Pulls!SyncRow /\ reading'[c].more \in BOOLEAN
        /\ DOMAIN reading'[c].pulls \subseteq Pull
        /\ Pulls!Cardinality(DOMAIN reading'[c].pulls) <= PageSize
  BY <1>1, <1>2
<1> QED BY <1>3 DEF Pulls!TypeOK, Pulls!Time

LEMMA ChangeKeeps ==
  ASSUME PullsInv, NEW p \in Pull, NEW s \in {"OPEN", "CLOSED", "MERGED"}, Pulls!Change(p, s)
  PROVE  PullsInv'
<1> DEFINE at == pullTime + 1
<1>1. /\ pullTime < PullsMax /\ pullTime' = at /\ onGitHub' = [onGitHub EXCEPT ![p] = [state |-> s, at |-> at]]
      /\ UNCHANGED <<account, pulls, prSync, reading>>
  BY DEF Pulls!Change
<1>2. at \in 1..PullsMax /\ at > pullTime
  BY <1>1, PullTypes
<1>3. /\ \A q \in Pull : onGitHub'[q] = IF q = p THEN [state |-> s, at |-> at] ELSE onGitHub[q]
      /\ onGitHub' \in [Pull -> Pulls!PullState]
  BY <1>1, <1>2, PullTypes DEF Pulls!PullState, Pulls!Time
<1>4. Pulls!TypeOK'
  <2>1. prSync.cursor # 0 => prSync.high >= prSync.cursor
    BY DEF PullsInv, Pulls!TypeOK
  <2> QED BY <1>1, <1>2, <1>3, <2>1, PullTypes, PullsTypesKept DEF Pulls!SyncRow, Pulls!Time
<1> HIDE DEF at
<1>5. OnGitHubInv'
  <2>1. /\ \A q \in Pull : /\ onGitHub[q].at <= pullTime
                           /\ IF onGitHub[q].state = "NONE" THEN onGitHub[q] = Pulls!NoPull /\ pulls[q] = Pulls!NoPull
                              ELSE onGitHub[q].at # 0
        /\ \A q, r \in Pull : q # r /\ onGitHub[q].state # "NONE" => onGitHub[q].at # onGitHub[r].at
    BY DEF PullsInv, OnGitHubInv
  <2>2. \A q \in Pull : /\ onGitHub'[q].at <= at
                        /\ IF onGitHub'[q].state = "NONE" THEN onGitHub'[q] = Pulls!NoPull /\ pulls[q] = Pulls!NoPull
                           ELSE onGitHub'[q].at # 0
    BY <1>2, <1>3, <2>1, PullTypes
  <2>3. \A q, r \in Pull : q # r /\ onGitHub'[q].state # "NONE" => onGitHub'[q].at # onGitHub'[r].at
    BY <1>2, <1>3, <2>1, PullTypes
  <2> QED BY <1>1, <2>2, <2>3 DEF OnGitHubInv
<1>6. /\ prSync.through <= pullTime /\ prSync.cursor <= pullTime /\ prSync.high <= pullTime
      /\ IF prSync.cursor = 0 THEN prSync.high = 0
         ELSE prSync.cursor <= prSync.high /\ prSync.through <= prSync.high
  BY DEF PullsInv, PassInv
<1>7. PassInv'
  BY <1>1, <1>2, <1>6, PullTypes DEF PassInv
<1>8. Pulls!ChangesAreReadLater'
  <2> SUFFICES ASSUME NEW q \in Pull
               PROVE  pulls[q] = onGitHub'[q] \/
                        IF prSync.cursor = 0 THEN onGitHub'[q].at >= prSync.through
                        ELSE \/ onGitHub'[q].at > prSync.high
                             \/ onGitHub'[q].at < prSync.cursor /\ onGitHub'[q].at >= prSync.through
    BY <1>1 DEF Pulls!ChangesAreReadLater
  <2>1. CASE q = p
    BY <1>2, <1>3, <1>6, <2>1, PullTypes
  <2>2. CASE q # p
    BY <1>3, <2>2 DEF PullsInv, Pulls!ChangesAreReadLater
  <2> QED BY <2>1, <2>2
<1>9. ASSUME NEW c \in Coordinator, reading[c].step = "page"
      PROVE  FetchedPage(reading[c])'
  <2> DEFINE pg == reading[c]
  <2>1. FetchedPage(pg)
    BY <1>9 DEF PullsInv
  <2>2. /\ DOMAIN pg.pulls \subseteq Pull /\ pg.more \in BOOLEAN
        /\ DOMAIN pg.pulls = {} => ~pg.more
        /\ pg.row.through = prSync.through /\ pg.row.cursor = prSync.cursor /\ pg.row.high = prSync.high
        /\ \A q \in DOMAIN pg.pulls :
             /\ pg.pulls[q] \in Pulls!PullState /\ pg.pulls[q].at # 0 /\ pg.pulls[q].at <= pullTime
             /\ pg.row.cursor # 0 => pg.pulls[q].at < pg.row.cursor
    BY <2>1 DEF FetchedPage
  <2>3. \A q \in DOMAIN pg.pulls : pg.pulls[q].at \in Nat
    BY <2>2, PullsAssumption DEF Pulls!PullState, Pulls!Time
  <2>4. \A q \in DOMAIN pg.pulls : pg.pulls[q].at < at /\ pg.pulls[q].at <= pullTime'
    BY <1>1, <1>2, <2>2, <2>3, PullTypes
  <2>5. IsMoved(p, pg)'
    <3>1. onGitHub'[p].at = at
      BY <1>3
    <3>2. at > prSync.high /\ at > prSync.through /\ at > prSync.cursor
      BY <1>2, <1>6, PullTypes
    <3> QED BY <1>1, <2>2, <2>4, <3>1, <3>2 DEF IsMoved
  <2>6. ASSUME NEW q \in Pull, q # p
        PROVE  \/ IsMoved(q, pg)'
               \/ q \in DOMAIN pg.pulls /\ pg.pulls[q] = onGitHub'[q]
               \/ IsOutside(q, pg)'
    <3>1. onGitHub'[q] = onGitHub[q] /\ reading'[c] = reading[c]
      BY <1>1, <1>3, <2>6
    <3>2. IsMoved(q, pg) \/ (q \in DOMAIN pg.pulls /\ pg.pulls[q] = onGitHub[q]) \/ IsOutside(q, pg)
      BY <2>1 DEF FetchedPage
    <3>3. IsMoved(q, pg) => IsMoved(q, pg)'
      BY <3>1 DEF IsMoved
    <3>4. IsOutside(q, pg) => IsOutside(q, pg)'
      BY <3>1 DEF IsOutside
    <3> QED BY <3>1, <3>2, <3>3, <3>4
  <2> QED BY <1>1, <2>2, <2>4, <2>5, <2>6 DEF FetchedPage
<1> QED BY <1>1, <1>4, <1>5, <1>7, <1>8, <1>9 DEF PullsInv

\* A step that leaves GitHub, the stored copies and the pass where they are.
LEMMA SamePass ==
  ASSUME PullsInv, pullTime' = pullTime, onGitHub' = onGitHub, pulls' = pulls, account' \in BOOLEAN,
         prSync' = [prSync EXCEPT !.due = prSync'.due], prSync'.due \in BOOLEAN,
         DOMAIN reading' = Coordinator,
         \A c \in Coordinator : reading'[c] = reading[c] \/ reading'[c] = Pulls!NoPage
  PROVE  PullsInv'
<1>1. /\ prSync'.through = prSync.through /\ prSync'.cursor = prSync.cursor /\ prSync'.high = prSync.high
      /\ prSync' \in Pulls!SyncRow
  BY PullTypes DEF Pulls!SyncRow, Pulls!Time
<1>2. Pulls!TypeOK'
  <2>1. prSync.cursor # 0 => prSync.high >= prSync.cursor
    BY DEF PullsInv, Pulls!TypeOK
  <2> QED BY <1>1, <2>1, PullTypes, PullsTypesKept
<1>3. OnGitHubInv' /\ PassInv' /\ Pulls!ChangesAreReadLater'
  BY <1>1 DEF PullsInv, OnGitHubInv, PassInv, Pulls!ChangesAreReadLater
<1>4. ASSUME NEW c \in Coordinator, reading'[c].step = "page"
      PROVE  FetchedPage(reading[c])'
  <2>1. reading'[c] = reading[c]
    BY <1>4 DEF Pulls!NoPage
  <2>2. FetchedPage(reading[c])
    BY <1>4, <2>1 DEF PullsInv
  <2> QED BY <1>1, <2>1, <2>2 DEF FetchedPage, IsMoved, IsOutside
<1> QED BY <1>2, <1>3, <1>4 DEF PullsInv

----------------------------------------------------------------------------
\* The page of a fetch.
LEMMA FetchKeeps ==
  ASSUME PullsInv, NEW c \in Coordinator, Pulls!FetchPulls(c)
  PROVE  PullsInv'
<1> DEFINE rest == Pulls!After(prSync.cursor)
           first == Pulls!FirstOf(rest)
           pg == [step |-> IF account THEN "page" ELSE "other_account", row |-> prSync,
                  pulls |-> [p \in first |-> onGitHub[p]], more |-> first # rest]
<1>1. /\ reading' = [reading EXCEPT ![c] = pg]
      /\ UNCHANGED <<pullTime, onGitHub, account, pulls, prSync>>
  BY DEF Pulls!FetchPulls
<1>2. /\ rest \subseteq Pull
      /\ \A p \in Pull : p \in rest <=> onGitHub[p].state # "NONE" /\ (prSync.cursor = 0 \/ onGitHub[p].at < prSync.cursor)
  BY DEF Pulls!After
<1> HIDE DEF rest
<1>3. /\ first \subseteq rest /\ Pulls!Cardinality(first) <= PageSize /\ (first = {} => rest = {})
      /\ \A p \in rest \ first : \A q \in first : onGitHub[p].at < onGitHub[q].at
  BY <1>2, FirstOfThem
<1> HIDE DEF first
<1>4. DOMAIN reading = Coordinator /\ prSync \in Pulls!SyncRow
  BY DEF PullsInv, Pulls!TypeOK
<1>5. \A d \in Coordinator : reading'[d] = pg /\ d = c
  BY <1>1, <1>4, PullsAssumption
<1>6. /\ DOMAIN pg.pulls = first /\ pg.row = prSync /\ (pg.more <=> first # rest) /\ pg.more \in BOOLEAN
      /\ \A q \in first : pg.pulls[q] = onGitHub[q]
  OBVIOUS
<1> HIDE DEF pg
<1>7. Pulls!TypeOK'
  BY <1>1, <1>2, <1>3, <1>4, <1>5, <1>6 DEF PullsInv, Pulls!TypeOK
<1>8. \A p \in Pull : onGitHub[p].state # "NONE" => onGitHub[p].at # 0 /\ onGitHub[p].at <= pullTime
  BY DEF PullsInv, OnGitHubInv
<1>9. FetchedPage(pg)
  <2>1. \A q \in DOMAIN pg.pulls :
          /\ pg.pulls[q] \in Pulls!PullState /\ pg.pulls[q].at # 0 /\ pg.pulls[q].at <= pullTime
          /\ pg.row.cursor # 0 => pg.pulls[q].at < pg.row.cursor
    BY <1>2, <1>3, <1>6, <1>8, PullTypes
  <2>2. ASSUME NEW p \in Pull
        PROVE  \/ p \in DOMAIN pg.pulls /\ pg.pulls[p] = onGitHub[p]
               \/ IsOutside(p, pg)
    <3>1. CASE p \in first
      BY <1>6, <3>1
    <3>2. CASE p \in rest \ first
      BY <1>3, <1>6, <3>2 DEF IsOutside
    <3>3. CASE p \notin rest
      BY <1>2, <1>3, <1>6, <3>3, PullTypes DEF IsOutside
    <3> QED BY <3>1, <3>2, <3>3
  <2> QED BY <1>2, <1>3, <1>6, <2>1, <2>2 DEF FetchedPage
<1>10. ASSUME NEW d \in Coordinator
       PROVE  FetchedPage(reading[d])'
  <2>1. reading'[d] = pg
    BY <1>5
  <2> QED BY <1>1, <1>9, <2>1 DEF FetchedPage, IsMoved, IsOutside
<1>11. DOMAIN reading' = Coordinator
  BY <1>1, <1>4
<1> QED BY <1>1, <1>7, <1>10, <1>11 DEF PullsInv, OnGitHubInv, PassInv, Pulls!ChangesAreReadLater

\* The marks of a fetched page.
LEMMA PageMarks ==
  ASSUME PullsInv, NEW c \in Coordinator, reading[c].step = "page",
         NEW pg, pg = reading[c]
  PROVE  /\ Pulls!High(pg) \in 0..PullsMax /\ Pulls!High(pg) <= pullTime
         /\ Pulls!High(pg) >= prSync.high
         /\ \A q \in Pulls!NewIn(pg) : Pulls!High(pg) >= pg.pulls[q].at
         /\ Pulls!High(pg) = prSync.high \/ \E q \in Pulls!NewIn(pg) : Pulls!High(pg) = pg.pulls[q].at
         /\ Pulls!NewIn(pg) \subseteq DOMAIN pg.pulls
         /\ \A q \in DOMAIN pg.pulls : q \in Pulls!NewIn(pg) <=> pg.pulls[q].at >= prSync.through
         /\ \A q \in DOMAIN pg.pulls : pg.pulls[q].at \in 0..PullsMax
<1>1. /\ pg.row.through = prSync.through /\ pg.row.high = prSync.high
      /\ \A q \in DOMAIN pg.pulls : pg.pulls[q] \in Pulls!PullState /\ pg.pulls[q].at <= pullTime
  BY DEF PullsInv, FetchedPage
<1>2. \A q \in DOMAIN pg.pulls : pg.pulls[q].at \in 0..PullsMax
  BY <1>1 DEF Pulls!PullState, Pulls!Time
<1>3. /\ Pulls!NewIn(pg) \subseteq DOMAIN pg.pulls
      /\ \A q \in DOMAIN pg.pulls : q \in Pulls!NewIn(pg) <=> pg.pulls[q].at >= prSync.through
  BY <1>1 DEF Pulls!NewIn
<1> DEFINE T == Pulls!Seen(pg) \cup {pg.row.high}
<1>4. /\ T \in SUBSET (0..PullsMax) /\ prSync.high \in T
      /\ \A q \in Pulls!NewIn(pg) : pg.pulls[q].at \in T
      /\ \A t \in T : t = prSync.high \/ \E q \in Pulls!NewIn(pg) : t = pg.pulls[q].at
  BY <1>1, <1>2, <1>3, PullTypes DEF Pulls!Seen
<1>5. Pulls!High(pg) = Pulls!Newest(T)
  BY DEF Pulls!High
<1> HIDE DEF T
<1>6. Pulls!High(pg) \in T /\ \A t \in T : t <= Pulls!High(pg)
  BY <1>4, <1>5, PullsNewest
<1>7. prSync.high <= pullTime
  BY DEF PullsInv, PassInv
<1> DEFINE high == Pulls!High(pg)
<1> HIDE DEF high
<1>8. high \in T /\ \A t \in T : t <= high
  BY <1>6 DEF high
<1>9. high \in 0..PullsMax /\ high >= prSync.high
  BY <1>4, <1>8, PullTypes
<1>10. high <= pullTime
  <2>1. high = prSync.high \/ \E q \in Pulls!NewIn(pg) : high = pg.pulls[q].at
    BY <1>4, <1>8
  <2> QED BY <1>1, <1>3, <1>7, <2>1
<1>11. \A q \in Pulls!NewIn(pg) : high >= pg.pulls[q].at
  <2> SUFFICES ASSUME NEW q \in Pulls!NewIn(pg) PROVE high >= pg.pulls[q].at
    OBVIOUS
  <2>1. pg.pulls[q].at <= high /\ pg.pulls[q].at \in 0..PullsMax
    BY <1>2, <1>3, <1>4, <1>8
  <2> QED BY <1>9, <2>1, PullTypes
<1>12. high = prSync.high \/ \E q \in Pulls!NewIn(pg) : high = pg.pulls[q].at
  BY <1>4, <1>8
<1> QED BY <1>2, <1>3, <1>9, <1>10, <1>11, <1>12 DEF high

\* The stored page: what is not stored as it stands stays ahead of the pass.
LEMMA ApplyKeeps ==
  ASSUME PullsInv, NEW c \in Coordinator, Pulls!ApplyPullsPage(c)
  PROVE  PullsInv'
<1> DEFINE pg == reading[c]
           D == DOMAIN pg.pulls
           new == Pulls!NewIn(pg)
           high == Pulls!High(pg)
           ats == {pg.pulls[p].at : p \in D}
           complete == new # D \/ ~pg.more
<1>1. /\ pg.step = "page"
      /\ pulls' = [p \in Pull |-> IF p \in new THEN pg.pulls[p] ELSE pulls[p]]
      /\ prSync' = IF complete
           THEN [through |-> Pulls!Through(pg), cursor |-> 0, high |-> 0, due |-> FALSE]
           ELSE [prSync EXCEPT !.cursor = Pulls!Oldest(ats), !.high = high, !.due = TRUE]
      /\ reading' = [reading EXCEPT ![c] = Pulls!NoPage]
      /\ UNCHANGED <<pullTime, onGitHub, account>>
  BY DEF Pulls!ApplyPullsPage
<1>2. /\ high \in 0..PullsMax /\ high <= pullTime /\ high >= prSync.high
      /\ \A q \in new : high >= pg.pulls[q].at
      /\ high = prSync.high \/ \E q \in new : high = pg.pulls[q].at
      /\ new \subseteq D
      /\ \A q \in D : q \in new <=> pg.pulls[q].at >= prSync.through
      /\ \A q \in D : pg.pulls[q].at \in 0..PullsMax
  BY <1>1, PageMarks
<1>3. /\ D \subseteq Pull /\ (D = {} => ~pg.more)
      /\ pg.row.through = prSync.through /\ pg.row.cursor = prSync.cursor /\ pg.row.high = prSync.high
      /\ \A q \in D : /\ pg.pulls[q] \in Pulls!PullState /\ pg.pulls[q].at # 0 /\ pg.pulls[q].at <= pullTime
                      /\ pg.row.cursor # 0 => pg.pulls[q].at < pg.row.cursor
      /\ \A p \in Pull : IsMoved(p, pg) \/ (p \in D /\ pg.pulls[p] = onGitHub[p]) \/ IsOutside(p, pg)
  BY <1>1 DEF PullsInv, FetchedPage
<1>4. /\ prSync.through <= pullTime
      /\ IF prSync.cursor = 0 THEN prSync.high = 0
         ELSE prSync.cursor <= prSync.high /\ prSync.through <= prSync.high
  BY DEF PullsInv, PassInv
<1>5. \A p \in Pull : pulls[p] = onGitHub[p] \/
        IF prSync.cursor = 0 THEN onGitHub[p].at >= prSync.through
        ELSE \/ onGitHub[p].at > prSync.high
             \/ onGitHub[p].at < prSync.cursor /\ onGitHub[p].at >= prSync.through
  BY DEF PullsInv, Pulls!ChangesAreReadLater
<1>6. \A p \in Pull : onGitHub[p].state = "NONE" => onGitHub[p] = Pulls!NoPull /\ pulls[p] = Pulls!NoPull
  BY DEF PullsInv, OnGitHubInv
<1>7. \A p \in Pull :
        \/ /\ onGitHub[p].at > prSync.high /\ onGitHub[p].at > prSync.through
           /\ \A q \in D : onGitHub[p].at > pg.pulls[q].at
        \/ p \in D /\ pg.pulls[p] = onGitHub[p]
        \/ /\ p \notin D
           /\ \/ onGitHub[p].state = "NONE"
              \/ prSync.cursor # 0 /\ onGitHub[p].at >= prSync.cursor
              \/ pg.more /\ \A q \in D : onGitHub[p].at < pg.pulls[q].at
  BY <1>3 DEF IsMoved, IsOutside
<1>8. \A p \in Pull : pulls'[p] = IF p \in new THEN pg.pulls[p] ELSE pulls[p]
  BY <1>1
<1>9. pulls' \in [Pull -> Pulls!PullState]
  BY <1>1, <1>2, <1>3, PullTypes
<1>10. /\ ~complete => ats \subseteq Nat /\ ats # {} /\ new = D
       /\ \A d \in Coordinator : d = c
  BY <1>2, <1>3, PullsAssumption
<1>11. ASSUME ~complete
       PROVE  /\ Pulls!Oldest(ats) \in ats /\ \A q \in D : Pulls!Oldest(ats) <= pg.pulls[q].at
              /\ \E q \in D : Pulls!Oldest(ats) = pg.pulls[q].at
  <2>1. Pulls!Oldest(ats) \in ats /\ \A u \in ats : Pulls!Oldest(ats) <= u
    BY <1>10, <1>11, PullsOldest
  <2> QED BY <2>1
<1>12. Pulls!Through(pg) = IF high = 0 THEN prSync.through ELSE high
  BY <1>3 DEF Pulls!Through
<1> DEFINE oldest == Pulls!Oldest(ats)
<1>13. IF complete
       THEN prSync'.through = Pulls!Through(pg) /\ prSync'.cursor = 0 /\ prSync'.high = 0
       ELSE prSync'.through = prSync.through /\ prSync'.cursor = oldest /\ prSync'.high = high
  BY <1>1, PullTypes
<1>14. \A p \in Pull : onGitHub[p].at \in Nat
  BY PullTypes
<1>15. prSync.through \in Nat /\ prSync.cursor \in Nat /\ prSync.high \in Nat /\ \A q \in D : pg.pulls[q].at \in Nat
  BY <1>2, PullTypes
<1>16. ~complete => oldest # 0 /\ oldest \in 0..PullsMax /\ oldest <= high /\ prSync.through <= high
  <2> SUFFICES ASSUME ~complete PROVE oldest # 0 /\ oldest \in 0..PullsMax /\ oldest <= high /\ prSync.through <= high
    OBVIOUS
  <2>1. PICK q \in D : oldest = pg.pulls[q].at
    BY <1>11
  <2>2. q \in new
    BY <1>10
  <2> QED BY <1>2, <1>3, <1>15, <2>1, <2>2
<1>17. Pulls!ChangesAreReadLater'
  <2> SUFFICES ASSUME NEW p \in Pull
               PROVE  pulls'[p] = onGitHub[p] \/
                        IF prSync'.cursor = 0 THEN onGitHub[p].at >= prSync'.through
                        ELSE \/ onGitHub[p].at > prSync'.high
                             \/ onGitHub[p].at < prSync'.cursor /\ onGitHub[p].at >= prSync'.through
    BY <1>1 DEF Pulls!ChangesAreReadLater
  <2>0. CASE p \in new /\ pg.pulls[p] = onGitHub[p]
    BY <1>8, <2>0
  <2>1. CASE p \in D \ new /\ pg.pulls[p] = onGitHub[p]
    <3>1. onGitHub[p].at < prSync.through
      BY <1>2, <1>15, <2>1
    <3>2. pulls[p] = onGitHub[p]
      BY <1>4, <1>5, <1>14, <1>15, <3>1
    <3> QED BY <1>8, <2>1, <3>2
  <2>2. CASE /\ onGitHub[p].at > prSync.high /\ onGitHub[p].at > prSync.through
             /\ \A q \in D : onGitHub[p].at > pg.pulls[q].at
    <3>1. onGitHub[p].at > high
      BY <1>2, <2>2
    <3> HIDE DEF high, complete, oldest
    <3> QED BY <1>2, <1>12, <1>13, <1>14, <1>15, <2>2, <3>1
  <2>3. CASE p \notin D /\ onGitHub[p].state = "NONE"
    BY <1>2, <1>6, <1>8, <2>3
  <2>4. CASE p \notin D /\ prSync.cursor # 0 /\ onGitHub[p].at >= prSync.cursor
    <3>1. pulls'[p] = pulls[p]
      BY <1>2, <1>8, <2>4
    <3>2. pulls[p] = onGitHub[p] \/ onGitHub[p].at > prSync.high
      BY <1>5, <1>14, <1>15, <2>4
    <3>3. \A q \in D : onGitHub[p].at > pg.pulls[q].at
      BY <1>3, <1>14, <1>15, <2>4
    <3>4. pulls[p] = onGitHub[p] \/ onGitHub[p].at > high
      BY <1>2, <3>2, <3>3
    <3>5. high > 0
      BY <1>2, <1>4, <1>15, <2>4
    <3> HIDE DEF high, complete, oldest
    <3> QED BY <1>2, <1>12, <1>13, <1>14, <1>15, <1>16, <3>1, <3>4, <3>5
  <2>5. CASE p \notin D /\ pg.more /\ \A q \in D : onGitHub[p].at < pg.pulls[q].at
    <3>1. pulls'[p] = pulls[p]
      BY <1>2, <1>8, <2>5
    <3>2. PICK q \in D : TRUE
      BY <1>3, <2>5
    <3>3. pulls[p] = onGitHub[p] \/ onGitHub[p].at >= prSync.through
      BY <1>4, <1>5, <1>14, <1>15
    <3>4. CASE complete
      <4>0. PICK r \in D : r \notin new
        BY <1>2, <2>5, <3>4
      <4>1. pg.pulls[r].at < prSync.through
        BY <1>2, <1>15, <4>0
      <4>2. onGitHub[p].at < prSync.through
        BY <1>14, <1>15, <2>5, <4>1
      <4> QED BY <1>14, <1>15, <3>1, <3>3, <4>2
    <3>5. CASE ~complete
      <4>1. onGitHub[p].at < oldest
        BY <1>11, <2>5, <3>5
      <4>2. oldest # 0
        BY <1>11, <1>3, <3>5
      <4> HIDE DEF high, complete, oldest
      <4> QED BY <1>13, <3>1, <3>3, <3>5, <4>1, <4>2
    <3> QED BY <3>4, <3>5
  <2> QED BY <1>7, <2>0, <2>1, <2>2, <2>3, <2>4, <2>5
<1>18. prSync' \in Pulls!SyncRow
  <2>1. prSync.through \in 0..PullsMax /\ 0 \in 0..PullsMax
    BY PullTypes
  <2>2. Pulls!Through(pg) \in 0..PullsMax
    BY <1>2, <1>12, <2>1
  <2>3. CASE complete
    BY <1>1, <2>1, <2>2, <2>3 DEF Pulls!SyncRow, Pulls!Time
  <2>4. CASE ~complete
    BY <1>1, <1>2, <1>16, <2>4, PullTypes DEF Pulls!SyncRow, Pulls!Time
  <2> QED BY <2>3, <2>4
<1>19. \A d \in Coordinator : reading'[d] = Pulls!NoPage
  BY <1>1, <1>10 DEF PullsInv
<1>20. prSync'.cursor # 0 => prSync'.high >= prSync'.cursor
  <2> HIDE DEF high, complete, oldest
  <2> QED BY <1>2, <1>13, <1>16
<1>21. Pulls!TypeOK'
  BY <1>1, <1>9, <1>18, <1>19, <1>20, PullTypes, PullsTypesKept
<1>22. OnGitHubInv'
  <2>1. \A p \in Pull : onGitHub[p].state = "NONE" => pulls'[p] = Pulls!NoPull
    <3> SUFFICES ASSUME NEW p \in Pull, onGitHub[p].state = "NONE" PROVE pulls'[p] = Pulls!NoPull
      OBVIOUS
    <3>1. onGitHub[p].at = 0
      BY <1>6 DEF Pulls!NoPull
    <3>2. ~(p \in D /\ pg.pulls[p] = onGitHub[p])
      BY <1>3, <3>1
    <3>3. p \notin D
      BY <1>7, <1>15, <3>1, <3>2
    <3> QED BY <1>2, <1>6, <1>8, <3>3
  <2> QED BY <1>1, <2>1 DEF PullsInv, OnGitHubInv
<1>23. PassInv'
  <2>1. Pulls!Through(pg) <= pullTime
    BY <1>2, <1>4, <1>12, PullTypes
  <2>2. pullTime \in Nat /\ 0 <= pullTime
    BY PullTypes
  <2>3. oldest \in 0..PullsMax /\ oldest <= high => oldest <= pullTime
    BY <1>2, <2>2
  <2> HIDE DEF high, complete, oldest
  <2>4. CASE complete
    BY <1>1, <1>13, <2>1, <2>2, <2>4 DEF PassInv
  <2>5. CASE ~complete
    BY <1>1, <1>2, <1>4, <1>13, <1>16, <2>2, <2>3, <2>5 DEF PassInv
  <2> QED BY <2>4, <2>5
<1> QED BY <1>1, <1>17, <1>19, <1>21, <1>22, <1>23 DEF PullsInv, Pulls!NoPage

LEMMA OtherAccountKeeps ==
  ASSUME PullsInv, NEW c \in Coordinator, Pulls!OtherAccount(c)
  PROVE  PullsInv'
<1>1. /\ prSync' = [prSync EXCEPT !.cursor = 0, !.high = 0, !.due = FALSE]
      /\ reading' = [reading EXCEPT ![c] = Pulls!NoPage]
      /\ UNCHANGED <<pullTime, onGitHub, account, pulls>>
  BY DEF Pulls!OtherAccount
<1>2. /\ prSync' \in Pulls!SyncRow
      /\ prSync'.through = prSync.through /\ prSync'.cursor = 0 /\ prSync'.high = 0
  <2>1. prSync \in [through: 0..PullsMax, cursor: 0..PullsMax, high: 0..PullsMax, due: BOOLEAN] /\ 0 \in 0..PullsMax
    BY PullTypes
  <2>2. prSync' = [through |-> prSync.through, cursor |-> 0, high |-> 0, due |-> FALSE]
    BY <1>1, <2>1
  <2> QED BY <2>1, <2>2 DEF Pulls!SyncRow, Pulls!Time
<1>3. DOMAIN reading' = Coordinator /\ \A d \in Coordinator : reading'[d] = Pulls!NoPage
  BY <1>1, PullsAssumption DEF PullsInv
<1>4. Pulls!TypeOK'
  BY <1>1, <1>2, <1>3, PullTypes, PullsTypesKept
<1>5. /\ prSync.through <= pullTime
      /\ IF prSync.cursor = 0 THEN prSync.high = 0
         ELSE prSync.cursor <= prSync.high /\ prSync.through <= prSync.high
  BY DEF PullsInv, PassInv
<1>6. OnGitHubInv' /\ PassInv'
  BY <1>1, <1>2, <1>5, PullTypes DEF PullsInv, OnGitHubInv, PassInv
<1>7. Pulls!ChangesAreReadLater'
  <2> SUFFICES ASSUME NEW p \in Pull
               PROVE  pulls[p] = onGitHub[p] \/ onGitHub[p].at >= prSync.through
    BY <1>1, <1>2 DEF Pulls!ChangesAreReadLater
  <2>1. pulls[p] = onGitHub[p] \/
          IF prSync.cursor = 0 THEN onGitHub[p].at >= prSync.through
          ELSE \/ onGitHub[p].at > prSync.high
               \/ onGitHub[p].at < prSync.cursor /\ onGitHub[p].at >= prSync.through
    BY DEF PullsInv, Pulls!ChangesAreReadLater
  <2> QED BY <1>5, <2>1, PullTypes
<1> QED BY <1>3, <1>4, <1>6, <1>7 DEF PullsInv, Pulls!NoPage

LEMMA InitPulls == Pulls!Init => PullsInv
<1> SUFFICES ASSUME Pulls!Init PROVE PullsInv
  OBVIOUS
<1>1. /\ pullTime = 0 /\ account = TRUE
      /\ onGitHub = [p \in Pull |-> Pulls!NoPull] /\ pulls = [p \in Pull |-> Pulls!NoPull]
      /\ prSync = [through |-> 0, cursor |-> 0, high |-> 0, due |-> TRUE]
      /\ reading = [c \in Coordinator |-> Pulls!NoPage]
  BY DEF Pulls!Init
<1>2. 0 \in Pulls!Time /\ PageSize \in Nat
  BY PullsAssumption DEF Pulls!Time
<1>3. Pulls!NoPull \in Pulls!PullState /\ Pulls!NoPull.at = 0 /\ Pulls!NoPull.state = "NONE"
  BY <1>2 DEF Pulls!NoPull, Pulls!PullState
<1>4. DOMAIN Pulls!NoPage.pulls = {} /\ Pulls!NoPage.row \in Pulls!SyncRow /\ Pulls!NoPage.more \in BOOLEAN
  BY <1>2 DEF Pulls!NoPage, Pulls!SyncRow
<1>5. Pulls!Cardinality({}) <= PageSize
  BY <1>2, PullsCardinality, FS_EmptySet
<1>6. Pulls!TypeOK
  BY <1>1, <1>2, <1>3, <1>4, <1>5 DEF Pulls!TypeOK, Pulls!SyncRow
<1>7. OnGitHubInv /\ PassInv /\ Pulls!ChangesAreReadLater
  BY <1>1, <1>3 DEF OnGitHubInv, PassInv, Pulls!ChangesAreReadLater
<1> QED BY <1>1, <1>6, <1>7 DEF PullsInv, Pulls!NoPage

LEMMA PullsStep == PullsInv /\ [Pulls!Next]_(Pulls!pullRequestSyncVars) => PullsInv'
<1> SUFFICES ASSUME PullsInv, [Pulls!Next]_(Pulls!pullRequestSyncVars)
             PROVE  PullsInv'
  OBVIOUS
<1>0. /\ DOMAIN reading = Coordinator /\ account \in BOOLEAN /\ prSync.due \in BOOLEAN
      /\ prSync = [prSync EXCEPT !.due = prSync.due]
  BY PullTypes DEF PullsInv
<1>1. CASE Pulls!AccountChanges
  BY <1>0, <1>1, SamePass DEF Pulls!AccountChanges
<1>2. CASE Pulls!ComesDue \/ Pulls!RequestCheck
  <2>1. prSync' = [prSync EXCEPT !.due = TRUE] /\ UNCHANGED <<pullTime, onGitHub, account, pulls, reading>>
    BY <1>2 DEF Pulls!ComesDue, Pulls!RequestCheck
  <2>2. prSync' = [prSync EXCEPT !.due = prSync'.due] /\ prSync'.due \in BOOLEAN
    BY <2>1, PullTypes
  <2> QED BY <1>0, <2>1, <2>2, SamePass
<1>3. CASE \E c \in Coordinator : Pulls!FailPRSync(c)
  <2> PICK c \in Coordinator : Pulls!FailPRSync(c)
    BY <1>3
  <2>1. /\ reading' = [reading EXCEPT ![c] = Pulls!NoPage]
        /\ prSync' = prSync \/ prSync' = [prSync EXCEPT !.due = FALSE]
        /\ UNCHANGED <<pullTime, onGitHub, account, pulls>>
    BY DEF Pulls!FailPRSync
  <2>2. prSync' = [prSync EXCEPT !.due = prSync'.due] /\ prSync'.due \in BOOLEAN
    BY <1>0, <2>1, PullTypes
  <2>3. DOMAIN reading' = Coordinator /\ \A d \in Coordinator : reading'[d] = reading[d] \/ reading'[d] = Pulls!NoPage
    BY <1>0, <2>1
  <2> QED BY <1>0, <2>1, <2>2, <2>3, SamePass
<1>4. CASE UNCHANGED Pulls!pullRequestSyncVars
  BY <1>0, <1>4, SamePass DEF Pulls!pullRequestSyncVars
<1> QED BY <1>1, <1>2, <1>3, <1>4, ChangeKeeps, FetchKeeps, OtherAccountKeeps, ApplyKeeps DEF Pulls!Next

(* Whatever of a person's pull requests is not stored as it stands on GitHub *)
(* is ahead of the pass under way or of the next one, for any number of them, *)
(* pages of any size, and changes between the pages of a pass, with the one  *)
(* coordinator that reads people (prs.go, ApplyPullsPage).                   *)
THEOREM ChangesStayAhead == PartsSpec => []ChangesAreReadLater
<1> DEFINE I == part = "pulls" => PullsInv
<1>1. PartsInit => I
  BY InitPulls DEF PartsInit
<1>2. I /\ [PartsNext]_allVars => I'
  <2> SUFFICES ASSUME I, [PartsNext]_allVars, part' = "pulls"
               PROVE  PullsInv'
    OBVIOUS
  <2>1. part = "pulls"
    BY DEF PartsNext, allVars
  <2>2. [Pulls!Next]_(Pulls!pullRequestSyncVars)
    BY <2>1 DEF PartsNext, allVars, pullVars, Pulls!pullRequestSyncVars
  <2> QED BY <2>1, <2>2, PullsStep
<1>3. I => ChangesAreReadLater
  BY DEF PullsInv, ChangesAreReadLater
<1> QED BY <1>1, <1>2, <1>3, PTL DEF PartsSpec

----------------------------------------------------------------------------
(* The GitHub budget (GitHubBudget).                                         *)

CrawlFloor == Floor + Reserve
BudgetCall ==
  [step: {"idle", "allowed", "answered", "limited"}, remaining: 0..Limit,
   reset: 0..(MaxClock + WindowLen), wait: Nat]

\* The crawl's row stops it in this window.
Blocked ==
  /\ budget["crawler"].remaining # Budget!None /\ budget["crawler"].remaining < CrawlFloor
  /\ budget["crawler"].reset = Budget!ResetAt(clock)

\* The crawl's calls that may spend a point before the row says otherwise, and
\* those whose answer, once it is recorded, lets the crawl go on.
Spenders ==
  {c \in Crawl : calls[c].step = "allowed" \/ (~Blocked /\ calls[c].step \in {"idle", "limited"})}
Reopeners ==
  {c \in Crawl : calls[c].step = "answered" /\
     (calls[c].remaining >= CrawlFloor \/ calls[c].reset # Budget!ResetAt(clock))}

\* Twice the points the crawl may still spend below its floor with s spenders
\* and g reopeners of n: every reopener frees the n calls but the g - 1 others.
TwiceLeft(n, s, g) == 2 * s + 2 * (g * n) - g * (g - 1)
TwiceMost(n) == n * (n + 1)

SpendInv ==
  IF left >= CrawlFloor THEN under = 0
  ELSE 2 * under + TwiceLeft(Cardinality(Crawl), Cardinality(Spenders), Cardinality(Reopeners))
         <= (1 + blind) * TwiceMost(Cardinality(Crawl))

BudgetTypes ==
  /\ Budget!TypeOK
  /\ calls \in [Crawl \cup Interactive -> BudgetCall]
  /\ \A l \in Budget!Lane : budget[l].reset <= Budget!ResetAt(clock)
  /\ \A c \in Crawl \cup Interactive : calls[c].reset <= Budget!ResetAt(clock)
  /\ under + left <= Limit

BudgetInv == BudgetTypes /\ SpendInv

----------------------------------------------------------------------------
LEMMA TwiceLeftBounds ==
  ASSUME NEW n \in Nat, NEW s \in Nat, NEW g \in Nat, s + g <= n
  PROVE  TwiceLeft(n, s, g) \in Int /\ 0 <= TwiceLeft(n, s, g) /\ TwiceLeft(n, s, g) <= TwiceMost(n)
<1> DEFINE k == n - g
<1>1. k \in Nat /\ s <= k /\ n = g + k
  OBVIOUS
<1> HIDE DEF k
<1>2. k * k >= k /\ g * k \in Nat /\ g * g >= g /\ g * g \in Nat /\ k * k \in Nat
  <2>1. \A i \in Nat : i * i \in Nat /\ i * i >= i
    <3> SUFFICES ASSUME NEW i \in Nat PROVE i * i \in Nat /\ i * i >= i
      OBVIOUS
    <3>1. CASE i = 0
      BY <3>1
    <3>2. CASE i >= 1
      BY <3>2
    <3> QED BY <3>1, <3>2
  <2> QED BY <1>1, <2>1
<1>3. g * n = g * g + g * k /\ n * (n + 1) = g * g + 2 * (g * k) + k * k + g + k /\ g * (g - 1) = g * g - g
  BY <1>1
<1> QED BY <1>1, <1>2, <1>3 DEF TwiceLeft, TwiceMost

\* More spenders are two each; a reopener that is gone left all calls free but
\* the other reopeners.
LEMMA MoreSpenders ==
  ASSUME NEW n \in Nat, NEW s \in Nat, NEW g \in Nat, NEW t \in Nat
  PROVE  TwiceLeft(n, t, g) = TwiceLeft(n, s, g) + 2 * (t - s)
<1>1. g * n \in Int /\ g * (g - 1) \in Int
  OBVIOUS
<1> QED BY <1>1 DEF TwiceLeft

LEMMA ReopenerGone ==
  ASSUME NEW n \in Nat, NEW s \in Nat, NEW t \in Nat, NEW h \in Nat, t + h <= n
  PROVE  TwiceLeft(n, t, h) <= TwiceLeft(n, s, h + 1)
<1> DEFINE g == h + 1
<1>1. g * n = h * n + n /\ g * (g - 1) = h * h + h /\ h * (h - 1) = h * h - h /\ h * n \in Int /\ h * h \in Int
  OBVIOUS
<1> QED BY <1>1 DEF TwiceLeft

LEMMA BudgetFacts ==
  ASSUME BudgetTypes
  PROVE  /\ clock \in Nat /\ left \in 0..Limit /\ under \in 0..Limit /\ blind \in 0..MaxBlind /\ blind \in Nat
         /\ budget \in [{"crawler", "interactive"} -> [remaining: (-1)..Limit, reset: 0..(MaxClock + WindowLen), pause: Nat]]
         /\ calls \in [Crawl \cup Interactive -> BudgetCall]
         /\ under + left <= Limit /\ clock <= MaxClock
BY BudgetAssumption DEF BudgetTypes, Budget!TypeOK, Budget!Clock, Budget!Lane, Budget!BudgetRow, Budget!None

\* The end of a window is ahead, at most a window away, and no later for an
\* earlier instant.
LEMMA WindowEnds ==
  ASSUME NEW a \in Nat
  PROVE  /\ Budget!ResetAt(a) \in Nat /\ a < Budget!ResetAt(a) /\ Budget!ResetAt(a) <= a + WindowLen
         /\ Budget!ResetAt(a) <= Budget!ResetAt(a + 1)
         /\ Budget!Window(a + 1) = Budget!Window(a) => Budget!ResetAt(a + 1) = Budget!ResetAt(a)
<1> DEFINE x == a \div WindowLen
           y == (a + 1) \div WindowLen
<1>1. WindowLen \in Nat /\ WindowLen > 0
  BY BudgetAssumption
<1>2. x \in Nat /\ y \in Nat /\ x * WindowLen <= a /\ a < (x + 1) * WindowLen
      /\ y * WindowLen <= a + 1 /\ a + 1 < (y + 1) * WindowLen
  BY <1>1
<1>3. /\ Budget!Window(a) = x /\ Budget!Window(a + 1) = y
      /\ Budget!ResetAt(a) = (x + 1) * WindowLen /\ Budget!ResetAt(a + 1) = (y + 1) * WindowLen
  BY DEF Budget!Window, Budget!ResetAt
<1> HIDE DEF x, y
<1>4. x <= y
  <2> SUFFICES ASSUME y + 1 <= x
               PROVE  FALSE
    BY <1>2
  <2>1. (y + 1) * WindowLen <= x * WindowLen
    BY <1>1, <1>2
  <2> QED BY <1>1, <1>2, <2>1
<1>5. (x + 1) * WindowLen <= (y + 1) * WindowLen
  BY <1>1, <1>2, <1>4
<1>6. (x + 1) * WindowLen = x * WindowLen + WindowLen /\ x * WindowLen \in Nat
  BY <1>1, <1>2
<1> QED BY <1>1, <1>2, <1>3, <1>5, <1>6

LEMMA DisjointCalls ==
  ASSUME NEW A \in SUBSET Crawl, NEW B \in SUBSET Crawl, A \cap B = {}
  PROVE  /\ Cardinality(Crawl) \in Nat /\ Cardinality(A) \in Nat /\ Cardinality(B) \in Nat
         /\ Cardinality(A) + Cardinality(B) <= Cardinality(Crawl)
<1>1. IsFiniteSet(Crawl) /\ IsFiniteSet(A) /\ IsFiniteSet(B)
  BY BudgetAssumption, FS_Subset
<1>2. Cardinality(A) \in Nat /\ Cardinality(B) \in Nat /\ Cardinality(Crawl) \in Nat /\ Cardinality(A \cap B) = 0
  BY <1>1, FS_CardinalityType, FS_EmptySet
<1>3. Cardinality(A \cup B) = Cardinality(A) + Cardinality(B) - Cardinality(A \cap B)
  BY <1>1, FS_Union
<1>4. Cardinality(A \cup B) <= Cardinality(Crawl)
  BY <1>1, FS_Subset
<1> QED BY <1>2, <1>3, <1>4

LEMMA SpendersAndReopeners ==
  /\ Spenders \in SUBSET Crawl /\ Reopeners \in SUBSET Crawl /\ Spenders \cap Reopeners = {}
  /\ Spenders' \in SUBSET Crawl /\ Reopeners' \in SUBSET Crawl /\ Spenders' \cap Reopeners' = {}
BY DEF Spenders, Reopeners

\* A set that gains at most one call.
LEMMA OneCallMore ==
  ASSUME NEW A \in SUBSET Crawl, NEW B \in SUBSET Crawl, NEW c, B \ {c} \subseteq A \ {c}
  PROVE  Cardinality(B) <= Cardinality(A) + (IF c \in B THEN 1 ELSE 0) - (IF c \in A THEN 1 ELSE 0)
<1>1. IsFiniteSet(A) /\ IsFiniteSet(B)
  BY BudgetAssumption, FS_Subset
<1>2. /\ Cardinality(A \ {c}) = IF c \in A THEN Cardinality(A) - 1 ELSE Cardinality(A)
      /\ Cardinality(B \ {c}) = IF c \in B THEN Cardinality(B) - 1 ELSE Cardinality(B)
      /\ IsFiniteSet(A \ {c}) /\ IsFiniteSet(B \ {c})
  BY <1>1, FS_RemoveElement
<1>3. Cardinality(B \ {c}) <= Cardinality(A \ {c})
  BY <1>2, FS_Subset
<1>4. /\ Cardinality(A) \in Nat /\ Cardinality(B) \in Nat
      /\ Cardinality(A \ {c}) \in Nat /\ Cardinality(B \ {c}) \in Nat
  BY <1>1, <1>2, FS_CardinalityType
<1> QED BY <1>2, <1>3, <1>4

----------------------------------------------------------------------------
\* A step within a window: what is spent below the floor was a spender's, and
\* a call that a failed read or write lets through stands for itself.
LEMMA SpendKept ==
  ASSUME BudgetTypes, BudgetTypes', SpendInv, left' <= left, left >= CrawlFloor => under' = under,
         NEW s, s = Cardinality(Spenders), NEW g, g = Cardinality(Reopeners),
         NEW t, t = Cardinality(Spenders'), NEW h, h = Cardinality(Reopeners'),
         left < CrawlFloor =>
           \/ h = g /\ t <= s /\ under' = under /\ blind' >= blind
           \/ h = g /\ t <= s - 1 /\ under' = under + 1 /\ blind' >= blind
           \/ h = g - 1 /\ under' = under /\ blind' >= blind
           \/ h = g /\ t <= s + 1 /\ under' = under /\ blind' = blind + 1
  PROVE  SpendInv'
<1> DEFINE n == Cardinality(Crawl)
           most == TwiceMost(n)
<1>1. n \in Nat /\ s \in Nat /\ g \in Nat /\ s + g <= n
  BY SpendersAndReopeners, DisjointCalls
<1>2. t \in Nat /\ h \in Nat /\ t + h <= n
  BY SpendersAndReopeners, DisjointCalls
<1>3. /\ left \in Nat /\ left' \in Nat /\ CrawlFloor \in Nat
      /\ under \in Nat /\ under' \in Nat /\ blind \in Nat /\ blind' \in Nat
  <2>1. /\ left \in 0..Limit /\ under \in 0..Limit /\ blind \in 0..MaxBlind
        /\ left' \in 0..Limit /\ under' \in 0..Limit /\ blind' \in 0..MaxBlind
    BY DEF BudgetTypes, Budget!TypeOK
  <2> QED BY <2>1, BudgetAssumption DEF CrawlFloor
<1>4. /\ TwiceLeft(n, s, g) \in Int /\ TwiceLeft(n, t, h) \in Int
      /\ 0 <= TwiceLeft(n, t, h) /\ TwiceLeft(n, t, h) <= most
  BY <1>1, <1>2, TwiceLeftBounds
<1>5. most \in Nat /\ (n >= 1 => most >= 2)
  <2>1. n * (n + 1) = n * n + n /\ n * n \in Nat /\ (n >= 1 => n * n >= 1)
    BY <1>1
  <2> QED BY <1>1, <2>1 DEF TwiceMost
<1>6. IF left >= CrawlFloor THEN under = 0 ELSE 2 * under + TwiceLeft(n, s, g) <= (1 + blind) * most
  BY DEF SpendInv
<1>7. ASSUME under' = 0
      PROVE  2 * under' + TwiceLeft(n, t, h) <= (1 + blind') * most
  <2>1. (1 + blind') * most = most + blind' * most /\ blind' * most \in Nat
    BY <1>3, <1>5
  <2> HIDE DEF most, n
  <2> QED BY <1>4, <1>5, <1>7, <2>1
<1>8. ASSUME left < CrawlFloor
      PROVE  2 * under' + TwiceLeft(n, t, h) <= (1 + blind') * most
  <2>1. 2 * under + TwiceLeft(n, s, g) <= (1 + blind) * most
    BY <1>3, <1>6, <1>8
  <2>2. /\ h = g => TwiceLeft(n, t, h) = TwiceLeft(n, s, g) + 2 * (t - s)
        /\ g = h + 1 => TwiceLeft(n, t, h) <= TwiceLeft(n, s, g)
    <3> HIDE DEF most, n
    <3>1. ASSUME h = g PROVE TwiceLeft(n, t, h) = TwiceLeft(n, s, g) + 2 * (t - s)
      <4>1. TwiceLeft(n, t, g) = TwiceLeft(n, s, g) + 2 * (t - s)
        BY <1>1, <1>2, MoreSpenders
      <4> QED BY <3>1, <4>1
    <3>2. ASSUME g = h + 1 PROVE TwiceLeft(n, t, h) <= TwiceLeft(n, s, g)
      <4>1. TwiceLeft(n, t, h) <= TwiceLeft(n, s, h + 1)
        BY <1>1, <1>2, ReopenerGone
      <4> QED BY <3>2, <4>1
    <3> QED BY <3>1, <3>2
  <2>3. blind' >= blind => (1 + blind') * most >= (1 + blind) * most
    BY <1>3, <1>5
  <2>4. blind' = blind + 1 => (1 + blind') * most = (1 + blind) * most + most
    BY <1>3, <1>5
  <2>5. (1 + blind') * most \in Int /\ (1 + blind) * most \in Int
    BY <1>3, <1>5
  <2>6. t <= s + 1 => t - s <= 1
    BY <1>1, <1>2
  <2> HIDE DEF most, n
  <2>7. CASE h = g /\ t <= s /\ under' = under /\ blind' >= blind
    BY <1>1, <1>2, <1>3, <1>4, <2>1, <2>2, <2>3, <2>5, <2>7
  <2>8. CASE h = g /\ t <= s - 1 /\ under' = under + 1 /\ blind' >= blind
    BY <1>1, <1>2, <1>3, <1>4, <2>1, <2>2, <2>3, <2>5, <2>8
  <2>9. CASE h = g - 1 /\ under' = under /\ blind' >= blind
    BY <1>1, <1>2, <1>3, <1>4, <2>1, <2>2, <2>3, <2>5, <2>9
  <2>10. CASE h = g /\ t <= s + 1 /\ under' = under /\ blind' = blind + 1
    <3>1. CASE t <= s
      BY <1>1, <1>2, <1>3, <1>4, <2>1, <2>2, <2>3, <2>5, <2>10, <3>1
    <3>2. CASE t = s + 1
      <4>1. n >= 1
        BY <1>1, <1>2, <3>2
      <4> QED BY <1>1, <1>2, <1>3, <1>4, <1>5, <2>1, <2>2, <2>4, <2>5, <2>10, <3>2, <4>1
    <3> QED BY <1>1, <1>2, <2>10, <3>1, <3>2
  <2> QED BY <1>8, <2>7, <2>8, <2>9, <2>10
<1>9. CASE left >= CrawlFloor
  BY <1>3, <1>6, <1>7, <1>9 DEF SpendInv
<1>10. CASE left < CrawlFloor
  BY <1>3, <1>8, <1>10 DEF SpendInv
<1> QED BY <1>3, <1>9, <1>10

----------------------------------------------------------------------------
LEMMA BudgetTypesKept ==
  ASSUME BudgetTypes, NEW c \in Crawl \cup Interactive, NEW new \in BudgetCall,
         new.reset <= Budget!ResetAt(clock), calls' = [calls EXCEPT ![c] = new],
         clock' = clock, left' \in 0..Limit, under' \in 0..Limit, blind' \in 0..MaxBlind, under' + left' <= Limit,
         budget' \in [Budget!Lane -> Budget!BudgetRow],
         \A l \in Budget!Lane : budget'[l].reset <= Budget!ResetAt(clock)
  PROVE  BudgetTypes'
<1>1. calls' \in [Crawl \cup Interactive -> BudgetCall]
  BY DEF BudgetTypes
<1>2. \A d \in Crawl \cup Interactive : calls'[d].reset <= Budget!ResetAt(clock)
  BY DEF BudgetTypes
<1>3. clock \in Budget!Clock
  BY DEF BudgetTypes, Budget!TypeOK
<1>4. Budget!TypeOK'
  BY <1>1, <1>3 DEF Budget!TypeOK, BudgetCall
<1> QED BY <1>1, <1>2, <1>4 DEF BudgetTypes, Budget!ResetAt, Budget!Window

\* A step of one call: the others keep their part, while the crawl's row
\* and the window are the same.
LEMMA OtherCalls ==
  ASSUME NEW c, \A d \in Crawl : d # c => calls'[d] = calls[d], clock' = clock
  PROVE  /\ Reopeners' \ {c} = Reopeners \ {c}
         /\ budget'["crawler"].remaining = budget["crawler"].remaining
              /\ budget'["crawler"].reset = budget["crawler"].reset =>
              /\ Blocked' <=> Blocked
              /\ Spenders' \ {c} = Spenders \ {c}
<1>1. Budget!ResetAt(clock)' = Budget!ResetAt(clock)
  BY DEF Budget!ResetAt, Budget!Window
<1>2. Reopeners' \ {c} = Reopeners \ {c}
  BY <1>1 DEF Reopeners
<1>3. ASSUME budget'["crawler"].remaining = budget["crawler"].remaining,
             budget'["crawler"].reset = budget["crawler"].reset
      PROVE  (Blocked' <=> Blocked) /\ Spenders' \ {c} = Spenders \ {c}
  <2>1. Blocked' <=> Blocked
    BY <1>1, <1>3 DEF Blocked
  <2> QED BY <2>1 DEF Spenders
<1> QED BY <1>2, <1>3

\* The counts of a step that moves one call.
LEMMA OneCallMoves ==
  ASSUME NEW c, Reopeners' \ {c} = Reopeners \ {c}
  PROVE  /\ Cardinality(Reopeners') =
              Cardinality(Reopeners) + (IF c \in Reopeners' THEN 1 ELSE 0) - (IF c \in Reopeners THEN 1 ELSE 0)
         /\ Spenders' \ {c} \subseteq Spenders \ {c} =>
              Cardinality(Spenders') <=
                Cardinality(Spenders) + (IF c \in Spenders' THEN 1 ELSE 0) - (IF c \in Spenders THEN 1 ELSE 0)
         /\ Cardinality(Spenders) \in Nat /\ Cardinality(Spenders') \in Nat
         /\ Cardinality(Reopeners) \in Nat /\ Cardinality(Reopeners') \in Nat
<1>1. /\ Cardinality(Spenders) \in Nat /\ Cardinality(Spenders') \in Nat
      /\ Cardinality(Reopeners) \in Nat /\ Cardinality(Reopeners') \in Nat
  BY SpendersAndReopeners, DisjointCalls
<1>2. Cardinality(Reopeners') <=
        Cardinality(Reopeners) + (IF c \in Reopeners' THEN 1 ELSE 0) - (IF c \in Reopeners THEN 1 ELSE 0)
  BY SpendersAndReopeners, OneCallMore
<1>3. Cardinality(Reopeners) <=
        Cardinality(Reopeners') + (IF c \in Reopeners THEN 1 ELSE 0) - (IF c \in Reopeners' THEN 1 ELSE 0)
  BY SpendersAndReopeners, OneCallMore
<1>4. Spenders' \ {c} \subseteq Spenders \ {c} =>
        Cardinality(Spenders') <=
          Cardinality(Spenders) + (IF c \in Spenders' THEN 1 ELSE 0) - (IF c \in Spenders THEN 1 ELSE 0)
  BY SpendersAndReopeners, OneCallMore
<1>5. Cardinality(Reopeners') =
        Cardinality(Reopeners) + (IF c \in Reopeners' THEN 1 ELSE 0) - (IF c \in Reopeners THEN 1 ELSE 0)
  BY <1>1, <1>2, <1>3
<1> QED BY <1>1, <1>4, <1>5

\* Who asks and is told to go ahead is not stopped by its row.
LEMMA ProceedsUnblocked ==
  ASSUME BudgetTypes, Budget!CanProceed("crawler")
  PROVE  ~Blocked
<1> SUFFICES ASSUME Blocked PROVE FALSE
  OBVIOUS
<1>1. \A l \in Budget!Lane : budget[l].reset <= Budget!ResetAt(clock)
  BY DEF BudgetTypes
<1>2. /\ budget["crawler"].remaining # Budget!None /\ budget["crawler"].remaining < CrawlFloor
      /\ budget["crawler"].reset = Budget!ResetAt(clock)
  BY DEF Blocked
<1>3. "crawler" \in Budget!Newest
  BY <1>1, <1>2 DEF Budget!Newest, Budget!Known, Budget!Lane
<1>4. clock \in Nat /\ CrawlFloor \in Nat /\ budget["crawler"].remaining \in (-1)..Limit
  BY BudgetFacts, BudgetAssumption DEF CrawlFloor
<1>5. clock >= budget["crawler"].reset \/ budget["crawler"].remaining >= CrawlFloor
  BY <1>3 DEF Budget!CanProceed, Budget!Enough, Budget!FloorOf, CrawlFloor
<1> QED BY <1>2, <1>4, <1>5, WindowEnds, BudgetAssumption

----------------------------------------------------------------------------
\* What a step needs to know of one call.
CallMoves(c, new) ==
  /\ calls' = [calls EXCEPT ![c] = new]
  /\ new \in BudgetCall /\ clock' = clock
  /\ c \in Crawl \cup Interactive

LEMMA CallMovesTo ==
  ASSUME BudgetTypes, NEW c, NEW new, CallMoves(c, new)
  PROVE  /\ calls'[c] = new /\ \A d \in Crawl : d # c => calls'[d] = calls[d]
         /\ c \in Crawl => (c \in Spenders' <=> new.step = "allowed" \/ (~Blocked' /\ new.step \in {"idle", "limited"}))
         /\ c \in Crawl => (c \in Reopeners' <=> new.step = "answered" /\
              (new.remaining >= CrawlFloor \/ new.reset # Budget!ResetAt(clock)))
<1>1. calls'[c] = new /\ \A d \in Crawl : d # c => calls'[d] = calls[d]
  BY DEF CallMoves, BudgetTypes
<1>2. Budget!ResetAt(clock)' = Budget!ResetAt(clock)
  BY DEF CallMoves, Budget!ResetAt, Budget!Window
<1> QED BY <1>1, <1>2 DEF Spenders, Reopeners

LEMMA IdleCall == Budget!Idle \in BudgetCall /\ Budget!Idle.step = "idle" /\ Budget!Idle.reset = 0
BY BudgetAssumption DEF BudgetCall, Budget!Idle

LEMMA AskKeeps ==
  ASSUME BudgetInv, NEW c \in Crawl \cup Interactive, Budget!Ask(c)
  PROVE  BudgetInv'
<1> DEFINE new == [calls[c] EXCEPT !.step = "allowed"]
<1>0. BudgetTypes /\ SpendInv
  BY DEF BudgetInv
<1>1. /\ calls[c].step = "idle" /\ UNCHANGED <<clock, left, budget, under>> /\ calls' = [calls EXCEPT ![c] = new]
      /\ \/ Budget!CanProceed(Budget!LaneOf(c)) /\ blind' = blind
         \/ Budget!LaneOf(c) = "crawler" /\ blind < MaxBlind /\ blind' = blind + 1
  BY DEF Budget!Ask
<1>2. new \in BudgetCall /\ new.step = "allowed" /\ new.reset = calls[c].reset
  BY <1>0, BudgetFacts DEF BudgetCall
<1> HIDE DEF new
<1>3. blind' \in 0..MaxBlind
  BY <1>0, <1>1, BudgetFacts, BudgetAssumption
<1>4. BudgetTypes'
  BY <1>0, <1>1, <1>2, <1>3, BudgetFacts, BudgetTypesKept DEF BudgetTypes, Budget!TypeOK
<1>5. CallMoves(c, new)
  BY <1>1, <1>2 DEF CallMoves
<1>6. /\ Reopeners' \ {c} = Reopeners \ {c} /\ Spenders' \ {c} = Spenders \ {c} /\ (Blocked' <=> Blocked)
      /\ c \in Crawl => c \in Spenders' /\ c \notin Reopeners'
  BY <1>0, <1>1, <1>2, <1>5, CallMovesTo, OtherCalls
<1>7. /\ c \in Crawl => (c \in Spenders <=> ~Blocked) /\ c \notin Reopeners
      /\ c \notin Crawl => c \notin Spenders /\ c \notin Reopeners /\ c \notin Spenders' /\ c \notin Reopeners'
  BY <1>1 DEF Spenders, Reopeners
<1>8. c \in Crawl /\ Budget!CanProceed(Budget!LaneOf(c)) => ~Blocked
  BY <1>0, ProceedsUnblocked DEF Budget!LaneOf
<1>9. c \in Crawl <=> Budget!LaneOf(c) = "crawler"
  BY DEF Budget!LaneOf
<1> DEFINE s == Cardinality(Spenders)
           t == Cardinality(Spenders')
           g == Cardinality(Reopeners)
           h == Cardinality(Reopeners')
<1>10. /\ h = g + (IF c \in Reopeners' THEN 1 ELSE 0) - (IF c \in Reopeners THEN 1 ELSE 0)
       /\ t <= s + (IF c \in Spenders' THEN 1 ELSE 0) - (IF c \in Spenders THEN 1 ELSE 0)
       /\ s \in Nat /\ t \in Nat /\ g \in Nat /\ h \in Nat
  BY <1>6, OneCallMoves
<1> HIDE DEF s, t, g, h
<1>11. h = g
  BY <1>6, <1>7, <1>10
<1>12. left \in Nat /\ blind \in Nat /\ left' = left /\ under' = under
  BY <1>0, <1>1, BudgetFacts, BudgetAssumption
<1>13. \/ t <= s /\ blind' >= blind
       \/ t <= s + 1 /\ blind' = blind + 1
  <2>1. CASE Budget!CanProceed(Budget!LaneOf(c)) /\ blind' = blind
    BY <1>6, <1>7, <1>8, <1>10, <1>12, <2>1
  <2>2. CASE Budget!LaneOf(c) = "crawler" /\ blind < MaxBlind /\ blind' = blind + 1
    BY <1>6, <1>7, <1>9, <1>10, <1>12, <2>2
  <2> QED BY <1>1, <2>1, <2>2
<1>14. SpendInv'
  BY <1>0, <1>4, <1>11, <1>12, <1>13, SpendKept DEF s, t, g, h
<1> QED BY <1>4, <1>14 DEF BudgetInv

\* The counts after a step of one call that leaves the crawl's row as it was.
LEMMA CountsOfCall ==
  ASSUME BudgetTypes, NEW c, NEW new, CallMoves(c, new),
         budget'["crawler"].remaining = budget["crawler"].remaining,
         budget'["crawler"].reset = budget["crawler"].reset
  PROVE  /\ Cardinality(Reopeners') =
              Cardinality(Reopeners) + (IF c \in Reopeners' THEN 1 ELSE 0) - (IF c \in Reopeners THEN 1 ELSE 0)
         /\ Cardinality(Spenders') <=
              Cardinality(Spenders) + (IF c \in Spenders' THEN 1 ELSE 0) - (IF c \in Spenders THEN 1 ELSE 0)
         /\ Cardinality(Spenders) \in Nat /\ Cardinality(Spenders') \in Nat
         /\ Cardinality(Reopeners) \in Nat /\ Cardinality(Reopeners') \in Nat
         /\ c \in Crawl => (c \in Spenders' <=> new.step = "allowed" \/ (~Blocked /\ new.step \in {"idle", "limited"}))
         /\ c \in Crawl => (c \in Spenders <=> calls[c].step = "allowed" \/ (~Blocked /\ calls[c].step \in {"idle", "limited"}))
         /\ c \in Crawl => (c \in Reopeners' <=> new.step = "answered" /\
              (new.remaining >= CrawlFloor \/ new.reset # Budget!ResetAt(clock)))
         /\ c \in Crawl => (c \in Reopeners <=> calls[c].step = "answered" /\
              (calls[c].remaining >= CrawlFloor \/ calls[c].reset # Budget!ResetAt(clock)))
         /\ c \notin Crawl => c \notin Spenders /\ c \notin Reopeners /\ c \notin Spenders' /\ c \notin Reopeners'
<1>1. /\ c \in Crawl => (c \in Spenders' <=> new.step = "allowed" \/ (~Blocked' /\ new.step \in {"idle", "limited"}))
      /\ c \in Crawl => (c \in Reopeners' <=> new.step = "answered" /\
           (new.remaining >= CrawlFloor \/ new.reset # Budget!ResetAt(clock)))
      /\ \A d \in Crawl : d # c => calls'[d] = calls[d]
      /\ clock' = clock
  BY CallMovesTo DEF CallMoves
<1>2. Reopeners' \ {c} = Reopeners \ {c} /\ Spenders' \ {c} = Spenders \ {c} /\ (Blocked' <=> Blocked)
  BY <1>1, OtherCalls
<1>3. Spenders' \ {c} \subseteq Spenders \ {c}
  BY <1>2
<1>4. c \notin Crawl => c \notin Spenders /\ c \notin Reopeners /\ c \notin Spenders' /\ c \notin Reopeners'
  BY DEF Spenders, Reopeners
<1>5. /\ c \in Crawl => (c \in Spenders <=> calls[c].step = "allowed" \/ (~Blocked /\ calls[c].step \in {"idle", "limited"}))
      /\ c \in Crawl => (c \in Reopeners <=> calls[c].step = "answered" /\
           (calls[c].remaining >= CrawlFloor \/ calls[c].reset # Budget!ResetAt(clock)))
  BY DEF Spenders, Reopeners
<1>6. /\ Cardinality(Reopeners') =
           Cardinality(Reopeners) + (IF c \in Reopeners' THEN 1 ELSE 0) - (IF c \in Reopeners THEN 1 ELSE 0)
      /\ Cardinality(Spenders') <=
           Cardinality(Spenders) + (IF c \in Spenders' THEN 1 ELSE 0) - (IF c \in Spenders THEN 1 ELSE 0)
      /\ Cardinality(Spenders) \in Nat /\ Cardinality(Spenders') \in Nat
      /\ Cardinality(Reopeners) \in Nat /\ Cardinality(Reopeners') \in Nat
  BY <1>2, <1>3, OneCallMoves
<1> QED BY <1>1, <1>2, <1>4, <1>5, <1>6

LEMMA AnswerKeeps ==
  ASSUME BudgetInv, NEW c \in Crawl \cup Interactive, Budget!Answer(c)
  PROVE  BudgetInv'
<1> DEFINE new == [Budget!Idle EXCEPT !.step = "answered", !.remaining = left - 1, !.reset = Budget!ResetAt(clock)]
<1>0. BudgetTypes /\ SpendInv
  BY DEF BudgetInv
<1>1. /\ calls[c].step = "allowed" /\ left > 0 /\ left' = left - 1 /\ UNCHANGED <<clock, budget, blind>>
      /\ calls' = [calls EXCEPT ![c] = new]
      /\ under' = under + IF Budget!LaneOf(c) = "crawler" /\ left < CrawlFloor THEN 1 ELSE 0
  BY DEF Budget!Answer, Budget!FloorOf, CrawlFloor
<1>2. /\ left \in Nat /\ left' \in 0..Limit /\ clock \in Nat /\ clock <= MaxClock /\ Limit \in Nat /\ WindowLen \in Nat
      /\ under \in Nat /\ under + left <= Limit /\ blind \in 0..MaxBlind /\ blind \in Nat /\ CrawlFloor \in Nat
      /\ MaxClock \in Nat
  BY <1>0, <1>1, BudgetFacts, BudgetAssumption DEF CrawlFloor
<1>3. Budget!ResetAt(clock) \in 0..(MaxClock + WindowLen)
  BY <1>2, WindowEnds
<1>4. left - 1 \in 0..Limit
  BY <1>1, <1>2
<1>5. new \in BudgetCall /\ new.step = "answered" /\ new.reset = Budget!ResetAt(clock) /\ new.remaining = left - 1
  BY <1>3, <1>4, IdleCall DEF BudgetCall
<1> HIDE DEF new
<1>6. c \in Crawl <=> Budget!LaneOf(c) = "crawler"
  BY DEF Budget!LaneOf
<1>7. under' = (IF c \in Crawl /\ left < CrawlFloor THEN under + 1 ELSE under)
  BY <1>1, <1>2, <1>6
<1>8. under' \in 0..Limit /\ under' + left' <= Limit
  BY <1>1, <1>2, <1>7
<1>9. BudgetTypes'
  <2>1. budget \in [Budget!Lane -> Budget!BudgetRow] /\ \A l \in Budget!Lane : budget[l].reset <= Budget!ResetAt(clock)
    BY <1>0 DEF BudgetTypes, Budget!TypeOK
  <2>2. new.reset <= Budget!ResetAt(clock)
    BY <1>2, <1>5, WindowEnds
  <2> QED BY <1>0, <1>1, <1>2, <1>5, <1>8, <2>1, <2>2, BudgetTypesKept
<1>10. CallMoves(c, new)
  BY <1>1, <1>5 DEF CallMoves
<1> DEFINE s == Cardinality(Spenders)
           t == Cardinality(Spenders')
           g == Cardinality(Reopeners)
           h == Cardinality(Reopeners')
<1>11. /\ h = g + (IF c \in Reopeners' THEN 1 ELSE 0) - (IF c \in Reopeners THEN 1 ELSE 0)
       /\ t <= s + (IF c \in Spenders' THEN 1 ELSE 0) - (IF c \in Spenders THEN 1 ELSE 0)
       /\ s \in Nat /\ t \in Nat /\ g \in Nat /\ h \in Nat
       /\ c \in Crawl => c \in Spenders /\ c \notin Spenders' /\ c \notin Reopeners
       /\ c \in Crawl => (c \in Reopeners' <=> left - 1 >= CrawlFloor)
       /\ c \notin Crawl => c \notin Spenders /\ c \notin Reopeners /\ c \notin Spenders' /\ c \notin Reopeners'
  BY <1>0, <1>1, <1>5, <1>10, CountsOfCall
<1> HIDE DEF s, t, g, h
<1>12. ASSUME left < CrawlFloor
       PROVE  h = g /\ (IF c \in Crawl THEN t <= s - 1 /\ under' = under + 1 ELSE t <= s /\ under' = under)
  <2>1. CASE c \in Crawl
    BY <1>2, <1>7, <1>11, <1>12, <2>1
  <2>2. CASE c \notin Crawl
    BY <1>7, <1>11, <2>2
  <2> QED BY <2>1, <2>2
<1>13. left >= CrawlFloor => under' = under
  BY <1>2, <1>7
<1>14. left' <= left /\ blind' >= blind
  BY <1>1, <1>2
<1>15. SpendInv'
  BY <1>0, <1>9, <1>12, <1>13, <1>14, SpendKept DEF s, t, g, h
<1> QED BY <1>9, <1>15 DEF BudgetInv

\* A refusal, a call that is dropped or ends a pause of its own.
LEMMA CallEndsKeeps ==
  ASSUME BudgetInv, NEW c \in Crawl \cup Interactive, NEW new \in BudgetCall,
         new.step \in {"idle", "limited"}, new.reset = 0, calls' = [calls EXCEPT ![c] = new],
         clock' = clock, left' = left, under' = under, blind' \in 0..MaxBlind,
         budget' \in [Budget!Lane -> Budget!BudgetRow],
         \A l \in Budget!Lane : budget'[l].remaining = budget[l].remaining /\ budget'[l].reset = budget[l].reset,
         \/ calls[c].step \in {"allowed", "limited"} /\ blind' = blind
         \/ calls[c].step = "answered" /\ blind' = blind + 1
  PROVE  BudgetInv'
<1>0. BudgetTypes /\ SpendInv
  BY DEF BudgetInv
<1>1. CallMoves(c, new)
  BY DEF CallMoves
<1>2. /\ left \in 0..Limit /\ left \in Nat /\ clock \in Nat /\ under \in 0..Limit /\ under + left <= Limit /\ blind \in Nat
  BY <1>0, BudgetFacts, BudgetAssumption
<1>3. \A l \in Budget!Lane : budget'[l].reset <= Budget!ResetAt(clock)
  BY <1>0 DEF BudgetTypes
<1>4. 0 <= Budget!ResetAt(clock)
  BY <1>2, WindowEnds
<1>5. BudgetTypes'
  BY <1>0, <1>2, <1>3, <1>4, BudgetTypesKept
<1> DEFINE s == Cardinality(Spenders)
           t == Cardinality(Spenders')
           g == Cardinality(Reopeners)
           h == Cardinality(Reopeners')
<1>6. budget'["crawler"].remaining = budget["crawler"].remaining /\ budget'["crawler"].reset = budget["crawler"].reset
  BY DEF Budget!Lane
<1>7. /\ h = g + (IF c \in Reopeners' THEN 1 ELSE 0) - (IF c \in Reopeners THEN 1 ELSE 0)
      /\ t <= s + (IF c \in Spenders' THEN 1 ELSE 0) - (IF c \in Spenders THEN 1 ELSE 0)
      /\ s \in Nat /\ t \in Nat /\ g \in Nat /\ h \in Nat
      /\ c \in Crawl /\ calls[c].step \in {"allowed", "limited"} => (c \in Spenders' => c \in Spenders) /\ c \notin Reopeners
      /\ c \in Crawl => c \notin Reopeners'
      /\ c \notin Crawl => c \notin Spenders /\ c \notin Reopeners /\ c \notin Spenders' /\ c \notin Reopeners'
  BY <1>0, <1>1, <1>6, CountsOfCall
<1> HIDE DEF s, t, g, h
<1>8. \/ h = g /\ t <= s /\ blind' >= blind
      \/ h = g - 1 /\ blind' >= blind
      \/ h = g /\ t <= s + 1 /\ blind' = blind + 1
  <2>1. CASE calls[c].step \in {"allowed", "limited"} /\ blind' = blind
    BY <1>2, <1>7, <2>1
  <2>2. CASE calls[c].step = "answered" /\ blind' = blind + 1
    BY <1>2, <1>7, <2>2
  <2> QED BY <2>1, <2>2
<1>9. SpendInv'
  BY <1>0, <1>2, <1>5, <1>8, SpendKept DEF s, t, g, h
<1> QED BY <1>5, <1>9 DEF BudgetInv

\* The crawl's answer is recorded: its row stops it, or the answer let it go on.
LEMMA UpdateBudgetKeeps ==
  ASSUME BudgetInv, NEW c \in Crawl \cup Interactive, Budget!UpdateBudget(c)
  PROVE  BudgetInv'
<1> DEFINE lane == Budget!LaneOf(c)
<1>0. BudgetTypes /\ SpendInv
  BY DEF BudgetInv
<1>1. /\ calls[c].step = "answered" /\ UNCHANGED <<clock, left, blind, under>>
      /\ calls' = [calls EXCEPT ![c] = Budget!Idle]
      /\ budget' = [budget EXCEPT ![lane] =
           [@ EXCEPT !.remaining = calls[c].remaining, !.reset = calls[c].reset]]
  BY DEF Budget!UpdateBudget
<1>2. /\ left \in 0..Limit /\ left \in Nat /\ clock \in Nat /\ under \in 0..Limit /\ under + left <= Limit
      /\ blind \in Nat /\ blind \in 0..MaxBlind /\ CrawlFloor \in Nat
      /\ calls[c] \in BudgetCall /\ calls[c].reset <= Budget!ResetAt(clock)
      /\ budget \in [{"crawler", "interactive"} -> [remaining: (-1)..Limit, reset: 0..(MaxClock + WindowLen), pause: Nat]]
  BY <1>0, BudgetFacts, BudgetAssumption DEF BudgetTypes, CrawlFloor
<1>3. calls[c].remaining \in 0..Limit /\ calls[c].reset \in 0..(MaxClock + WindowLen)
  BY <1>2 DEF BudgetCall
<1>4. lane \in {"crawler", "interactive"} /\ (c \in Crawl <=> lane = "crawler")
  BY DEF Budget!LaneOf
<1> HIDE DEF lane
<1>5. /\ \A l \in {"crawler", "interactive"} : l # lane => budget'[l] = budget[l]
      /\ budget'[lane].remaining = calls[c].remaining /\ budget'[lane].reset = calls[c].reset
  BY <1>1, <1>2, <1>4
<1>6. budget' \in [Budget!Lane -> Budget!BudgetRow]
  <2>1. 0..Limit \subseteq (-1)..Limit
    BY BudgetAssumption
  <2>2. [budget[lane] EXCEPT !.remaining = calls[c].remaining, !.reset = calls[c].reset]
          \in [remaining: (-1)..Limit, reset: 0..(MaxClock + WindowLen), pause: Nat]
    BY <1>2, <1>3, <1>4, <2>1
  <2> QED BY <1>1, <1>2, <2>2 DEF Budget!Lane, Budget!BudgetRow, Budget!None
<1>7. \A l \in Budget!Lane : budget'[l].reset <= Budget!ResetAt(clock)
  BY <1>0, <1>2, <1>5 DEF BudgetTypes, Budget!Lane
<1>8. BudgetTypes'
  <2>1. 0 <= Budget!ResetAt(clock)
    BY <1>2, WindowEnds
  <2> QED BY <1>0, <1>1, <1>2, <1>6, <1>7, <2>1, IdleCall, BudgetTypesKept
<1>9. CallMoves(c, Budget!Idle)
  BY <1>1, IdleCall DEF CallMoves
<1>10. /\ \A d \in Crawl : d # c => calls'[d] = calls[d]
       /\ c \in Crawl => (c \in Spenders' <=> ~Blocked') /\ c \notin Reopeners'
  BY <1>0, <1>9, CallMovesTo, IdleCall
<1>11. Reopeners' \ {c} = Reopeners \ {c}
  BY <1>1, <1>10, OtherCalls
<1> DEFINE s == Cardinality(Spenders)
           t == Cardinality(Spenders')
           g == Cardinality(Reopeners)
           h == Cardinality(Reopeners')
<1>12. h = g + (IF c \in Reopeners' THEN 1 ELSE 0) - (IF c \in Reopeners THEN 1 ELSE 0) /\ g \in Nat /\ h \in Nat
  BY <1>11, OneCallMoves
<1>13. CASE c \notin Crawl
  <2>1. budget'["crawler"] = budget["crawler"]
    BY <1>4, <1>5, <1>13
  <2>2. Spenders' \ {c} = Spenders \ {c} /\ c \notin Spenders /\ c \notin Spenders' /\ c \notin Reopeners /\ c \notin Reopeners'
    BY <1>1, <1>10, <1>13, <2>1, OtherCalls DEF Spenders, Reopeners
  <2>3. Spenders' = Spenders
    BY <2>2
  <2>4. t = s /\ s \in Nat /\ h = g
    BY <1>12, <2>2, <2>3, SpendersAndReopeners, DisjointCalls
  <2> HIDE DEF s, t, g, h
  <2>5. SpendInv'
    BY <1>0, <1>1, <1>2, <1>8, <2>4, SpendKept DEF s, t, g, h
  <2> QED BY <1>8, <2>5 DEF BudgetInv
<1>14. CASE c \in Reopeners
  <2>1. c \in Crawl
    BY <1>14 DEF Reopeners
  <2>2. h = g - 1
    BY <1>10, <1>12, <1>14, <2>1
  <2> HIDE DEF s, t, g, h
  <2>3. SpendInv'
    BY <1>0, <1>1, <1>2, <1>8, <2>2, SpendKept DEF s, t, g, h
  <2> QED BY <1>8, <2>3 DEF BudgetInv
<1>15. CASE c \in Crawl /\ c \notin Reopeners
  <2>1. calls[c].remaining < CrawlFloor /\ calls[c].reset = Budget!ResetAt(clock)
    BY <1>1, <1>2, <1>3, <1>15 DEF Reopeners
  <2>2. Budget!ResetAt(clock)' = Budget!ResetAt(clock)
    BY <1>1 DEF Budget!ResetAt, Budget!Window
  <2>3. Blocked'
    BY <1>3, <1>4, <1>5, <1>15, <2>1, <2>2 DEF Blocked, Budget!None
  <2>4. Spenders' \ {c} \subseteq Spenders \ {c} /\ c \notin Spenders' /\ c \notin Spenders
    BY <1>1, <1>10, <1>15, <2>3 DEF Spenders
  <2>5. t <= s + (IF c \in Spenders' THEN 1 ELSE 0) - (IF c \in Spenders THEN 1 ELSE 0) /\ s \in Nat /\ t \in Nat
    BY <1>11, <2>4, OneCallMoves
  <2>6. t <= s /\ h = g
    BY <1>10, <1>12, <1>15, <2>4, <2>5
  <2> HIDE DEF s, t, g, h
  <2>7. SpendInv'
    BY <1>0, <1>1, <1>2, <1>8, <2>6, SpendKept DEF s, t, g, h
  <2> QED BY <1>8, <2>7 DEF BudgetInv
<1> QED BY <1>13, <1>14, <1>15

\* What is left of a window that begins is spent from there.
LEMMA TickKeeps ==
  ASSUME BudgetInv, Budget!Tick
  PROVE  BudgetInv'
<1>0. BudgetTypes /\ SpendInv
  BY DEF BudgetInv
<1>1. /\ clock < MaxClock /\ clock' = clock + 1 /\ UNCHANGED <<budget, calls>>
      /\ IF Budget!Window(clock') = Budget!Window(clock) THEN UNCHANGED <<left, blind, under>>
         ELSE left' = Limit /\ blind' = 0 /\ under' = 0
  BY DEF Budget!Tick
<1>2. /\ left \in 0..Limit /\ under \in 0..Limit /\ under + left <= Limit /\ clock \in Nat /\ clock <= MaxClock
      /\ blind \in 0..MaxBlind /\ blind \in Nat /\ MaxClock \in Nat /\ Limit \in Nat /\ MaxBlind \in Nat
  BY <1>0, BudgetFacts, BudgetAssumption
<1>3. left' \in 0..Limit /\ under' \in 0..Limit /\ under' + left' <= Limit /\ blind' \in 0..MaxBlind /\ clock' \in 0..MaxClock
  BY <1>1, <1>2
<1>4. Budget!ResetAt(clock) <= Budget!ResetAt(clock + 1) /\ Budget!ResetAt(clock) \in Nat /\ Budget!ResetAt(clock + 1) \in Nat
  <2>1. clock + 1 \in Nat
    BY <1>2
  <2> QED BY <1>2, <2>1, WindowEnds
<1>5. Budget!ResetAt(clock)' = Budget!ResetAt(clock + 1)
  BY <1>1 DEF Budget!ResetAt, Budget!Window
<1>6. BudgetTypes'
  <2>1. Budget!TypeOK'
    BY <1>0, <1>1, <1>3 DEF BudgetTypes, Budget!TypeOK, Budget!Clock
  <2>2. \A l \in Budget!Lane : budget[l].reset \in Nat /\ budget[l].reset <= Budget!ResetAt(clock)
    BY <1>0, BudgetFacts, BudgetAssumption DEF BudgetTypes, Budget!Lane
  <2>3. \A c \in Crawl \cup Interactive : calls[c].reset \in Nat /\ calls[c].reset <= Budget!ResetAt(clock)
    BY <1>0, BudgetFacts, BudgetAssumption DEF BudgetTypes, BudgetCall
  <2>4. /\ \A l \in Budget!Lane : budget[l].reset <= Budget!ResetAt(clock + 1)
        /\ \A c \in Crawl \cup Interactive : calls[c].reset <= Budget!ResetAt(clock + 1)
    BY <1>4, <2>2, <2>3
  <2> QED BY <1>0, <1>1, <1>3, <1>5, <2>1, <2>4 DEF BudgetTypes
<1>7. CASE Budget!Window(clock') = Budget!Window(clock)
  <2>1. Budget!ResetAt(clock)' = Budget!ResetAt(clock)
    BY <1>1, <1>2, <1>5, <1>7, WindowEnds
  <2>2. (Blocked' <=> Blocked) /\ Spenders' = Spenders /\ Reopeners' = Reopeners
    BY <1>1, <2>1 DEF Blocked, Spenders, Reopeners
  <2>3. SpendInv'
    BY <1>0, <1>1, <1>7, <2>2 DEF SpendInv
  <2> QED BY <1>6, <2>3 DEF BudgetInv
<1>8. CASE Budget!Window(clock') # Budget!Window(clock)
  <2> DEFINE n == Cardinality(Crawl)
             most == TwiceMost(n)
             next == TwiceLeft(n, Cardinality(Spenders'), Cardinality(Reopeners'))
  <2>1. left' = Limit /\ blind' = 0 /\ under' = 0
    BY <1>1, <1>8
  <2>2. n \in Nat /\ next \in Int /\ next <= most
    BY SpendersAndReopeners, DisjointCalls, TwiceLeftBounds
  <2>3. most \in Nat
    BY <2>2 DEF TwiceMost
  <2> HIDE DEF n, most, next
  <2>4. 2 * under' + next <= (1 + blind') * most
    BY <2>1, <2>2, <2>3
  <2>5. SpendInv'
    BY <2>1, <2>4 DEF SpendInv, n, most, next
  <2> QED BY <1>6, <2>5 DEF BudgetInv
<1> QED BY <1>7, <1>8

LEMMA InitBudget == Budget!Init => BudgetInv
<1> SUFFICES ASSUME Budget!Init PROVE BudgetInv
  OBVIOUS
<1>1. /\ clock = 0 /\ left = Limit /\ blind = 0 /\ under = 0
      /\ budget = [l \in Budget!Lane |-> [remaining |-> Budget!None, reset |-> 0, pause |-> 0]]
      /\ calls = [c \in Crawl \cup Interactive |-> Budget!Idle]
  BY DEF Budget!Init
<1>2. /\ Limit \in Nat /\ MaxClock \in Nat /\ MaxBlind \in Nat /\ WindowLen \in Nat /\ CrawlFloor \in Nat
      /\ 0 \in 0..(MaxClock + WindowLen) /\ (-1) \in (-1)..Limit /\ 0 \in 0..MaxClock /\ 0 \in 0..MaxBlind
      /\ 0 \in 0..Limit /\ Limit \in 0..Limit
  BY BudgetAssumption DEF CrawlFloor
<1>3. Budget!ResetAt(clock) \in Nat
  BY <1>1, WindowEnds
<1>4. budget \in [Budget!Lane -> Budget!BudgetRow] /\ \A l \in Budget!Lane : budget[l].reset = 0
  BY <1>1, <1>2 DEF Budget!BudgetRow, Budget!None
<1>5. calls \in [Crawl \cup Interactive -> BudgetCall]
      /\ \A c \in Crawl \cup Interactive : calls[c] = Budget!Idle /\ calls[c].reset = 0
  BY <1>1, IdleCall
<1>6. Budget!TypeOK
  BY <1>1, <1>2, <1>4, <1>5 DEF Budget!TypeOK, Budget!Clock, BudgetCall
<1>7. BudgetTypes
  BY <1>1, <1>2, <1>3, <1>4, <1>5, <1>6 DEF BudgetTypes
<1> DEFINE n == Cardinality(Crawl)
           most == TwiceMost(n)
           first == TwiceLeft(n, Cardinality(Spenders), Cardinality(Reopeners))
<1>8. n \in Nat /\ first \in Int /\ first <= most
  BY SpendersAndReopeners, DisjointCalls, TwiceLeftBounds
<1>9. most \in Nat
  BY <1>8 DEF TwiceMost
<1> HIDE DEF n, most, first
<1>10. 2 * under + first <= (1 + blind) * most
  BY <1>1, <1>8, <1>9
<1>11. SpendInv
  BY <1>1, <1>10 DEF SpendInv, n, most, first
<1> QED BY <1>7, <1>11 DEF BudgetInv

LEMMA BudgetStep == BudgetInv /\ [Budget!Next]_(Budget!gitHubBudgetVars) => BudgetInv'
<1> SUFFICES ASSUME BudgetInv, [Budget!Next]_(Budget!gitHubBudgetVars)
             PROVE  BudgetInv'
  OBVIOUS
<1>0. /\ budget \in [Budget!Lane -> Budget!BudgetRow] /\ calls \in [Crawl \cup Interactive -> BudgetCall]
      /\ blind \in 0..MaxBlind /\ blind \in Nat /\ clock \in Nat /\ MaxBlind \in Nat
  BY BudgetFacts, BudgetAssumption DEF BudgetInv, BudgetTypes, Budget!TypeOK
<1>1. ASSUME NEW c \in Crawl \cup Interactive, NEW wait \in Pauses, Budget!Refuse(c, wait)
      PROVE  BudgetInv'
  <2> DEFINE new == [Budget!Idle EXCEPT !.step = "limited", !.wait = wait]
  <2>1. /\ calls[c].step = "allowed" /\ calls' = [calls EXCEPT ![c] = new]
        /\ UNCHANGED <<clock, left, budget, blind, under>>
    BY <1>1 DEF Budget!Refuse
  <2>2. new \in BudgetCall /\ new.step = "limited" /\ new.reset = 0
    BY IdleCall, BudgetAssumption DEF BudgetCall
  <2> HIDE DEF new
  <2> QED BY <1>0, <2>1, <2>2, CallEndsKeeps
<1>2. ASSUME NEW c \in Crawl \cup Interactive, Budget!Drop(c)
      PROVE  BudgetInv'
  <2>1. /\ calls[c].step # "idle" /\ calls' = [calls EXCEPT ![c] = Budget!Idle]
        /\ IF calls[c].step = "answered" THEN blind < MaxBlind /\ blind' = blind + 1 ELSE blind' = blind
        /\ UNCHANGED <<clock, left, budget, under>>
    BY <1>2 DEF Budget!Drop
  <2>2. blind' \in 0..MaxBlind
    BY <1>0, <2>1
  <2>3. calls[c].step \in {"idle", "allowed", "answered", "limited"}
    BY <1>0 DEF BudgetCall
  <2> QED BY <1>0, <2>1, <2>2, <2>3, IdleCall, CallEndsKeeps
<1>3. ASSUME NEW c \in Crawl \cup Interactive, Budget!MarkSecondaryLimit(c)
      PROVE  BudgetInv'
  <2> DEFINE lane == Budget!LaneOf(c)
  <2>1. /\ calls[c].step = "limited" /\ calls' = [calls EXCEPT ![c] = Budget!Idle]
        /\ budget' = [budget EXCEPT ![lane].pause = clock + calls[c].wait]
        /\ UNCHANGED <<clock, left, blind, under>>
    BY <1>3 DEF Budget!MarkSecondaryLimit
  <2>2. lane \in Budget!Lane
    BY DEF Budget!LaneOf, Budget!Lane
  <2>3. clock + calls[c].wait \in Nat
    <3>1. calls[c].wait \in Nat
      BY <1>0 DEF BudgetCall
    <3> QED BY <1>0, <3>1
  <2> HIDE DEF lane
  <2>4. /\ budget' \in [Budget!Lane -> Budget!BudgetRow]
        /\ \A l \in Budget!Lane : budget'[l].remaining = budget[l].remaining /\ budget'[l].reset = budget[l].reset
    BY <1>0, <2>1, <2>2, <2>3 DEF Budget!BudgetRow
  <2> QED BY <1>0, <2>1, <2>4, IdleCall, CallEndsKeeps
<1>4. CASE UNCHANGED Budget!gitHubBudgetVars
  <2>1. UNCHANGED <<clock, left, budget, calls, blind, under>>
    BY <1>4 DEF Budget!gitHubBudgetVars
  <2>2. (Blocked' <=> Blocked) /\ Spenders' = Spenders /\ Reopeners' = Reopeners
    BY <2>1 DEF Blocked, Spenders, Reopeners, Budget!ResetAt, Budget!Window
  <2>3. BudgetTypes' /\ SpendInv'
    BY <2>1, <2>2 DEF BudgetInv, BudgetTypes, SpendInv, Budget!TypeOK, Budget!ResetAt, Budget!Window
  <2> QED BY <2>3 DEF BudgetInv
<1> QED BY <1>1, <1>2, <1>3, <1>4, TickKeeps, AskKeeps, AnswerKeeps, UpdateBudgetKeeps DEF Budget!Next

(* With n crawl calls at once, in whatever order their answers are recorded, *)
(* the crawl spends at most n + (n-1) + ... + 1 points of a window below its *)
(* floor for itself and for each budget read or write that failed, for any   *)
(* limit, floor, reserve and length of a window (budget.go).                 *)
THEOREM ReserveIsKept == PartsSpec => []ReserveKept
<1> DEFINE I == part = "budget" => BudgetInv
<1>1. PartsInit => I
  BY InitBudget DEF PartsInit
<1>2. I /\ [PartsNext]_allVars => I'
  <2> SUFFICES ASSUME I, [PartsNext]_allVars, part' = "budget"
               PROVE  BudgetInv'
    OBVIOUS
  <2>1. part = "budget"
    BY DEF PartsNext, allVars
  <2>2. [Budget!Next]_(Budget!gitHubBudgetVars)
    BY <2>1 DEF PartsNext, allVars, budgetVars, Budget!gitHubBudgetVars
  <2> QED BY <2>1, <2>2, BudgetStep
<1>3. I => ReserveKept
  <2> DEFINE n == Cardinality(Crawl)
             half == (n * (n + 1)) \div 2
             more == TwiceLeft(n, Cardinality(Spenders), Cardinality(Reopeners))
  <2> SUFFICES ASSUME BudgetInv
               PROVE  under <= (1 + blind) * half
    <3>1. Budget!Cardinality(Crawl) = n
      BY DEF Budget!Cardinality, Cardinality
    <3> QED BY <3>1 DEF ReserveKept, Budget!ReserveKept
  <2>1. n \in Nat /\ more \in Int /\ 0 <= more
    BY SpendersAndReopeners, DisjointCalls, TwiceLeftBounds
  <2>2. left \in Nat /\ under \in Nat /\ blind \in Nat /\ CrawlFloor \in Nat
    BY BudgetFacts, BudgetAssumption DEF BudgetInv, CrawlFloor
  <2>3. IF left >= CrawlFloor THEN under = 0 ELSE 2 * under + more <= (1 + blind) * TwiceMost(n)
    BY DEF BudgetInv, SpendInv
  <2> HIDE DEF n, more
  <2>4. TwiceMost(n) = 2 * half /\ half \in Nat
    <3>1. PICK m \in Nat : n = 2 * m \/ n = 2 * m + 1
      <4>1. n \div 2 \in Nat /\ (n = 2 * (n \div 2) \/ n = 2 * (n \div 2) + 1)
        BY <2>1
      <4> QED BY <4>1
    <3>2. n * (n + 1) = 2 * (m * (n + 1)) \/ n * (n + 1) = 2 * (n * (m + 1))
      BY <2>1, <3>1
    <3>3. m * (n + 1) \in Nat /\ n * (m + 1) \in Nat
      BY <2>1, <3>1
    <3>4. \A k \in Nat : (2 * k) \div 2 = k
      OBVIOUS
    <3> QED BY <3>2, <3>3, <3>4 DEF TwiceMost
  <2> HIDE DEF half
  <2>5. (1 + blind) * (2 * half) = 2 * ((1 + blind) * half) /\ (1 + blind) * half \in Nat
    BY <2>2, <2>4
  <2> DEFINE bound == (1 + blind) * half
  <2>6. bound \in Nat /\ (left < CrawlFloor => 2 * under + more <= 2 * bound) /\ (left >= CrawlFloor => under = 0)
    BY <2>2, <2>3, <2>4, <2>5
  <2> HIDE DEF bound
  <2>7. under <= bound
    BY <2>1, <2>2, <2>6
  <2> QED BY <2>7 DEF bound
<1> QED BY <1>1, <1>2, <1>3, PTL DEF PartsSpec

----------------------------------------------------------------------------
(* The archive's hours (ArchiveHours).                                       *)

\* From where the crawl left off the queued hours have no gap; an hour that is
\* done was applied, and one that is missing was late.
ArchiveInv ==
  /\ Archive!TypeOK
  /\ seeded = -1 <=> Archive!Queued = {}
  /\ \A h \in Archive!Hour : \A g \in Archive!Queued :
       h <= g /\ h >= oldestPass /\ h >= seeded - MaxBackfill => h \in Archive!Queued
  /\ \A h \in Archive!Hour : /\ hours[h].status = "done" => h \in taken
                             /\ hours[h].status = "missing" => now - (h + 1) > MissingAfter
  /\ \A r \in Reader : /\ readers[r].step = "open" => readers[r].hour \in published
                       /\ readers[r].step = "applied" => readers[r].hour \in taken

----------------------------------------------------------------------------
LEMMA ArchiveTypes ==
  ASSUME ArchiveInv
  PROVE  /\ LastHour \in Nat /\ LastHour > 0 /\ MaxBackfill \in Nat /\ MissingAfter \in Nat /\ ReadAttempts \in Nat
         /\ now \in 0..(LastHour + 1) /\ oldestPass \in 0..LastHour /\ seeded \in (-1)..(LastHour + 1)
         /\ published \subseteq 0..(now - 1) /\ taken \subseteq published
         /\ hours \in [0..LastHour -> Archive!Row \cup {Archive!Unqueued}]
         /\ readers \in [Reader -> [step: {"free", "claimed", "open", "absent", "applied"}, hour: 0..LastHour]]
BY ArchiveAssumption DEF ArchiveInv, Archive!TypeOK, Archive!Hour

LEMMA ArchiveNewest ==
  ASSUME NEW T \in SUBSET (0..LastHour), T # {}
  PROVE  Archive!Newest(T) \in T /\ \A u \in T : u <= Archive!Newest(T)
<1>1. \E t \in T : \A u \in T : u <= t
  BY GreatestExists, ArchiveAssumption
<1> QED BY <1>1 DEF Archive!Newest

LEMMA ArchiveOldest ==
  ASSUME NEW T \in SUBSET (0..LastHour), T # {}
  PROVE  Archive!Oldest(T) \in T /\ \A u \in T : Archive!Oldest(T) <= u
<1>1. T \in SUBSET Nat
  BY ArchiveAssumption
<1>2. \E t \in T : \A u \in T : t <= u
  BY <1>1, LeastExists
<1> QED BY <1>2 DEF Archive!Oldest

\* A row is queued once it has a status of the queue.
LEMMA RowStatus ==
  /\ Archive!Unqueued.status = "none" /\ Archive!Unqueued.attempts = 0 /\ Archive!Unqueued \notin Archive!Row
  /\ \A row \in Archive!Row : row # Archive!Unqueued /\ row.attempts \in 0..ReadAttempts
       /\ row.status \in {"pending", "running", "done", "missing", "failed"}
BY DEF Archive!Unqueued, Archive!Row

\* What a step has to keep of the rows and readers while the queue is the same.
LEMMA SameQueue ==
  ASSUME ArchiveInv, now' \in 0..(LastHour + 1), now' >= now, published \subseteq published', published' \subseteq 0..(now' - 1),
         oldestPass' = oldestPass, seeded' = seeded, taken \subseteq taken', taken' \subseteq published',
         hours' \in [0..LastHour -> Archive!Row \cup {Archive!Unqueued}],
         readers' \in [Reader -> [step: {"free", "claimed", "open", "absent", "applied"}, hour: 0..LastHour]],
         \A h \in 0..LastHour :
           \/ hours'[h] = hours[h]
           \/ /\ hours[h] # Archive!Unqueued /\ hours'[h] # Archive!Unqueued
              /\ hours'[h].status = "done" => h \in taken'
              /\ hours'[h].status = "missing" => now' - (h + 1) > MissingAfter,
         \A r \in Reader :
           \/ readers'[r] = readers[r]
           \/ /\ readers'[r].step = "open" => readers'[r].hour \in published'
              /\ readers'[r].step = "applied" => readers'[r].hour \in taken'
  PROVE  ArchiveInv'
<1>1. Archive!Queued' = Archive!Queued
  BY DEF Archive!Queued, Archive!Hour
<1>2. Archive!TypeOK'
  BY ArchiveTypes DEF Archive!TypeOK, Archive!Hour
<1>3. \A h \in Archive!Hour : /\ hours[h].status = "done" => h \in taken
                              /\ hours[h].status = "missing" => now - (h + 1) > MissingAfter
  BY DEF ArchiveInv
<1>4. \A h \in Archive!Hour : /\ hours'[h].status = "done" => h \in taken'
                              /\ hours'[h].status = "missing" => now' - (h + 1) > MissingAfter
  <2> SUFFICES ASSUME NEW h \in Archive!Hour
               PROVE  /\ hours'[h].status = "done" => h \in taken'
                      /\ hours'[h].status = "missing" => now' - (h + 1) > MissingAfter
    OBVIOUS
  <2>1. h \in 0..LastHour /\ h \in Nat /\ now \in Nat /\ now' \in Nat /\ MissingAfter \in Nat
    BY ArchiveTypes DEF Archive!Hour
  <2>2. CASE hours'[h] = hours[h]
    <3>1. hours'[h].status = hours[h].status
      BY <2>2
    <3>2. /\ hours'[h].status = "done" => h \in taken
          /\ hours'[h].status = "missing" => now - (h + 1) > MissingAfter
      BY <1>3, <3>1
    <3>3. now - (h + 1) > MissingAfter => now' - (h + 1) > MissingAfter
      <4>1. \A a, b, c, d \in Nat : a <= b /\ a - (c + 1) > d => b - (c + 1) > d
        OBVIOUS
      <4> QED BY <2>1, <4>1
    <3> QED BY <3>2, <3>3
  <2>3. CASE hours'[h] # hours[h]
    BY <2>1, <2>3
  <2> QED BY <2>2, <2>3
<1>5. \A r \in Reader : /\ readers'[r].step = "open" => readers'[r].hour \in published'
                        /\ readers'[r].step = "applied" => readers'[r].hour \in taken'
  BY DEF ArchiveInv
<1>6. /\ seeded = -1 <=> Archive!Queued = {}
      /\ \A h \in Archive!Hour : \A g \in Archive!Queued :
           h <= g /\ h >= oldestPass /\ h >= seeded - MaxBackfill => h \in Archive!Queued
  BY DEF ArchiveInv
<1> QED BY <1>1, <1>2, <1>4, <1>5, <1>6 DEF ArchiveInv, Archive!Hour

LEMMA SeedKeeps ==
  ASSUME ArchiveInv, Archive!SeedArchiveHours
  PROVE  ArchiveInv'
<1> DEFINE first == Archive!FirstToSeed
           new == {h \in Archive!Hour : first <= h /\ h < now}
           queued == Archive!Queued
<1>1. /\ new # {} /\ UNCHANGED <<now, published, oldestPass, readers, taken>>
      /\ hours' = [h \in Archive!Hour |-> IF h \in new /\ hours[h] = Archive!Unqueued
                                            THEN [status |-> "pending", attempts |-> 0] ELSE hours[h]]
      /\ seeded' = IF seeded = -1 THEN now ELSE seeded
  BY DEF Archive!SeedArchiveHours
<1>2. [status |-> "pending", attempts |-> 0] \in Archive!Row
  BY ArchiveAssumption DEF Archive!Row
<1>3. /\ LastHour \in Nat /\ MaxBackfill \in Nat /\ now \in 0..(LastHour + 1) /\ oldestPass \in 0..LastHour
      /\ seeded \in (-1)..(LastHour + 1)
      /\ queued \subseteq 0..LastHour
      /\ seeded = -1 <=> queued = {}
      /\ \A h \in 0..LastHour : \A g \in queued :
           h <= g /\ h >= oldestPass /\ h >= seeded - MaxBackfill => h \in queued
      /\ hours \in [0..LastHour -> Archive!Row \cup {Archive!Unqueued}]
  BY ArchiveTypes DEF ArchiveInv, Archive!Hour, Archive!Queued
<1>4. seeded' \in (-1)..(LastHour + 1) /\ seeded' # -1
  BY <1>1, <1>3
<1>5. hours' \in [0..LastHour -> Archive!Row \cup {Archive!Unqueued}]
  BY <1>1, <1>2, <1>3 DEF Archive!Hour
<1>6. \A h \in 0..LastHour : h \in Archive!Queued' <=> h \in queued \/ h \in new
  BY <1>1, <1>2, RowStatus DEF Archive!Queued, Archive!Hour
<1>7. \A h \in new : h \in 0..LastHour /\ first <= h /\ h < now
  BY DEF Archive!Hour
<1>8. Archive!Queued' # {} /\ Archive!Queued' \subseteq 0..LastHour
  BY <1>1, <1>6, <1>7 DEF Archive!Queued, Archive!Hour
<1>9. ASSUME NEW h \in 0..LastHour, NEW g \in Archive!Queued', h <= g, h >= oldestPass, h >= seeded' - MaxBackfill
      PROVE  h \in Archive!Queued'
  <2>1. g \in queued \/ g \in new
    BY <1>6, <1>8
  <2>2. h \in new <=> first <= h /\ h < now
    BY DEF Archive!Hour
  <2>3. g \in new => h < now
    BY <1>3, <1>7, <1>9
  <2>4. CASE queued = {}
    <3>1. seeded' = now
      BY <1>1, <1>3, <2>4
    <3>2. first <= h
      BY <1>3, <1>9, <2>4, <3>1 DEF Archive!FirstToSeed, Archive!Highest
    <3> HIDE DEF first, new, queued
    <3> QED BY <1>6, <2>1, <2>2, <2>3, <2>4, <3>2
  <2>5. CASE queued # {}
    <3> DEFINE newest == Archive!Newest(queued)
    <3>1. seeded' = seeded /\ first = newest + 1
      BY <1>1, <1>3, <2>5 DEF Archive!FirstToSeed
    <3>2. newest \in queued /\ \A q \in queued : q <= newest
      BY <1>3, <2>5, ArchiveNewest
    <3> HIDE DEF first, new, queued, newest
    <3>3. CASE h <= newest
      BY <1>3, <1>6, <1>9, <3>1, <3>2, <3>3
    <3>4. CASE h > newest
      <4>0. g \in Nat /\ h \in Nat /\ newest \in Nat
        BY <1>3, <1>8, <3>2
      <4>1. g \notin queued
        BY <1>9, <3>2, <3>4, <4>0
      <4>2. first <= h
        BY <1>3, <3>1, <3>2, <3>4
      <4> QED BY <1>6, <2>1, <2>2, <2>3, <4>1, <4>2
    <3> QED BY <1>3, <3>2, <3>3, <3>4
  <2> QED BY <2>4, <2>5
<1>10. \A h \in Archive!Hour : /\ hours'[h].status = "done" => h \in taken
                               /\ hours'[h].status = "missing" => now - (h + 1) > MissingAfter
  BY <1>1 DEF ArchiveInv
<1>11. Archive!TypeOK'
  BY <1>1, <1>4, <1>5 DEF ArchiveInv, Archive!TypeOK, Archive!Hour
<1> QED BY <1>1, <1>4, <1>8, <1>9, <1>10, <1>11 DEF ArchiveInv, Archive!Hour

\* How an hour ends: its row is written if it is leased still.
LEMMA FinishHourKeeps ==
  ASSUME ArchiveInv, NEW r \in Reader, NEW row \in Archive!Row, Archive!Finish(r, row),
         row.status = "done" => readers[r].hour \in taken,
         row.status = "missing" => now - (readers[r].hour + 1) > MissingAfter
  PROVE  ArchiveInv'
<1>1. /\ readers' = [readers EXCEPT ![r] = Archive!Free]
      /\ hours' = IF hours[readers[r].hour].status = "running"
                    THEN [hours EXCEPT ![readers[r].hour] = row] ELSE hours
      /\ UNCHANGED <<now, published, oldestPass, seeded, taken>>
  BY DEF Archive!Finish
<1> DEFINE e == readers[r].hour
<1>2. e \in 0..LastHour
  BY ArchiveTypes
<1> HIDE DEF e
<1>3. hours' = hours \/ (hours[e].status = "running" /\ hours' = [hours EXCEPT ![e] = row])
  BY <1>1 DEF e
<1>4. /\ hours' \in [0..LastHour -> Archive!Row \cup {Archive!Unqueued}]
      /\ \A h \in 0..LastHour : hours'[h] = hours[h] \/ (h = e /\ hours[h].status = "running" /\ hours'[h] = row)
  BY <1>2, <1>3, ArchiveTypes
<1>5. \A h \in 0..LastHour :
           \/ hours'[h] = hours[h]
           \/ /\ hours[h] # Archive!Unqueued /\ hours'[h] # Archive!Unqueued
              /\ hours'[h].status = "done" => h \in taken
              /\ hours'[h].status = "missing" => now - (h + 1) > MissingAfter
  BY <1>4, RowStatus DEF e
<1>6. Archive!Free \in [step: {"free", "claimed", "open", "absent", "applied"}, hour: 0..LastHour]
      /\ Archive!Free.step = "free"
  BY ArchiveAssumption DEF Archive!Free
<1>7. /\ readers' \in [Reader -> [step: {"free", "claimed", "open", "absent", "applied"}, hour: 0..LastHour]]
      /\ \A q \in Reader : readers'[q] = readers[q] \/ readers'[q] = Archive!Free
  BY <1>1, <1>6, ArchiveTypes
<1> QED BY <1>1, <1>4, <1>5, <1>6, <1>7, ArchiveTypes, SameQueue

LEMMA FinishingKeeps ==
  ASSUME ArchiveInv, NEW r \in Reader,
         Archive!NotPublished(r) \/ Archive!FailArchiveHour(r) \/ Archive!CompleteArchiveHour(r)
  PROVE  ArchiveInv'
<1> DEFINE n == Archive!Attempts(r)
<1>1. n \in 0..ReadAttempts /\ readers[r].hour \in 0..LastHour
  <2>1. readers[r].hour \in 0..LastHour
    BY ArchiveTypes
  <2>2. hours[readers[r].hour] \in Archive!Row \cup {Archive!Unqueued}
    BY <2>1, ArchiveTypes
  <2>3. 0 \in 0..ReadAttempts
    BY ArchiveAssumption
  <2> QED BY <2>1, <2>2, <2>3, RowStatus DEF Archive!Attempts
<1>2. CASE Archive!NotPublished(r)
  <2> DEFINE late == now - (readers[r].hour + 1) > MissingAfter
             row == [status |-> IF late THEN "missing" ELSE "pending", attempts |-> n]
  <2>1. Archive!Finish(r, row)
    BY <1>2 DEF Archive!NotPublished
  <2>2. row \in Archive!Row /\ row.status # "done" /\ (row.status = "missing" => late)
    BY <1>1 DEF Archive!Row
  <2> HIDE DEF row
  <2> QED BY <2>1, <2>2, FinishHourKeeps
<1>3. CASE Archive!FailArchiveHour(r)
  <2> DEFINE row == [status |-> IF n + 1 >= ReadAttempts THEN "failed" ELSE "pending", attempts |-> n + 1]
  <2>1. Archive!Finish(r, row) /\ n + 1 <= ReadAttempts
    BY <1>3 DEF Archive!FailArchiveHour
  <2>2. n + 1 \in 0..ReadAttempts
    BY <1>1, <2>1, ArchiveAssumption
  <2>3. row \in Archive!Row /\ row.status # "done" /\ row.status # "missing"
    BY <2>2 DEF Archive!Row
  <2> HIDE DEF row
  <2> QED BY <2>1, <2>3, FinishHourKeeps
<1>4. CASE Archive!CompleteArchiveHour(r)
  <2> DEFINE row == [status |-> "done", attempts |-> n]
  <2>1. Archive!Finish(r, row) /\ readers[r].step = "applied"
    BY <1>4 DEF Archive!CompleteArchiveHour
  <2>2. row \in Archive!Row /\ row.status = "done"
    BY <1>1 DEF Archive!Row
  <2>3. readers[r].hour \in taken
    BY <2>1 DEF ArchiveInv
  <2> HIDE DEF row
  <2> QED BY <2>1, <2>2, <2>3, FinishHourKeeps
<1> QED BY <1>2, <1>3, <1>4

LEMMA ArchiveQuietKeeps ==
  ASSUME ArchiveInv, hours' = hours, readers' = readers, oldestPass' = oldestPass, seeded' = seeded, taken' = taken,
         now' \in 0..(LastHour + 1), now' >= now, published \subseteq published', published' \subseteq 0..(now' - 1)
  PROVE  ArchiveInv'
<1>1. taken' \subseteq published'
  BY ArchiveTypes
<1> QED BY <1>1, ArchiveTypes, SameQueue

LEMMA ArchiveReaderKeeps ==
  ASSUME ArchiveInv, NEW r \in Reader,
         NEW new \in [step: {"free", "claimed", "open", "absent", "applied"}, hour: 0..LastHour],
         readers' = [readers EXCEPT ![r] = new],
         new.step = "open" => new.hour \in published,
         new.step = "applied" => new.hour \in taken',
         taken \subseteq taken', taken' \subseteq published,
         hours' \in [0..LastHour -> Archive!Row \cup {Archive!Unqueued}],
         \A h \in 0..LastHour :
           \/ hours'[h] = hours[h]
           \/ /\ hours[h] # Archive!Unqueued /\ hours'[h] # Archive!Unqueued
              /\ hours'[h].status \notin {"done", "missing"},
         UNCHANGED <<now, published, oldestPass, seeded>>
  PROVE  ArchiveInv'
<1>1. /\ readers' \in [Reader -> [step: {"free", "claimed", "open", "absent", "applied"}, hour: 0..LastHour]]
      /\ \A q \in Reader : readers'[q] = readers[q] \/ readers'[q] = new
  BY ArchiveTypes
<1>2. \A h \in 0..LastHour :
           \/ hours'[h] = hours[h]
           \/ /\ hours[h] # Archive!Unqueued /\ hours'[h] # Archive!Unqueued
              /\ hours'[h].status = "done" => h \in taken'
              /\ hours'[h].status = "missing" => now' - (h + 1) > MissingAfter
  OBVIOUS
<1>3. now' \in 0..(LastHour + 1) /\ now' >= now /\ published' \subseteq 0..(now' - 1)
  BY ArchiveTypes
<1> QED BY <1>1, <1>2, <1>3, ArchiveTypes, SameQueue

LEMMA InitArchive == Archive!Init => ArchiveInv
<1> SUFFICES ASSUME Archive!Init PROVE ArchiveInv
  OBVIOUS
<1>1. /\ now = 1 /\ published = {} /\ oldestPass \in {0, 1} /\ seeded = -1 /\ taken = {}
      /\ hours = [h \in Archive!Hour |-> Archive!Unqueued] /\ readers = [r \in Reader |-> Archive!Free]
  BY DEF Archive!Init
<1>2. /\ 1 \in 0..(LastHour + 1) /\ oldestPass \in 0..LastHour /\ (-1) \in (-1)..(LastHour + 1) /\ 0 \in 0..LastHour
  BY <1>1, ArchiveAssumption
<1>3. Archive!Queued = {}
  BY <1>1 DEF Archive!Queued
<1>4. Archive!Free \in [step: {"free", "claimed", "open", "absent", "applied"}, hour: 0..LastHour] /\ Archive!Free.step = "free"
  BY <1>2 DEF Archive!Free
<1>5. Archive!TypeOK
  BY <1>1, <1>2, <1>4 DEF Archive!TypeOK, Archive!Hour
<1>6. \A h \in Archive!Hour : hours[h].status = "none"
  BY <1>1, RowStatus
<1> QED BY <1>1, <1>3, <1>4, <1>5, <1>6 DEF ArchiveInv

LEMMA ArchiveStep == ArchiveInv /\ [Archive!Next]_(Archive!archiveHoursVars) => ArchiveInv'
<1> SUFFICES ASSUME ArchiveInv, [Archive!Next]_(Archive!archiveHoursVars)
             PROVE  ArchiveInv'
  OBVIOUS
<1>0. /\ LastHour \in Nat /\ now \in 0..(LastHour + 1) /\ published \subseteq 0..(now - 1) /\ taken \subseteq published
      /\ hours \in [0..LastHour -> Archive!Row \cup {Archive!Unqueued}]
      /\ readers \in [Reader -> [step: {"free", "claimed", "open", "absent", "applied"}, hour: 0..LastHour]]
      /\ Archive!Hour = 0..LastHour
  BY ArchiveTypes DEF Archive!Hour
<1>1. CASE Archive!Tick
  <2>1. now <= LastHour /\ now' = now + 1 /\ UNCHANGED <<published, oldestPass, hours, readers, seeded, taken>>
    BY <1>1 DEF Archive!Tick
  <2>2. now' \in 0..(LastHour + 1) /\ now' >= now /\ published' \subseteq 0..(now' - 1)
    BY <1>0, <2>1
  <2> QED BY <2>1, <2>2, ArchiveQuietKeeps
<1>2. ASSUME NEW h \in Archive!Hour, Archive!Publish(h)
      PROVE  ArchiveInv'
  <2>1. h < now /\ published' = published \cup {h} /\ UNCHANGED <<now, oldestPass, hours, readers, seeded, taken>>
    BY <1>2 DEF Archive!Publish
  <2>2. h \in 0..(now - 1) /\ now' \in 0..(LastHour + 1) /\ now' >= now
    BY <1>0, <2>1
  <2>3. published \subseteq published' /\ published' \subseteq 0..(now' - 1)
    BY <1>0, <2>1, <2>2
  <2> QED BY <2>1, <2>2, <2>3, ArchiveQuietKeeps
<1>3. ASSUME NEW h \in Archive!Hour, Archive!ReclaimExpiredArchiveLease(h)
      PROVE  ArchiveInv'
  <2>1. hours[h].status = "running" /\ hours' = [hours EXCEPT ![h].status = "pending"]
        /\ UNCHANGED <<now, published, oldestPass, readers, seeded, taken>>
    BY <1>3 DEF Archive!ReclaimExpiredArchiveLease
  <2>2. hours[h] \in Archive!Row
    BY <1>0, <2>1, RowStatus
  <2>3. [hours[h] EXCEPT !.status = "pending"] \in Archive!Row /\ [hours[h] EXCEPT !.status = "pending"].status = "pending"
    BY <2>2 DEF Archive!Row
  <2>4. hours' \in [0..LastHour -> Archive!Row \cup {Archive!Unqueued}]
        /\ \A g \in 0..LastHour : hours'[g] = hours[g] \/ (g = h /\ hours'[g] = [hours[h] EXCEPT !.status = "pending"])
    BY <1>0, <2>1, <2>3
  <2>5. \A g \in 0..LastHour :
          \/ hours'[g] = hours[g]
          \/ /\ hours[g] # Archive!Unqueued /\ hours'[g] # Archive!Unqueued
             /\ hours'[g].status = "done" => g \in taken'
             /\ hours'[g].status = "missing" => now' - (g + 1) > MissingAfter
    BY <2>2, <2>3, <2>4, RowStatus
  <2> QED BY <1>0, <2>1, <2>4, <2>5, SameQueue, ArchiveTypes
<1>4. ASSUME NEW r \in Reader, NEW h \in Archive!Hour, Archive!ClaimArchiveHour(r, h)
      PROVE  ArchiveInv'
  <2> DEFINE new == [step |-> "claimed", hour |-> h]
  <2>1. hours[h].status = "pending" /\ hours' = [hours EXCEPT ![h].status = "running"]
        /\ readers' = [readers EXCEPT ![r] = new]
        /\ UNCHANGED <<now, published, oldestPass, seeded, taken>>
    BY <1>4 DEF Archive!ClaimArchiveHour
  <2>2. hours[h] \in Archive!Row
    BY <1>0, <2>1, RowStatus
  <2>3. [hours[h] EXCEPT !.status = "running"] \in Archive!Row /\ [hours[h] EXCEPT !.status = "running"].status = "running"
    BY <2>2 DEF Archive!Row
  <2>4. hours' \in [0..LastHour -> Archive!Row \cup {Archive!Unqueued}]
        /\ \A g \in 0..LastHour : hours'[g] = hours[g] \/ (g = h /\ hours'[g] = [hours[h] EXCEPT !.status = "running"])
    BY <1>0, <2>1, <2>3
  <2>5. \A g \in 0..LastHour :
          \/ hours'[g] = hours[g]
          \/ /\ hours[g] # Archive!Unqueued /\ hours'[g] # Archive!Unqueued
             /\ hours'[g].status \notin {"done", "missing"}
    BY <2>2, <2>3, <2>4, RowStatus
  <2>6. new \in [step: {"free", "claimed", "open", "absent", "applied"}, hour: 0..LastHour] /\ new.step = "claimed"
    BY <1>0
  <2> HIDE DEF new
  <2> QED BY <1>0, <2>1, <2>4, <2>5, <2>6, ArchiveReaderKeeps
<1>5. ASSUME NEW r \in Reader, Archive!LetGo(r)
      PROVE  ArchiveInv'
  <2>1. readers' = [readers EXCEPT ![r] = Archive!Free] /\ UNCHANGED <<now, published, oldestPass, hours, seeded, taken>>
    BY <1>5 DEF Archive!LetGo
  <2>2. Archive!Free \in [step: {"free", "claimed", "open", "absent", "applied"}, hour: 0..LastHour] /\ Archive!Free.step = "free"
    BY <1>0 DEF Archive!Free
  <2> QED BY <1>0, <2>1, <2>2, ArchiveReaderKeeps
<1>6. ASSUME NEW r \in Reader, Archive!Open(r)
      PROVE  ArchiveInv'
  <2> DEFINE new == [readers[r] EXCEPT !.step = IF readers[r].hour \in published THEN "open" ELSE "absent"]
  <2>1. readers' = [readers EXCEPT ![r] = new] /\ UNCHANGED <<now, published, oldestPass, hours, seeded, taken>>
    BY <1>6 DEF Archive!Open
  <2>2. /\ new \in [step: {"free", "claimed", "open", "absent", "applied"}, hour: 0..LastHour]
        /\ new.hour = readers[r].hour /\ new.step = IF readers[r].hour \in published THEN "open" ELSE "absent"
    BY <1>0
  <2> HIDE DEF new
  <2> QED BY <1>0, <2>1, <2>2, ArchiveReaderKeeps
<1>7. ASSUME NEW r \in Reader, Archive!ApplyArchiveIssues(r)
      PROVE  ArchiveInv'
  <2> DEFINE new == [readers[r] EXCEPT !.step = "applied"]
  <2>1. readers[r].step = "open" /\ readers' = [readers EXCEPT ![r] = new] /\ taken' = taken \cup {readers[r].hour}
        /\ UNCHANGED <<now, published, oldestPass, hours, seeded>>
    BY <1>7 DEF Archive!ApplyArchiveIssues
  <2>2. /\ new \in [step: {"free", "claimed", "open", "absent", "applied"}, hour: 0..LastHour]
        /\ new.hour = readers[r].hour /\ new.step = "applied"
    BY <1>0
  <2>3. readers[r].hour \in published
    BY <2>1 DEF ArchiveInv
  <2> HIDE DEF new
  <2> QED BY <1>0, <2>1, <2>2, <2>3, ArchiveReaderKeeps
<1>8. CASE UNCHANGED Archive!archiveHoursVars
  <2>1. UNCHANGED <<now, published, oldestPass, hours, readers, seeded, taken>>
    BY <1>8 DEF Archive!archiveHoursVars
  <2>2. now' >= now
    BY <1>0, <2>1
  <2> QED BY <1>0, <2>1, <2>2, ArchiveQuietKeeps
<1> QED BY <1>1, <1>2, <1>3, <1>4, <1>5, <1>6, <1>7, <1>8, SeedKeeps, FinishingKeeps DEF Archive!Next

----------------------------------------------------------------------------
\* Where the coverage ends, of the queued and the unread hours.
LEMMA CoverageOf ==
  ASSUME ArchiveInv
  PROVE  /\ Archive!Queued \in SUBSET (0..LastHour) /\ Archive!Unread \subseteq Archive!Queued
         /\ Archive!Queued = {} => Archive!CoveredUntil = -1
         /\ Archive!Queued # {} => Archive!CoveredUntil \in Nat
         /\ \A h \in Archive!Queued \ Archive!Unread : hours[h].status \in {"done", "missing"}
         /\ \A u \in Archive!Unread : Archive!CoveredUntil <= u
         /\ \A h \in 0..LastHour : h < Archive!CoveredUntil => h \notin Archive!Unread /\ \E g \in Archive!Queued : h <= g
         /\ Archive!Unread = {} => \A h \in Archive!Queued : h < Archive!CoveredUntil
         /\ Archive!Unread # {} => Archive!CoveredUntil \in Archive!Unread
<1> DEFINE queued == Archive!Queued
           unread == Archive!Unread
           until == Archive!CoveredUntil
<1>1. queued \in SUBSET (0..LastHour) /\ unread \subseteq queued /\ LastHour \in Nat
  BY ArchiveTypes DEF Archive!Queued, Archive!Hour, Archive!Unread
<1>2. \A h \in queued \ unread : hours[h].status \in {"done", "missing"}
  BY ArchiveTypes, RowStatus DEF Archive!Queued, Archive!Hour, Archive!Unread
<1>3. until = IF unread # {} THEN Archive!Oldest(unread) ELSE IF queued # {} THEN Archive!Newest(queued) + 1 ELSE -1
  BY DEF Archive!CoveredUntil
<1> HIDE DEF queued, unread, until
<1>4. CASE unread # {}
  <2>1. until \in unread /\ \A u \in unread : until <= u
    BY <1>1, <1>3, <1>4, ArchiveOldest
  <2>2. \A h \in 0..LastHour : h < until => h \notin unread /\ \E g \in queued : h <= g
    BY <1>1, <2>1
  <2> QED BY <1>1, <1>2, <1>4, <2>1, <2>2 DEF queued, unread, until
<1>5. CASE unread = {} /\ queued # {}
  <2> DEFINE newest == Archive!Newest(queued)
  <2>1. newest \in queued /\ \A q \in queued : q <= newest
    BY <1>1, <1>5, ArchiveNewest
  <2>2. until = newest + 1
    BY <1>3, <1>5
  <2> HIDE DEF newest
  <2>3. until \in Nat /\ (\A h \in queued : h < until) /\ \A h \in 0..LastHour : h < until => \E g \in queued : h <= g
    BY <1>1, <2>1, <2>2
  <2> QED BY <1>1, <1>2, <1>5, <2>3 DEF queued, unread, until
<1>6. CASE queued = {}
  <2>1. unread = {} /\ until = -1
    BY <1>1, <1>3, <1>6
  <2>2. \A h \in 0..LastHour : ~(h < until)
    BY <1>1, <2>1
  <2> QED BY <1>1, <1>2, <1>6, <2>1, <2>2 DEF queued, unread, until
<1> QED BY <1>4, <1>5, <1>6

LEMMA CurrentIsRead == ArchiveInv => Archive!CurrentMeansRead
<1> SUFFICES ASSUME ArchiveInv, Archive!Current, NEW h \in Archive!Hour,
                    h >= oldestPass, h >= seeded - MaxBackfill, now - h > MaxLag
             PROVE  h \in taken \/ (hours[h].status = "missing" /\ now - (h + 1) > MissingAfter)
  BY DEF Archive!CurrentMeansRead
<1>1. /\ Archive!CoveredUntil # -1 /\ now - Archive!CoveredUntil <= MaxLag /\ MaxLag \in Nat /\ now \in Nat /\ h \in Nat
      /\ h \in 0..LastHour
  BY ArchiveTypes, ArchiveAssumption DEF Archive!Current, Archive!Hour
<1>2. Archive!CoveredUntil \in Nat
  BY <1>1, CoverageOf
<1>3. h < Archive!CoveredUntil
  BY <1>1, <1>2
<1>4. h \notin Archive!Unread /\ \E g \in Archive!Queued : h <= g
  BY <1>1, <1>3, CoverageOf
<1>5. h \in Archive!Queued
  BY <1>4 DEF ArchiveInv
<1>6. hours[h].status \in {"done", "missing"}
  BY <1>4, <1>5, CoverageOf
<1> QED BY <1>6 DEF ArchiveInv

\* A row that is read stays so, and hours are queued after the ones before.
LEMMA CoverageStep ==
  ASSUME ArchiveInv, ArchiveInv', [Archive!Next]_(Archive!archiveHoursVars)
  PROVE  Archive!CoveredUntil' >= Archive!CoveredUntil
<1>0. /\ hours \in [0..LastHour -> Archive!Row \cup {Archive!Unqueued}]
      /\ readers \in [Reader -> [step: {"free", "claimed", "open", "absent", "applied"}, hour: 0..LastHour]]
      /\ Archive!Hour = 0..LastHour
  BY ArchiveTypes DEF Archive!Hour
<1>1. \A h \in 0..LastHour : /\ hours[h] # Archive!Unqueued => hours'[h] # Archive!Unqueued
                             /\ hours[h].status \in {"done", "missing"} => hours'[h] = hours[h]
                             /\ hours[h] = Archive!Unqueued /\ hours'[h] # Archive!Unqueued => \A g \in Archive!Queued : g < h
  <2>1. CASE Archive!SeedArchiveHours
    <3> DEFINE new == {h \in Archive!Hour : Archive!FirstToSeed <= h /\ h < now}
    <3>1. hours' = [h \in Archive!Hour |-> IF h \in new /\ hours[h] = Archive!Unqueued
                                              THEN [status |-> "pending", attempts |-> 0] ELSE hours[h]]
      BY <2>1 DEF Archive!SeedArchiveHours
    <3>2. [status |-> "pending", attempts |-> 0] # Archive!Unqueued
      BY DEF Archive!Unqueued
    <3>3. \A h \in 0..LastHour :
            hours'[h] = hours[h] \/ (h \in new /\ hours[h] = Archive!Unqueued /\ hours'[h] = [status |-> "pending", attempts |-> 0])
      BY <1>0, <3>1
    <3>4. \A h \in new : \A g \in Archive!Queued : g < h
      <4> SUFFICES ASSUME NEW h \in new, NEW g \in Archive!Queued PROVE g < h
        OBVIOUS
      <4>1. Archive!FirstToSeed = Archive!Newest(Archive!Queued) + 1 /\ Archive!FirstToSeed <= h /\ h \in 0..LastHour
        BY <1>0 DEF Archive!FirstToSeed
      <4>2. Archive!Newest(Archive!Queued) \in 0..LastHour /\ g <= Archive!Newest(Archive!Queued) /\ g \in 0..LastHour
        BY CoverageOf, ArchiveNewest
      <4> QED BY <4>1, <4>2, ArchiveAssumption
    <3> HIDE DEF new
    <3> QED BY <3>2, <3>3, <3>4, RowStatus
  <2>2. ASSUME NEW h \in 0..LastHour, NEW row \in Archive!Row, hours[h].status \in {"pending", "running"},
               hours' = [hours EXCEPT ![h] = row]
        PROVE  \A g \in 0..LastHour : /\ hours[g] # Archive!Unqueued => hours'[g] # Archive!Unqueued
                                      /\ hours[g].status \in {"done", "missing"} => hours'[g] = hours[g]
                                      /\ hours[g] = Archive!Unqueued => hours'[g] = Archive!Unqueued
    <3>1. \A g \in 0..LastHour : hours'[g] = IF g = h THEN row ELSE hours[g]
      BY <1>0, <2>2
    <3> QED BY <2>2, <3>1, RowStatus
  <2>3. ASSUME NEW h \in Archive!Hour, Archive!ReclaimExpiredArchiveLease(h) \/ \E r \in Reader : Archive!ClaimArchiveHour(r, h)
        PROVE  \E row \in Archive!Row : hours[h].status \in {"pending", "running"} /\ hours' = [hours EXCEPT ![h] = row]
    <3>1. \E s \in {"pending", "running"} : hours' = [hours EXCEPT ![h] = [hours[h] EXCEPT !.status = s]]
      BY <2>3 DEF Archive!ReclaimExpiredArchiveLease, Archive!ClaimArchiveHour
    <3>2. hours[h].status \in {"pending", "running"}
      BY <2>3 DEF Archive!ReclaimExpiredArchiveLease, Archive!ClaimArchiveHour
    <3>3. hours[h] \in Archive!Row
      BY <1>0, <3>2, RowStatus
    <3>4. \A s \in {"pending", "running"} : [hours[h] EXCEPT !.status = s] \in Archive!Row
      BY <3>3 DEF Archive!Row
    <3> QED BY <3>1, <3>2, <3>4
  <2>4. ASSUME NEW r \in Reader, Archive!NotPublished(r) \/ Archive!FailArchiveHour(r) \/ Archive!CompleteArchiveHour(r),
               hours' # hours
        PROVE  \E row \in Archive!Row : hours[readers[r].hour].status = "running" /\ hours' = [hours EXCEPT ![readers[r].hour] = row]
    <3> DEFINE e == readers[r].hour
    <3>1. \E s \in {"missing", "pending", "failed", "done"} : \E n \in {hours[e].attempts, hours[e].attempts + 1} :
            /\ Archive!Finish(r, [status |-> s, attempts |-> n])
            /\ n = hours[e].attempts \/ n <= ReadAttempts
      BY <2>4 DEF Archive!NotPublished, Archive!FailArchiveHour, Archive!CompleteArchiveHour, Archive!Attempts
    <3>2. e \in 0..LastHour
      BY <1>0
    <3>3. \A n, s : Archive!Finish(r, [status |-> s, attempts |-> n]) =>
            hours[e].status = "running" /\ hours' = [hours EXCEPT ![e] = [status |-> s, attempts |-> n]]
      BY <2>4 DEF Archive!Finish
    <3>4. hours[e].status = "running" => hours[e] \in Archive!Row /\ hours[e].attempts \in 0..ReadAttempts
      BY <1>0, <3>2, RowStatus
    <3>5. \A n : n = hours[e].attempts \/ (n = hours[e].attempts + 1 /\ n <= ReadAttempts) =>
            (hours[e].status = "running" => n \in 0..ReadAttempts)
      BY <3>4, ArchiveAssumption
    <3>6. \A s \in {"missing", "pending", "failed", "done"}, n \in 0..ReadAttempts : [status |-> s, attempts |-> n] \in Archive!Row
      BY DEF Archive!Row
    <3> HIDE DEF e
    <3>7. PICK s \in {"missing", "pending", "failed", "done"}, n \in {hours[e].attempts, hours[e].attempts + 1} :
            /\ hours[e].status = "running" /\ hours' = [hours EXCEPT ![e] = [status |-> s, attempts |-> n]]
            /\ n = hours[e].attempts \/ n <= ReadAttempts
      BY <3>1, <3>3
    <3>8. [status |-> s, attempts |-> n] \in Archive!Row
      BY <3>5, <3>6, <3>7
    <3> QED BY <3>7, <3>8 DEF e
  <2>5. CASE hours' = hours
    BY <2>5
  <2>6. CASE hours' # hours /\ ~Archive!SeedArchiveHours
    <3>1. \/ \E h \in Archive!Hour : Archive!ReclaimExpiredArchiveLease(h) \/ \E r \in Reader : Archive!ClaimArchiveHour(r, h)
          \/ \E r \in Reader : Archive!NotPublished(r) \/ Archive!FailArchiveHour(r) \/ Archive!CompleteArchiveHour(r)
      BY <2>6 DEF Archive!Next, Archive!archiveHoursVars, Archive!Tick, Archive!Publish, Archive!LetGo, Archive!Open,
                  Archive!ApplyArchiveIssues
    <3>2. \E h \in 0..LastHour, row \in Archive!Row :
            hours[h].status \in {"pending", "running"} /\ hours' = [hours EXCEPT ![h] = row]
      BY <1>0, <2>3, <2>4, <2>6, <3>1
    <3> QED BY <2>2, <3>2
  <2> QED BY <2>1, <2>5, <2>6
<1>2. \A h \in 0..LastHour : h \in Archive!Queued <=> hours[h] # Archive!Unqueued
  BY <1>0 DEF Archive!Queued
<1>3. Archive!Queued' \in SUBSET (0..LastHour) /\ \A h \in 0..LastHour : h \in Archive!Queued' <=> hours'[h] # Archive!Unqueued
  BY <1>0 DEF Archive!Queued, Archive!Hour
<1>4. Archive!Queued \subseteq Archive!Queued'
  BY <1>1, <1>2, <1>3, CoverageOf
<1>5. Archive!Unread' \subseteq Archive!Queued' /\ \A h \in Archive!Unread' : hours'[h].status \notin {"done", "missing"}
  BY DEF Archive!Unread
<1>6. \A u \in Archive!Unread' : u \in Archive!Unread \/ \A g \in Archive!Queued : g < u
  <2> SUFFICES ASSUME NEW u \in Archive!Unread', u \in Archive!Queued, u \notin Archive!Unread PROVE FALSE
    BY <1>1, <1>2, <1>3, <1>5
  <2>1. hours[u].status \in {"done", "missing"} /\ u \in 0..LastHour
    BY CoverageOf
  <2> QED BY <1>1, <1>5, <2>1
<1> DEFINE until == Archive!CoveredUntil
           after == Archive!CoveredUntil'
           queued == Archive!Queued
           later == Archive!Queued'
           unread == Archive!Unread
           unreadNext == Archive!Unread'
<1>7. after = IF unreadNext # {} THEN Archive!Oldest(unreadNext) ELSE IF later # {} THEN Archive!Newest(later) + 1 ELSE -1
  BY DEF Archive!CoveredUntil
<1>8. unreadNext # {} => after \in unreadNext
  BY <1>3, <1>5, <1>7, ArchiveOldest
<1>9. unreadNext = {} /\ later # {} => after - 1 \in later /\ after \in Nat /\ \A q \in later : q < after
  <2> SUFFICES ASSUME unreadNext = {}, later # {} PROVE after - 1 \in later /\ after \in Nat /\ \A q \in later : q < after
    OBVIOUS
  <2>1. Archive!Newest(later) \in later /\ \A q \in later : q <= Archive!Newest(later)
    BY <1>3, ArchiveNewest
  <2>2. after = Archive!Newest(later) + 1 /\ Archive!Newest(later) \in 0..LastHour
    BY <1>3, <1>7, <2>1
  <2> QED BY <1>3, <2>1, <2>2, ArchiveAssumption
<1>10. /\ queued \in SUBSET (0..LastHour) /\ unread \subseteq queued
       /\ queued = {} => until = -1
       /\ queued # {} => until \in Nat
       /\ \A u \in unread : until <= u
       /\ unread = {} => (\A h \in queued : h < until) /\ (queued # {} => until = Archive!Newest(queued) + 1)
       /\ unread # {} => until \in unread
  BY CoverageOf DEF Archive!CoveredUntil
<1>11. later \in SUBSET (0..LastHour) /\ unreadNext \subseteq later /\ LastHour \in Nat
  BY <1>3, <1>5, ArchiveAssumption
<1> HIDE DEF until, after, queued, later, unread, unreadNext
<1>12. CASE queued = {}
  <2>1. CASE unreadNext # {}
    <3>1. after \in 0..LastHour
      BY <1>11, <1>8, <2>1
    <3> QED BY <1>10, <1>12, <3>1 DEF until, after
  <2>2. CASE unreadNext = {} /\ later # {}
    BY <1>9, <1>10, <1>12, <2>2 DEF until, after
  <2>3. CASE unreadNext = {} /\ later = {}
    BY <1>7, <1>10, <1>12, <2>3 DEF until, after
  <2> QED BY <2>1, <2>2, <2>3
<1>13. CASE queued # {} /\ unreadNext # {}
  <2>1. after \in unread \/ \A g \in queued : g < after
    BY <1>6, <1>8, <1>13 DEF unreadNext, unread, queued
  <2>2. after \in Nat /\ until \in Nat
    <3>1. after \in 0..LastHour
      BY <1>8, <1>11, <1>13
    <3>2. until \in Nat
      BY <1>10, <1>13
    <3> QED BY <3>1, <3>2, <1>11
  <2>3. after \notin unread => until <= after
    <3> SUFFICES ASSUME \A g \in queued : g < after PROVE until <= after
      BY <2>1
    <3>1. unread # {} => until \in queued
      BY <1>10
    <3>2. unread = {} => \E q \in queued : until = q + 1
      BY <1>10, <1>13, ArchiveNewest
    <3>3. \A q \in queued : q \in Nat /\ q < after
      BY <1>10, <1>11
    <3> QED BY <2>2, <3>1, <3>2, <3>3
  <2> QED BY <1>10, <2>2, <2>3 DEF until, after
<1>14. CASE queued # {} /\ unreadNext = {}
  <2>1. later # {} /\ queued \subseteq later
    BY <1>4, <1>14 DEF queued, later
  <2>2. after \in Nat /\ until \in Nat /\ \A q \in queued : q < after
    BY <1>9, <1>10, <1>14, <2>1
  <2>3. unread # {} => until \in queued
    BY <1>10
  <2>4. unread = {} => \E q \in queued : until = q + 1
    BY <1>10, <1>14, ArchiveNewest
  <2>5. \A q \in queued : q \in Nat /\ q < after
    BY <1>10, <1>11, <2>2
  <2> QED BY <2>2, <2>3, <2>4, <2>5 DEF until, after
<1> QED BY <1>12, <1>13, <1>14

\* What each part holds of itself while it moves.
EachPartInv ==
  /\ part \in {"archive", "candidates", "pulls", "identity", "queue", "budget"}
  /\ part = "archive" => ArchiveInv
  /\ part = "candidates" => CandidatesInv
  /\ part = "pulls" => PullsInv
  /\ part = "identity" => IdentityInv
  /\ part = "queue" => TypeOK /\ SafetyInv
  /\ part = "budget" => BudgetInv

LEMMA InitParts == PartsInit => EachPartInv
<1> SUFFICES ASSUME PartsInit PROVE EachPartInv
  OBVIOUS
<1>1. part = "archive" => ArchiveInv
  BY InitArchive DEF PartsInit
<1>2. part = "candidates" => CandidatesInv
  BY InitCandidates DEF PartsInit
<1>3. part = "pulls" => PullsInv
  BY InitPulls DEF PartsInit
<1>4. part = "identity" => IdentityInv
  BY InitIdentity DEF PartsInit
<1>5. part = "queue" => TypeOK /\ SafetyInv
  BY InitType, InitSafety DEF PartsInit
<1>6. part = "budget" => BudgetInv
  BY InitBudget DEF PartsInit
<1>7. part \in {"archive", "candidates", "pulls", "identity", "queue", "budget"}
  BY DEF PartsInit
<1> QED BY <1>1, <1>2, <1>3, <1>4, <1>5, <1>6, <1>7 DEF EachPartInv

LEMMA PartsStep == EachPartInv /\ [PartsNext]_allVars => EachPartInv'
<1> SUFFICES ASSUME EachPartInv, [PartsNext]_allVars PROVE EachPartInv'
  OBVIOUS
<1>0. part' = part /\ part \in {"archive", "candidates", "pulls", "identity", "queue", "budget"}
  BY DEF EachPartInv, PartsNext, allVars
<1>1. CASE part = "archive"
  <2>1. [Archive!Next]_(Archive!archiveHoursVars)
    BY <1>1 DEF PartsNext, allVars, archiveVars, Archive!archiveHoursVars
  <2>2. ArchiveInv'
    BY <1>1, <2>1, ArchiveStep DEF EachPartInv
  <2> QED BY <1>0, <1>1, <2>2 DEF EachPartInv
<1>2. CASE part = "candidates"
  <2>1. [Candidates!Next]_(Candidates!repoCandidatesVars)
    BY <1>2 DEF PartsNext, allVars, candidateVars, Candidates!repoCandidatesVars
  <2>2. CandidatesInv'
    BY <1>2, <2>1, CandidatesStep DEF EachPartInv
  <2> QED BY <1>0, <1>2, <2>2 DEF EachPartInv
<1>3. CASE part = "pulls"
  <2>1. [Pulls!Next]_(Pulls!pullRequestSyncVars)
    BY <1>3 DEF PartsNext, allVars, pullVars, Pulls!pullRequestSyncVars
  <2>2. PullsInv'
    BY <1>3, <2>1, PullsStep DEF EachPartInv
  <2> QED BY <1>0, <1>3, <2>2 DEF EachPartInv
<1>4. CASE part = "identity"
  <2>1. [Identity!Next]_(Identity!repositoryIdentityVars)
    BY <1>4 DEF PartsNext, allVars, identityVars, Identity!repositoryIdentityVars
  <2>2. IdentityInv'
    BY <1>4, <2>1, IdentityStep DEF EachPartInv
  <2> QED BY <1>0, <1>4, <2>2 DEF EachPartInv
<1>5. CASE part = "queue"
  <2>1. [Next]_vars
    BY <1>5 DEF PartsNext, allVars, queueVars
  <2>2. TypeOK /\ SafetyInv
    BY <1>5 DEF EachPartInv
  <2>3. TypeOK' /\ SafetyInv'
    BY <2>1, <2>2, TypeStep, SafetyStep
  <2> QED BY <1>0, <1>5, <2>3 DEF EachPartInv
<1>6. CASE part = "budget"
  <2>1. [Budget!Next]_(Budget!gitHubBudgetVars)
    BY <1>6 DEF PartsNext, allVars, budgetVars, Budget!gitHubBudgetVars
  <2>2. BudgetInv'
    BY <1>6, <2>1, BudgetStep DEF EachPartInv
  <2> QED BY <1>0, <1>6, <2>2 DEF EachPartInv
<1> QED BY <1>0, <1>1, <1>2, <1>3, <1>4, <1>5, <1>6

\* Every part of the ingester keeps its types, and what its own argument needs
\* with them (archive.go, prs.go, identity.go, queue.go, budget.go).
THEOREM PartsKeepTypes == PartsSpec => []PartsTypeOK
<1>1. EachPartInv => PartsTypeOK
  BY DEF EachPartInv, PartsTypeOK, ArchiveInv, CandidatesInv, PullsInv, IdentityInv, BudgetInv, BudgetTypes
<1> QED BY <1>1, InitParts, PartsStep, PTL DEF PartsSpec

\* What counts as read was read, for any number of hours, readers and
\* repositories: whatever is seeded, claimed, reclaimed, failed and retried, the
\* archive is current only up to hours it applied or may skip and its coverage
\* never recedes, and no crawl pass moves a watermark it did not earn
\* (archive.go; coordinator.go, runArchive; queue.go, CompleteOrRequeue).
THEOREM CoverageStaysHonest == PartsSpec => CoverageIsHonest
<1>1. EachPartInv => (part = "archive" => Archive!CurrentMeansRead)
  BY CurrentIsRead DEF EachPartInv
<1>2. EachPartInv => (part = "queue" => WatermarkEarned)
  BY DEF EachPartInv, SafetyInv
<1>3. EachPartInv /\ EachPartInv' /\ [PartsNext]_allVars
        => [part = "archive" => Archive!CoveredUntil' >= Archive!CoveredUntil]_allVars
  <2> SUFFICES ASSUME EachPartInv, EachPartInv', [PartsNext]_allVars, part = "archive"
               PROVE  Archive!CoveredUntil' >= Archive!CoveredUntil
    OBVIOUS
  <2>1. [Archive!Next]_(Archive!archiveHoursVars) /\ part' = part
    BY DEF PartsNext, allVars, archiveVars, Archive!archiveHoursVars
  <2>2. ArchiveInv /\ ArchiveInv'
    BY <2>1 DEF EachPartInv
  <2> QED BY <2>1, <2>2, CoverageStep
<1> QED BY <1>1, <1>2, <1>3, InitParts, PartsStep, PTL DEF PartsSpec, CoverageIsHonest
===============================================================================
