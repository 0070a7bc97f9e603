------------------------- MODULE RepositoryIdentity -------------------------
(***************************************************************************)
(* Which stored row is which GitHub repository (backend/internal/ingest:   *)
(* identity.go, upsertDiscoveredTx and renameTx in discovery.go, the crawl *)
(* of a row by name in worker.go, RecomputeEligibility and MarkUnavailable *)
(* in queue.go, eligibility.go; cmd/repoimport).  Rows are imported by     *)
(* name from a dataset of any age, found by search with GitHub's id, and   *)
(* crawled by name, while names move between repositories on GitHub.       *)
(***************************************************************************)
EXTENDS Naturals

CONSTANTS
  Repo,      \* repositories on GitHub, by database id
  Name,      \* full names
  RowId,     \* ids of rows of the table repositories
  Excluded,  \* excluded_repositories
  MaxMoves,  \* bound on the names taken on GitHub
  Null

VARIABLES
  title,     \* each repository's name on GitHub, Null when it has none (yet, or deleted)
  resolves,  \* the repository each name leads to: its own or one it was renamed from
  moves,     \* names taken so far
  rows,      \* repositories
  page,      \* the page the crawl has fetched for a row and not stored
  hit,       \* the search result discovery has fetched and not stored
  crawled    \* history: rows that have stored a page

repositoryIdentityVars == <<title, resolves, moves, rows, page, hit, crawled>>

Reason == {"unjudged", "", "threshold", "excluded", "not_found", "duplicate"}
NoRow == [name |-> Null, id |-> Null, meets |-> FALSE, eligible |-> FALSE, reason |-> "unjudged"]
NoPage == [row |-> Null, repo |-> Null, meets |-> FALSE]
NoHit == [repo |-> Null, name |-> Null, meets |-> FALSE]

TypeOK ==
  /\ title \in [Repo -> Name \cup {Null}] /\ resolves \in [Name -> Repo \cup {Null}]
  /\ moves \in 0..MaxMoves /\ crawled \subseteq RowId
  /\ rows \in [RowId -> [name: Name \cup {Null}, id: Repo \cup {Null}, meets: BOOLEAN,
                       eligible: BOOLEAN, reason: Reason]]
  /\ page \in [row: RowId \cup {Null}, repo: Repo \cup {Null}, meets: BOOLEAN]
  /\ hit \in [repo: Repo \cup {Null}, name: Name \cup {Null}, meets: BOOLEAN]
  /\ \A r, s \in RowId : r # s /\ rows[r].name # Null =>        \* the unique indexes
       rows[r].name # rows[s].name /\ (rows[r].id = Null \/ rows[r].id # rows[s].id)
  /\ \A r \in RowId : rows[r].eligible => rows[r].reason \in {"", "unjudged"}

Init ==
  /\ title = [g \in Repo |-> Null] /\ resolves = [n \in Name |-> Null]
  /\ rows = [r \in RowId |-> NoRow] /\ moves = 0 /\ crawled = {}
  /\ page = NoPage /\ hit = NoHit

Named(n) == {r \in RowId : rows[r].name = n}
Holding(g) == {r \in RowId : rows[r].id = g}

----------------------------------------------------------------------------
\* GitHub: a repository is created, or renamed; names it had lead to it until
\* another repository takes them.
TakeName(g, n) ==
  /\ moves < MaxMoves /\ moves' = moves + 1
  /\ n \notin {title[h] : h \in Repo}
  /\ title' = [title EXCEPT ![g] = n]
  /\ resolves' = [resolves EXCEPT ![n] = g]
  /\ UNCHANGED <<rows, page, hit, crawled>>

\* GitHub: a repository is deleted or made private.
Vanish(g) ==
  /\ title[g] # Null
  /\ title' = [title EXCEPT ![g] = Null]
  /\ resolves' = [n \in Name |-> IF resolves[n] = g THEN Null ELSE resolves[n]]
  /\ UNCHANGED <<moves, rows, page, hit, crawled>>

----------------------------------------------------------------------------
Insert(n, g) ==
  \E r \in RowId :
    /\ rows[r] = NoRow
    /\ rows' = [rows EXCEPT ![r] = [name |-> n, id |-> g, meets |-> TRUE,
                                    eligible |-> TRUE, reason |-> ""]]

\* repoimport, handle: a record of a dataset that knew the name.  An
\* ineligible or excluded record is not stored; what the crawl learnt from
\* GitHub (not_found, duplicate) outlives the import.
Import(n) ==
  /\ n \notin Excluded
  /\ IF Named(n) = {} THEN Insert(n, Null)
     ELSE rows' = [r \in RowId |->
            IF rows[r].name # n THEN rows[r]
            ELSE IF rows[r].reason \in {"not_found", "duplicate"}
                 THEN [rows[r] EXCEPT !.meets = TRUE, !.eligible = FALSE]
                 ELSE [rows[r] EXCEPT !.meets = TRUE, !.eligible = TRUE, !.reason = ""]]
  /\ UNCHANGED <<title, resolves, moves, page, hit, crawled>>

\* Eligible, and the SQL of RecomputeEligibility over stored facts.
Judge(row) ==
  IF row.name \in Excluded THEN "excluded" ELSE IF ~row.meets THEN "threshold" ELSE ""

\* Mutant: a threshold change re-judges the duplicates too.
Mutant_RecomputeEligibility ==
  /\ rows' = [r \in RowId |-> IF rows[r].name = Null \/ rows[r].reason = "not_found" THEN rows[r]
       ELSE [rows[r] EXCEPT !.eligible = Judge(rows[r]) = "", !.reason = Judge(rows[r])]]
  /\ UNCHANGED <<title, resolves, moves, page, hit, crawled>>

RecomputeEligibility ==
  /\ rows' = [r \in RowId |->
       IF rows[r].name = Null \/ rows[r].reason \in {"not_found", "duplicate"} THEN rows[r]
       ELSE [rows[r] EXCEPT !.eligible = Judge(rows[r]) = "", !.reason = Judge(rows[r])]]
  /\ UNCHANGED <<title, resolves, moves, page, hit, crawled>>

----------------------------------------------------------------------------
\* The crawl of an eligible row fetches its first page by the row's name.
FetchPage(r) ==
  /\ page = NoPage /\ rows[r].eligible
  /\ LET g == resolves[rows[r].name] IN
       \E m \in BOOLEAN : page' = [row |-> r, repo |-> g, meets |-> g # Null /\ m]
  /\ UNCHANGED <<title, resolves, moves, rows, hit, crawled>>

\* The worker ended, or its transaction failed, before anything was stored.
DropFetched ==
  /\ page # NoPage \/ hit # NoHit
  /\ page' \in {page, NoPage} /\ hit' \in {hit, NoHit}
  /\ UNCHANGED <<title, resolves, moves, rows, crawled>>

MarkUnavailable ==
  /\ page.row # Null /\ page.repo = Null
  /\ rows' = [rows EXCEPT ![page.row].eligible = FALSE, ![page.row].reason = "not_found"]
  /\ page' = NoPage
  /\ UNCHANGED <<title, resolves, moves, hit, crawled>>

MarkDuplicate(row) == [row EXCEPT !.eligible = FALSE, !.reason = "duplicate"]

\* RecordRepositoryIDTx: what the id GitHub answered for the row's name makes
\* of the row.  A row that holds another id is left alone and reported.  An
\* answer without an id, which GitHub does not give, is left out.
RecordRepositoryID(row, g) ==
  IF row.id # Null THEN row
  ELSE IF Holding(g) = {} THEN [row EXCEPT !.id = g] ELSE MarkDuplicate(row)

\* processJob's transaction: the issues, the stats, the id.
StorePage ==
  LET r == page.row IN
  /\ r # Null /\ page.repo # Null
  /\ rows' = [rows EXCEPT ![r] = RecordRepositoryID([@ EXCEPT !.meets = page.meets], page.repo)]
  /\ crawled' = crawled \cup {r}
  /\ page' = NoPage
  /\ UNCHANGED <<title, resolves, moves, hit>>

----------------------------------------------------------------------------
\* Discovery's search answers with a repository, its name and its facts.
Search(g) ==
  /\ hit = NoHit /\ title[g] # Null
  /\ \E m \in BOOLEAN : hit' = [repo |-> g, name |-> title[g], meets |-> m]
  /\ UNCHANGED <<title, resolves, moves, rows, page, crawled>>

\* refreshKnownTx: live facts; a not_found row is judged again.
Known(row) ==
  [row EXCEPT !.meets = hit.meets, !.reason = IF @ = "not_found" THEN "unjudged" ELSE @]

\* renameTx: the name is free, or held by an id-less row (the same repository
\* imported again: its twin), or by another repository's row.
Renamed(r) ==
  LET holder == Named(hit.name) \ {r} IN
  [s \in RowId |->
     IF s = r THEN Known(IF holder = {} THEN [rows[r] EXCEPT !.name = hit.name] ELSE rows[r])
     ELSE IF s \in holder /\ rows[s].id = Null THEN MarkDuplicate(rows[s])
     ELSE rows[s]]

\* upsertDiscoveredTx: known by id.
UpdateById ==
  /\ hit # NoHit
  /\ \E r \in Holding(hit.repo) : rows' = Renamed(r)
  /\ hit' = NoHit
  /\ UNCHANGED <<title, resolves, moves, page, crawled>>

\* Known by name: the id is stored, unless the name's row holds another.
UpdateByName ==
  /\ hit # NoHit /\ Holding(hit.repo) = {}
  /\ \E r \in Named(hit.name) :
       rows' = IF rows[r].id # Null THEN rows
               ELSE [rows EXCEPT ![r] = Known([@ EXCEPT !.id = hit.repo])]
  /\ hit' = NoHit
  /\ UNCHANGED <<title, resolves, moves, page, crawled>>

InsertDiscovered ==
  /\ hit # NoHit /\ Holding(hit.repo) = {} /\ Named(hit.name) = {}
  /\ IF hit.name \notin Excluded /\ hit.meets THEN Insert(hit.name, hit.repo) ELSE UNCHANGED rows
  /\ hit' = NoHit
  /\ UNCHANGED <<title, resolves, moves, page, crawled>>

Next ==
  \/ \E g \in Repo : (\E n \in Name : TakeName(g, n)) \/ Vanish(g) \/ Search(g)
  \/ \E n \in {m \in Name : resolves[m] # Null} : Import(n)
  \/ \E r \in RowId : FetchPage(r)
  \/ RecomputeEligibility \/ DropFetched \/ MarkUnavailable \/ StorePage
  \/ UpdateById \/ UpdateByName \/ InsertDiscovered

Spec == Init /\ [][Next]_repositoryIdentityVars

----------------------------------------------------------------------------
(* Of two rows that are one repository only one is crawled once that is known:*)
(* a row that has stored a page and holds no id is a duplicate or gone, and   *)
(* neither the eligibility recheck, an import nor a search makes the crawl    *)
(* take it up again (identity.go; queue.go: "re-enabling one would crawl the  *)
(* same issues twice").                                                       *)
TwinStaysRetired ==
  \A r \in RowId : rows[r].id = Null /\ r \in crawled => ~rows[r].eligible
=============================================================================
