----------------------------- MODULE ShuffledFeed -----------------------------
(***************************************************************************)
(* Paging through the shuffled order of repositories (shuffle.go, foryou.go *)
(* and pick.go in backend/internal/issue): the shuffle sort, the For you    *)
(* feed, which draws the order of each chunk of it afresh, and Pick.  One   *)
(* reader pages while the catalog changes and its order is redrawn.         *)
(*                                                                          *)
(* A repository shows one issue, so repositories are what is shown.  A page *)
(* is read in one step: a walk that changes meet between two of its batches *)
(* is one of the walks cut short here.  A For you page taken from several   *)
(* chunks is several pages, and each reader has a draw of its own.          *)
(***************************************************************************)
EXTENDS Integers, FiniteSets, Sequences

CONSTANTS
  Project,    \* repositories, by their positive ids
  Key,        \* values of repositories.shuffle_key
  MaxLimit,   \* bound on the page size
  Pool,       \* api.foryou.pool_repos
  Draws       \* the orders a chunk may be drawn in: the place of each repository

VARIABLES
  key,       \* each repository's shuffle_key
  matching,  \* the repositories with an open issue the filters let through
  feed,      \* the reader's cursor
  kept,      \* the For you chunk at the cursor, while the store has it
  shown,     \* history: the repositories shown, and those shown again
  steady     \* history: repositories that have stood still since the walk began
             \* and whose chunk was not drawn again halfway

shuffledFeedVars == <<key, matching, feed, kept, shown, steady>>

Top == <<-1, 0>>   \* no cursor: before every repository
End == <<-2, 0>>   \* no next page
NoChunk == [drawn |-> FALSE, ids |-> <<>>, next |-> End, wrapped |-> FALSE]
NoFeed == [sort |-> "none", at |-> Top, start |-> 0, wrapped |-> FALSE, offset |-> 0, want |-> 0]

TypeOK ==
  /\ key \in [Project -> Key] /\ matching \subseteq Project
  /\ feed.sort \in {"none", "shuffle", "foryou", "pick"} /\ feed.offset \in 0..Pool
  /\ feed.at = End \/ feed.at \in (Key \cup {-1}) \X (Project \cup {0})
  /\ kept.ids \in Seq(Project) /\ Len(kept.ids) <= Pool
  /\ \A m, n \in DOMAIN kept.ids : kept.ids[m] = kept.ids[n] => m = n
  /\ shown.once \subseteq Project /\ shown.twice \subseteq shown.once
  /\ steady \subseteq Project

Init ==
  /\ key \in [Project -> Key] /\ matching \in SUBSET Project
  /\ feed = NoFeed /\ kept = NoChunk
  /\ shown = [once |-> {}, twice |-> {}] /\ steady = {}

----------------------------------------------------------------------------
(* The walk. *)

Beyond(p, at) == key[p] > at[1] \/ (key[p] = at[1] /\ p > at[2])
Ahead(at) == {p \in Project : Beyond(p, at)}
Place(p) == <<key[p], p>>
First(S, n) == {p \in S : Cardinality({q \in S : Beyond(p, Place(q))}) < n}
LastOf(S) == Place(CHOOSE p \in S : \A q \in S : ~Beyond(q, Place(p)))

\* Mutant: the next page starts after everything the walk has read.
Mutant_NextPlace(walked, hits, full) == LastOf(walked)

\* A full page ends at its last repository: the rest of the batch belongs to
\* the next one.
NextPlace(walked, hits, full) == IF full THEN LastOf(hits) ELSE LastOf(walked)

\* What a walk may come to: the repositories run out, the page is full, or
\* the time budget is spent, which is never before one batch of twice the
\* page.  Finishing from the matching issues past so many repositories finds
\* what walking on would have found.
Walks(at, limit) ==
  LET ahead == Ahead(at)
      Outcome(walked, stopped) ==
        LET hits == First(walked \cap matching, limit)
            full == Cardinality(hits) = limit IN
        [hits |-> hits,
         next |-> IF ~full /\ ~stopped THEN End ELSE NextPlace(walked, hits, full)] IN
  {Outcome(ahead, FALSE)} \cup
  {Outcome(First(ahead, n), TRUE) : n \in {m \in 2 * limit..Cardinality(Project) : m <= Cardinality(ahead)}}

----------------------------------------------------------------------------
(* The reader. *)

BeginWalk(sort, start, want) ==
  /\ feed.sort = "none"
  /\ feed' = [NoFeed EXCEPT !.sort = sort, !.start = start, !.want = want,
                            !.at = IF sort = "shuffle" THEN Top ELSE <<start, 0>>]
  /\ shown' = [once |-> {}, twice |-> {}] /\ kept' = NoChunk
  /\ steady' = Project
  /\ UNCHANGED <<key, matching>>

Shows(S) == shown' = [once |-> shown.once \cup S, twice |-> shown.twice \cup (S \cap shown.once)]
Moves(at, wrapped) == feed' = [feed EXCEPT !.at = at, !.wrapped = wrapped, !.offset = 0]

\* The shuffle sort: one page of BrowseIssues.
ShufflePage(limit) ==
  /\ feed.sort = "shuffle" /\ feed.at # End
  /\ \E w \in Walks(feed.at, limit) : Shows(w.hits) /\ Moves(w.next, FALSE)
  /\ UNCHANGED <<key, matching, kept, steady>>

\* Pick reads pages from a random start, goes round the end once, and stops
\* back where it began or with enough.
PickPage(limit) ==
  /\ feed.sort = "pick" /\ feed.at # End
  /\ \E w \in Walks(feed.at, limit) :
       LET fresh == w.hits \ shown.once
           taken == First(fresh, feed.want)
           enough == Cardinality(taken) = feed.want
           next == IF w.next = End /\ ~feed.wrapped THEN Top
                   ELSE IF feed.wrapped /\ w.next[1] >= feed.start THEN End ELSE w.next IN
       /\ Shows(taken)
       /\ feed' = [feed EXCEPT !.want = @ - Cardinality(taken),
                               !.at = IF enough THEN End ELSE next,
                               !.wrapped = @ \/ w.next = End]
  /\ UNCHANGED <<key, matching, kept, steady>>

\* Mutant: the walk goes on through the repositories it began with.
Mutant_Stops(place) == place > feed.start

\* The walk has come round to where it began.
Stops(place) == place >= feed.start

\* The sequence of a set by the places drawn for its members.
InOrder(S, draw) ==
  [n \in 1..Cardinality(S) |->
     CHOOSE p \in S : Cardinality({q \in S : draw[q] < draw[p]}) = n - 1]

\* A chunk of the walk from the cursor, in one of the orders it may be drawn in.
Chunks ==
  {LET hits == IF feed.wrapped THEN {p \in w.hits : ~Stops(key[p])} ELSE w.hits
       over == w.next = End \/ (feed.wrapped /\ (hits # w.hits \/ Stops(w.next[1]))) IN
   [drawn |-> TRUE,
    ids |-> InOrder(hits, draw),
    next |-> IF ~over THEN w.next ELSE IF feed.wrapped THEN End ELSE Top,
    wrapped |-> feed.wrapped \/ over] : w \in Walks(feed.at, Pool), draw \in Draws}

\* Up to limit issues from the chunk at the cursor, drawn unless it is kept.
ForYouPage(limit) ==
  /\ feed.sort = "foryou" /\ feed.at # End
  /\ \E c \in IF kept.drawn THEN {kept} ELSE Chunks :
       LET taken == {c.ids[n] : n \in DOMAIN c.ids \cap (feed.offset + 1..feed.offset + limit)}
           offset == feed.offset + Cardinality(taken) IN
       /\ Shows(taken)
       /\ IF offset < Len(c.ids)
          THEN kept' = c /\ feed' = [feed EXCEPT !.offset = offset]
          ELSE kept' = NoChunk /\ Moves(c.next, c.wrapped)
  /\ steady' = IF ~kept.drawn /\ feed.offset > 0 THEN {} ELSE steady
  /\ UNCHANGED <<key, matching>>

\* It outlived its TTL, or Redis could not keep it.
LoseChunk ==
  /\ kept.drawn /\ kept' = NoChunk
  /\ UNCHANGED <<key, matching, feed, shown, steady>>

\* The reader starts again, or Pick ran out of pages.
LeaveWalk ==
  /\ feed.sort # "none" /\ feed' = NoFeed /\ kept' = NoChunk
  /\ steady' = {} /\ shown' = [once |-> {}, twice |-> {}]
  /\ UNCHANGED <<key, matching>>

----------------------------------------------------------------------------
(* The catalog. *)

\* An issue opens, closes, is hidden or stops passing the filters.
ChangeMatch(p) ==
  /\ matching' = IF p \in matching THEN matching \ {p} ELSE matching \cup {p}
  /\ steady' = steady \ {p}
  /\ UNCHANGED <<key, feed, kept, shown>>

\* Every repository is given a new key, whatever cursors are out.
Reshuffle ==
  /\ key' \in [Project -> Key]
  /\ steady' = {}
  /\ UNCHANGED <<matching, feed, kept, shown>>

Next ==
  \/ \E sort \in {"shuffle", "foryou"}, start \in Key : BeginWalk(sort, start, 0)
  \/ \E start \in Key, want \in 1..MaxLimit : BeginWalk("pick", start, want)
  \/ \E limit \in 1..MaxLimit : ShufflePage(limit) \/ PickPage(limit) \/ ForYouPage(limit)
  \/ LoseChunk \/ LeaveWalk \/ Reshuffle
  \/ \E p \in Project : ChangeMatch(p)

Spec == Init /\ [][Next]_shuffledFeedVars

----------------------------------------------------------------------------
(* A repository that stands still while somebody pages is shown once: never   *)
(* again on a later page, and not missed by a walk that came to its end,      *)
(* however the pages are cut and whatever else changes between them           *)
(* (shuffle.go: "a page always moves the cursor on").                         *)
StandingShownOnce ==
  /\ steady \cap shown.twice = {}
  /\ feed.at = End /\ (feed.sort = "pick" => feed.want > 0) => steady \cap matching \subseteq shown.once
=============================================================================
