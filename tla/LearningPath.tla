------------------------------ MODULE LearningPath ------------------------------
(***************************************************************************)
(* One person's learning paths (backend/internal/learnpath and pathTx in    *)
(* ingest/prs.go).  Starting a path and swapping a step read the path, look *)
(* for issues, and only then write; a pass of the pull request sync marks   *)
(* steps done and pays the path meanwhile, and the path may be given up.    *)
(*                                                                          *)
(* Roles and difficulties only narrow what may be picked.                   *)
(***************************************************************************)
EXTENDS Integers, FiniteSets

CONSTANTS
  Lesson,     \* catalog issues a path may be made of
  Position,   \* the positions of a path
  PathId,     \* bound on the paths ever started, numbered
  Visit,      \* requests that may run at once
  Dropped     \* an issue pruned from the catalog

VARIABLES
  paths,    \* learning_paths with their steps and skips, in the order started
  merged,   \* the issues a merged pull request of the person's closed
  paid,     \* the paths xp_events pays for
  visit,    \* each request between its read and its write
  award     \* the path the pass of the sync under way found open, 0 for none

learningPathVars == <<paths, merged, paid, visit, award>>

Step == [issue: Lesson \cup {Dropped}, done: BOOLEAN]
NoPath == [status |-> "none", steps |-> [p \in Position |-> [issue |-> Dropped, done |-> FALSE]], skips |-> {}]
NoVisit == [kind |-> "none", path |-> 0, position |-> 0, found |-> Dropped, issue |-> Dropped]

TypeOK ==
  /\ paths \in [PathId -> [status: {"none", "open", "finished", "abandoned"},
                           steps: [Position -> Step], skips: SUBSET Lesson]]
  /\ merged \subseteq Lesson /\ paid \subseteq PathId
  /\ visit \in [Visit -> [kind: {"none", "start", "swap"}, path: PathId \cup {0}, position: Position \cup {0},
                          found: Lesson \cup {Dropped}, issue: Lesson \cup {Dropped}]]
  /\ award \in PathId \cup {0}

Init ==
  /\ paths = [k \in PathId |-> NoPath] /\ merged = {} /\ paid = {}
  /\ visit = [v \in Visit |-> NoVisit] /\ award = 0

----------------------------------------------------------------------------
Open == {k \in PathId : paths[k].status = "open"}
Unused == {k \in PathId : paths[k].status = "none"}
Ends(v) == visit' = [visit EXCEPT ![v] = NoVisit]

BeginStart(v) ==
  /\ visit[v] = NoVisit /\ Open = {}
  /\ visit' = [visit EXCEPT ![v].kind = "start"]
  /\ UNCHANGED <<paths, merged, paid, award>>

\* The picks are distinct; the unique index lets one open path in.
CommitStart(v) ==
  /\ visit[v].kind = "start" /\ Open = {} /\ Unused # {}
  /\ \E k \in Unused, pick \in [Position -> Lesson] :
       /\ \A j \in Unused : k <= j
       /\ \A p, q \in Position : p # q => pick[p] # pick[q]
       /\ paths' = [paths EXCEPT ![k] =
            [status |-> "open", steps |-> [p \in Position |-> [issue |-> pick[p], done |-> FALSE]], skips |-> {}]]
  /\ Ends(v)
  /\ UNCHANGED <<merged, paid, award>>

OnPath(k) == {paths[k].steps[p].issue : p \in Position}

\* The path as it is now, and an issue neither on it nor swapped out of it.
BeginSwap(v, k, p) ==
  /\ visit[v] = NoVisit /\ k \in Open /\ ~paths[k].steps[p].done
  /\ \E i \in Lesson \ (OnPath(k) \cup paths[k].skips) :
       visit' = [visit EXCEPT ![v] = [kind |-> "swap", path |-> k, position |-> p,
                                      found |-> paths[k].steps[p].issue, issue |-> i]]
  /\ UNCHANGED <<paths, merged, paid, award>>

\* Mutant: the write trusts the read.
Mutant_StillToDo(k, p) == TRUE

\* "finished between the read and now" ends the swap.
StillToDo(k, p) == ~paths[k].steps[p].done

CommitSwap(v) ==
  LET s == visit[v] IN
  /\ s.kind = "swap" /\ StillToDo(s.path, s.position)
  /\ paths' = [paths EXCEPT ![s.path].steps[s.position].issue = s.issue,
                            ![s.path].skips = @ \cup ({s.found} \ {Dropped})]
  /\ Ends(v)
  /\ UNCHANGED <<merged, paid, award>>

\* No issues fit, a path was started meanwhile, the step was done, or an error.
GiveUpVisit(v) ==
  /\ visit[v] # NoVisit /\ Ends(v)
  /\ UNCHANGED <<paths, merged, paid, award>>

AbandonPath(k) ==
  /\ k \in Open
  /\ paths' = [paths EXCEPT ![k].status = "abandoned"]
  /\ UNCHANGED <<merged, paid, visit, award>>

\* A prune sets the steps' issue to NULL and drops the skips and the links
\* of pull requests; a swap from or to the issue cannot be written any more.
PruneLesson(i) ==
  /\ \E k \in PathId : i \in OnPath(k) \cup paths[k].skips
  /\ paths' = [k \in PathId |-> [paths[k] EXCEPT
       !.steps = [p \in Position |-> IF paths[k].steps[p].issue = i
                                     THEN [paths[k].steps[p] EXCEPT !.issue = Dropped] ELSE paths[k].steps[p]],
       !.skips = @ \ {i}]]
  /\ merged' = merged \ {i}
  /\ visit' = [v \in Visit |-> IF i \in {visit[v].found, visit[v].issue} THEN NoVisit ELSE visit[v]]
  /\ UNCHANGED <<paid, award>>

----------------------------------------------------------------------------
MergeLesson(i) ==
  /\ i \notin merged /\ merged' = merged \cup {i}
  /\ UNCHANGED <<paths, paid, visit, award>>

\* pathTx finds the open path ...
FindPath(k) ==
  /\ award = 0 /\ k \in Open
  /\ award' = k
  /\ UNCHANGED <<paths, merged, paid, visit>>

Marked(k) ==
  [p \in Position |-> [paths[k].steps[p] EXCEPT !.done = @ \/ paths[k].steps[p].issue \in merged]]

\* ... marks its steps and, when all are done, finishes and pays it, perhaps
\* given up in between.
PayPath ==
  /\ award # 0
  /\ IF \A p \in Position : Marked(award)[p].done
     THEN /\ paths' = [paths EXCEPT ![award].steps = Marked(award), ![award].status = "finished"]
          /\ paid' = paid \cup {award}
     ELSE paths' = [paths EXCEPT ![award].steps = Marked(award)] /\ UNCHANGED paid
  /\ award' = 0
  /\ UNCHANGED <<merged, visit>>

Next ==
  \/ \E v \in Visit : BeginStart(v) \/ CommitStart(v) \/ CommitSwap(v) \/ GiveUpVisit(v)
                      \/ \E k \in PathId, p \in Position : BeginSwap(v, k, p)
  \/ \E k \in PathId : AbandonPath(k) \/ FindPath(k)
  \/ \E i \in Lesson : PruneLesson(i) \/ MergeLesson(i)
  \/ PayPath

Spec == Init /\ [][Next]_learningPathVars

----------------------------------------------------------------------------
(* A path is paid for work done: every step of it was closed by a merge of    *)
(* the person's, and a swap that read the path before a merge never puts      *)
(* another issue on a step that is done by then (learnpath.go: "finished      *)
(* between the read and now").                                                *)
PaidPathsAreEarned ==
  /\ \A k \in PathId, p \in Position :
       paths[k].steps[p].done => paths[k].steps[p].issue \in merged \cup {Dropped}
  /\ \A k \in paid, p \in Position : paths[k].steps[p].done
=============================================================================
