-------------------------- MODULE PullRequestSync --------------------------
(***************************************************************************)
(* Reading one person's pull requests (backend/internal/ingest/prs.go,      *)
(* github/pulls.go, syncPullRequests in coordinator.go).  A pass reads      *)
(* pages, newest updated first, until it reaches what the last completed    *)
(* pass saw; each page commits with the pass's cursor, so a pass resumes    *)
(* where it stopped.  Nothing leases the row: the coordinator process reads *)
(* people one after the other, and only one process runs.                   *)
(*                                                                          *)
(* Time counts the changes of the person's pull requests, so an updatedAt   *)
(* names one change; a cursor stands for the updatedAt of the page's end.   *)
(***************************************************************************)
EXTENDS Naturals, FiniteSets

CONSTANTS
  Pull,      \* pull requests of the person to catalog repositories
  PullsMax,  \* bound on their changes
  PageSize,  \* ingest.prs.page_size
  Coordinator \* coordinator processes: one, see the README for two

VARIABLES
  pullTime,  \* the last change
  onGitHub,  \* each pull request on GitHub
  account,   \* the login still belongs to the person
  pulls,     \* pull_requests
  prSync,    \* the person's pr_sync row
  reading    \* the page each process has fetched and not stored, with the row it read

pullRequestSyncVars == <<pullTime, onGitHub, account, pulls, prSync, reading>>

Time == 0..PullsMax
PullState == [state: {"NONE", "OPEN", "CLOSED", "MERGED"}, at: Time]
NoPull == [state |-> "NONE", at |-> 0]

\* through: synced_through, cursor: pass_cursor, high: pass_high, 0 for NULL;
\* due: next_check_at has passed.
SyncRow == [through: Time, cursor: Time, high: Time, due: BOOLEAN]
NoPage == [step |-> "none", row |-> [through |-> 0, cursor |-> 0, high |-> 0, due |-> FALSE],
           pulls |-> [p \in {} |-> NoPull], more |-> FALSE]

TypeOK ==
  /\ pullTime \in Time /\ account \in BOOLEAN
  /\ onGitHub \in [Pull -> PullState] /\ pulls \in [Pull -> PullState]
  /\ prSync \in SyncRow
  /\ \A c \in Coordinator : /\ reading[c].row \in SyncRow /\ reading[c].more \in BOOLEAN
                        /\ DOMAIN reading[c].pulls \subseteq Pull
                        /\ Cardinality(DOMAIN reading[c].pulls) <= PageSize
  /\ prSync.cursor # 0 => prSync.high >= prSync.cursor

\* EnsurePRSync: a new row, due at once.
Init ==
  /\ pullTime = 0 /\ account = TRUE
  /\ onGitHub = [p \in Pull |-> NoPull] /\ pulls = [p \in Pull |-> NoPull]
  /\ prSync = [through |-> 0, cursor |-> 0, high |-> 0, due |-> TRUE]
  /\ reading = [c \in Coordinator |-> NoPage]

----------------------------------------------------------------------------
\* GitHub: a pull request is opened, closed, reopened, merged or edited.
Change(p, s) ==
  /\ pullTime < PullsMax
  /\ onGitHub[p].state = "MERGED" => s = "MERGED"
  /\ onGitHub[p].state = "NONE" => s = "OPEN"
  /\ pullTime' = pullTime + 1
  /\ onGitHub' = [onGitHub EXCEPT ![p] = [state |-> s, at |-> pullTime + 1]]
  /\ UNCHANGED <<account, pulls, prSync, reading>>

\* The login passes to another account, or the person signs in again.
AccountChanges ==
  /\ account' = ~account
  /\ UNCHANGED <<pullTime, onGitHub, pulls, prSync, reading>>

\* next_check_at passes.
ComesDue ==
  /\ ~prSync.due
  /\ prSync' = [prSync EXCEPT !.due = TRUE]
  /\ UNCHANGED <<pullTime, onGitHub, account, pulls, reading>>

\* "Check my pull requests"; api.prs.refresh_min_seconds spaces them out.
RequestCheck ==
  /\ prSync' = [prSync EXCEPT !.due = TRUE]
  /\ UNCHANGED <<pullTime, onGitHub, account, pulls, reading>>

----------------------------------------------------------------------------
\* The pull requests after a cursor, and the first PageSize of them.
After(cursor) ==
  {p \in Pull : onGitHub[p].state # "NONE" /\ (cursor = 0 \/ onGitHub[p].at < cursor)}
FirstOf(S) == {p \in S : Cardinality({q \in S : onGitHub[q].at > onGitHub[p].at}) < PageSize}

\* DuePRSync and FetchUserPullRequests: the row is read, then GitHub answers.
FetchPulls(c) ==
  LET rest == After(prSync.cursor) IN
  /\ reading[c] = NoPage /\ prSync.due
  /\ reading' = [reading EXCEPT ![c] =
       [step |-> IF account THEN "page" ELSE "other_account", row |-> prSync,
        pulls |-> [p \in FirstOf(rest) |-> onGitHub[p]], more |-> FirstOf(rest) # rest]]
  /\ UNCHANGED <<pullTime, onGitHub, account, pulls, prSync>>

\* The read or the transaction failed (FailPRSync), or the process ended: the
\* row's pass stays where it was.
FailPRSync(c) ==
  /\ reading[c] # NoPage
  /\ reading' = [reading EXCEPT ![c] = NoPage]
  /\ prSync' \in {prSync, [prSync EXCEPT !.due = FALSE]}
  /\ UNCHANGED <<pullTime, onGitHub, account, pulls>>

\* The login is someone else's: the pass is dropped, nothing is stored.
OtherAccount(c) ==
  /\ reading[c].step = "other_account"
  /\ prSync' = [prSync EXCEPT !.cursor = 0, !.high = 0, !.due = FALSE]
  /\ reading' = [reading EXCEPT ![c] = NoPage]
  /\ UNCHANGED <<pullTime, onGitHub, account, pulls>>

Newest(S) == IF S = {} THEN 0 ELSE CHOOSE t \in S : \A u \in S : u <= t
Oldest(S) == CHOOSE t \in S : \A u \in S : t <= u

\* What of a page is new to the pass: everything down to the watermark.
NewIn(page) == {p \in DOMAIN page.pulls : page.pulls[p].at >= page.row.through}
Seen(page) == {page.pulls[p].at : p \in NewIn(page)}
High(page) == Newest(Seen(page) \cup {page.row.high})

\* Mutant: the watermark is the time the pass ended.
Mutant_CompleteAtNow(page) == pullTime

\* synced_through of a pass that this page completes.
Through(page) == IF High(page) = 0 THEN page.row.through ELSE High(page)

\* ApplyPullsPage: one transaction, over the row as it was read.
ApplyPullsPage(c) ==
  LET page == reading[c]
      complete == NewIn(page) # DOMAIN page.pulls \/ ~page.more IN
  /\ page.step = "page"
  /\ pulls' = [p \in Pull |-> IF p \in NewIn(page) THEN page.pulls[p] ELSE pulls[p]]
  /\ prSync' = IF complete
       THEN [through |-> Through(page), cursor |-> 0, high |-> 0, due |-> FALSE]
       ELSE [prSync EXCEPT !.cursor = Oldest({page.pulls[p].at : p \in DOMAIN page.pulls}),
                           !.high = High(page), !.due = TRUE]
  /\ reading' = [reading EXCEPT ![c] = NoPage]
  /\ UNCHANGED <<pullTime, onGitHub, account>>

Next ==
  \/ AccountChanges \/ ComesDue \/ RequestCheck
  \/ \E p \in Pull, s \in {"OPEN", "CLOSED", "MERGED"} : Change(p, s)
  \/ \E c \in Coordinator :
       FetchPulls(c) \/ FailPRSync(c) \/ OtherAccount(c) \/ ApplyPullsPage(c)

Spec == Init /\ [][Next]_pullRequestSyncVars

----------------------------------------------------------------------------
(* No change is skipped: whatever is not stored as it stands on GitHub will   *)
(* be read, by the rest of the pass or by the next one, though pull requests  *)
(* move to the head of the list while a pass goes down it (prs.go: "anything  *)
(* updated after that is newer still, and the next pass reads it").           *)
ChangesAreReadLater ==
  \A p \in Pull : pulls[p] = onGitHub[p] \/
    IF prSync.cursor = 0 THEN onGitHub[p].at >= prSync.through
    ELSE \/ onGitHub[p].at > prSync.high
         \/ onGitHub[p].at < prSync.cursor /\ onGitHub[p].at >= prSync.through
=============================================================================
