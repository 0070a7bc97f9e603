---------------------------- MODULE ClaimedList ----------------------------
(***************************************************************************)
(* Which issues are claimed, as an API process remembers it for its lists   *)
(* (backend/cmd/api/claims.go): a loop re-reads all of them now and then,   *)
(* and the handlers of a claim and of a release note theirs once it is      *)
(* committed (handlers_claims.go), by copying the set and swapping the copy *)
(* in.  The claims themselves are those of IssueClaims: here they only      *)
(* change, in any order, through this process, another one or the clock.    *)
(***************************************************************************)
EXTENDS Naturals, FiniteSets

CONSTANTS
  ClaimedIssue,  \* issues
  Handler,       \* requests that may be noting a claim at once
  MaxClaims      \* bound on the changes of the claims

VARIABLES
  active,   \* issues with an active claim
  changes,  \* how often that has changed
  memory,   \* claimedStore
  rereader, \* refreshClaimedLoop: it waits, is to read, or has read
  noting    \* the handlers under way: what to note, and the set they copy

claimedVars == <<active, changes, memory, rereader, noting>>

Waiting == [at |-> "waits", read |-> {}]
Idle == [at |-> "idle", issue |-> {}, claimed |-> FALSE, old |-> {}]

TypeOK ==
  /\ active \subseteq ClaimedIssue /\ changes \in 0..MaxClaims /\ memory \subseteq ClaimedIssue
  /\ rereader \in [at: {"waits", "due", "read"}, read: SUBSET ClaimedIssue]
  /\ noting \in [Handler -> {Idle} \cup [at: {"committed", "copied"}, issue: ClaimedIssue,
                                         claimed: BOOLEAN, old: SUBSET ClaimedIssue]]

Init ==
  /\ active = {} /\ changes = 0 /\ memory = {}
  /\ rereader = [at |-> "due", read |-> {}] /\ noting = [h \in Handler |-> Idle]

----------------------------------------------------------------------------
Change(now) == changes < MaxClaims /\ changes' = changes + 1 /\ active' = now

\* A claim made or released here, or the caller's claim found again, is
\* committed and yet to be noted.
CommitClaim(h, i) ==
  /\ noting[h] = Idle
  /\ \/ Change(active \cup {i}) /\ noting' = [noting EXCEPT ![h] = [at |-> "committed", issue |-> i, claimed |-> TRUE, old |-> {}]]
     \/ /\ i \in active /\ Change(active \ {i})
        /\ noting' = [noting EXCEPT ![h] = [at |-> "committed", issue |-> i, claimed |-> FALSE, old |-> {}]]
  /\ UNCHANGED <<memory, rereader>>

\* Another process, the days of a claim, a synced pull request or a closing.
ChangeElsewhere(i) ==
  /\ Change(active \cup {i}) \/ Change(active \ {i})
  /\ active' # active
  /\ UNCHANGED <<memory, rereader, noting>>

\* set, a round of its loop: load and copy ...
CopySet(h) ==
  /\ noting[h].at = "committed"
  /\ noting' = [noting EXCEPT ![h].at = "copied", ![h].old = memory]
  /\ UNCHANGED <<active, changes, memory, rereader>>

\* ... and swap, unless it was swapped before.  (An equal set stored in between
\* sends the code around again, to the same end.)
SwapSet(h) ==
  LET n == noting[h] IN
  /\ n.at = "copied"
  /\ IF memory = n.old
     THEN /\ memory' = IF n.claimed THEN memory \cup {n.issue} ELSE memory \ {n.issue}
          /\ noting' = [noting EXCEPT ![h] = Idle]
     ELSE noting' = [noting EXCEPT ![h].at = "committed", ![h].old = {}] /\ UNCHANGED memory
  /\ UNCHANGED <<active, changes, rereader>>

LoopDue ==
  /\ rereader.at = "waits" /\ rereader' = [rereader EXCEPT !.at = "due"]
  /\ UNCHANGED <<active, changes, memory, noting>>

ReadActive ==
  /\ rereader.at = "due" /\ rereader' = [at |-> "read", read |-> active]
  /\ UNCHANGED <<active, changes, memory, noting>>

\* A failed read keeps the last one.
FailRead ==
  /\ rereader.at = "due" /\ rereader' = Waiting
  /\ UNCHANGED <<active, changes, memory, noting>>

\* Mutant: what was read is added to what is remembered.
Mutant_StoreRead ==
  /\ rereader.at = "read" /\ memory' = memory \cup rereader.read /\ rereader' = Waiting
  /\ UNCHANGED <<active, changes, noting>>

StoreRead ==
  /\ rereader.at = "read" /\ memory' = rereader.read /\ rereader' = Waiting
  /\ UNCHANGED <<active, changes, noting>>

Next ==
  \/ \E i \in ClaimedIssue : ChangeElsewhere(i) \/ \E h \in Handler : CommitClaim(h, i)
  \/ \E h \in Handler : CopySet(h) \/ SwapSet(h)
  \/ LoopDue \/ ReadActive \/ FailRead \/ StoreRead

\* Handlers and the loop go on, and a read does not fail for ever.
Fairness ==
  /\ \A h \in Handler : WF_claimedVars(CopySet(h)) /\ WF_claimedVars(SwapSet(h))
  /\ WF_claimedVars(LoopDue) /\ SF_claimedVars(ReadActive) /\ WF_claimedVars(StoreRead)

Spec == Init /\ [][Next]_claimedVars
FairSpec == Spec /\ Fairness

----------------------------------------------------------------------------
\* Once the claims change no more, lists show them as they are, for good: a
\* read of before the last change, or a claim noted after a later release,
\* does not stay (claims.go, set and refreshClaimedLoop).
ClaimsCatchUp == <>[](memory = active)
=============================================================================
