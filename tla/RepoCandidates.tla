--------------------------- MODULE RepoCandidates ---------------------------
(***************************************************************************)
(* Repositories the archive shows issue activity on that are not stored     *)
(* (repo_candidates; backend/internal/ingest/archive.go): queued when an    *)
(* hour is applied, looked up on GitHub in batches (github/lookup.go),      *)
(* stored if they qualify, and pruned once looked up and quiet.             *)
(*                                                                          *)
(* Hours are HourLen instants long and are applied in any order.  A lookup  *)
(* reads GitHub at one instant and stores its answers later, one            *)
(* repository per transaction.                                              *)
(***************************************************************************)
EXTENDS Naturals, FiniteSets

CONSTANTS
  Candidate,  \* repositories that are not stored at first
  MaxTime,    \* bound on the clock
  HourLen,    \* instants per archive hour
  Recheck     \* ingest.archive.candidate_recheck_days, in instants

VARIABLES
  time,       \* the clock
  qualified,  \* when each repository came to pass Eligible, or 0
  active,     \* when each repository had issue activity
  applied,    \* the archive hours applied
  candidates, \* repo_candidates, a row or NoRow for each repository
  stored,     \* repositories with a row in repositories
  lookup,     \* the batch being looked up: the rows due and the ones found
  answered    \* history: when each repository's last lookup was stored

repoCandidatesVars == <<time, qualified, active, applied, candidates, stored, lookup, answered>>

Instant == 1..MaxTime
HourOf(t) == t \div HourLen
StartOf(h) == h * HourLen

\* A row: the newest hour that named it, and when it was looked up, 0 for never.
NoRow == [last |-> 0, checked |-> 0, present |-> FALSE]
Idle == [due |-> {}, found |-> {}]

TypeOK ==
  /\ time \in Instant /\ qualified \in [Candidate -> 0..MaxTime]
  /\ active \in [Candidate -> SUBSET Instant] /\ applied \subseteq 0..HourOf(MaxTime)
  /\ candidates \in [Candidate -> [last: 0..MaxTime, checked: 0..MaxTime, present: BOOLEAN]]
  /\ \A r \in Candidate : candidates[r].present \/ candidates[r] = NoRow
  /\ stored \subseteq Candidate
  /\ answered \in [Candidate -> 0..MaxTime]
  /\ lookup.due \subseteq Candidate /\ lookup.found \subseteq lookup.due

Init ==
  /\ time = 1 /\ qualified = [r \in Candidate |-> 0] /\ active = [r \in Candidate |-> {}]
  /\ applied = {} /\ candidates = [r \in Candidate |-> NoRow] /\ stored = {} /\ lookup = Idle
  /\ answered = [r \in Candidate |-> 0]

----------------------------------------------------------------------------
\* GitHub: time passes, a repository comes to qualify or has activity.
Tick ==
  /\ time < MaxTime
  /\ time' = time + 1
  /\ UNCHANGED <<qualified, active, applied, candidates, stored, lookup, answered>>

Qualify(r) ==
  /\ qualified[r] = 0
  /\ qualified' = [qualified EXCEPT ![r] = time]
  /\ UNCHANGED <<time, active, applied, candidates, stored, lookup, answered>>

Act(r) ==
  /\ time \notin active[r]
  /\ active' = [active EXCEPT ![r] = @ \cup {time}]
  /\ UNCHANGED <<time, qualified, applied, candidates, stored, lookup, answered>>

----------------------------------------------------------------------------
Later(a, b) == IF a > b THEN a ELSE b

\* Mutant: the hour applied last is taken for the newest.
Mutant_NamedLast(row, h) == [row EXCEPT !.present = TRUE, !.last = StartOf(h)]

\* upsertRepoCandidates: named by hour h.
Named(row, h) == [row EXCEPT !.present = TRUE, !.last = Later(@, StartOf(h))]

\* applyArchiveIssues, the repositories of the hour that are not stored.
ApplyHour(h) ==
  /\ h \notin applied /\ HourOf(time) > h
  /\ applied' = applied \cup {h}
  /\ candidates' = [r \in Candidate |->
       IF r \notin stored /\ \E t \in active[r] : HourOf(t) = h
         THEN Named(candidates[r], h) ELSE candidates[r]]
  /\ UNCHANGED <<time, qualified, active, stored, lookup, answered>>

Rechecked(r) == candidates[r].checked # 0 /\ candidates[r].checked + Recheck < time

DueRepoCandidates ==
  {r \in Candidate \ stored :
     /\ candidates[r].present
     /\ \/ candidates[r].checked = 0
        \/ Rechecked(r) /\ candidates[r].last > candidates[r].checked}

\* Mutant: the last check is not compared with the last activity.
Mutant_Prune ==
  /\ \E r \in Candidate : Rechecked(r)
  /\ candidates' = [r \in Candidate |-> IF Rechecked(r) THEN NoRow ELSE candidates[r]]
  /\ UNCHANGED <<time, qualified, active, applied, stored, lookup, answered>>

PruneRepoCandidates ==
  LET quiet == {r \in Candidate : Rechecked(r) /\ candidates[r].last <= candidates[r].checked} IN
  /\ quiet # {}
  /\ candidates' = [r \in Candidate |-> IF r \in quiet THEN NoRow ELSE candidates[r]]
  /\ UNCHANGED <<time, qualified, active, applied, stored, lookup, answered>>

\* LookupRepositories answers for the whole batch; renamed, deleted and
\* unqualified repositories are all "not found" here.
LookUp ==
  /\ lookup = Idle
  /\ \E due \in SUBSET DueRepoCandidates \ {{}} :
       lookup' = [due |-> due, found |-> {r \in due : qualified[r] # 0}]
  /\ UNCHANGED <<time, qualified, active, applied, candidates, stored, answered>>

\* The transaction of one candidate.  Its row may have been pruned meanwhile.
StoreCandidate(r) ==
  /\ r \in lookup.due
  /\ stored' = IF r \in lookup.found THEN stored \cup {r} ELSE stored
  /\ candidates' = IF candidates[r].present
                     THEN [candidates EXCEPT ![r].checked = time] ELSE candidates
  /\ lookup' = [due |-> lookup.due \ {r}, found |-> lookup.found \ {r}]
  /\ answered' = [answered EXCEPT ![r] = time]
  /\ UNCHANGED <<time, qualified, active, applied>>

\* A transaction failed, or the process ended: the rest is looked up again.
AbandonLookup ==
  /\ lookup # Idle
  /\ lookup' = Idle
  /\ UNCHANGED <<time, qualified, active, applied, candidates, stored, answered>>

Next ==
  \/ Tick \/ PruneRepoCandidates \/ LookUp \/ AbandonLookup
  \/ \E r \in Candidate : Qualify(r) \/ Act(r) \/ StoreCandidate(r)
  \/ \E h \in 0..HourOf(MaxTime) : ApplyHour(h)

Spec == Init /\ [][Next]_repoCandidatesVars

----------------------------------------------------------------------------
\* Whether a repository will be looked up again once Recheck has passed.
ComesDue(r) ==
  /\ candidates[r].present
  /\ candidates[r].checked = 0 \/ candidates[r].last > candidates[r].checked

(* A repository that qualifies and was active in an applied hour that began   *)
(* after its last lookup is stored or comes due, in whatever order the hours   *)
(* were applied, rows pruned and lookups cut short (archive.go,                *)
(* DueRepoCandidates: "looked up more than recheck ago and active since").     *)
ActiveCandidateComesDue ==
  \A r \in Candidate \ stored : \A t \in active[r] :
    (HourOf(t) \in applied /\ StartOf(HourOf(t)) > answered[r]
     /\ qualified[r] # 0 /\ qualified[r] <= StartOf(HourOf(t))) => ComesDue(r)
=============================================================================
