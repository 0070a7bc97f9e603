------------------------------ MODULE IssueClaims ------------------------------
(***************************************************************************)
(* Claims on issues (backend/internal/claim): one unreleased claim per      *)
(* issue, active until its days pass, or longer while its holder has an     *)
(* open pull request that closes the issue.  Claim is a transaction of      *)
(* several statements, and one person may run several at once: the          *)
(* advisory lock and the unique index are what stands between them.         *)
(*                                                                          *)
(* ClaimedList has the list of claimed issues an API process remembers.     *)
(***************************************************************************)
EXTENDS Integers, FiniteSets

CONSTANTS
  Person, Task, \* people, and the issues they claim
  Try,          \* claim requests that may run at once
  MaxActive,    \* api.claims.max_active
  Nobody        \* no holder

VARIABLES
  open,    \* the issues that are open
  claims,  \* issue_claims: the unreleased claim of each issue
  pulls,   \* who has an open pull request closing which issue, as synced
  try      \* the claim transactions under way

issueClaimsVars == <<open, claims, pulls, try>>

Unclaimed == [holder |-> Nobody, lapsed |-> FALSE]
NoTry == [step |-> "none", person |-> Nobody, issue |-> Nobody, retires |-> FALSE]

TypeOK ==
  /\ open \subseteq Task
  /\ claims \in [Task -> {Unclaimed} \cup [holder: Person, lapsed: BOOLEAN]]
  /\ pulls \subseteq Person \X Task
  /\ try \in [Try -> {NoTry} \cup [step: {"checked", "counted"}, person: Person, issue: Task, retires: BOOLEAN]]

Init ==
  /\ open = Task /\ claims = [i \in Task |-> Unclaimed] /\ pulls = {}
  /\ try = [t \in Try |-> NoTry]

----------------------------------------------------------------------------
IsClaimed(i) == claims[i] # Unclaimed
Active(i) == IsClaimed(i) /\ (~claims[i].lapsed \/ <<claims[i].holder, i>> \in pulls)
Held(p) == {i \in Task : claims[i].holder = p /\ Active(i)}

\* An expired claim retired by a transaction still running: its row is locked.
Locked(i) == \E t \in Try : try[t].issue = i /\ try[t].retires

\* The issue is open, and an expired claim on it is retired; a claim that is
\* still active ends the request.
BeginClaim(t, p, i) ==
  /\ try[t] = NoTry /\ i \in open /\ ~Active(i)
  /\ IsClaimed(i) => ~Locked(i)
  /\ try' = [try EXCEPT ![t] = [step |-> "checked", person |-> p, issue |-> i, retires |-> IsClaimed(i)]]
  /\ UNCHANGED <<open, claims, pulls>>

\* Mutant: nothing serialises one person's claims.
Mutant_HasLock(t) == TRUE

\* pg_advisory_xact_lock, held to the end of the transaction.
HasLock(t) == \A u \in Try : try[u].person = try[t].person => try[u].step # "counted"

CountHeld(t) ==
  /\ try[t].step = "checked" /\ HasLock(t)
  /\ Cardinality(Held(try[t].person)) < MaxActive
  /\ try' = [try EXCEPT ![t].step = "counted"]
  /\ UNCHANGED <<open, claims, pulls>>

\* The unique index lets one unreleased claim in.
InsertClaim(t) ==
  LET i == try[t].issue IN
  /\ try[t].step = "counted"
  /\ try[t].retires \/ ~IsClaimed(i)
  /\ claims' = [claims EXCEPT ![i] = [holder |-> try[t].person, lapsed |-> FALSE]]
  /\ try' = [try EXCEPT ![t] = NoTry]
  /\ UNCHANGED <<open, pulls>>

\* Taken in the same instant, too many, or an error: nothing is kept.
RefuseClaim(t) ==
  /\ try[t] # NoTry
  /\ try' = [try EXCEPT ![t] = NoTry]
  /\ UNCHANGED <<open, claims, pulls>>

ReleaseClaim(i) ==
  /\ IsClaimed(i) /\ ~Locked(i)
  /\ claims' = [claims EXCEPT ![i] = Unclaimed]
  /\ UNCHANGED <<open, pulls, try>>

\* api.claims.days pass.
Lapse(i) ==
  /\ IsClaimed(i) /\ ~claims[i].lapsed
  /\ claims' = [claims EXCEPT ![i].lapsed = TRUE]
  /\ UNCHANGED <<open, pulls, try>>

\* The sync stores that a pull request was opened, closed or merged.
SyncPulls(p, i) ==
  /\ pulls' = IF <<p, i>> \in pulls THEN pulls \ {<<p, i>>} ELSE pulls \cup {<<p, i>>}
  /\ UNCHANGED <<open, claims, try>>

\* Its row is locked FOR SHARE by the transactions claiming it.
CloseIssue(i) ==
  /\ \A t \in Try : try[t].issue # i
  /\ open' = IF i \in open THEN open \ {i} ELSE open \cup {i}
  /\ UNCHANGED <<claims, pulls, try>>

Next ==
  \/ \E t \in Try :
       CountHeld(t) \/ InsertClaim(t) \/ RefuseClaim(t) \/ \E p \in Person, i \in Task : BeginClaim(t, p, i)
  \/ \E i \in Task : ReleaseClaim(i) \/ Lapse(i) \/ CloseIssue(i) \/ \E p \in Person : SyncPulls(p, i)

Spec == Init /\ [][Next]_issueClaimsVars

----------------------------------------------------------------------------
(* Nobody holds more claims within their days than they may, however many     *)
(* requests run at once (claim.go: "Serialise one person's claims, so two at  *)
(* once can't both pass the cap").                                            *)
FreshClaimsCapped ==
  \A p \in Person : Cardinality({i \in Task : claims[i].holder = p /\ ~claims[i].lapsed}) <= MaxActive
=============================================================================
