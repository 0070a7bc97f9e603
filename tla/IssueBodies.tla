------------------------------ MODULE IssueBodies ------------------------------
(***************************************************************************)
(* The issue body fallback for a caller that cannot read GitHub itself: the *)
(* API serves a cached body to anyone (getIssueBody in cmd/api/             *)
(* handlers_issues.go), counts a miss against the caller's hour in Redis    *)
(* (CheckRateLimit in cache/redis.go) and asks the ingester for it          *)
(* (FetchIssueBody in ingest/bodies.go), which stores what GitHub answers   *)
(* and trims the cache back, least recently read first.                     *)
(*                                                                          *)
(* One caller is modelled, with several requests at once.  What a body says *)
(* is left out; its size matters to the trimming.                           *)
(***************************************************************************)
EXTENDS Integers, FiniteSets

CONSTANTS
  Text,        \* catalog issues whose bodies are asked for
  SizeOf,      \* the size of each one's body
  MaxBytes,    \* ingest.bodies.cache_max_mb
  Request,     \* requests of the caller that may run at once
  MissLimit,   \* api.bodies.fallback_misses_per_hour
  MaxCount     \* bound on the requests counted in one window

VARIABLES
  bodies,    \* the place of each issue's row of issue_bodies in the order of
             \* last_read_at, 1 for the most recently read, 0 for no row
  saved,     \* the issues somebody saved
  request,   \* each request, while it is under way
  redis,     \* the caller's key: its count, and whether it expires
  spent,     \* history: the window's misses passed on to the ingester
  refused    \* the caller was last told to come back when the window ends

issueBodiesVars == <<bodies, saved, request, redis, spent, refused>>

Done == [step |-> "done", issue |-> CHOOSE i \in Text : TRUE]
NoKey == [count |-> 0, expires |-> FALSE]

TypeOK ==
  /\ bodies \in [Text -> 0..Cardinality(Text)]
  /\ saved \subseteq Text
  /\ request \in [Request -> [step: {"done", "missed", "asked", "fetched"}, issue: Text]]
  /\ redis \in [count: 0..MaxCount, expires: BOOLEAN]
  /\ spent \in 0..MaxCount /\ refused \in BOOLEAN

Init ==
  /\ bodies = [i \in Text |-> 0] /\ saved = {}
  /\ request = [r \in Request |-> Done]
  /\ redis = NoKey /\ spent = 0 /\ refused = FALSE

----------------------------------------------------------------------------
Cached == {i \in Text : bodies[i] > 0}

\* The places of S, in the order of last_read_at that read gives.
Placed(S, read) ==
  [i \in Text |-> IF i \in S THEN Cardinality({j \in S : read[j] <= read[i]}) ELSE 0]
ReadNow(i) == Placed(Cached \cup {i}, [bodies EXCEPT ![i] = 0])

Goes(r, step) == request' = [request EXCEPT ![r].step = step]

\* A cached body is served, and marked read; a miss goes on to be counted.
GetIssueBody(r, i) ==
  /\ request[r] = Done
  /\ IF i \in Cached
     THEN bodies' = ReadNow(i) /\ UNCHANGED request
     ELSE request' = [request EXCEPT ![r] = [step |-> "missed", issue |-> i]] /\ UNCHANGED bodies
  /\ UNCHANGED <<saved, redis, spent, refused>>

\* Mutant: the expiry is started by the first request alone.
Mutant_Expiring(counted) == redis.expires \/ counted = 1

\* EXPIRE NX: started by whichever request finds none.
Expiring(counted) == TRUE

\* The pipeline was run and answered.
CountMiss(r) ==
  LET counted == redis.count + 1 IN
  /\ request[r].step = "missed" /\ counted <= MaxCount
  /\ redis' = [count |-> counted, expires |-> Expiring(counted)]
  /\ IF counted <= MissLimit
     THEN Goes(r, "asked") /\ spent' = spent + 1
     ELSE request' = [request EXCEPT ![r] = Done] /\ UNCHANGED spent
  /\ refused' = (counted > MissLimit)
  /\ UNCHANGED <<bodies, saved>>

\* Mutant: a miss Redis could not count is let through, as requests are.
Mutant_MissUncounted(r) ==
  /\ request[r].step = "missed"
  /\ Goes(r, "asked") /\ spent < MaxCount /\ spent' = spent + 1
  /\ UNCHANGED <<bodies, saved, redis, refused>>

\* Redis was skipped or failed, perhaps after counting, perhaps before the
\* expiry was set: the miss is refused outright.
MissUncounted(r) ==
  /\ request[r].step = "missed"
  /\ \/ UNCHANGED redis
     \/ /\ redis.count < MaxCount
        /\ \E e \in {redis.expires, TRUE} : redis' = [count |-> redis.count + 1, expires |-> e]
  /\ request' = [request EXCEPT ![r] = Done] /\ refused' = FALSE
  /\ UNCHANGED <<bodies, saved, spent>>

\* The key expires with its window.
WindowEnds ==
  /\ redis.expires
  /\ redis' = NoKey /\ spent' = 0 /\ refused' = FALSE
  /\ UNCHANGED <<bodies, saved, request>>

----------------------------------------------------------------------------
\* GitHub answered the ingester.
FetchIssueBody(r) ==
  /\ request[r].step = "asked" /\ Goes(r, "fetched")
  /\ UNCHANGED <<bodies, saved, redis, spent, refused>>

\* Not in the catalog, no credential, no budget, gone from GitHub, or an error.
NotFetched(r) ==
  /\ request[r].step \in {"asked", "fetched"}
  /\ request' = [request EXCEPT ![r] = Done]
  /\ UNCHANGED <<bodies, saved, redis, spent, refused>>

StoreBody(r) ==
  /\ request[r].step = "fetched"
  /\ bodies' = ReadNow(request[r].issue)
  /\ request' = [request EXCEPT ![r] = Done]
  /\ UNCHANGED <<saved, redis, spent, refused>>

Save(i) ==
  /\ saved' = IF i \in saved THEN saved \ {i} ELSE saved \cup {i}
  /\ UNCHANGED <<bodies, request, redis, spent, refused>>

\* The sizes of S together.
Bytes(S) == Cardinality(UNION {{i} \X (1..SizeOf[i]) : i \in S})
Unsaved == Cached \ saved

\* Mutant: a body goes when it does not fit beside the saved ones by itself.
Mutant_Pruned == {i \in Unsaved : SizeOf[i] + Bytes(Cached \cap saved) > MaxBytes}

\* The least recently read beyond what fits beside the saved ones.
Pruned ==
  {i \in Unsaved :
     Bytes({j \in Unsaved : bodies[j] <= bodies[i]}) + Bytes(Cached \cap saved) > MaxBytes}

PruneIssueBodies ==
  /\ Pruned # {}
  /\ bodies' = Placed(Cached \ Pruned, bodies)
  /\ UNCHANGED <<saved, request, redis, spent, refused>>

Next ==
  \/ \E r \in Request :
       \/ CountMiss(r) \/ MissUncounted(r) \/ FetchIssueBody(r) \/ NotFetched(r) \/ StoreBody(r)
       \/ \E i \in Text : GetIssueBody(r, i)
  \/ \E i \in Text : Save(i)
  \/ WindowEnds \/ PruneIssueBodies

Spec == Init /\ [][Next]_issueBodiesVars

----------------------------------------------------------------------------
(* However many requests run at once and however Redis fails, a caller        *)
(* spends no more of the server's GitHub budget than the window's misses, and *)
(* a caller told to come back can: the count it was refused on expires        *)
(* (handlers_issues.go: "An uncounted miss would be an uncapped one";         *)
(* redis.go: "NX also repairs a key left without an expiry").                 *)
MissesCapped == spent <= MissLimit /\ (refused => redis.expires)

(* Trimming leaves no more than the limit beside the saved bodies, never      *)
(* deletes a saved one, and never one read after another it keeps (bodies.go, *)
(* PruneIssueBodies: "the least recently read first").                        *)
OldestReadTrimmed ==
  LET gone == Cached \ Cached' IN
  gone # {} =>
    /\ gone \cap saved = {}
    /\ Cached' \subseteq saved \/ Bytes(Cached') <= MaxBytes
    /\ \A i \in gone, j \in Cached \ (gone \cup saved) : bodies[j] < bodies[i]
===============================================================================
