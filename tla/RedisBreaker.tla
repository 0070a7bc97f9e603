------------------------------ MODULE RedisBreaker ------------------------------
(***************************************************************************)
(* The Redis client's circuit breaker (begin and observe in                 *)
(* backend/internal/cache/redis.go): after a failed call the following ones *)
(* skip Redis, but for one probe every RetryAfter.  down and probeAt are    *)
(* atomics of their own, so each load, store and compare-and-swap is a step.*)
(*                                                                          *)
(* Time is relative: wait is how far probeAt lies ahead, 0 once it passed.  *)
(***************************************************************************)
EXTENDS Integers

CONSTANTS
  Call,        \* calls that may be under way at once
  RetryAfter   \* the pause between probes, in ticks

VARIABLES
  up,       \* Redis answers
  down,     \* the client's flag
  wait,     \* the client's probeAt
  call,     \* each call under way
  probes   \* history: calls let through while down since the clock moved on
            \* or a failure set the probe time

redisBreakerVars == <<up, down, wait, call, probes>>

\* same: probeAt has not been written since the call loaded it.
Free == [step |-> "free", same |-> FALSE, until |-> 0]

TypeOK ==
  /\ up \in BOOLEAN /\ down \in BOOLEAN /\ wait \in 0..RetryAfter /\ probes \in Nat
  /\ call \in [Call -> [step: {"free", "due", "sent", "failed", "stored"}, same: BOOLEAN, until: 0..RetryAfter]]

Init ==
  /\ up \in BOOLEAN /\ down = FALSE /\ wait = 0
  /\ call = [c \in Call |-> Free] /\ probes = 0

----------------------------------------------------------------------------
Less(n) == IF n = 0 THEN 0 ELSE n - 1

Tick ==
  /\ wait' = Less(wait)
  /\ call' = [c \in Call |-> [call[c] EXCEPT !.until = Less(@)]]
  /\ probes' = 0
  /\ UNCHANGED <<up, down>>

RedisChanges ==
  /\ up' = ~up
  /\ UNCHANGED <<down, wait, call, probes>>

\* probeAt is written: every compare-and-swap on what it was will fail.
Written(calls) == [c \in Call |-> [calls[c] EXCEPT !.same = FALSE]]

\* Mutant: a skipped call pushes the probe time back.
Mutant_Begin(c) ==
  /\ call[c] = Free
  /\ \/ ~down /\ call' = [call EXCEPT ![c].step = "sent"] /\ UNCHANGED wait
     \/ down /\ wait = 0 /\ call' = [call EXCEPT ![c] = [@ EXCEPT !.step = "due", !.same = TRUE]] /\ UNCHANGED wait
     \/ down /\ wait # 0 /\ call' = Written(call) /\ wait' = RetryAfter
  /\ UNCHANGED <<up, down, probes>>

\* begin: the flag and the probe time are loaded; a call before the probe
\* time skips Redis and is over.
Begin(c) ==
  /\ call[c] = Free
  /\ \/ ~down /\ call' = [call EXCEPT ![c].step = "sent"]
     \/ down /\ wait = 0 /\ call' = [call EXCEPT ![c] = [@ EXCEPT !.step = "due", !.same = TRUE]]
  /\ UNCHANGED <<up, down, wait, probes>>

\* A health check asks Redis even while calls are skipped, and what comes of
\* it is observed like any other call.
Ping(c) ==
  /\ call[c] = Free
  /\ call' = [call EXCEPT ![c].step = "sent"]
  /\ UNCHANGED <<up, down, wait, probes>>

\* Mutant: the probe time is stored without comparing it.
Mutant_ProbeSwap(c) ==
  /\ call[c].step = "due"
  /\ wait' = RetryAfter
  /\ call' = [Written(call) EXCEPT ![c] = [Free EXCEPT !.step = "sent"]]
  /\ probes' = probes + 1
  /\ UNCHANGED <<up, down>>

ProbeSwap(c) ==
  /\ call[c].step = "due"
  /\ IF call[c].same
     THEN /\ wait' = RetryAfter
          /\ call' = [Written(call) EXCEPT ![c] = [Free EXCEPT !.step = "sent"]]
          /\ probes' = probes + 1
     ELSE call' = [call EXCEPT ![c] = Free] /\ UNCHANGED <<wait, probes>>
  /\ UNCHANGED <<up, down>>

\* observe of a success, or of a miss.
Succeed(c) ==
  /\ call[c].step = "sent" /\ up
  /\ down' = FALSE
  /\ call' = [call EXCEPT ![c] = Free]
  /\ UNCHANGED <<up, wait, probes>>

\* The caller's own request was cancelled: it says nothing about Redis.
CancelCall(c) ==
  /\ call[c].step = "sent"
  /\ call' = [call EXCEPT ![c] = Free]
  /\ UNCHANGED <<up, down, wait, probes>>

\* observe of a failure: the probe time is worked out, stored, then the flag set.
Fail(c) ==
  /\ call[c].step = "sent" /\ ~up
  /\ call' = [call EXCEPT ![c] = [Free EXCEPT !.step = "failed", !.until = RetryAfter]]
  /\ UNCHANGED <<up, down, wait, probes>>

StoreProbeTime(c) ==
  /\ call[c].step = "failed"
  /\ wait' = call[c].until
  /\ call' = [Written(call) EXCEPT ![c] = [Free EXCEPT !.step = "stored"]]
  /\ probes' = 0
  /\ UNCHANGED <<up, down>>

RaiseFlag(c) ==
  /\ call[c].step = "stored"
  /\ down' = TRUE
  /\ call' = [call EXCEPT ![c] = Free]
  /\ UNCHANGED <<up, wait, probes>>

Next ==
  \/ Tick \/ RedisChanges
  \/ \E c \in Call : Begin(c) \/ Ping(c) \/ ProbeSwap(c) \/ Succeed(c) \/ CancelCall(c)
                     \/ Fail(c) \/ StoreProbeTime(c) \/ RaiseFlag(c)

Spec == Init /\ [][Next]_redisBreakerVars

\* Requests keep coming, each runs on, and not every one is cancelled.
Proceeds(c) == ProbeSwap(c) \/ StoreProbeTime(c) \/ RaiseFlag(c)

Fairness ==
  /\ WF_redisBreakerVars(Tick)
  /\ \A c \in Call : WF_redisBreakerVars(Proceeds(c))
  /\ SF_redisBreakerVars(\E c \in Call : Begin(c))
  /\ SF_redisBreakerVars(\E c \in Call : Succeed(c))

FairSpec == Spec /\ Fairness

----------------------------------------------------------------------------
(* While Redis is down one call is let through each time a probe is due,      *)
(* however many load the same probe time at once. A health check is always    *)
(* let through and is no probe; one that fails counts as any failure does     *)
(* (redis.go, begin, observe and Ping).                                       *)
OneProbeAtATime == probes <= 1

(* The client comes back by itself: once Redis stays up, the breaker opens    *)
(* again and again, whatever failures were still on their way, and however    *)
(* many probes were cancelled (redis.go: "it is not yet time for a probe").   *)
OutageEnds == <>[]up => []<>~down
=============================================================================
