----------------------------- MODULE FlowRelay -----------------------------
(***************************************************************************)
(* The telemetry behind the live visualiser: a process's publisher          *)
(* (backend/internal/flow/publisher.go) buffers events and publishes what   *)
(* queued up in one batch through Redis; flowd's relay                      *)
(* (backend/internal/flowd/relay.go) counts every event and passes on as    *)
(* many as its rate allows to the viewers, each behind a buffer of its own. *)
(* Nobody ever waits: what does not fit is dropped.  When a process stops,   *)
(* Run's context ends, its goroutine with it, and a publish under way is cut *)
(* off; what is emitted until the process is gone stays in the buffer.       *)
(*                                                                          *)
(* Events and lines are only counted; what they say, the link they          *)
(* travelled, invalid ones and the ambient rates are left out.              *)
(***************************************************************************)
EXTENDS Naturals, Sequences, FiniteSets

CONSTANTS
  Emitter,     \* goroutines that may be in Emit at once
  MaxEvents,   \* bound on the events ever emitted
  BufferSize,  \* flow.buffer_size, of a publisher and of a viewer
  MaxCopies,   \* bound on how often the Redis client repeats one PUBLISH
  Rate,        \* flow.max_events_per_second
  Viewer,      \* people who may open the stream
  MaxViewers   \* flow.max_viewers

VARIABLES
  emitted,    \* events so far
  waking,     \* emitters that queued an event and have yet to wake Run
  buf, wake,  \* events in the publisher's buffer, and its wake channel
  stopping,   \* Run's context is done
  run,        \* Run: it waits, was woken, publishes, or has returned
  batch,      \* events in what Flush took
  tally,      \* the counters of events published and events dropped; history:
              \* the events of publishes cut off, which are counted as neither
  wire,       \* batches on their way to the relay, or inside it
  ingesting,  \* the relay is inside the first of them
  counted,    \* the relay's count since its last density lines
  tokens,     \* its token bucket
  lines       \* how many lines wait in each viewer's channel, while it is open

publisherVars == <<emitted, waking, buf, wake, stopping, run, batch, tally>>
relayVars == <<wire, ingesting, counted, tokens, lines>>
flowVars == <<publisherVars, relayVars>>

TypeOK ==
  /\ emitted \in 0..MaxEvents /\ waking \subseteq Emitter
  /\ buf \in 0..BufferSize /\ batch \in 0..BufferSize
  /\ wake \in BOOLEAN /\ stopping \in BOOLEAN
  /\ run \in {"waits", "woken", "publishes", "stopped"}
  /\ tally \in [{"published", "dropped", "cut"} -> 0..MaxEvents]
  /\ wire \in Seq(1..BufferSize) /\ ingesting \in BOOLEAN
  /\ counted \in 0..(MaxCopies * MaxEvents) /\ tokens \in 0..Rate
  /\ DOMAIN lines \subseteq Viewer /\ Cardinality(DOMAIN lines) <= MaxViewers
  /\ \A v \in DOMAIN lines : lines[v] \in 0..BufferSize

Init ==
  /\ emitted = 0 /\ waking = {} /\ buf = 0 /\ wake = FALSE /\ stopping = FALSE
  /\ run = "waits" /\ batch = 0 /\ tally = [published |-> 0, dropped |-> 0, cut |-> 0]
  /\ wire = <<>> /\ ingesting = FALSE /\ counted = 0 /\ tokens = Rate /\ lines = <<>>

----------------------------------------------------------------------------
(* The publisher. *)

\* enqueue: under the mutex the event is appended, or dropped and counted.
Enqueue(e) ==
  /\ e \notin waking /\ emitted < MaxEvents
  /\ emitted' = emitted + 1
  /\ IF buf >= BufferSize
     THEN tally' = [tally EXCEPT !.dropped = @ + 1] /\ UNCHANGED <<buf, waking>>
     ELSE buf' = buf + 1 /\ waking' = waking \cup {e} /\ UNCHANGED tally
  /\ UNCHANGED <<wake, stopping, run, batch, relayVars>>

\* Its send on wake, which has room for one and never blocks.
Wake(e) ==
  /\ e \in waking /\ waking' = waking \ {e} /\ wake' = TRUE
  /\ UNCHANGED <<emitted, buf, stopping, run, batch, tally, relayVars>>

RunWakes ==
  /\ run = "waits" /\ wake
  /\ run' = "woken" /\ wake' = FALSE
  /\ UNCHANGED <<emitted, waking, buf, stopping, batch, tally, relayVars>>

\* The process is told to stop ...
EndContext ==
  /\ ~stopping /\ stopping' = TRUE
  /\ UNCHANGED <<emitted, waking, buf, wake, run, batch, tally, relayVars>>

\* ... and Run returns, unless its select takes a wake-up first.
Exit ==
  /\ run = "waits" /\ stopping /\ run' = "stopped"
  /\ UNCHANGED <<emitted, waking, buf, wake, stopping, batch, tally, relayVars>>

\* Mutant: one event is taken for one wake-up.
Mutant_TakeBuffer ==
  /\ run = "woken"
  /\ batch' = (IF buf = 0 THEN 0 ELSE 1) /\ buf' = buf - batch'
  /\ run' = IF buf = 0 THEN "waits" ELSE "publishes"
  /\ UNCHANGED <<emitted, waking, wake, stopping, tally, relayVars>>

\* Flush takes everything queued.
TakeBuffer ==
  /\ run = "woken"
  /\ batch' = buf /\ buf' = 0
  /\ run' = IF buf = 0 THEN "waits" ELSE "publishes"
  /\ UNCHANGED <<emitted, waking, wake, stopping, tally, relayVars>>

Sent(copies) == wire \o [c \in 1..copies |-> batch]

\* Redis answers with the number of subscribers, or there is an error after
\* any number of attempts, which Redis may have passed on all the same.  An
\* error once the context is done is not counted.
Publish ==
  /\ run = "publishes"
  /\ \E copies \in 0..MaxCopies :
       /\ wire' = Sent(copies)
       /\ \/ copies > 0 /\ tally' = [tally EXCEPT !.published = @ + batch]
          \/ tally' = [tally EXCEPT !.dropped = @ + batch]
          \/ stopping /\ tally' = [tally EXCEPT !.cut = @ + batch]
  /\ run' = "waits" /\ batch' = 0
  /\ UNCHANGED <<emitted, waking, buf, wake, stopping, ingesting, counted, tokens, lines>>

\* flowd's subscription drops: batches on their way to it are lost.
LoseSubscription ==
  /\ wire' = (IF ingesting THEN <<Head(wire)>> ELSE <<>>) /\ wire' # wire
  /\ UNCHANGED <<publisherVars, ingesting, counted, tokens, lines>>

----------------------------------------------------------------------------
(* The relay. *)

\* broadcastLocked: every viewer with room gets the line.
Broadcast ==
  lines' = [v \in DOMAIN lines |-> IF lines[v] < BufferSize THEN lines[v] + 1 ELSE lines[v]]

\* One event of the batch is through.
Advance ==
  /\ ingesting' = (Head(wire) > 1)
  /\ wire' = IF ingesting' THEN [wire EXCEPT ![1] = @ - 1] ELSE Tail(wire)

\* Mutant: a viewer whose buffer is full is waited for.
Mutant_Ingest ==
  /\ wire # <<>> /\ counted' = counted + 1
  /\ IF tokens > 0
     THEN tokens' = tokens - 1 /\ (\A v \in DOMAIN lines : lines[v] < BufferSize) /\ Broadcast
     ELSE UNCHANGED <<tokens, lines>>
  /\ Advance /\ UNCHANGED publisherVars

\* Ingest, an event at a time: its lock keeps all but the viewers' reading out
\* until the batch is through.
Ingest ==
  /\ wire # <<>> /\ counted' = counted + 1
  /\ IF tokens > 0 THEN tokens' = tokens - 1 /\ Broadcast ELSE UNCHANGED <<tokens, lines>>
  /\ Advance /\ UNCHANGED publisherVars

\* Part of a second passes: at least a token's worth, at most a full bucket.
Refill ==
  /\ tokens < Rate /\ tokens' \in (tokens + 1)..Rate
  /\ UNCHANGED <<publisherVars, wire, ingesting, counted, lines>>

\* One line stands for all of a flush: the links', the total and the viewers.
FlushDensity ==
  /\ ~ingesting /\ Broadcast /\ counted' = 0
  /\ UNCHANGED <<publisherVars, wire, ingesting, tokens>>

Join(v) ==
  /\ ~ingesting /\ v \notin DOMAIN lines /\ Cardinality(DOMAIN lines) < MaxViewers
  /\ lines' = [u \in DOMAIN lines \cup {v} |-> IF u = v THEN 0 ELSE lines[u]]
  /\ UNCHANGED <<publisherVars, wire, ingesting, counted, tokens>>

Leave(v) ==
  /\ ~ingesting /\ v \in DOMAIN lines
  /\ lines' = [u \in DOMAIN lines \ {v} |-> lines[u]]
  /\ UNCHANGED <<publisherVars, wire, ingesting, counted, tokens>>

\* serve writes a line to its viewer.
Serve(v) ==
  /\ v \in DOMAIN lines /\ lines[v] > 0
  /\ lines' = [lines EXCEPT ![v] = @ - 1]
  /\ UNCHANGED <<publisherVars, wire, ingesting, counted, tokens>>

Next ==
  \/ \E e \in Emitter : Enqueue(e) \/ Wake(e)
  \/ RunWakes \/ EndContext \/ Exit \/ TakeBuffer \/ Publish \/ LoseSubscription
  \/ Ingest \/ Refill \/ FlushDensity
  \/ \E v \in Viewer : Join(v) \/ Leave(v) \/ Serve(v)

\* Goroutines go on and publishing has a timeout; viewers may never read.
Fairness ==
  /\ \A e \in Emitter : WF_flowVars(Wake(e))
  /\ WF_flowVars(RunWakes) /\ WF_flowVars(TakeBuffer) /\ WF_flowVars(Publish)
  /\ WF_flowVars(Ingest)

Spec == Init /\ [][Next]_flowVars
FairSpec == Spec /\ Fairness

----------------------------------------------------------------------------
\* Every event is counted once, as published or as dropped, when it leaves,
\* but for those of a publish that the end of its process cut off
\* (publisher.go, enqueue and Flush).
EventsAddUp ==
  /\ emitted = tally.published + tally.dropped + tally.cut + buf + batch
  /\ tally.cut > 0 => stopping

(* No wake-up is lost between a full wake channel and a flush under way, and   *)
(* no viewer who stopped reading holds the relay up: once nothing more is      *)
(* emitted, the buffer, the flush and the relay run empty, and only a Run that *)
(* returned leaves events in the buffer (publisher.go, enqueue and Run;        *)
(* relay.go, broadcastLocked).                                                 *)
EventsLeave == <>[](batch = 0 /\ wire = <<>> /\ (buf # 0 => run = "stopped"))
=============================================================================
