------------------------------ MODULE LiveSettings ------------------------------
(***************************************************************************)
(* The settings a process runs on (backend/internal/settings) and the       *)
(* coordinator's worker limits that follow them.  The listener and the      *)
(* reconcile timer reload on goroutines of their own, unsynchronised, while *)
(* the coordinator is being wired in and settings are written.              *)
(*                                                                          *)
(* A value is the number of the change it was written by.                   *)
(***************************************************************************)
EXTENDS Integers

CONSTANT MaxChanges   \* bound on the settings written

VARIABLES
  table,     \* the settings table: the change it was last written by
  listens,   \* the listener's connection is up
  notices,   \* notifications delivered to it and not yet taken
  loader,    \* where each goroutine that reloads or applies is
  snap,      \* the snapshot Current returns
  wired,     \* the coordinator is subscribed
  limits     \* the settings the worker pools run with

liveSettingsVars == <<table, listens, notices, loader, snap, wired, limits>>

Defaults == -1   \* the registry's, while no load has succeeded
Change == 0..MaxChanges
Loader == {"listener", "reconcile", "wiring"}
Idle == [at |-> "idle", value |-> Defaults]

TypeOK ==
  /\ table \in Change /\ notices \in 0..MaxChanges /\ {listens, wired} \subseteq BOOLEAN
  /\ loader \in [Loader -> [at: {"idle", "reload", "read", "publish", "apply"}, value: Change \cup {Defaults}]]
  /\ {snap, limits} \subseteq Change \cup {Defaults}

\* The first load, which may fail, and the coordinator built on its result.
Init ==
  /\ table = 0 /\ snap \in {0, Defaults} /\ limits = snap
  /\ listens = FALSE /\ notices = 0 /\ wired = FALSE
  /\ loader = [g \in Loader |-> Idle]

----------------------------------------------------------------------------
\* A write is announced to the connections that listen when it commits.
Set ==
  /\ table < MaxChanges /\ table' = table + 1
  /\ notices' = IF listens THEN notices + 1 ELSE notices
  /\ UNCHANGED <<listens, loader, snap, wired, limits>>

Goes(g, at, value) == loader' = [loader EXCEPT ![g] = [at |-> at, value |-> value]]

\* LISTEN, then a reload that "closes the gap".
Connect ==
  /\ ~listens /\ loader["listener"] = Idle
  /\ listens' = TRUE /\ Goes("listener", "reload", Defaults)
  /\ UNCHANGED <<table, notices, snap, wired, limits>>

Disconnect ==
  /\ listens /\ listens' = FALSE /\ notices' = 0
  /\ UNCHANGED <<table, loader, snap, wired, limits>>

Notified ==
  /\ notices > 0 /\ loader["listener"] = Idle
  /\ notices' = notices - 1 /\ Goes("listener", "reload", Defaults)
  /\ UNCHANGED <<table, listens, snap, wired, limits>>

\* Mutant: the timer reloads only what the listener may have missed.
Mutant_Tick ==
  /\ ~listens /\ loader["reconcile"] = Idle
  /\ Goes("reconcile", "reload", Defaults)
  /\ UNCHANGED <<table, listens, notices, snap, wired, limits>>

\* The timer reloads unconditionally.
Tick ==
  /\ loader["reconcile"] = Idle
  /\ Goes("reconcile", "reload", Defaults)
  /\ UNCHANGED <<table, listens, notices, snap, wired, limits>>

\* reload: read the rows ...
ReadRows(g) ==
  /\ loader[g].at = "reload" /\ Goes(g, "read", table)
  /\ UNCHANGED <<table, listens, notices, snap, wired, limits>>

FailRead(g) ==
  /\ loader[g].at = "reload" /\ loader' = [loader EXCEPT ![g] = Idle]
  /\ UNCHANGED <<table, listens, notices, snap, wired, limits>>

\* ... swap the snapshot in, whatever was swapped in meanwhile ...
StoreSnapshot(g) ==
  /\ loader[g].at = "read" /\ snap' = loader[g].value /\ Goes(g, "publish", Defaults)
  /\ UNCHANGED <<table, listens, notices, wired, limits>>

\* ... and tell the subscriber, which reads the snapshot itself ...
Publish(g) ==
  /\ loader[g].at = "publish"
  /\ IF wired THEN Goes(g, "apply", snap) ELSE loader' = [loader EXCEPT ![g] = Idle]
  /\ UNCHANGED <<table, listens, notices, snap, wired, limits>>

\* ... and then sets the pools' limits.
ApplySettings(g) ==
  /\ loader[g].at = "apply" /\ limits' = loader[g].value
  /\ loader' = [loader EXCEPT ![g] = Idle]
  /\ UNCHANGED <<table, listens, notices, snap, wired>>

\* Subscribed after the listener and the timer have started, and told at once.
OnChange ==
  /\ ~wired /\ wired' = TRUE /\ Goes("wiring", "publish", Defaults)
  /\ UNCHANGED <<table, listens, notices, snap, limits>>

Moves(g) == StoreSnapshot(g) \/ Publish(g) \/ ApplySettings(g)

Next ==
  \/ Set \/ Connect \/ Disconnect \/ Notified \/ Tick \/ OnChange
  \/ \E g \in Loader : ReadRows(g) \/ FailRead(g) \/ Moves(g)

\* The timer's goroutine runs and the database answers it now and then; every
\* goroutine finishes what it has read.  Neither the connection nor the
\* listener's own reloads need ever succeed.
Fairness ==
  /\ WF_liveSettingsVars(Tick) /\ SF_liveSettingsVars(ReadRows("reconcile"))
  /\ WF_liveSettingsVars(OnChange)
  /\ \A g \in Loader : WF_liveSettingsVars(Moves(g))

Spec == Init /\ [][Next]_liveSettingsVars
FairSpec == Spec /\ Fairness

----------------------------------------------------------------------------
(* Once settings stop changing, the process and its worker pools come to run  *)
(* on the last ones and stay there, though notifications are lost, reloads    *)
(* fail, and two reloads may overtake each other and leave the older snapshot *)
(* or the older limits behind: the timer makes it "self-healing rather than   *)
(* permanent" (live.go, reconcile).                                           *)
SettingsCatchUp == <>[](snap = table /\ limits = table)
=============================================================================
