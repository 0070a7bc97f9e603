------------------------------- MODULE Moderation -------------------------------
(***************************************************************************)
(* Reports, their review and the list of hidden targets each API process    *)
(* keeps in memory (backend/internal/report, cmd/api/hidden.go), and the    *)
(* themes members publish and wear (backend/internal/theme), which a review *)
(* may take down.  The hidden targets are re-read by a timer's loop and by  *)
(* the handler of a decision, side by side.                                 *)
(*                                                                          *)
(* Reasons, notes and what a theme looks like are left out.  A report's     *)
(* target is looked up first; then an advisory lock serialises a member's   *)
(* reports, so recording one is a step.  A member reports one target at a   *)
(* time here.                                                               *)
(***************************************************************************)
EXTENDS Integers, FiniteSets

CONSTANTS
  Member,      \* people who report and wear themes
  Author,      \* the member the themes belong to
  Theme,       \* themes that may ever be stored
  Listing,     \* issues and repositories
  PerDay,      \* api.reports.per_user_per_day
  HideAfter,   \* api.reports.hide_after
  MaxPerUser,  \* api.themes.max_per_user
  MaxReports,  \* bound on the reports ever made
  Nothing      \* no theme, and no target

VARIABLES
  open,       \* the open reports: who, and of what
  upheld,     \* targets with an upheld report
  today,      \* each member's reports of the last 24 hours
  filed,      \* the reports ever made
  reporting,  \* the target each member's report has found and not yet recorded
  theme,      \* each theme: "unborn", "private", "public" or "deleted"
  worn,       \* users.active_theme_id
  dressing,   \* the theme each member's SetActive has found and not yet set
  refresher,  \* the loop's and the moderator's re-read of the hidden targets
  hidden      \* hiddenStore: the targets lists leave out

moderationVars == <<open, upheld, today, filed, reporting, theme, worn, dressing, refresher, hidden>>

Target == Theme \cup Listing
Refresher == {"loop", "moderator"}
Resting == [at |-> "rest", read |-> {}]

TypeOK ==
  /\ open \subseteq Member \X Target /\ upheld \subseteq Target
  /\ today \in [Member -> 0..PerDay] /\ filed \in 0..MaxReports
  /\ reporting \in [Member -> Target \cup {Nothing}]
  /\ theme \in [Theme -> {"unborn", "private", "public", "deleted"}]
  /\ worn \in [Member -> Theme \cup {Nothing}] /\ dressing \in [Member -> Theme \cup {Nothing}]
  /\ refresher \in [Refresher -> [at: {"rest", "due", "read"}, read: SUBSET Target]]
  /\ hidden \subseteq Target

Init ==
  /\ open = {} /\ upheld = {} /\ today = [m \in Member |-> 0] /\ filed = 0
  /\ reporting = [m \in Member |-> Nothing]
  /\ theme = [t \in Theme |-> "unborn"]
  /\ worn = [m \in Member |-> Nothing] /\ dressing = [m \in Member |-> Nothing]
  /\ refresher = [r \in Refresher |-> Resting] /\ hidden = {}

themeVars == <<theme, worn, dressing>>
reportVars == <<open, upheld, today, filed, reporting>>

----------------------------------------------------------------------------
(* Reports. *)

\* Create first finds the target: a stored listing, or a theme that is public
\* at that moment.
FindTarget(m, t) ==
  /\ reporting[m] = Nothing /\ filed < MaxReports
  /\ t \in Theme => theme[t] = "public"
  /\ reporting' = [reporting EXCEPT ![m] = t]
  /\ UNCHANGED <<open, upheld, today, filed, themeVars, refresher, hidden>>

\* Its transaction: within the day's limit, and with no open report of theirs.
Create(m) ==
  /\ reporting[m] # Nothing
  /\ today[m] < PerDay /\ <<m, reporting[m]>> \notin open /\ filed < MaxReports
  /\ open' = open \cup {<<m, reporting[m]>>} /\ filed' = filed + 1
  /\ today' = [today EXCEPT ![m] = @ + 1]
  /\ reporting' = [reporting EXCEPT ![m] = Nothing]
  /\ UNCHANGED <<upheld, themeVars, refresher, hidden>>

\* Too many, a duplicate, or the transaction failed.
RefuseReport(m) ==
  /\ reporting[m] # Nothing /\ reporting' = [reporting EXCEPT ![m] = Nothing]
  /\ UNCHANGED <<open, upheld, today, filed, themeVars, refresher, hidden>>

DayPasses(m) ==
  /\ today[m] > 0 /\ today' = [today EXCEPT ![m] = @ - 1]
  /\ UNCHANGED <<open, upheld, filed, reporting, themeVars, refresher, hidden>>

Reporters(t) == {m \in Member : <<m, t>> \in open}

\* The targets an upheld report, or open reports of enough people, hide.
Hidden == {t \in Target : t \in upheld \/ Cardinality(Reporters(t)) >= HideAfter}

Withdrawn(t) == [m \in Member |-> IF worn[m] = t /\ m # Author THEN Nothing ELSE worn[m]]

\* The moderator's decision: an upheld theme is made private and taken off
\* every other account, a dismissal undoes an older uphold as well; and the
\* hidden targets are due to be read again.
Resolve(t, uphold) ==
  /\ Reporters(t) # {} /\ refresher["moderator"] = Resting
  /\ open' = open \ (Member \X {t})
  /\ upheld' = IF uphold THEN upheld \cup {t} ELSE upheld \ {t}
  /\ IF uphold /\ t \in Theme
     THEN /\ theme' = [theme EXCEPT ![t] = IF @ = "public" THEN "private" ELSE @]
          /\ worn' = Withdrawn(t)
     ELSE UNCHANGED <<theme, worn>>
  /\ refresher' = [refresher EXCEPT !["moderator"].at = "due"]
  /\ UNCHANGED <<today, filed, reporting, dressing, hidden>>

LoopDue ==
  /\ refresher["loop"] = Resting
  /\ refresher' = [refresher EXCEPT !["loop"].at = "due"]
  /\ UNCHANGED <<reportVars, themeVars, hidden>>

ReadHidden(r) ==
  /\ refresher[r].at = "due"
  /\ refresher' = [refresher EXCEPT ![r] = [at |-> "read", read |-> Hidden]]
  /\ UNCHANGED <<reportVars, themeVars, hidden>>

\* "The last good one stands."
FailRefresh(r) ==
  /\ refresher[r].at = "due"
  /\ refresher' = [refresher EXCEPT ![r] = Resting]
  /\ UNCHANGED <<reportVars, themeVars, hidden>>

\* Mutant: what was read is added to what is hidden.
Mutant_StoreHidden(r) ==
  /\ refresher[r].at = "read" /\ hidden' = hidden \cup refresher[r].read
  /\ refresher' = [refresher EXCEPT ![r] = Resting]
  /\ UNCHANGED <<reportVars, themeVars>>

\* What was read is stored, whatever was decided or stored meanwhile.
StoreHidden(r) ==
  /\ refresher[r].at = "read" /\ hidden' = refresher[r].read
  /\ refresher' = [refresher EXCEPT ![r] = Resting]
  /\ UNCHANGED <<reportVars, themeVars>>

----------------------------------------------------------------------------
(* Themes. *)

Stored == {t \in Theme : theme[t] \in {"private", "public"}}

\* Under a lock of the author's row, so the count is good.
CreateTheme(t, as) ==
  /\ theme[t] = "unborn" /\ Cardinality(Stored) < MaxPerUser
  /\ theme' = [theme EXCEPT ![t] = as]
  /\ UNCHANGED <<reportVars, worn, dressing, refresher, hidden>>

\* The author's Update: making it private takes it off every other account.
UpdateTheme(t, as) ==
  /\ t \in Stored /\ theme' = [theme EXCEPT ![t] = as]
  /\ worn' = IF as = "private" THEN Withdrawn(t) ELSE worn
  /\ UNCHANGED <<reportVars, dressing, refresher, hidden>>

DeleteTheme(t) ==
  /\ t \in Stored /\ theme' = [theme EXCEPT ![t] = "deleted"]
  /\ worn' = [m \in Member |-> IF worn[m] = t THEN Nothing ELSE worn[m]]
  /\ UNCHANGED <<reportVars, dressing, refresher, hidden>>

\* SetActive is one statement: it finds the theme as its snapshot shows it ...
FindTheme(m, t) ==
  /\ dressing[m] = Nothing
  /\ theme[t] = "public" \/ (theme[t] = "private" /\ m = Author)
  /\ dressing' = [dressing EXCEPT ![m] = t]
  /\ UNCHANGED <<reportVars, theme, worn, refresher, hidden>>

\* ... and sets it, if it still exists (the foreign key).
SetActive(m) ==
  /\ dressing[m] # Nothing /\ dressing' = [dressing EXCEPT ![m] = Nothing]
  /\ worn' = IF theme[dressing[m]] = "deleted" THEN worn ELSE [worn EXCEPT ![m] = dressing[m]]
  /\ UNCHANGED <<reportVars, theme, refresher, hidden>>

\* The default, or a preset.
ClearActive(m) ==
  /\ worn[m] # Nothing /\ worn' = [worn EXCEPT ![m] = Nothing]
  /\ UNCHANGED <<reportVars, theme, dressing, refresher, hidden>>

Next ==
  \/ \E m \in Member : Create(m) \/ RefuseReport(m) \/ DayPasses(m) \/ SetActive(m) \/ ClearActive(m)
                       \/ (\E t \in Target : FindTarget(m, t)) \/ (\E t \in Theme : FindTheme(m, t))
  \/ \E t \in Target, uphold \in BOOLEAN : Resolve(t, uphold)
  \/ LoopDue \/ \E r \in Refresher : ReadHidden(r) \/ FailRefresh(r) \/ StoreHidden(r)
  \/ \E t \in Theme : DeleteTheme(t) \/ \E as \in {"private", "public"} : CreateTheme(t, as) \/ UpdateTheme(t, as)

\* The loop goes on, and its reads succeed now and then; what was read is stored.
Fairness ==
  /\ WF_moderationVars(LoopDue) /\ SF_moderationVars(ReadHidden("loop"))
  /\ \A r \in Refresher : WF_moderationVars(StoreHidden(r))

Spec == Init /\ [][Next]_moderationVars
FairSpec == Spec /\ Fairness

----------------------------------------------------------------------------
(* Once reports and decisions stop, lists come to leave out exactly what they *)
(* hide: a read of the loop's overtaken by a moderator's, or a failed one,    *)
(* is made good by "the periodic refresh" (handlers_reports.go).              *)
HiddenCatchesUp == <>[](hidden = Hidden)

(* What store.go says of making a theme private: it "takes it off every other *)
(* account that had applied it".  An account whose SetActive found the theme  *)
(* public while that ran is missed, and wears a private theme.                *)
PrivateThemesStayHome ==
  \A m \in Member : worn[m] # Nothing /\ m # Author => theme[worn[m]] = "public"
=============================================================================
