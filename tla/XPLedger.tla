------------------------------ MODULE XPLedger ------------------------------
(***************************************************************************)
(* What a person's pull requests earn: the rules (backend/internal/xp/xp.go,*)
(* quests.go) and the ledger they are written to when a pass of the sync    *)
(* completes (awardTx in ingest/prs.go).  Pull requests are stored and      *)
(* change between two awards in any way GitHub allows, old ones may arrive  *)
(* after new ones, and the issues a pull request says it closes may change. *)
(*                                                                          *)
(* Time counts days.  The bonuses other than the first merge in a           *)
(* repository depend on the pull request alone and are part of its worth.   *)
(***************************************************************************)
EXTENDS Integers, FiniteSets, FiniteSetsExt

CONSTANTS
  PullRequest, \* the person's pull requests, numbered
  Issue,       \* catalog issues, numbered
  Links,       \* the sets of them a pull request may say it closes
  RepoOf,      \* each one's repository
  CreatedOn,   \* the day each was opened
  LastDay,     \* bound on the days
  Joined,      \* the day the person signed up
  Worth,       \* what a merge is worth before the first-merge bonus
  FirstMerge,  \* xp.first_merge_repo_bonus
  Backfill,    \* xp.backfill_percent
  DailyCap,    \* xp.repo_daily_cap, 0 for none
  Opened,      \* xp.opened
  WeeklyCap,   \* xp.opened_weekly_cap
  WeekLen,     \* days in a week
  QuestNeed    \* merges and repositories the two modelled quests ask for

VARIABLES
  stored,   \* pull_requests, with their issue links
  ledger,   \* xp_events of pull requests
  quests,   \* xp_events of quests: their keys
  settled   \* nothing was stored since the last awards

xpLedgerVars == <<stored, ledger, quests, settled>>

Day == 0..LastDay
Week(d) == d \div WeekLen
Unseen == [state |-> "NONE", merged |-> 0, issues |-> {}, excluded |-> FALSE]
PullRow == [state: {"OPEN", "CLOSED", "MERGED"}, merged: Day, issues: Links, excluded: BOOLEAN]
Award == [source: {"merged", "backfill", "opened", "opened_reversed"}, pull: PullRequest,
          amount: Int, issue: Issue \cup {0}, first: BOOLEAN, day: Day]

TypeOK ==
  /\ stored \in [PullRequest -> PullRow \cup {Unseen}]
  /\ ledger \subseteq Award
  /\ \A a, b \in ledger : a.source = b.source /\ a.pull = b.pull => a = b
  /\ quests \subseteq DOMAIN QuestNeed /\ settled \in BOOLEAN

Init ==
  /\ stored = [p \in PullRequest |-> Unseen]
  /\ ledger = {} /\ quests = {} /\ settled = TRUE

----------------------------------------------------------------------------
\* A page of the sync stores a pull request as GitHub now shows it; a merged
\* one stays merged, and excluded is no_xp_reason (the person's own
\* repository, or an organisation of theirs).
Store(p, row) ==
  /\ row.merged = 0 <=> row.state # "MERGED"
  /\ row.merged # 0 => row.merged >= CreatedOn[p]
  /\ stored[p].state = "MERGED" => row.state = "MERGED" /\ row.merged = stored[p].merged
  /\ stored[p] # row
  /\ stored' = [stored EXCEPT ![p] = row]
  /\ settled' = FALSE
  /\ UNCHANGED <<ledger, quests>>

----------------------------------------------------------------------------
IsPaid(paid, source, p) == \E a \in paid : a.source = source /\ a.pull = p

\* The points of awards are counted one by one, those taken back against them.
Total(paid) == Cardinality(UNION {{a} \X (1..a.amount) : a \in paid})
               - Cardinality(UNION {{a} \X (1..(0 - a.amount)) : a \in paid})
MergesOf(paid, repo) == {a \in paid : a.source \in {"merged", "backfill"} /\ RepoOf[a.pull] = repo}
OnDay(paid, repo, d) == {a \in MergesOf(paid, repo) : a.day = d}

\* Mutant: the cap is what is left of this plan's day alone.
Mutant_Capped(paid, repo, d, amount) == IF DailyCap > 0 /\ amount > DailyCap THEN DailyCap ELSE amount

\* What is left of the repository's day under the cap.
Capped(paid, repo, d, amount) ==
  LET left == Max({DailyCap - Total(OnDay(paid, repo, d)), 0}) IN
  IF DailyCap > 0 /\ amount > left THEN left ELSE amount

\* What a merge earns beside what was paid before it.
MergeAward(paid, p) ==
  LET repo == RepoOf[p]
      d == stored[p].merged
      first == MergesOf(paid, repo) = {}
      full == Worth[p] + (IF first THEN FirstMerge ELSE 0)
      amount == IF d < Joined THEN (full * Backfill) \div 100 ELSE full IN
  [source |-> IF d < Joined THEN "backfill" ELSE "merged", pull |-> p, issue |-> 0,
   amount |-> Capped(paid, repo, d, amount), first |-> first, day |-> d]

PayMerge(paid, p) == paid \cup {MergeAward(paid, p)}

\* Both are paid oldest first: the last of a set by day, then by number.
LastOf(S, day) == CHOOSE p \in S : \A q \in S : day[q] < day[p] \/ (day[q] = day[p] /\ q <= p)

\* Mutant: a merge is paid on every plan.
Mutant_MergesToPay(paid) ==
  {p \in PullRequest : stored[p].state = "MERGED" /\ ~stored[p].excluded}

MergesToPay(paid) ==
  {p \in PullRequest : stored[p].state = "MERGED" /\ ~stored[p].excluded
                       /\ ~IsPaid(paid, "merged", p) /\ ~IsPaid(paid, "backfill", p)}

\* What a merge or an opening sees is what those before it were paid.
PayMerges(paid) ==
  LET mergedOn == [p \in PullRequest |-> stored[p].merged]
      afterThese[S \in SUBSET MergesToPay(paid)] ==
        IF S = {} THEN paid
        ELSE LET p == LastOf(S, mergedOn) IN PayMerge(afterThese[S \ {p}], p) IN
  afterThese[MergesToPay(paid)]

OpenedIn(paid, w) == {a \in paid : a.source = "opened" /\ Week(a.day) = w}
OpenedFor(paid, i) == \E a \in paid : a.source = "opened" /\ a.issue = i

\* The linked issues whose opening was not paid yet; the first of them counts.
OpeningsOf(paid, p) == {i \in stored[p].issues : ~OpenedFor(paid, i)}

\* Mutant: an opening is paid although the pull request closed unmerged.
Mutant_PayOpening(paid, p) ==
  IF \/ Opened = 0 \/ OpeningsOf(paid, p) = {}
     \/ Cardinality(OpenedIn(paid, Week(CreatedOn[p]))) >= WeeklyCap
  THEN paid
  ELSE paid \cup {[source |-> "opened", pull |-> p, amount |-> Opened,
                   issue |-> Min(OpeningsOf(paid, p)), first |-> FALSE, day |-> CreatedOn[p]]}

PayOpening(paid, p) ==
  IF \/ Opened = 0 \/ stored[p].state = "CLOSED" \/ OpeningsOf(paid, p) = {}
     \/ Cardinality(OpenedIn(paid, Week(CreatedOn[p]))) >= WeeklyCap
  THEN paid
  ELSE paid \cup {[source |-> "opened", pull |-> p, amount |-> Opened,
                   issue |-> Min(OpeningsOf(paid, p)), first |-> FALSE, day |-> CreatedOn[p]]}

OpeningsToPay(paid) ==
  {p \in PullRequest : stored[p].state # "NONE" /\ stored[p].issues # {} /\ ~stored[p].excluded
                       /\ CreatedOn[p] >= Joined /\ ~IsPaid(paid, "opened", p)}

PayOpenings(paid) ==
  LET afterThese[S \in SUBSET OpeningsToPay(paid)] ==
        IF S = {} THEN paid
        ELSE LET p == LastOf(S, CreatedOn) IN PayOpening(afterThese[S \ {p}], p) IN
  afterThese[OpeningsToPay(paid)]

\* Openings paid before this plan for pull requests that closed unmerged.
Reversals(paid) ==
  {[a EXCEPT !.source = "opened_reversed", !.amount = 0 - @] :
     a \in {b \in paid : /\ b.source = "opened" /\ stored[b.pull].state = "CLOSED"
                         /\ ~IsPaid(paid, "opened_reversed", b.pull)}}

Plan(paid) == PayOpenings(PayMerges(paid)) \cup Reversals(paid)

\* Quests count merges since joining: so many, and in so many repositories.
QuestsDone(paid) ==
  LET here == {a \in paid : a.source = "merged"} IN
  {q \in DOMAIN QuestNeed :
     Cardinality(IF q = "merges" THEN here ELSE {RepoOf[a.pull] : a \in here}) >= QuestNeed[q]}

\* awardTx: one transaction.
AwardXP ==
  /\ ~settled
  /\ ledger' = Plan(ledger)
  /\ quests' = quests \cup QuestsDone(Plan(ledger))
  /\ settled' = TRUE
  /\ UNCHANGED stored

Next ==
  \/ AwardXP
  \/ \E p \in PullRequest, row \in PullRow : Store(p, row)

Spec == Init /\ [][Next]_xpLedgerVars

----------------------------------------------------------------------------
(* However pull requests arrive and change, the caps and the once-only rules  *)
(* hold over the whole ledger: no repository's day pays more than the cap, no *)
(* week more openings than its cap, no issue's opening twice, no repository's *)
(* first merge twice, no pull request's merge twice (xp.go, Plan: "however it *)
(* arrived").                                                                 *)
RulesHoldOverTheLedger ==
  /\ DailyCap > 0 => \A p \in PullRequest, d \in Day : Total(OnDay(ledger, RepoOf[p], d)) <= DailyCap
  /\ \A d \in Day : Cardinality(OpenedIn(ledger, Week(d))) <= WeeklyCap
  /\ \A a, b \in ledger : a # b =>
       /\ ~(a.source = "opened" /\ b.source = "opened" /\ a.issue = b.issue)
       /\ ~(a.first /\ b.first /\ RepoOf[a.pull] = RepoOf[b.pull])
       /\ ~(a.source = "merged" /\ b.source = "backfill" /\ a.pull = b.pull)

(* Awarding settles: planning again over the same pull requests pays nothing  *)
(* more, so a repeated pass is harmless; every pull request closed unmerged   *)
(* has earned nothing for opening, and quests are paid from merges here only  *)
(* (xp.go: "running it again after a failed write plans the same awards").    *)
AwardsSettle ==
  settled =>
    /\ Plan(ledger) = ledger
    /\ \A p \in PullRequest : stored[p].state = "CLOSED" =>
         Total({a \in ledger : a.pull = p}) = 0
    /\ quests # {} => \E p \in PullRequest : stored[p].merged >= Joined
=============================================================================
