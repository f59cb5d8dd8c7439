----------------------------- MODULE ReviewLoop -----------------------------
(***************************************************************************)
(* The Critic's loop over the stages of one pipeline: review the stage's   *)
(* output, revise it while the verdict asks for it, and stop at a number   *)
(* of rounds or when the next call would exceed a budget.                  *)
(*                                                                         *)
(* _review_and_maybe_revise and _review_and_maybe_rerun_coder have the     *)
(* same control; they differ in the estimate and in who revises.  What a   *)
(* call really costs reaches the loop through mm:cost:<run>, which the     *)
(* gateway increments and the loop reads back.  Amounts are in 0.01 RMB.   *)
(***************************************************************************)
EXTENDS Integers, FiniteSets

CONSTANTS Stages,       \* how many stages are reviewed, in order
          MaxRounds,    \* per stage: the cap on revision rounds
          RevisionCost, \* per stage: the estimate of one revision
          ReviewCost,   \* estimated_review_cost_rmb
          Cap,          \* max_revision_cost_rmb
          CallCosts,    \* what a producer or critic step may really cost
          MaxFaults     \* bound on the ledger reads and writes that fail

ASSUME ReviewAssumption ==
  /\ Stages \in Nat \ {0}
  /\ MaxRounds \in [1..Stages -> Nat]
  /\ RevisionCost \in [1..Stages -> Nat]
  /\ ReviewCost \in Nat /\ Cap \in Nat
  /\ CallCosts \subseteq Nat
  /\ \E c \in CallCosts : \A d \in CallCosts : c >= d
  /\ MaxFaults \in Nat

VARIABLES pc,
          stage,     \* the stage being produced or reviewed
          version,   \* current: the version of the stage's output
          report,    \* the latest verdict
          about,     \* history: the version the latest verdict is about
          round,     \* revision_round
          estimate,  \* loop_cost_rmb
          baseline,  \* the tracker's snapshot at the start of the loop
          ledger,    \* mm:cost:<run>
          reminders, \* upstream_reminders: the stages that have one
          spent,     \* history: what the calls of this loop really cost
          seen,      \* history: the latest read of the ledger by the loop
          faults     \* reads and writes that failed so far

loopVars   == <<version, report, about, round, estimate>>
ledgerVars == <<baseline, ledger, spent, seen, faults>>
vars == <<pc, stage, loopVars, ledgerVars, reminders>>

\* What the policy looks at: "low" stands for a score or a pass rate below
\* the stage's minimum.
Report == [blocking : BOOLEAN, majors : 0..2, low : BOOLEAN, passed : BOOLEAN,
           exhausted : BOOLEAN]

NoReport == [blocking |-> FALSE, majors |-> 0, low |-> FALSE, passed |-> TRUE,
             exhausted |-> FALSE]

\* _critique_requires_revision
RequiresRevision(r) ==
  /\ ~ r.exhausted
  /\ \/ r.blocking
     \/ r.majors >= 2
     \/ r.low
     \/ ~ r.passed /\ r.majors > 0

-----------------------------------------------------------------------------
Init ==
  /\ pc = "produce" /\ stage = 1
  /\ version = 0 /\ report = NoReport /\ about = 0 /\ round = 0 /\ estimate = 0
  /\ baseline = 0 /\ ledger = 0 /\ spent = 0 /\ seen = "ok" /\ faults = 0
  /\ reminders = {}

\* The step's LLM calls cost c; the gateway adds it to mm:cost, or fails to.
Pay(c) ==
  /\ spent' = spent + c
  /\ \/ ledger' = ledger + c /\ UNCHANGED faults
     \/ c > 0 /\ faults < MaxFaults /\ faults' = faults + 1 /\ UNCHANGED ledger

\* get_total(): the ledger, or 0 when Redis raises.
GetTotal(total) ==
  \/ total = ledger /\ seen' = "ok" /\ UNCHANGED faults
  \/ total = 0 /\ seen' = "failed" /\ faults < MaxFaults /\ faults' = faults + 1

\* The agent of the stage produces its output.
Produce ==
  /\ pc = "produce"
  /\ \E c \in CallCosts : Pay(c)
  /\ pc' = "snapshot" /\ version' = 0
  /\ UNCHANGED <<stage, report, about, round, estimate, baseline, seen, reminders>>

\* snapshot_baseline(); the loop's own spending starts here.
Snapshot ==
  /\ pc = "snapshot"
  /\ \E total \in {0, ledger} : GetTotal(total) /\ baseline' = total
  /\ pc' = "review"
  /\ round' = 0 /\ estimate' = 0 /\ spent' = 0 /\ report' = NoReport
  /\ UNCHANGED <<stage, version, about, ledger, reminders>>

\* critic.review: a verdict about the current version.
Review ==
  /\ pc = "review"
  /\ \E c \in CallCosts : Pay(c)
  /\ report' \in Report /\ about' = version
  /\ estimate' = estimate + ReviewCost
  /\ pc' = IF RequiresRevision(report') THEN "more" ELSE "accept"
  /\ UNCHANGED <<stage, version, round, baseline, seen, reminders>>

\* The critic's AgentError is not caught: it fails the run.
ReviewFails ==
  /\ pc = "review"
  /\ \E c \in CallCosts : Pay(c)
  /\ pc' = "failed"
  /\ UNCHANGED <<stage, loopVars, baseline, seen, reminders>>

\* A budget held against the whole run's spending.
WouldExceedRun(total, cost) == total + cost > Cap

WouldExceed(total, cost) == total - baseline + cost > Cap

Exhaust ==
  /\ report' = [report EXCEPT !.exhausted = TRUE]
  /\ pc' = "remind"
  /\ UNCHANGED round

\* One round too many.
NextRoundLate ==
  /\ pc = "more" /\ round <= MaxRounds[stage]
  /\ \E total \in {0, ledger} :
       /\ GetTotal(total)
       /\ IF WouldExceed(total, RevisionCost[stage]) THEN Exhaust
          ELSE pc' = "revise" /\ round' = round + 1 /\ UNCHANGED report
  /\ UNCHANGED <<stage, version, about, estimate, baseline, ledger, spent,
                 reminders>>

\* The next round, if there is one and the budget has room for a revision.
NextRound ==
  /\ pc = "more" /\ round < MaxRounds[stage]
  /\ \E total \in {0, ledger} :
       /\ GetTotal(total)
       /\ IF WouldExceed(total, RevisionCost[stage]) THEN Exhaust
          ELSE pc' = "revise" /\ round' = round + 1 /\ UNCHANGED report
  /\ UNCHANGED <<stage, version, about, estimate, baseline, ledger, spent,
                 reminders>>

NoRoundsLeft ==
  /\ pc = "more" /\ round = MaxRounds[stage]
  /\ pc' = "remind"
  /\ UNCHANGED <<stage, loopVars, ledgerVars, reminders>>

\* revise_with_critique, or coder.run on the revision problem.
Revise ==
  /\ pc = "revise"
  /\ \E c \in CallCosts : Pay(c)
  /\ version' = version + 1
  /\ estimate' = estimate + RevisionCost[stage]
  /\ pc' = "revised"
  /\ UNCHANGED <<stage, report, about, round, baseline, seen, reminders>>

\* A failed revision that is tried again and does not count as a round.
ReviseRetries ==
  /\ pc = "revise"
  /\ \E c \in CallCosts : Pay(c)
  /\ pc' = "more" /\ round' = round - 1
  /\ UNCHANGED <<stage, version, report, about, estimate, baseline, seen,
                 reminders>>

\* Its AgentError is caught: keep the version at hand and stop.
ReviseFails ==
  /\ pc = "revise"
  /\ \E c \in CallCosts : Pay(c)
  /\ pc' = "remind"
  /\ UNCHANGED <<stage, loopVars, baseline, seen, reminders>>

\* A revised version kept without a verdict of its own and without a mark.
ReconsiderUnmarked ==
  /\ pc = "revised"
  /\ \E total \in {0, ledger} :
       /\ GetTotal(total)
       /\ pc' = IF WouldExceed(total, ReviewCost) THEN "remind" ELSE "review"
  /\ UNCHANGED <<stage, loopVars, baseline, ledger, spent, reminders>>

\* A review of the revised version, if the budget has room for it.
Reconsider ==
  /\ pc = "revised"
  /\ \E total \in {0, ledger} :
       /\ GetTotal(total)
       /\ IF WouldExceed(total, ReviewCost) THEN Exhaust
          ELSE pc' = "review" /\ UNCHANGED <<report, round>>
  /\ UNCHANGED <<stage, version, about, estimate, baseline, ledger, spent,
                 reminders>>

NextStage ==
  IF stage < Stages THEN pc' = "produce" /\ stage' = stage + 1
                    ELSE pc' = "over" /\ stage' = stage

\* An accepted output is returned at once.
Accept ==
  /\ pc = "accept"
  /\ NextStage
  /\ UNCHANGED <<loopVars, ledgerVars, reminders>>

\* The loop ended without acceptance: its last verdict becomes a reminder for
\* the next stage, when there is one.
Remind ==
  /\ pc = "remind"
  /\ reminders' = IF stage < Stages THEN reminders \cup {stage + 1} ELSE reminders
  /\ NextStage
  /\ UNCHANGED <<loopVars, ledgerVars>>

Next ==
  \/ Produce \/ Snapshot \/ Review \/ ReviewFails \/ NextRound \/ NoRoundsLeft
  \/ Revise \/ ReviseFails \/ Reconsider \/ Accept \/ Remind

Spec == Init /\ [][Next]_vars

\* The coroutine goes on.
FairSpec == Spec /\ WF_vars(Next)

-----------------------------------------------------------------------------
\* Type invariant of the loop, the ledger and the reminders.
TypeOK ==
  /\ pc \in {"produce", "snapshot", "review", "more", "revise", "revised",
             "accept", "remind", "failed", "over"}
  /\ stage \in 1..Stages
  /\ report \in Report
  /\ round \in Nat /\ version \in 0..round /\ about \in Nat
  /\ pc \notin {"produce", "snapshot"} => round <= MaxRounds[stage]
  /\ estimate \in Nat /\ baseline \in Nat /\ ledger \in Nat /\ spent \in Nat
  /\ reminders \subseteq 1..Stages
  /\ seen \in {"ok", "failed"} /\ faults \in 0..MaxFaults

\* While the ledger can be read and written, a loop exceeds its budget by
\* what its last call cost above the estimate and by no more: what earlier
\* calls cost above theirs is seen before the next call is made.  The first
\* review is made unasked.
Dearest == CHOOSE c \in CallCosts : \A d \in CallCosts : c >= d

Overshoot(cost) == IF Dearest > cost THEN Dearest - cost ELSE 0

NotOverspent ==
  (faults = 0 /\ pc \notin {"produce", "snapshot"}) =>
    \/ spent <= Dearest
    \/ spent <= Cap + Overshoot(ReviewCost)
    \/ spent <= Cap + Overshoot(RevisionCost[stage])

\* A loop is never cut short by what the stages before it have spent.
NotCutShort ==
  (faults = 0 /\ pc = "remind" /\ report.exhausted) =>
    \/ spent + RevisionCost[stage] > Cap
    \/ spent + ReviewCost > Cap

\* The budget of a loop is its own, and kept.
WithinBudget == NotOverspent /\ NotCutShort

\* A loop only ends as accepted when the latest verdict is about the version
\* that is returned; a verdict that is older than the output it is filed with
\* is marked as cut short by the budget.
VerdictIsAboutOutput ==
  /\ pc = "accept" => about = version /\ ~ RequiresRevision(report)
  /\ pc = "remind" => about = version \/ report.exhausted

\* Every pipeline gets through its reviews: no verdict, cost or failing ledger
\* keeps a loop going for ever.
ReviewsEnd == <>(pc \in {"over", "failed"})

=============================================================================
