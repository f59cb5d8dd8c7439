-------------------------- MODULE SearchAndReviewProofs --------------------------
(***************************************************************************)
(* Proofs about the two modules of what happens to an output before the    *)
(* next stage gets it: ReviewLoop, the critic's loop over every stage, and *)
(* Searcher, the stage whose output is gathered from outside.              *)
(*                                                                         *)
(* ReviewLoop, for any number of stages, rounds and faults, any estimates  *)
(* and any costs of a call that have a dearest: the types, a budget that   *)
(* is the loop's own, and verdicts about what they are filed with.         *)
(*                                                                         *)
(* Searcher, for any analyses, queries, sources and bounds: the types,     *)
(* papers that are kept once, and texts under their own papers.  What its  *)
(* recursive functions compute is proved first, by induction on a number   *)
(* up to the length of a list (UpTo, RecursionExists).                     *)
(***************************************************************************)
EXTENDS ReviewLoop, Searcher, FiniteSetTheorems, SequenceTheorems, WellFoundedInduction,
        TLAPS

-----------------------------------------------------------------------------
(* ReviewLoop.  The inductive invariant.                                   *)

InLoop == pc \notin {"produce", "snapshot"}

\* While nothing failed, the ledger has grown by what the loop has spent.
LedgerIsTrue == faults = 0 /\ InLoop => ledger = baseline + spent

\* A call the loop has decided on was found to fit; the first is not asked for.
RoomForCall ==
  faults = 0 =>
    /\ pc = "review" => spent = 0 \/ spent + ReviewCost <= Cap
    /\ pc = "revise" => spent + RevisionCost[stage] <= Cap

\* A round is counted before the revision, a version after it.
Rounds ==
  /\ pc = "revise" => version + 1 <= round
  /\ pc = "snapshot" => version = 0

\* Until the next revision the verdict is about the version at hand, and it is
\* marked on the way out alone.
Verdicts ==
  /\ pc \in {"more", "revise", "accept"} => about = version
  /\ pc \in {"more", "revise", "revised"} => ~ report.exhausted
  /\ pc = "accept" => ~ RequiresRevision(report)

ReviewIInv == /\ TypeOK /\ LedgerIsTrue /\ RoomForCall /\ Rounds /\ Verdicts
        /\ WithinBudget /\ VerdictIsAboutOutput

-----------------------------------------------------------------------------
(* Lemmas about what the steps share.                                      *)

\* What a call costs is no more than the dearest one.
LEMMA DearestCost ==
  /\ Dearest \in Nat /\ Dearest \in CallCosts
  /\ \A c \in CallCosts : c \in Nat /\ c <= Dearest
BY ReviewAssumption DEF Dearest

LEMMA PayFacts ==
  ASSUME TypeOK, NEW c \in CallCosts, Pay(c)
  PROVE  /\ spent' = spent + c /\ spent' \in Nat /\ ledger' \in Nat
         /\ faults' \in 0..MaxFaults
         /\ faults' = 0 => faults = 0 /\ ledger' = ledger + c
BY DearestCost, ReviewAssumption DEF Pay, TypeOK

LEMMA GetTotalFacts ==
  ASSUME TypeOK, NEW total, total \in {0, ledger}, GetTotal(total)
  PROVE  /\ total \in Nat /\ seen' \in {"ok", "failed"} /\ faults' \in 0..MaxFaults
         /\ faults' = 0 => faults = 0 /\ total = ledger
BY ReviewAssumption DEF GetTotal, TypeOK

-----------------------------------------------------------------------------
LEMMA ReviewTypeStep ==
  ASSUME TypeOK, Rounds, [Next]_vars
  PROVE  TypeOK' /\ Rounds'
<1> USE ReviewAssumption DEF TypeOK, Rounds, loopVars, ledgerVars
<1>1. CASE Produce
  <2>1. PICK c \in CallCosts : Pay(c)
    BY <1>1 DEF Produce
  <2>2. QED
    BY <1>1, <2>1, PayFacts DEF Produce
<1>2. CASE Snapshot
  <2>1. PICK total \in {0, ledger} : GetTotal(total) /\ baseline' = total
    BY <1>2 DEF Snapshot
  <2>2. report' \in Report
    BY <1>2 DEF Snapshot, NoReport, Report
  <2>3. pc' = "review" /\ round' = 0 /\ MaxRounds[stage] \in Nat
    BY <1>2 DEF Snapshot
  <2>4. version' \in 0..round'
    BY <1>2 DEF Snapshot
  <2>5. QED
    BY <1>2, <2>1, <2>2, <2>3, <2>4, GetTotalFacts DEF Snapshot
<1>3. CASE Review
  <2>1. PICK c \in CallCosts : Pay(c)
    BY <1>3 DEF Review
  <2>2. QED
    BY <1>3, <2>1, PayFacts DEF Review
<1>4. CASE ReviewFails \/ ReviseFails
  <2>1. PICK c \in CallCosts : Pay(c)
    BY <1>4 DEF ReviewFails, ReviseFails
  <2>2. QED
    BY <1>4, <2>1, PayFacts DEF ReviewFails, ReviseFails
<1>5. CASE NextRound
  <2>1. PICK total \in {0, ledger} :
          /\ GetTotal(total)
          /\ \/ Exhaust
             \/ pc' = "revise" /\ round' = round + 1 /\ UNCHANGED report
    BY <1>5 DEF NextRound
  <2>2. pc = "more" /\ round < MaxRounds[stage] /\ MaxRounds[stage] \in Nat
    BY <1>5 DEF NextRound
  <2>3. UNCHANGED <<stage, version, about, estimate, baseline, ledger, spent, reminders>>
    BY <1>5 DEF NextRound
  <2>4. CASE Exhaust
    BY <2>1, <2>2, <2>3, <2>4, GetTotalFacts DEF Exhaust, Report
  <2>5. CASE pc' = "revise" /\ round' = round + 1 /\ UNCHANGED report
    BY <2>1, <2>2, <2>3, <2>5, GetTotalFacts
  <2>6. QED
    BY <2>1, <2>4, <2>5
<1>6. CASE NoRoundsLeft
  BY <1>6 DEF NoRoundsLeft
<1>7. CASE Revise
  <2>1. PICK c \in CallCosts : Pay(c)
    BY <1>7 DEF Revise
  <2>2. /\ pc = "revise" /\ pc' = "revised" /\ version' = version + 1
        /\ estimate' = estimate + RevisionCost[stage]
        /\ UNCHANGED <<stage, report, about, round, baseline, seen, reminders>>
    BY <1>7 DEF Revise
  <2>3. estimate' \in Nat /\ version' \in 0..round'
    BY <2>2
  <2>4. spent' \in Nat /\ ledger' \in Nat /\ faults' \in 0..MaxFaults
    BY <2>1, PayFacts
  <2>5. QED
    BY <2>2, <2>3, <2>4
<1>8. CASE Reconsider
  <2>1. PICK total \in {0, ledger} :
          /\ GetTotal(total)
          /\ \/ Exhaust
             \/ pc' = "review" /\ UNCHANGED <<report, round>>
    BY <1>8 DEF Reconsider
  <2>2. pc = "revised"
    BY <1>8 DEF Reconsider
  <2>3. UNCHANGED <<stage, version, about, estimate, baseline, ledger, spent, reminders>>
    BY <1>8 DEF Reconsider
  <2>4. CASE Exhaust
    BY <2>1, <2>2, <2>3, <2>4, GetTotalFacts DEF Exhaust, Report
  <2>5. CASE pc' = "review" /\ UNCHANGED <<report, round>>
    BY <2>1, <2>2, <2>3, <2>5, GetTotalFacts
  <2>6. QED
    BY <2>1, <2>4, <2>5
<1>9. CASE Accept \/ Remind
  <2>1. pc \in {"accept", "remind"} /\ NextStage /\ UNCHANGED <<loopVars, ledgerVars>>
    BY <1>9 DEF Accept, Remind
  <2>2. stage' \in 1..Stages /\ pc' \in {"produce", "over"}
        /\ (pc' = "over" => stage' = stage)
    BY <2>1 DEF NextStage
  <2>3. \/ reminders' = reminders
        \/ stage < Stages /\ reminders' = reminders \cup {stage + 1}
    BY <1>9 DEF Accept, Remind
  <2>5. reminders' \subseteq 1..Stages
    <3>1. stage < Stages => stage + 1 \in 1..Stages
      OBVIOUS
    <3>2. QED
      BY <2>3, <3>1
  <2>4. QED
    BY <2>1, <2>2, <2>5
<1>10. CASE UNCHANGED vars
  BY <1>10 DEF vars
<1>11. QED
  BY <1>1, <1>2, <1>3, <1>4, <1>5, <1>6, <1>7, <1>8, <1>9, <1>10 DEF Next

\* The verdict follows the version, or is marked.
LEMMA VerdictStep ==
  ASSUME TypeOK, Verdicts, VerdictIsAboutOutput, [Next]_vars
  PROVE  Verdicts' /\ VerdictIsAboutOutput'
<1> USE DEF Verdicts, VerdictIsAboutOutput, loopVars
<1>1. CASE Produce \/ Snapshot \/ ReviewFails
  BY <1>1 DEF Produce, Snapshot, ReviewFails
<1>2. CASE Review
  <2>1. RequiresRevision(report') => ~ report'.exhausted
    BY DEF RequiresRevision
  <2>2. /\ about' = version' /\ pc' \in {"more", "accept"}
        /\ pc' = "more" <=> RequiresRevision(report')
    BY <1>2 DEF Review
  <2>3. RequiresRevision(report)' <=> RequiresRevision(report')
    BY DEF RequiresRevision
  <2>4. QED
    BY <2>1, <2>2, <2>3
<1>3. CASE NextRound \/ Reconsider
  <2>1. \/ pc' = "remind" /\ report' = [report EXCEPT !.exhausted = TRUE]
        \/ pc = "more" /\ pc' = "revise" /\ UNCHANGED report
        \/ pc' = "review"
    BY <1>3 DEF NextRound, Reconsider, Exhaust
  <2>2. report \in Report /\ UNCHANGED <<about, version>>
    BY <1>3 DEF NextRound, Reconsider, TypeOK
  <2>3. pc' = "remind" => report'.exhausted
    BY <2>1, <2>2 DEF Report
  <2>4. QED
    BY <2>1, <2>2, <2>3
<1>4. CASE NoRoundsLeft \/ ReviseFails
  BY <1>4 DEF NoRoundsLeft, ReviseFails
<1>5. CASE Revise
  BY <1>5 DEF Revise
<1>6. CASE Accept \/ Remind
  BY <1>6 DEF Accept, Remind, NextStage
<1>7. CASE UNCHANGED vars
  BY <1>7 DEF vars
<1>8. QED
  BY <1>1, <1>2, <1>3, <1>4, <1>5, <1>6, <1>7 DEF Next

\* The ledger is true, a call was found to fit, and the budget is kept.
LEMMA BudgetStep ==
  ASSUME TypeOK, LedgerIsTrue, RoomForCall, Verdicts, WithinBudget, [Next]_vars
  PROVE  LedgerIsTrue' /\ RoomForCall' /\ WithinBudget'
<1> USE ReviewAssumption, DearestCost
    DEF LedgerIsTrue, RoomForCall, InLoop, WithinBudget, NotOverspent,
        NotCutShort, TypeOK, loopVars, ledgerVars
<1> SUFFICES ASSUME faults' = 0
    PROVE  LedgerIsTrue' /\ RoomForCall' /\ WithinBudget'
  OBVIOUS
<1>1. CASE Produce
  BY <1>1 DEF Produce
<1>2. CASE Snapshot
  <2>1. PICK total \in {0, ledger} : GetTotal(total) /\ baseline' = total
    BY <1>2 DEF Snapshot
  <2>2. baseline' = ledger /\ ledger' = ledger /\ spent' = 0 /\ pc' = "review"
    BY <1>2, <2>1, GetTotalFacts DEF Snapshot
  <2>3. QED
    BY <2>2
<1>3. CASE Review \/ ReviewFails
  <2>1. PICK c \in CallCosts : Pay(c)
    BY <1>3 DEF Review, ReviewFails
  <2>2. /\ pc = "review" /\ pc' \in {"more", "accept", "failed"}
        /\ UNCHANGED <<stage, baseline>>
    BY <1>3 DEF Review, ReviewFails
  <2>3. /\ faults = 0 /\ ledger' = ledger + c /\ spent' = spent + c
        /\ c \in Nat /\ c <= Dearest
    BY <2>1, PayFacts
  <2>4. spent' <= Dearest \/ spent' <= Cap + Overshoot(ReviewCost)
    <3>1. spent = 0 \/ spent + ReviewCost <= Cap
      BY <2>2, <2>3
    <3>2. QED
      BY <2>3, <3>1 DEF Overshoot
  <2>5. QED
    BY <2>2, <2>3, <2>4 DEF Overshoot
<1>4. CASE NextRound
  <2>1. PICK total \in {0, ledger} :
          /\ GetTotal(total)
          /\ IF WouldExceed(total, RevisionCost[stage]) THEN Exhaust
             ELSE pc' = "revise" /\ round' = round + 1 /\ UNCHANGED report
    BY <1>4 DEF NextRound
  <2>2. /\ faults = 0 /\ total = ledger /\ pc = "more"
        /\ UNCHANGED <<stage, baseline, ledger, spent>>
    BY <1>4, <2>1, GetTotalFacts DEF NextRound
  <2>3. /\ total - baseline = spent
        /\ RevisionCost[stage] \in Nat
    BY <2>2
  <2>4. CASE spent + RevisionCost[stage] > Cap
    <3>1. pc' = "remind"
      BY <2>1, <2>3, <2>4 DEF WouldExceed, Exhaust
    <3>2. QED
      BY <2>2, <2>4, <3>1 DEF Overshoot
  <2>5. CASE ~ (spent + RevisionCost[stage] > Cap)
    <3>1. pc' = "revise"
      BY <2>1, <2>3, <2>5 DEF WouldExceed
    <3>2. QED
      BY <2>2, <2>3, <2>5, <3>1 DEF Overshoot
  <2>6. QED
    BY <2>4, <2>5
<1>5. CASE NoRoundsLeft
  <2>1. /\ pc = "more" /\ pc' = "remind" /\ ~ report.exhausted
        /\ UNCHANGED <<stage, loopVars, ledgerVars>>
    BY <1>5 DEF NoRoundsLeft, Verdicts
  <2>2. QED
    BY <2>1 DEF Overshoot
<1>6. CASE Revise \/ ReviseFails
  <2>1. PICK c \in CallCosts : Pay(c)
    BY <1>6 DEF Revise, ReviseFails
  <2>2. /\ pc = "revise" /\ pc' \in {"revised", "remind"}
        /\ ~ report.exhausted /\ UNCHANGED <<stage, report, baseline>>
    BY <1>6 DEF Revise, ReviseFails, Verdicts
  <2>3. /\ faults = 0 /\ ledger' = ledger + c /\ spent' = spent + c
        /\ c \in Nat /\ c <= Dearest /\ RevisionCost[stage] \in Nat
    BY <2>1, PayFacts
  <2>4. spent' <= Cap + Overshoot(RevisionCost[stage])
    BY <2>2, <2>3 DEF Overshoot
  <2>5. QED
    BY <2>2, <2>3, <2>4 DEF Overshoot
<1>7. CASE Reconsider
  <2>1. PICK total \in {0, ledger} :
          /\ GetTotal(total)
          /\ IF WouldExceed(total, ReviewCost) THEN Exhaust
             ELSE pc' = "review" /\ UNCHANGED <<report, round>>
    BY <1>7 DEF Reconsider
  <2>2. /\ faults = 0 /\ total = ledger /\ pc = "revised"
        /\ UNCHANGED <<stage, baseline, ledger, spent>>
    BY <1>7, <2>1, GetTotalFacts DEF Reconsider
  <2>3. total - baseline = spent
    BY <2>2
  <2>4. CASE spent + ReviewCost > Cap
    <3>1. pc' = "remind"
      BY <2>1, <2>3, <2>4 DEF WouldExceed, Exhaust
    <3>2. QED
      BY <2>2, <2>4, <3>1 DEF Overshoot
  <2>5. CASE ~ (spent + ReviewCost > Cap)
    <3>1. pc' = "review"
      BY <2>1, <2>3, <2>5 DEF WouldExceed
    <3>2. QED
      BY <2>2, <2>3, <2>5, <3>1 DEF Overshoot
  <2>6. QED
    BY <2>4, <2>5
<1>8. CASE Accept \/ Remind
  <2>1. /\ pc \in {"accept", "remind"} /\ UNCHANGED <<loopVars, ledgerVars>>
        /\ \/ pc' = "produce"
           \/ pc' = "over" /\ stage' = stage
    BY <1>8 DEF Accept, Remind, NextStage
  <2>2. QED
    BY <2>1 DEF Overshoot
<1>9. CASE UNCHANGED vars
  BY <1>9 DEF vars, Overshoot
<1>10. QED
  BY <1>1, <1>2, <1>3, <1>4, <1>5, <1>6, <1>7, <1>8, <1>9 DEF Next

-----------------------------------------------------------------------------
LEMMA ReviewInvInit == Init => ReviewIInv
<1> SUFFICES ASSUME Init PROVE ReviewIInv
  OBVIOUS
<1>1. TypeOK
  BY ReviewAssumption DEF Init, TypeOK, NoReport, Report
<1>2. QED
  BY <1>1 DEF Init, ReviewIInv, LedgerIsTrue, RoomForCall, Rounds, Verdicts, InLoop,
              WithinBudget, NotOverspent, NotCutShort, VerdictIsAboutOutput

LEMMA ReviewInvStep == ReviewIInv /\ [Next]_vars => ReviewIInv'
BY ReviewTypeStep, VerdictStep, BudgetStep DEF ReviewIInv

\* The inductive invariant of the loops over the stages of one pipeline.
THEOREM ReviewInvHolds == Spec => []ReviewIInv
BY ReviewInvInit, ReviewInvStep, PTL DEF Spec

\* TypeOK holds: of every loop, its version, its rounds and its amounts.
THEOREM ReviewTypeCorrect == Spec => []TypeOK
<1>1. ReviewIInv => TypeOK
  BY DEF ReviewIInv
<1>2. QED
  BY ReviewInvHolds, <1>1, PTL

\* A loop's budget is its own and is exceeded by no more than its last call's
\* overshoot: for every budget, estimate and cost of a call (would_exceed and
\* its callers).
THEOREM BudgetIsKept == Spec => []WithinBudget
<1>1. ReviewIInv => WithinBudget
  BY DEF ReviewIInv
<1>2. QED
  BY ReviewInvHolds, <1>1, PTL

\* The verdict a stage's output is filed with is about that output, or is
\* marked as cut short by the budget: for every number of stages and rounds.
THEOREM VerdictsFit == Spec => []VerdictIsAboutOutput
<1>1. ReviewIInv => VerdictIsAboutOutput
  BY DEF ReviewIInv
<1>2. QED
  BY ReviewInvHolds, <1>1, PTL

-----------------------------------------------------------------------------
(***************************************************************************)
(* Searcher.  First what its recursive definitions compute.                *)
(***************************************************************************)

\* Induction up to a number, the property as the set of what has it: the first
\* number without it would be the least of the intervals that end with one.
LEMMA UpTo ==
  ASSUME NEW N \in Nat, NEW T, 0 \in T,
         \A n \in 0..N : n < N /\ n \in T => n + 1 \in T
  PROVE  0..N \subseteq T
<1> DEFINE Bad == {n \in 0..N : n \notin T}
           Interval(n) == 0..n
           Intervals == {Interval(n) : n \in Bad}
<1>1. SUFFICES ASSUME Bad # {}
               PROVE  FALSE
  OBVIOUS
<1>2. Intervals # {} /\ Intervals \subseteq FiniteSubsetsOf(Nat)
  <2>1. ASSUME NEW n \in Bad
        PROVE  IsFiniteSet(Interval(n)) /\ Interval(n) \subseteq Nat
    <3>1. n \in Int /\ 0 \in Int
      OBVIOUS
    <3>2. QED
      BY <3>1, FS_Interval
  <2>2. QED
    BY <1>1, <2>1 DEF FiniteSubsetsOf
<1>3. PICK x \in Intervals : \A y \in Intervals : ~ (<<y, x>> \in StrictSubsetOrdering(Nat))
  BY <1>2, WFMin, FS_StrictSubsetOrderingWellFounded
<1>4. PICK m \in Bad : x = Interval(m)
  OBVIOUS
<1>5. m \in 1..N /\ m \notin T /\ m - 1 \in 0..N /\ m - 1 < N
  OBVIOUS
<1>6. m - 1 \in Bad
  BY <1>5
<1>7. Interval(m - 1) \subseteq Interval(m) /\ m \in Interval(m) /\ m \notin Interval(m - 1)
  BY <1>5
<1>8. Interval(m - 1) \in Intervals /\ Interval(m) \in Intervals
  BY <1>6
<1> HIDE DEF Interval, Intervals, Bad
<1>9. ~ (<<Interval(m - 1), Interval(m)>> \in StrictSubsetOrdering(Nat))
  BY <1>3, <1>4, <1>8
<1>10. QED
  BY <1>2, <1>7, <1>8, <1>9 DEF StrictSubsetOrdering, FiniteSubsetsOf

\* What is defined by steps from the number before it, is defined.
Recursion(f, N, V, base, step) ==
  /\ f \in [0..N -> V] /\ f[0] = base
  /\ \A n \in 1..N : f[n] = step[n][f[n - 1]]

LEMMA RecursionExists ==
  ASSUME NEW N \in Nat, NEW V, NEW base \in V, NEW step \in [1..N -> [V -> V]]
  PROVE  \E f : Recursion(f, N, V, base, step)
<1> DEFINE Upto(m, f) == /\ f \in [0..m -> V] /\ f[0] = base
                         /\ \A n \in 1..m : f[n] = step[n][f[n - 1]]
           T == {m \in 0..N : \E f : Upto(m, f)}
<1>1. 0 \in T
  <2> DEFINE g == [n \in 0..0 |-> base]
  <2>1. g \in [0..0 -> V] /\ g[0] = base /\ 1..0 = {}
    OBVIOUS
  <2>2. Upto(0, g)
    BY <2>1
  <2> HIDE DEF g, Upto
  <2>3. QED
    BY <2>2
<1>2. ASSUME NEW m \in 0..N, m < N, m \in T
      PROVE  m + 1 \in T
  <2>1. PICK f : Upto(m, f)
    BY <1>2
  <2> DEFINE g == [n \in 0..m + 1 |-> IF n = m + 1 THEN step[m + 1][f[m]] ELSE f[n]]
  <2>2. f[m] \in V /\ m + 1 \in 1..N
    BY <1>2, <2>1
  <2>3. step[m + 1][f[m]] \in V
    BY <2>2
  <2>4. g \in [0..m + 1 -> V] /\ g[0] = base
    BY <2>1, <2>3
  <2>5. ASSUME NEW n \in 1..m + 1
        PROVE  g[n] = step[n][g[n - 1]]
    <3>1. CASE n = m + 1
      BY <3>1
    <3>2. CASE n # m + 1
      <4>1. n \in 1..m /\ g[n] = f[n] /\ g[n - 1] = f[n - 1]
        BY <3>2
      <4>2. QED
        BY <2>1, <4>1
    <3>3. QED
      BY <3>1, <3>2
  <2>6. Upto(m + 1, g)
    BY <2>4, <2>5
  <2>7. m + 1 \in 0..N
    BY <1>2
  <2> HIDE DEF g, Upto
  <2>8. QED
    BY <2>6, <2>7
<1> HIDE DEF T
<1>3. 0..N \subseteq T
  BY <1>1, <1>2, UpTo
<1>4. N \in T
  BY <1>3
<1>5. QED
  BY <1>4 DEF T, Recursion

\* From which places the entries of what At picks come: of the first n, all
\* that are wanted, in their order, and without a gap as long as there is none.
PickedFrom(from, picked, places, seq, n) ==
  /\ from \in [1..Len(picked) -> 1..n] /\ Len(picked) <= n
  /\ \A k \in 1..Len(picked) : from[k] \in places /\ picked[k] = seq[from[k]]
  /\ \A k, l \in 1..Len(picked) : k < l => from[k] < from[l]
  /\ \A i \in 1..n : i \in places => \E k \in 1..Len(picked) : from[k] = i
  /\ \A k \in 1..n : 1..k \subseteq places => k <= Len(picked) /\ from[k] = k

Picking(f, places, seq, S) ==
  /\ f \in [0..Len(seq) -> Seq(S)]
  /\ f[0] = <<>> /\ At(places, seq) = f[Len(seq)]
  /\ \A n \in 1..Len(seq) :
       f[n] = IF n \in places THEN Append(f[n - 1], seq[n]) ELSE f[n - 1]

LEMMA AtIsDefined ==
  ASSUME NEW S, NEW seq \in Seq(S), NEW places
  PROVE  \E f : Picking(f, places, seq, S)
<1> DEFINE N == Len(seq)
           V == Seq(S)
           Step(n, before) == IF n \in places THEN Append(before, seq[n]) ELSE before
           step == [n \in 1..N |-> [before \in V |-> Step(n, before)]]
           kept[n \in 0..N] ==
             IF n = 0 THEN <<>>
             ELSE IF n \in places THEN Append(kept[n - 1], seq[n]) ELSE kept[n - 1]
           Recurs(g) == g = [n \in 0..N |->
             IF n = 0 THEN <<>>
             ELSE IF n \in places THEN Append(g[n - 1], seq[n]) ELSE g[n - 1]]
<1>1. N \in Nat /\ <<>> \in V
  OBVIOUS
<1>2. ASSUME NEW n \in 1..N, NEW before \in V
      PROVE  Step(n, before) \in V
  OBVIOUS
<1>3. step \in [1..N -> [V -> V]]
  BY <1>2
<1>4. \A n \in 1..N, before \in V : step[n][before] = Step(n, before)
  OBVIOUS
<1> HIDE DEF step
<1>5. PICK f : Recursion(f, N, V, <<>>, step)
  <2> HIDE DEF N, V
  <2>1. QED
    BY <1>1, <1>3, RecursionExists
<1>5a. f \in [0..N -> V] /\ f[0] = <<>> /\ \A n \in 1..N : f[n] = step[n][f[n - 1]]
  BY <1>5 DEF Recursion
<1>6. ASSUME NEW n \in 1..N
      PROVE  f[n] = Step(n, f[n - 1])
  <2> HIDE DEF Step, V
  <2>1. n - 1 \in 0..N
    BY <1>1
  <2>2. QED
    BY <1>4, <1>5a, <2>1
<1>7. Recurs(f)
  <2>1. f = [n \in 0..N |-> f[n]]
    BY <1>5a
  <2>2. \A n \in 0..N : n # 0 => n \in 1..N
    BY <1>1
  <2>3. QED
    BY <1>5a, <1>6, <2>1, <2>2
<1>8. Recurs(kept)
  <2> HIDE DEF Recurs
  <2>1. kept = CHOOSE g : Recurs(g)
    BY DEF Recurs
  <2>2. QED
    BY <1>7, <2>1
<1>9. At(places, seq) = kept[N]
  BY DEF At
<1> HIDE DEF kept
<1> DEFINE T == {n \in 0..N : kept[n] = f[n]}
<1>10. 0 \in T
  BY <1>1, <1>5a, <1>8
<1>11. \A n \in 0..N : n < N /\ n \in T => n + 1 \in T
  <2> SUFFICES ASSUME NEW n \in 0..N, n < N, kept[n] = f[n]
               PROVE  kept[n + 1] = f[n + 1]
    BY <1>1
  <2>1. n + 1 \in 1..N /\ n + 1 \in 0..N /\ n + 1 # 0 /\ (n + 1) - 1 = n
    BY <1>1
  <2>2. kept[n + 1] = Step(n + 1, kept[n])
    BY <1>8, <2>1
  <2> HIDE DEF Step
  <2>3. QED
    BY <1>6, <2>1, <2>2
<1>12. kept[N] = f[N]
  <2> HIDE DEF T
  <2>1. 0..N \subseteq T
    BY <1>1, <1>10, <1>11, UpTo
  <2>2. QED
    BY <1>1, <2>1 DEF T
<1>13. Picking(f, places, seq, S)
  BY <1>5a, <1>6, <1>9, <1>12 DEF Picking
<1>14. QED
  BY <1>13

LEMMA AtPicks ==
  ASSUME NEW S, NEW seq \in Seq(S), NEW places
  PROVE  /\ At(places, seq) \in Seq(S)
         /\ \E from : PickedFrom(from, At(places, seq), places, seq, Len(seq))
<1> DEFINE N == Len(seq)
<1>1. PICK g : Picking(g, places, seq, S)
  BY AtIsDefined
<1>1a. PICK f \in [0..N -> Seq(S)] :
        /\ f[0] = <<>> /\ At(places, seq) = f[N]
        /\ \A n \in 1..N : f[n] = IF n \in places THEN Append(f[n - 1], seq[n]) ELSE f[n - 1]
  BY <1>1 DEF Picking
<1>2. N \in Nat
  OBVIOUS
<1> DEFINE T == {n \in 0..N : \E from : PickedFrom(from, f[n], places, seq, n)}
<1>3. 0 \in T
  <2>1. PickedFrom(<<>>, f[0], places, seq, 0)
    BY <1>1a DEF PickedFrom
  <2>2. QED
    BY <1>2, <2>1
<1>4. ASSUME NEW n \in 0..N, n < N, n \in T
      PROVE  n + 1 \in T
  <2>1. PICK from : PickedFrom(from, f[n], places, seq, n)
    BY <1>4
  <2>2. n \in Nat /\ n + 1 \in 1..N /\ f[n] \in Seq(S) /\ seq[n + 1] \in S
    BY <1>1a, <1>2, <1>4
  <2>3. f[n + 1] = IF n + 1 \in places THEN Append(f[n], seq[n + 1]) ELSE f[n]
    BY <1>1a, <2>2
  <2> HIDE DEF N, T
  <2>4. CASE n + 1 \notin places
    <3>1. f[n + 1] = f[n]
      BY <2>3, <2>4
    <3>2. from \in [1..Len(f[n]) -> 1..n + 1] /\ Len(f[n]) <= n + 1
      BY <2>1, <2>2 DEF PickedFrom
    <3>3. ASSUME NEW i \in 1..n + 1, i \in places
          PROVE  \E k \in 1..Len(f[n]) : from[k] = i
      <4>1. i \in 1..n
        <5>1. i # n + 1
          BY <2>4, <3>3
        <5>2. QED
          BY <2>2, <5>1
      <4>2. QED
        BY <2>1, <3>3, <4>1 DEF PickedFrom
    <3>4. ASSUME NEW k \in 1..n + 1, 1..k \subseteq places
          PROVE  k <= Len(f[n]) /\ from[k] = k
      <4>1. k \in 1..n
        BY <2>2, <2>4, <3>4
      <4>2. QED
        BY <2>1, <3>4, <4>1 DEF PickedFrom
    <3>5. PickedFrom(from, f[n + 1], places, seq, n + 1)
      BY <2>1, <3>1, <3>2, <3>3, <3>4 DEF PickedFrom
    <3>6. QED
      BY <2>2, <3>5 DEF T, N
  <2>5. CASE n + 1 \in places
    <3> DEFINE L == Len(f[n])
               more == [k \in 1..L + 1 |-> IF k = L + 1 THEN n + 1 ELSE from[k]]
    <3>1. /\ L \in Nat /\ L <= n /\ Len(f[n + 1]) = L + 1
          /\ f[n + 1][L + 1] = seq[n + 1]
          /\ \A k \in 1..L : f[n + 1][k] = f[n][k]
      BY <2>1, <2>2, <2>3, <2>5 DEF PickedFrom
    <3>2. \A k \in 1..L : from[k] \in 1..n
      BY <2>1 DEF PickedFrom
    <3> HIDE DEF L
    <3>3. /\ more \in [1..L + 1 -> 1..n + 1] /\ more[L + 1] = n + 1
          /\ \A k \in 1..L : more[k] = from[k]
      BY <2>2, <3>1, <3>2
    <3> HIDE DEF more
    <3>4. ASSUME NEW k \in 1..L + 1
          PROVE  more[k] \in places /\ f[n + 1][k] = seq[more[k]]
      <4>1. CASE k = L + 1
        BY <2>5, <3>1, <3>3, <4>1
      <4>2. CASE k # L + 1
        <5>1. k \in 1..L
          BY <3>1, <4>2
        <5>2. QED
          BY <2>1, <3>1, <3>3, <5>1 DEF PickedFrom, L
      <4>3. QED
        BY <4>1, <4>2
    <3>5. ASSUME NEW k \in 1..L + 1, NEW l \in 1..L + 1, k < l
          PROVE  more[k] < more[l]
      <4>1. k \in 1..L
        BY <3>1, <3>5
      <4>2. CASE l = L + 1
        BY <2>2, <3>2, <3>3, <4>1, <4>2
      <4>3. CASE l # L + 1
        <5>1. l \in 1..L
          BY <3>1, <4>3
        <5>2. QED
          BY <2>1, <3>3, <3>5, <4>1, <5>1 DEF PickedFrom, L
      <4>4. QED
        BY <4>2, <4>3
    <3>6. ASSUME NEW i \in 1..n + 1, i \in places
          PROVE  \E k \in 1..L + 1 : more[k] = i
      <4>1. CASE i = n + 1
        BY <3>1, <3>3, <4>1
      <4>2. CASE i # n + 1
        <5>1. i \in 1..n
          BY <2>2, <4>2
        <5>2. PICK k \in 1..L : from[k] = i
          BY <2>1, <3>6, <5>1 DEF PickedFrom, L
        <5>3. QED
          BY <3>1, <3>3, <5>2
      <4>3. QED
        BY <4>1, <4>2
    <3>7. ASSUME NEW k \in 1..n + 1, 1..k \subseteq places
          PROVE  k <= L + 1 /\ more[k] = k
      <4>1. ASSUME k # n + 1
            PROVE  k <= L /\ from[k] = k
        <5>1. k \in 1..n
          BY <2>2, <4>1
        <5>2. QED
          BY <2>1, <3>7, <5>1 DEF PickedFrom, L
      <4>2. CASE k # n + 1
        BY <2>2, <3>1, <3>3, <4>1, <4>2
      <4>3. CASE k = n + 1
        <5>1. CASE n = 0
          BY <2>2, <3>1, <3>3, <4>3, <5>1
        <5>2. CASE n # 0
          <6>1. n \in 1..n /\ 1..n \subseteq places
            BY <2>2, <3>7, <4>3, <5>2
          <6>2. n <= L
            BY <2>1, <6>1 DEF PickedFrom, L
          <6>3. QED
            BY <2>2, <3>1, <3>3, <4>3, <6>2
        <5>3. QED
          BY <5>1, <5>2
      <4>4. QED
        BY <4>2, <4>3
    <3>8. PickedFrom(more, f[n + 1], places, seq, n + 1)
      <4>1. Len(f[n + 1]) <= n + 1
        BY <2>2, <3>1
      <4>2. QED
        BY <3>1, <3>3, <3>4, <3>5, <3>6, <3>7, <4>1 DEF PickedFrom
    <3>9. QED
      BY <2>2, <3>8 DEF T, N
  <2>6. QED
    BY <2>4, <2>5
<1>5. N \in T
  <2> HIDE DEF T, N
  <2>1. 0..N \subseteq T
    BY <1>2, <1>3, <1>4, UpTo
  <2>2. QED
    BY <1>2, <2>1
<1>6. QED
  BY <1>1a, <1>2, <1>5

LEMMA FirstFacts ==
  ASSUME NEW S, NEW seq \in Seq(S), NEW n \in Nat
  PROVE  /\ First(n, seq) \in Seq(S)
         /\ Len(First(n, seq)) = IF n <= Len(seq) THEN n ELSE Len(seq)
         /\ \A i \in 1..Len(First(n, seq)) : i \in 1..Len(seq) /\ First(n, seq)[i] = seq[i]
<1> DEFINE m == IF n <= Len(seq) THEN n ELSE Len(seq)
<1>1. Len(seq) \in Nat
  OBVIOUS
<1>2. Min({n, Len(seq)}) = m
  <2>1. m \in {n, Len(seq)} /\ \A y \in {n, Len(seq)} : m <= y
    BY <1>1
  <2>2. \A x \in {n, Len(seq)} : (\A y \in {n, Len(seq)} : x <= y) => x = m
    BY <1>1
  <2> HIDE DEF m
  <2>3. QED
    BY <2>1, <2>2 DEF Min
<1>3. First(n, seq) = SubSeq(seq, 1, m) /\ m \in 0..Len(seq)
  <2>1. m \in 0..Len(seq)
    BY <1>1
  <2>2. QED
    BY <1>2, <2>1 DEF First
<1> HIDE DEF m
<1>4. QED
  BY <1>1, <1>3 DEF m

LEMMA FirstIsInjective ==
  ASSUME NEW S, NEW seq \in Seq(S), NEW n \in Nat, IsInjective(seq)
  PROVE  IsInjective(First(n, seq))
<1>1. /\ DOMAIN First(n, seq) = 1..Len(First(n, seq)) /\ DOMAIN seq = 1..Len(seq)
      /\ \A i \in 1..Len(First(n, seq)) : i \in 1..Len(seq) /\ First(n, seq)[i] = seq[i]
  BY FirstFacts
<1>2. QED
  BY <1>1 DEF IsInjective

LEMMA DedupeFacts ==
  ASSUME NEW S, NEW seq \in Seq(S)
  PROVE  /\ Dedupe(seq) \in Seq(S) /\ IsInjective(Dedupe(seq))
         /\ seq # <<>> => Dedupe(seq) # <<>>
<1> DEFINE new == {i \in DOMAIN seq : \A j \in 1..i - 1 : seq[j] # seq[i]}
           out == At(new, seq)
<1>1. out = Dedupe(seq) /\ DOMAIN seq = 1..Len(seq) /\ Len(seq) \in Nat
  BY DEF Dedupe
<1>2. out \in Seq(S) /\ \E from : PickedFrom(from, out, new, seq, Len(seq))
  BY AtPicks
<1>3. PICK from : PickedFrom(from, out, new, seq, Len(seq))
  <2> HIDE DEF new, out
  <2>1. QED
    BY <1>2
<1>4. DOMAIN out = 1..Len(out) /\ Len(out) \in Nat
  <2> HIDE DEF new, out
  <2>1. QED
    BY <1>2
<1>5. ASSUME NEW i \in new, NEW j \in new, seq[i] = seq[j]
      PROVE  i = j
  <2>1. i \in Nat /\ j \in Nat /\ i \in 1..Len(seq) /\ j \in 1..Len(seq)
    BY <1>1
  <2>2. ~ i < j /\ ~ j < i
    BY <1>1, <1>5, <2>1
  <2>3. QED
    BY <2>1, <2>2
<1>6. 1 \in DOMAIN seq => 1 \in new
  OBVIOUS
<1> HIDE DEF new, out
<1>7. ASSUME NEW k \in 1..Len(out), NEW l \in 1..Len(out), out[k] = out[l]
      PROVE  k = l
  <2>1. /\ from[k] \in new /\ from[l] \in new
        /\ seq[from[k]] = out[k] /\ seq[from[l]] = out[l]
    BY <1>3 DEF PickedFrom
  <2>2. from[k] = from[l] /\ from[k] \in Nat
    <3>1. from[k] \in 1..Len(seq)
      BY <1>3 DEF PickedFrom
    <3>2. QED
      BY <1>1, <1>5, <1>7, <2>1, <3>1
  <2>3. ~ k < l /\ ~ l < k
    BY <1>3, <2>2 DEF PickedFrom
  <2>4. QED
    BY <1>4, <2>3
<1>8. IsInjective(out)
  BY <1>4, <1>7 DEF IsInjective
<1>9. ASSUME seq # <<>>
      PROVE  out # <<>>
  <2>1. 1 \in 1..Len(seq)
    BY <1>1, <1>9
  <2>2. PICK k \in 1..Len(out) : from[k] = 1
    BY <1>1, <1>3, <1>6, <2>1 DEF PickedFrom
  <2>3. QED
    BY <1>4, <2>2
<1>10. QED
  BY <1>1, <1>2, <1>8, <1>9

LEMMA FlattenType ==
  ASSUME NEW S, NEW seqs \in Seq(Seq(S))
  PROVE  FlattenSeq(seqs) \in Seq(S)
<1> DEFINE N == Len(seqs)
           V == Seq(S)
           Longer(n, before) == before \o seqs[n]
           step == [n \in 1..N |-> [before \in V |-> Longer(n, before)]]
           flatten[n \in 1..N] == IF n = 1 THEN seqs[n] ELSE flatten[n - 1] \o seqs[n]
           Recurs(g) == g = [n \in 1..N |-> IF n = 1 THEN seqs[n] ELSE g[n - 1] \o seqs[n]]
<1>1. N \in Nat /\ <<>> \in V /\ \A n \in 1..N : seqs[n] \in V
  OBVIOUS
<1>2. ASSUME NEW n \in 1..N, NEW before \in V
      PROVE  Longer(n, before) \in V
  BY <1>1
<1>3. step \in [1..N -> [V -> V]]
  <2> HIDE DEF N, V, Longer
  <2>1. ASSUME NEW n \in 1..N
        PROVE  [before \in V |-> Longer(n, before)] \in [V -> V]
    BY <1>2
  <2>2. QED
    BY <2>1
<1>4. \A n \in 1..N : \A before \in V : step[n][before] = before \o seqs[n]
  OBVIOUS
<1> HIDE DEF step
<1>5. PICK f : Recursion(f, N, V, <<>>, step)
  <2> HIDE DEF N, V
  <2>1. QED
    BY <1>1, <1>3, RecursionExists
<1>6. f \in [0..N -> V] /\ f[0] = <<>> /\ \A n \in 1..N : f[n] = f[n - 1] \o seqs[n]
  <2>1. /\ f \in [0..N -> V] /\ f[0] = <<>>
        /\ \A n \in 1..N : f[n] = step[n][f[n - 1]] /\ n - 1 \in 0..N
    BY <1>1, <1>5 DEF Recursion
  <2> HIDE DEF N, V
  <2>2. QED
    BY <1>4, <2>1
<1> DEFINE g == [n \in 1..N |-> f[n]]
<1>7. Recurs(g)
  <2>1. ASSUME NEW n \in 1..N
        PROVE  g[n] = IF n = 1 THEN seqs[n] ELSE g[n - 1] \o seqs[n]
    <3>1. CASE n = 1
      BY <1>1, <1>6, <3>1
    <3>2. CASE n # 1
      <4>1. n - 1 \in 1..N
        BY <1>1, <3>2
      <4>2. QED
        BY <1>6, <3>2, <4>1
    <3>3. QED
      BY <3>1, <3>2
  <2>2. QED
    BY <2>1
<1>8. Recurs(flatten)
  <2> HIDE DEF Recurs
  <2>1. flatten = CHOOSE h : Recurs(h)
    BY DEF Recurs
  <2>2. QED
    BY <1>7, <2>1
<1>9. FlattenSeq(seqs) = IF N = 0 THEN seqs ELSE flatten[N]
  BY DEF FlattenSeq
<1> HIDE DEF flatten
<1> DEFINE T == {n \in 0..N : n = 0 \/ flatten[n] \in V}
<1>10. \A n \in 0..N : n < N /\ n \in T => n + 1 \in T
  <2> SUFFICES ASSUME NEW n \in 0..N, n < N, n = 0 \/ flatten[n] \in V
               PROVE  flatten[n + 1] \in V
    BY <1>1
  <2>1. n + 1 \in 1..N /\ (n + 1) - 1 = n
    BY <1>1
  <2>2. flatten[n + 1] = IF n + 1 = 1 THEN seqs[n + 1] ELSE flatten[n] \o seqs[n + 1]
    BY <1>8, <2>1
  <2>3. QED
    BY <1>1, <1>2, <2>1, <2>2
<1>11. N = 0 \/ flatten[N] \in V
  <2>1. 0 \in T
    BY <1>1
  <2> HIDE DEF T
  <2>2. 0..N \subseteq T
    BY <1>1, <1>10, <2>1, UpTo
  <2>3. QED
    BY <1>1, <2>2 DEF T
<1>12. QED
  BY <1>1, <1>9, <1>11

LEMMA AtType ==
  ASSUME NEW S, NEW R, NEW seq \in Seq(S), NEW places,
         \A i \in 1..Len(seq) : i \in places => seq[i] \in R
  PROVE  At(places, seq) \in Seq(R)
<1> DEFINE out == At(places, seq)
<1>1. out \in Seq(S) /\ \E from : PickedFrom(from, out, places, seq, Len(seq))
  BY AtPicks
<1>2. PICK from : PickedFrom(from, out, places, seq, Len(seq))
  BY <1>1
<1> HIDE DEF out
<1>3. ASSUME NEW k \in 1..Len(out)
      PROVE  out[k] \in R
  <2>1. from[k] \in 1..Len(seq) /\ from[k] \in places /\ out[k] = seq[from[k]]
    BY <1>2 DEF PickedFrom
  <2>2. QED
    BY <2>1
<1>4. out \in Seq(R)
  <2>1. Len(out) \in Nat /\ out = [k \in 1..Len(out) |-> out[k]]
    BY <1>1
  <2>2. QED
    BY <1>3, <2>1
<1>5. QED
  BY <1>4 DEF out

\* A list without its repetitions, cut.
LEMMA CleanListFacts ==
  ASSUME NEW S, NEW seq \in Seq(S), seq # <<>>, NEW n \in Nat \ {0}
  PROVE  /\ First(n, Dedupe(seq)) \in Seq(S) /\ First(n, Dedupe(seq)) # <<>>
         /\ IsInjective(First(n, Dedupe(seq))) /\ Len(First(n, Dedupe(seq))) <= n
<1>1. PICK clean : clean = Dedupe(seq)
  OBVIOUS
<1>2. clean \in Seq(S) /\ clean # <<>> /\ IsInjective(clean)
  BY <1>1, DedupeFacts
<1>3. PICK out : out = First(n, clean)
  OBVIOUS
<1>4. /\ out \in Seq(S) /\ Len(out) = IF n <= Len(clean) THEN n ELSE Len(clean)
      /\ IsInjective(out)
  BY <1>2, <1>3, FirstFacts, FirstIsInjective
<1>5. Len(clean) \in Nat \ {0}
  BY <1>2
<1>6. Len(out) \in 1..n
  BY <1>4, <1>5
<1>7. Len(out) <= n /\ out # <<>>
  BY <1>4, <1>6
<1>8. QED
  BY <1>1, <1>3, <1>4, <1>7

\* Names and methods are there to be searched for, the library left out.
LEMMA BuildQueriesFacts ==
  ASSUME NEW analysis \in Analyses
  PROVE  /\ BuildQueries(analysis) \in Seq(Words) /\ BuildQueries(analysis) # <<>>
         /\ IsInjective(BuildQueries(analysis)) /\ Len(BuildQueries(analysis)) <= 5
<1> DEFINE methods(a) == At({i \in DOMAIN a.methods : a.methods[i] # "library"},
                            First(2, a.methods))
           names == [i \in DOMAIN First(2, analysis.approaches) |->
                        <<analysis.approaches[i].name>> \o methods(analysis.approaches[i])]
           terms == FlattenSeq(names) \o First(2, analysis.questions)
           some == IF terms # <<>> THEN terms ELSE First(2, analysis.data)
           raw == IF some # <<>> THEN some ELSE <<"problem">>
           all == IF analysis.chinese THEN Append(raw, "chinese") ELSE raw
<1>1. BuildQueries(analysis) = First(5, Dedupe(all))
  BY DEF BuildQueries
<1> DEFINE Approach == [name : Words, methods : Seq(Words \cup {"library"})]
<1>2. /\ analysis.approaches \in Seq(Approach)
      /\ analysis.questions \in Seq(Words) /\ analysis.data \in Seq(Words)
  <2>1. analysis \in Analysis
    BY SearcherAssumption
  <2>2. QED
    BY <2>1 DEF Analysis
<1>3. ASSUME NEW a \in Approach
      PROVE  a.name \in Words /\ methods(a) \in Seq(Words)
  <2> DEFINE W == Words \cup {"library"}
             cut == First(2, a.methods)
             places == {i \in DOMAIN a.methods : a.methods[i] # "library"}
  <2>1. a.name \in Words /\ a.methods \in Seq(W)
    OBVIOUS
  <2> HIDE DEF W
  <2>2. cut \in Seq(W) /\ \A i \in 1..Len(cut) : i \in 1..Len(a.methods) /\ cut[i] = a.methods[i]
    BY <2>1, FirstFacts
  <2>3. \A i \in 1..Len(a.methods) : a.methods[i] \in W
    BY <2>1
  <2> HIDE DEF cut
  <2>4. ASSUME NEW i \in 1..Len(cut), i \in places
        PROVE  cut[i] \in Words
    BY <2>2, <2>3, <2>4 DEF W
  <2> HIDE DEF places
  <2>5. At(places, cut) \in Seq(Words)
    BY <2>2, <2>4, AtType
  <2>6. QED
    BY <2>1, <2>5 DEF places, cut
<1>4. names \in Seq(Seq(Words))
  <2> DEFINE cut == First(2, analysis.approaches)
  <2>1. /\ cut \in Seq(Approach)
        /\ \A i \in 1..Len(cut) : i \in 1..Len(analysis.approaches)
                                   /\ cut[i] = analysis.approaches[i]
    <3> HIDE DEF Approach
    <3>1. QED
      BY <1>2, FirstFacts
  <2>2. DOMAIN cut = 1..Len(cut) /\ Len(cut) \in Nat
    <3> HIDE DEF cut, Approach
    <3>1. QED
      BY <2>1
  <2> HIDE DEF cut, methods, Approach
  <2>3. ASSUME NEW i \in 1..Len(cut)
        PROVE  <<analysis.approaches[i].name>> \o methods(analysis.approaches[i]) \in Seq(Words)
    <3>1. analysis.approaches[i] \in Approach
      BY <1>2, <2>1
    <3>2. analysis.approaches[i].name \in Words /\ methods(analysis.approaches[i]) \in Seq(Words)
      BY <1>3, <3>1
    <3>3. QED
      BY <3>2
  <2>4. names = [i \in 1..Len(cut) |->
                    <<analysis.approaches[i].name>> \o methods(analysis.approaches[i])]
    BY <2>2 DEF cut
  <2> HIDE DEF names
  <2>5. QED
    BY <2>2, <2>3, <2>4
<1>5. all \in Seq(Words) /\ all # <<>>
  <2> HIDE DEF names
  <2>1. /\ FlattenSeq(names) \in Seq(Words)
        /\ First(2, analysis.questions) \in Seq(Words) /\ First(2, analysis.data) \in Seq(Words)
    BY <1>2, <1>4, FlattenType, FirstFacts
  <2>2. terms \in Seq(Words)
    BY <2>1
  <2> HIDE DEF terms
  <2>3. some \in Seq(Words)
    BY <2>1, <2>2
  <2> HIDE DEF some
  <2>4. raw \in Seq(Words) /\ raw # <<>>
    BY <2>3, SearcherAssumption
  <2> HIDE DEF raw
  <2>5. Append(raw, "chinese") \in Seq(Words) /\ Append(raw, "chinese") # <<>>
    BY <2>4, SearcherAssumption
  <2>6. QED
    BY <2>4, <2>5
<1> HIDE DEF all
<1>6. PICK words : words = all
  OBVIOUS
<1>7. 5 \in Nat \ {0} /\ words \in Seq(Words) /\ words # <<>>
  BY <1>5, <1>6
<1>8. /\ First(5, Dedupe(words)) \in Seq(Words) /\ First(5, Dedupe(words)) # <<>>
      /\ IsInjective(First(5, Dedupe(words))) /\ Len(First(5, Dedupe(words))) <= 5
  BY <1>7, CleanListFacts
<1>9. QED
  BY <1>1, <1>6, <1>8

-----------------------------------------------------------------------------
(* Papers that are kept once.                                              *)

Taking(papers, keys, t, n) ==
  IF n = 0 THEN [seen |-> {}, papers |-> <<>>]
  ELSE IF keys[papers[n]] \cap t.seen = {}
       THEN [seen |-> t.seen \cup keys[papers[n]], papers |-> Append(t.papers, papers[n])]
       ELSE t

\* What is remembered are the keys of the papers taken, no two of which share
\* one; of each of the first n papers there is one with a key of it.
TakenFrom(t, papers, keys, n) ==
  /\ \A key : key \in t.seen <=> \E k \in 1..Len(t.papers) : key \in keys[t.papers[k]]
  /\ Distinct(t.papers, keys)
  /\ \A i \in 1..n : SharesKey(t.papers, papers[i], keys)

LEMMA TakingStep ==
  ASSUME NEW P, NEW papers \in Seq(P), NEW keys, \A p \in P : keys[p] # {},
         NEW n \in 1..Len(papers), NEW t, t.papers \in Seq(P),
         TakenFrom(t, papers, keys, n - 1)
  PROVE  /\ Taking(papers, keys, t, n).papers \in Seq(P)
         /\ TakenFrom(Taking(papers, keys, t, n), papers, keys, n)
<1>1. papers[n] \in P /\ n \in Nat /\ n # 0
  OBVIOUS
<1>2. PICK p : p = papers[n]
  OBVIOUS
<1>3. PICK old \in Seq(P) : old = t.papers
  OBVIOUS
<1>4. Len(old) \in Nat /\ DOMAIN old = 1..Len(old)
  BY <1>3
<1>5. \A i \in 1..n : i # n => i \in 1..n - 1
  BY <1>1
<1>6. CASE keys[p] \cap t.seen = {}
  <2>1. PICK new : new = Append(old, p)
    OBVIOUS
  <2>2. /\ Taking(papers, keys, t, n).papers = new
        /\ Taking(papers, keys, t, n).seen = t.seen \cup keys[p]
    BY <1>1, <1>2, <1>3, <1>6, <2>1 DEF Taking
  <2>3. /\ new \in Seq(P) /\ Len(new) = Len(old) + 1 /\ DOMAIN new = 1..Len(old) + 1
        /\ new[Len(old) + 1] = p /\ \A k \in 1..Len(old) : new[k] = old[k]
    BY <1>1, <1>2, <1>3, <1>4, <2>1
  <2>4. \A k \in 1..Len(old) + 1 : k = Len(old) + 1 \/ k \in 1..Len(old)
    BY <1>4
  <2>5. ASSUME NEW key
        PROVE  key \in t.seen \cup keys[p]
                 <=> \E k \in 1..Len(old) + 1 : key \in keys[new[k]]
    <3>1. key \in t.seen <=> \E k \in 1..Len(old) : key \in keys[old[k]]
      BY <1>3 DEF TakenFrom
    <3>2. Len(old) + 1 \in 1..Len(old) + 1 /\ 1..Len(old) \subseteq 1..Len(old) + 1
      BY <1>4
    <3>3. QED
      BY <2>3, <2>4, <3>1, <3>2
  <2>6. \A k \in 1..Len(old) : keys[old[k]] \cap keys[p] = {}
    <3>1. \A k \in 1..Len(old) : keys[old[k]] \subseteq t.seen
      BY <1>3 DEF TakenFrom
    <3>2. QED
      BY <1>6, <3>1
  <2>7. Distinct(new, keys)
    <3>1. \A k, l \in 1..Len(old) : k # l => keys[old[k]] \cap keys[old[l]] = {}
      BY <1>3, <1>4 DEF TakenFrom, Distinct
    <3>2. SUFFICES ASSUME NEW k \in 1..Len(old) + 1, NEW l \in 1..Len(old) + 1, k # l
                   PROVE  keys[new[k]] \cap keys[new[l]] = {}
      BY <2>3 DEF Distinct
    <3>3. CASE k \in 1..Len(old) /\ l \in 1..Len(old)
      <4>1. new[k] = old[k] /\ new[l] = old[l]
        BY <2>3, <3>3
      <4>2. QED
        BY <3>1, <3>2, <3>3, <4>1
    <3>4. CASE k = Len(old) + 1 /\ l \in 1..Len(old)
      <4>1. new[k] = p /\ new[l] = old[l]
        BY <2>3, <3>4
      <4>2. keys[old[l]] \cap keys[p] = {}
        BY <2>6, <3>4
      <4>3. QED
        BY <4>1, <4>2
    <3>5. CASE k \in 1..Len(old) /\ l = Len(old) + 1
      <4>1. new[k] = old[k] /\ new[l] = p
        BY <2>3, <3>5
      <4>2. QED
        BY <2>6, <3>5, <4>1
    <3>6. QED
      BY <2>4, <3>2, <3>3, <3>4, <3>5
  <2>8. ASSUME NEW i \in 1..n
        PROVE  SharesKey(new, papers[i], keys)
    <3>1. CASE i = n
      <4>1. Len(old) + 1 \in DOMAIN new /\ keys[p] # {}
        BY <1>1, <1>2, <1>4, <2>3
      <4>2. QED
        BY <1>2, <2>3, <3>1, <4>1 DEF SharesKey
    <3>2. CASE i # n
      <4>1. PICK k \in 1..Len(old) : keys[old[k]] \cap keys[papers[i]] # {}
        BY <1>3, <1>4, <1>5, <3>2 DEF TakenFrom, SharesKey
      <4>2. k \in DOMAIN new /\ new[k] = old[k]
        BY <1>4, <2>3
      <4>3. QED
        BY <4>1, <4>2 DEF SharesKey
    <3>3. QED
      BY <3>1, <3>2
  <2>9. QED
    BY <2>2, <2>3, <2>5, <2>7, <2>8 DEF TakenFrom
<1>7. CASE keys[p] \cap t.seen # {}
  <2>1. Taking(papers, keys, t, n) = t
    BY <1>1, <1>2, <1>7 DEF Taking
  <2>2. SharesKey(t.papers, p, keys)
    <3>1. PICK key : key \in keys[p] /\ key \in t.seen
      BY <1>7
    <3>2. PICK k \in 1..Len(t.papers) : key \in keys[t.papers[k]]
      BY <3>1 DEF TakenFrom
    <3>3. k \in DOMAIN t.papers
      BY <1>3, <1>4
    <3>4. QED
      BY <3>1, <3>2, <3>3 DEF SharesKey
  <2>3. \A i \in 1..n : SharesKey(t.papers, papers[i], keys)
    BY <1>2, <1>5, <2>2 DEF TakenFrom
  <2>4. QED
    BY <2>1, <2>3 DEF TakenFrom
<1>8. QED
  BY <1>6, <1>7

LEMMA TakeUniqueFacts ==
  ASSUME NEW P, NEW papers \in Seq(P), NEW keys, \A p \in P : keys[p] # {}
  PROVE  /\ TakeUnique(papers, keys) \in Seq(P)
         /\ Distinct(TakeUnique(papers, keys), keys)
         /\ \A i \in 1..Len(papers) : SharesKey(TakeUnique(papers, keys), papers[i], keys)
<1> DEFINE N == Len(papers)
           V == [seen : SUBSET UNION {keys[p] : p \in P}, papers : Seq(P)]
           none == [seen |-> {}, papers |-> <<>>]
           step == [n \in 1..N |-> [t \in V |-> Taking(papers, keys, t, n)]]
           taken[n \in 0..N] ==
             IF n = 0 THEN [seen |-> {}, papers |-> <<>>]
             ELSE LET before == taken[n - 1] IN
                  IF keys[papers[n]] \cap before.seen = {}
                  THEN [seen |-> before.seen \cup keys[papers[n]],
                        papers |-> Append(before.papers, papers[n])]
                  ELSE before
           Recurs(g) == g = [n \in 0..N |->
             IF n = 0 THEN [seen |-> {}, papers |-> <<>>]
             ELSE LET before == g[n - 1] IN
                  IF keys[papers[n]] \cap before.seen = {}
                  THEN [seen |-> before.seen \cup keys[papers[n]],
                        papers |-> Append(before.papers, papers[n])]
                  ELSE before]
           RecursT(g) == g = [n \in 0..N |-> Taking(papers, keys, g[n - 1], n)]
<1>1. N \in Nat /\ none \in V /\ \A n \in 1..N : papers[n] \in P
  OBVIOUS
<1>2. ASSUME NEW n \in 1..N, NEW t \in V
      PROVE  Taking(papers, keys, t, n) \in V
  <2>1. /\ t.papers \in Seq(P) /\ t.seen \subseteq UNION {keys[p] : p \in P}
        /\ papers[n] \in P /\ n # 0
    BY <1>1
  <2>2. Append(t.papers, papers[n]) \in Seq(P)
    BY <2>1
  <2>3. t.seen \cup keys[papers[n]] \subseteq UNION {keys[p] : p \in P}
    BY <2>1
  <2>4. QED
    BY <2>1, <2>2, <2>3 DEF Taking
<1>3. step \in [1..N -> [V -> V]]
  <2> HIDE DEF N, V
  <2>1. ASSUME NEW n \in 1..N
        PROVE  [t \in V |-> Taking(papers, keys, t, n)] \in [V -> V]
    BY <1>2
  <2>2. QED
    BY <2>1
<1>4. \A n \in 1..N : \A t \in V : step[n][t] = Taking(papers, keys, t, n)
  <2> HIDE DEF N, V
  <2>1. QED
    OBVIOUS
<1> HIDE DEF step
<1>5. PICK f : Recursion(f, N, V, none, step)
  <2> HIDE DEF N, V, none
  <2>1. QED
    BY <1>1, <1>3, RecursionExists
<1>6. RecursT(f)
  <2> HIDE DEF V, N, none
  <2>1. f \in [0..N -> V] /\ f[0] = none /\ \A n \in 1..N : f[n] = step[n][f[n - 1]]
    BY <1>5 DEF Recursion
  <2>2. ASSUME NEW n \in 0..N
        PROVE  f[n] = Taking(papers, keys, f[n - 1], n)
    <3>1. CASE n = 0
      BY <2>1, <3>1 DEF Taking, none
    <3>2. CASE n # 0
      <4>1. n \in 1..N /\ n - 1 \in 0..N
        BY <1>1, <3>2
      <4>2. f[n - 1] \in V
        BY <2>1, <4>1
      <4>3. QED
        BY <1>4, <2>1, <4>1, <4>2
    <3>3. QED
      BY <3>1, <3>2
  <2>3. QED
    BY <2>1, <2>2
<1>7. \A g : RecursT(g) <=> Recurs(g)
  BY DEF Taking
<1>8. RecursT(taken)
  <2> HIDE DEF Recurs, RecursT
  <2>1. taken = CHOOSE g : Recurs(g)
    BY DEF Recurs
  <2>2. QED
    BY <1>6, <1>7, <2>1
<1>9. TakeUnique(papers, keys) = taken[N].papers
  BY DEF TakeUnique
<1> HIDE DEF taken, Recurs
<1>10. \A n \in 0..N : taken[n] = Taking(papers, keys, taken[n - 1], n)
  <2> HIDE DEF N
  <2>1. QED
    BY <1>8
<1> HIDE DEF RecursT, V, none
<1> DEFINE T == {n \in 0..N : taken[n].papers \in Seq(P) /\ TakenFrom(taken[n], papers, keys, n)}
<1>11. 0 \in T
  <2> HIDE DEF N
  <2>1. taken[0] = [seen |-> {}, papers |-> <<>>]
    <3>1. 0 \in 0..N
      BY <1>1
    <3>2. taken[0] = Taking(papers, keys, taken[0 - 1], 0)
      BY <1>10, <3>1
    <3>3. QED
      BY <3>2 DEF Taking
  <2>2. taken[0].papers = <<>> /\ taken[0].seen = {}
    BY <2>1
  <2>3. TakenFrom(taken[0], papers, keys, 0)
    BY <2>2 DEF TakenFrom, Distinct
  <2>4. taken[0].papers \in Seq(P) /\ 0 \in 0..N
    BY <1>1, <2>2
  <2>5. QED
    BY <2>3, <2>4
<1>12. ASSUME NEW n \in 0..N, n < N, n \in T
       PROVE  n + 1 \in T
  <2>1. n + 1 \in 1..N /\ n + 1 \in 0..N /\ (n + 1) - 1 = n
    BY <1>1, <1>12
  <2>2. taken[n + 1] = Taking(papers, keys, taken[n], n + 1)
    BY <1>10, <2>1
  <2>3. taken[n].papers \in Seq(P) /\ TakenFrom(taken[n], papers, keys, (n + 1) - 1)
    BY <1>12, <2>1
  <2>4. /\ Taking(papers, keys, taken[n], n + 1).papers \in Seq(P)
        /\ TakenFrom(Taking(papers, keys, taken[n], n + 1), papers, keys, n + 1)
    BY <2>1, <2>3, TakingStep
  <2>5. QED
    BY <2>1, <2>2, <2>4
<1>13. N \in T
  <2> HIDE DEF T, N
  <2>1. 0..N \subseteq T
    BY <1>1, <1>11, <1>12, UpTo
  <2>2. QED
    BY <1>1, <2>1
<1>14. QED
  BY <1>9, <1>13 DEF TakenFrom

-----------------------------------------------------------------------------
(***************************************************************************)
(* Searcher.  The inductive invariant.                                     *)
(***************************************************************************)

Texts == {Missing, Torn} \cup [is : {"whole"}, of : Papers, length : {"short", "long"}]

FetchStates == {"at work", "text", "none"}

SearchTypes ==
  /\ phase \in {"refine", "gather", "fallback", "synthesize", "enrich", "compact",
                "returned", "written", "failed"}
  /\ queries \in Seq(Words) /\ IsInjective(queries) /\ Len(queries) <= 6
  /\ phase \in {"refine", "gather", "fallback"} => queries # <<>>
  /\ running \subseteq Sources /\ found \in [Sources -> Seq(Papers)]
  /\ unique \in [scholarly : Seq(Papers), web : Seq(Papers)]
  /\ findings \in [papers : Seq(Papers), paths : Seq(Nat)]
  /\ Len(findings.papers) <= MaxChosen
  /\ fetch \in Seq(FetchStates) /\ Len(fetch) <= TopN
  /\ landed \in Seq(1..Len(fetch)) /\ todo \in Seq(Nat)
  /\ disk \in [1..TopN -> Texts]
  /\ failures \in 0..MaxFailures
  /\ revisions \in 0..MaxRevisions /\ revised \in BOOLEAN
  /\ searchFaults \in 0..MaxSearchFaults

\* What is not there yet, or not any more, in a phase.
Phases ==
  /\ phase \notin {"gather", "fallback"} => running = {}
  /\ phase \in {"refine", "gather", "fallback", "synthesize"} =>
       fetch = <<>> /\ \A n \in 1..TopN : disk[n] = Missing
  /\ phase \notin {"compact", "returned", "written", "failed"} => findings.paths = <<>>
  /\ phase \notin {"enrich", "failed"} => \A n \in 1..Len(fetch) : fetch[n] # "at work"
  /\ phase \notin {"returned", "written"} => ~ revised

\* A list of files with a text.
OfTexts(files) == \A k \in 1..Len(files) : files[k] \in 1..Len(fetch) /\ fetch[files[k]] = "text"

\* Every file that waits to be shortened, or is announced and no revision wrote
\* the paths anew, has a text, which is whole as long as the stage has not failed;
\* a whole text is that of the paper with its number, as long as the list of
\* papers is the one it was fetched for.
Files ==
  /\ revised \/ OfTexts(findings.paths)
  /\ OfTexts(todo)
  /\ phase # "failed" => \A n \in 1..Len(fetch) : fetch[n] = "text" => disk[n].is = "whole"
  /\ ~ revised =>
       /\ Len(fetch) <= Len(findings.papers)
       /\ \A n \in 1..Len(fetch) : disk[n].is = "whole" => disk[n].of = findings.papers[n]

\* Up to the first paper without a text, the k-th path is that of the k-th paper.
NoGapsBefore ==
  phase # "failed" /\ ~ revised =>
    \A k \in 1..Len(findings.paths) :
      (\A j \in 1..k : fetch[j] = "text") => findings.paths[k] = k

\* Whatever paths a revision wrote, no torn file is behind them.
Listed ==
  /\ \A k \in 1..Len(findings.paths) : findings.paths[k] \in 0..TopN
  /\ phase # "failed" => \A n \in 1..TopN : disk[n].is # "torn"

SearchIInv == /\ SearchTypes /\ Phases /\ Files /\ NoGapsBefore /\ Listed
              /\ KeptOnce /\ TextsAreOfTheirPapers

-----------------------------------------------------------------------------
(* What the steps of the search do.                                        *)

LEMMA Bounds ==
  /\ {Threshold, TopN, MaxChosen, MaxFailures, MaxRevisions, MaxSearchFaults} \subseteq Nat
  /\ \A source \in Sources : DOMAIN Hits[source] = Words
  /\ \A source \in Sources : \A word \in Words : Hits[source][word] \in Seq(Papers)
<1>1. ASSUME NEW source \in Sources
      PROVE  AllHits(source) \subseteq Papers
  BY DEF Papers
<1>2. ASSUME NEW source \in Sources, NEW word \in Words
      PROVE  Hits[source][word] \in Seq(Papers)
  <2>1. Hits[source][word] \in Seq(AllHits(source))
    BY SearcherAssumption
  <2>2. QED
    BY <1>1, <2>1, SeqMonotonic
<1>3. QED
  BY <1>2, SearcherAssumption

LEMMA ReturnsFacts ==
  ASSUME SearchTypes, NEW source \in Sources, Returns(source)
  PROVE  /\ running' = running \ {source} /\ found' \in [Sources -> Seq(Papers)]
         /\ UNCHANGED <<phase, queries, config, unique, findings, fetchVars, compactVars,
                        reviewVars, searchFaults>>
<1>1. PICK answered : found' = [found EXCEPT ![source] =
                       FlattenSeq([i \in DOMAIN queries |->
                           IF queries[i] \in answered THEN Hits[source][queries[i]]
                                                      ELSE <<>>])]
  BY DEF Returns
<1> DEFINE hits == [i \in DOMAIN queries |->
                       IF queries[i] \in answered THEN Hits[source][queries[i]] ELSE <<>>]
<1>2. queries \in Seq(Words) /\ found \in [Sources -> Seq(Papers)]
  BY DEF SearchTypes
<1>3. DOMAIN queries = 1..Len(queries) /\ Len(queries) \in Nat
      /\ \A i \in 1..Len(queries) : queries[i] \in Words
  BY <1>2
<1>4. \A i \in 1..Len(queries) :
        (IF queries[i] \in answered THEN Hits[source][queries[i]] ELSE <<>>) \in Seq(Papers)
  <2>1. <<>> \in Seq(Papers)
    OBVIOUS
  <2>2. QED
    BY <1>3, <2>1, Bounds
<1>5. hits \in Seq(Seq(Papers))
  BY <1>3, <1>4
<1> HIDE DEF hits
<1>6. FlattenSeq(hits) \in Seq(Papers)
  BY <1>5, FlattenType
<1>7. found' = [found EXCEPT ![source] = FlattenSeq(hits)]
  BY <1>1 DEF hits
<1>8. found' \in [Sources -> Seq(Papers)]
  BY <1>2, <1>6, <1>7
<1>9. QED
  BY <1>8 DEF Returns

LEMMA KeysAreNotEmpty ==
  \A paper \in Papers : ScholarKeys[paper] # {} /\ WebKeys[paper] # {}
BY DEF ScholarKeys, WebKeys

\* The papers of a source, compared with those of the sources before it.
LEMMA JoinedFacts ==
  ASSUME NEW P, NEW a \in Seq(P), NEW b \in Seq(P), NEW keys, \A p \in P : keys[p] # {}
  PROVE  /\ TakeUnique(a \o b, keys) \in Seq(P) /\ Distinct(TakeUnique(a \o b, keys), keys)
         /\ \A i \in 1..Len(a) : SharesKey(TakeUnique(a \o b, keys), a[i], keys)
         /\ \A i \in 1..Len(b) : SharesKey(TakeUnique(a \o b, keys), b[i], keys)
<1>1. PICK all : all = a \o b
  OBVIOUS
<1>2. /\ all \in Seq(P) /\ Len(all) = Len(a) + Len(b) /\ Len(a) \in Nat /\ Len(b) \in Nat
      /\ \A i \in 1..Len(a) : all[i] = a[i]
      /\ \A i \in 1..Len(b) : all[Len(a) + i] = b[i]
  BY <1>1
<1>3. PICK kept : kept = TakeUnique(all, keys)
  OBVIOUS
<1>4. /\ kept \in Seq(P) /\ Distinct(kept, keys)
      /\ \A i \in 1..Len(all) : SharesKey(kept, all[i], keys)
  BY <1>2, <1>3, TakeUniqueFacts
<1>5. ASSUME NEW i \in 1..Len(a)
      PROVE  SharesKey(kept, a[i], keys)
  <2>1. i \in 1..Len(all) /\ all[i] = a[i]
    BY <1>2
  <2>2. QED
    BY <1>4, <2>1
<1>6. ASSUME NEW i \in 1..Len(b)
      PROVE  SharesKey(kept, b[i], keys)
  <2>1. Len(a) + i \in 1..Len(all) /\ all[Len(a) + i] = b[i]
    BY <1>2
  <2>2. QED
    BY <1>4, <2>1
<1>7. QED
  BY <1>1, <1>3, <1>4, <1>5, <1>6

LEMMA MergeFacts ==
  ASSUME SearchTypes, Merge
  PROVE  unique' \in [scholarly : Seq(Papers), web : Seq(Papers)] /\ KeptOnce'
<1>1. PICK arxiv \in Seq(Papers) : arxiv = found["arxiv"]
  BY DEF SearchTypes, Sources, Scholarly
<1>2. PICK openalex \in Seq(Papers) : openalex = found["openalex"]
  BY DEF SearchTypes, Sources, Scholarly
<1>3. PICK crossref \in Seq(Papers) : crossref = found["crossref"]
  BY DEF SearchTypes, Sources, Scholarly
<1>4. PICK tavily \in Seq(Papers) : tavily = found["tavily"]
  BY DEF SearchTypes, Sources, Web
<1>5. PICK pages \in Seq(Papers) : pages = found["web"]
  BY DEF SearchTypes, Sources, Web
<1>6. PICK two : two = arxiv \o openalex
  OBVIOUS
<1>7. /\ two \in Seq(Papers) /\ Len(two) = Len(arxiv) + Len(openalex)
      /\ Len(arxiv) \in Nat /\ Len(openalex) \in Nat
      /\ \A i \in 1..Len(arxiv) : two[i] = arxiv[i]
      /\ \A i \in 1..Len(openalex) : two[Len(arxiv) + i] = openalex[i]
  BY <1>6
<1>8. PICK works : works = TakeUnique(two \o crossref, ScholarKeys)
  OBVIOUS
<1>9. /\ works \in Seq(Papers) /\ Distinct(works, ScholarKeys)
      /\ \A i \in 1..Len(two) : SharesKey(works, two[i], ScholarKeys)
      /\ \A i \in 1..Len(crossref) : SharesKey(works, crossref[i], ScholarKeys)
  BY <1>7, <1>8, JoinedFacts, KeysAreNotEmpty
<1>10. \A i \in 1..Len(arxiv) : SharesKey(works, arxiv[i], ScholarKeys)
  <2>1. \A i \in 1..Len(arxiv) : i \in 1..Len(two)
    BY <1>7
  <2>2. QED
    BY <1>7, <1>9, <2>1
<1>11. \A i \in 1..Len(openalex) : SharesKey(works, openalex[i], ScholarKeys)
  <2>1. \A i \in 1..Len(openalex) : Len(arxiv) + i \in 1..Len(two)
    BY <1>7
  <2>2. QED
    BY <1>7, <1>9, <2>1
<1>12. PICK sites : sites = TakeUnique(tavily \o pages, WebKeys)
  OBVIOUS
<1>13. /\ sites \in Seq(Papers) /\ Distinct(sites, WebKeys)
       /\ \A i \in 1..Len(tavily) : SharesKey(sites, tavily[i], WebKeys)
       /\ \A i \in 1..Len(pages) : SharesKey(sites, pages[i], WebKeys)
  BY <1>12, JoinedFacts, KeysAreNotEmpty
<1>14. unique' = [scholarly |-> works, web |-> sites] /\ found' = found
  BY <1>1, <1>2, <1>3, <1>4, <1>5, <1>6, <1>8, <1>12 DEF Merge, UniqueScholarly, UniqueWeb
<1>15. unique'.scholarly = works /\ unique'.web = sites
  BY <1>14
<1>16. ASSUME NEW source \in Scholarly, NEW i \in DOMAIN found[source]
       PROVE  SharesKey(works, found[source][i], ScholarKeys)
  <2>1. DOMAIN arxiv = 1..Len(arxiv) /\ DOMAIN openalex = 1..Len(openalex)
        /\ DOMAIN crossref = 1..Len(crossref)
    OBVIOUS
  <2>2. source = "arxiv" \/ source = "openalex" \/ source = "crossref"
    BY DEF Scholarly
  <2>3. QED
    BY <1>1, <1>2, <1>3, <1>9, <1>10, <1>11, <1>16, <2>1, <2>2
<1>17. ASSUME NEW source \in Web, NEW i \in DOMAIN found[source]
       PROVE  SharesKey(sites, found[source][i], WebKeys)
  <2>1. DOMAIN tavily = 1..Len(tavily) /\ DOMAIN pages = 1..Len(pages)
    OBVIOUS
  <2>2. source = "tavily" \/ source = "web"
    BY DEF Web
  <2>3. QED
    BY <1>4, <1>5, <1>13, <1>17, <2>1, <2>2
<1>18. KeptOnce'
  BY <1>9, <1>13, <1>14, <1>15, <1>16, <1>17 DEF KeptOnce
<1>19. QED
  BY <1>9, <1>13, <1>14, <1>18

\* A selection of papers is a list of them, no longer than asked for.
LEMMA SelectionFacts ==
  ASSUME NEW P, NEW papers \in Seq(P), NEW max \in Nat, NEW chosen,
         chosen \in Selections(papers, max)
  PROVE  chosen \in Seq(P) /\ Len(chosen) <= max
<1>1. PICK n \in 0..max : chosen \in [1..n -> ToSet(papers)]
  BY DEF Selections
<1>2. ToSet(papers) \subseteq P
  BY DEF ToSet
<1>3. n \in Nat /\ chosen \in [1..n -> P]
  BY <1>1, <1>2
<1>4. chosen \in Seq(P) /\ Len(chosen) = n
  BY <1>3
<1>5. QED
  BY <1>1, <1>4

LEMMA SynthesizeFacts ==
  ASSUME SearchTypes, Phases, Synthesize
  PROVE  /\ findings' \in [papers : Seq(Papers), paths : Seq(Nat)]
         /\ findings'.paths = <<>> /\ Len(findings'.papers) <= MaxChosen
         /\ fetch' \in Seq(FetchStates) /\ Len(fetch') <= TopN
         /\ \A n \in 1..Len(fetch') : fetch'[n] = "at work"
         /\ Len(fetch') <= Len(findings'.papers)
         /\ phase' = "enrich" \/ (phase' = "returned" /\ fetch' = <<>>)
<1>1. PICK papers \in Selections(unique.scholarly \o unique.web, MaxChosen) :
          /\ findings' = [papers |-> papers, paths |-> <<>>]
          /\ IF papers # <<>> /\ config.dir
             THEN /\ phase' = "enrich"
                  /\ fetch' = [i \in DOMAIN First(TopN, papers) |-> "at work"]
             ELSE phase' = "returned" /\ UNCHANGED fetch
  BY DEF Synthesize
<1>2. TopN \in Nat /\ MaxChosen \in Nat
  BY Bounds
<1>3. papers \in Seq(Papers) /\ Len(papers) <= MaxChosen
  <2>1. unique.scholarly \in Seq(Papers) /\ unique.web \in Seq(Papers)
    BY DEF SearchTypes
  <2>2. PICK works \in Seq(Papers), pages \in Seq(Papers) :
           works = unique.scholarly /\ pages = unique.web
    BY <2>1
  <2>3. PICK all : all = works \o pages
    OBVIOUS
  <2>4. all \in Seq(Papers)
    BY <2>3
  <2>4a. papers \in Selections(all, MaxChosen)
    BY <1>1, <2>2, <2>3
  <2>5. QED
    BY <1>2, <2>4, <2>4a, SelectionFacts
<1>4. PICK cut : cut = First(TopN, papers)
  OBVIOUS
<1>5. cut \in Seq(Papers) /\ Len(cut) <= TopN /\ Len(cut) <= Len(papers)
  <2>1. cut \in Seq(Papers) /\ Len(cut) = IF TopN <= Len(papers) THEN TopN ELSE Len(papers)
    BY <1>2, <1>3, <1>4, FirstFacts
  <2>2. Len(papers) \in Nat
    BY <1>3
  <2>3. QED
    BY <1>2, <2>1, <2>2
<1>6. fetch = <<>>
  BY DEF Phases, Synthesize
<1>7. fetch' = [i \in DOMAIN cut |-> "at work"] \/ fetch' = <<>>
  BY <1>1, <1>4, <1>6
<1>8. /\ fetch' \in Seq(FetchStates) /\ Len(fetch') <= TopN /\ Len(fetch') <= Len(papers)
      /\ \A n \in 1..Len(fetch') : fetch'[n] = "at work"
  <2>1. DOMAIN cut = 1..Len(cut) /\ Len(cut) \in Nat /\ Len(papers) \in Nat
    BY <1>3, <1>5
  <2>2. CASE fetch' = <<>>
    BY <1>2, <2>1, <2>2
  <2>3. CASE fetch' = [i \in DOMAIN cut |-> "at work"]
    <3>1. "at work" \in FetchStates
      BY DEF FetchStates
    <3>2. fetch' = [i \in 1..Len(cut) |-> "at work"]
      BY <2>1, <2>3
    <3>3. fetch' \in Seq(FetchStates) /\ Len(fetch') = Len(cut)
      <4>1. PICK m \in Nat : m = Len(cut)
        BY <2>1
      <4>2. PICK g : g = [i \in 1..m |-> "at work"]
        OBVIOUS
      <4>3. g \in [1..m -> FetchStates]
        BY <3>1, <4>2
      <4>4. g \in Seq(FetchStates) /\ Len(g) = m
        BY <4>1, <4>3
      <4>5. QED
        BY <3>2, <4>1, <4>2, <4>4
    <3>4. \A n \in 1..Len(fetch') : fetch'[n] = "at work"
      BY <3>2, <3>3
    <3>5. QED
      BY <1>5, <3>3, <3>4
  <2>4. QED
    BY <1>7, <2>2, <2>3
<1>9. findings'.papers = papers /\ findings'.paths = <<>>
  BY <1>1
<1>10. findings' \in [papers : Seq(Papers), paths : Seq(Nat)]
  <2>1. <<>> \in Seq(Nat)
    OBVIOUS
  <2>2. QED
    BY <1>1, <1>3, <2>1
<1>11. phase' = "enrich" \/ (phase' = "returned" /\ fetch' = <<>>)
  BY <1>1, <1>6
<1>12. QED
  BY <1>3, <1>8, <1>9, <1>10, <1>11

\* The files with a text, in the order of the papers.
LEMMA EnrichedFacts ==
  ASSUME SearchTypes, Enriched
  PROVE  /\ todo' \in Seq(Nat) /\ findings'.paths = todo' /\ findings'.papers = findings.papers
         /\ findings' \in [papers : Seq(Papers), paths : Seq(Nat)]
         /\ OfTexts(todo') /\ \A n \in 1..Len(fetch) : fetch[n] # "at work"
         /\ \A k \in 1..Len(todo') : (\A j \in 1..k : fetch[j] = "text") => todo'[k] = k
<1> DEFINE places == {i \in DOMAIN fetch : fetch[i] = "text"}
           numbers == [i \in DOMAIN fetch |-> i]
<1>1. todo' = At(places, numbers) /\ findings' = [findings EXCEPT !.paths = todo']
  BY DEF Enriched
<1>2. /\ fetch \in Seq(FetchStates)
      /\ findings \in [papers : Seq(Papers), paths : Seq(Nat)]
  BY DEF SearchTypes
<1>3. DOMAIN fetch = 1..Len(fetch) /\ Len(fetch) \in Nat
  <2>1. fetch \in Seq(FetchStates)
    BY <1>2
  <2>2. QED
    BY <2>1
<1>4. /\ numbers \in Seq(Nat) /\ Len(numbers) = Len(fetch)
      /\ \A i \in 1..Len(fetch) : numbers[i] = i
  BY <1>3
<1>5. \A i \in 1..Len(fetch) : i \in places <=> fetch[i] = "text"
  BY <1>3
<1> HIDE DEF places, numbers
<1>6. todo' \in Seq(Nat) /\ \E from : PickedFrom(from, todo', places, numbers, Len(fetch))
  BY <1>1, <1>4, AtPicks
<1>7. PICK from : PickedFrom(from, todo', places, numbers, Len(fetch))
  BY <1>6
<1>8. ASSUME NEW k \in 1..Len(todo')
      PROVE  todo'[k] \in 1..Len(fetch) /\ fetch[todo'[k]] = "text"
  <2>1. from[k] \in 1..Len(fetch) /\ from[k] \in places /\ todo'[k] = numbers[from[k]]
    BY <1>7 DEF PickedFrom
  <2>2. QED
    BY <1>4, <1>5, <2>1
<1>9. ASSUME NEW k \in 1..Len(todo'), \A j \in 1..k : fetch[j] = "text"
      PROVE  todo'[k] = k
  <2>1. Len(todo') \in Nat /\ Len(todo') <= Len(fetch)
    BY <1>6, <1>7 DEF PickedFrom
  <2>2. k \in 1..Len(fetch) /\ 1..k \subseteq 1..Len(fetch)
    BY <1>3, <2>1
  <2>3. 1..k \subseteq places
    BY <1>5, <1>9, <2>2
  <2>4. from[k] = k /\ todo'[k] = numbers[from[k]]
    BY <1>7, <2>2, <2>3 DEF PickedFrom
  <2>5. QED
    BY <1>4, <2>2, <2>4
<1>10. /\ findings'.paths = todo' /\ findings'.papers = findings.papers
       /\ findings' \in [papers : Seq(Papers), paths : Seq(Nat)]
  BY <1>1, <1>2, <1>6
<1>11. \A n \in 1..Len(fetch) : fetch[n] # "at work"
  BY <1>3 DEF Enriched, ToSet
<1>12. QED
  BY <1>6, <1>8, <1>9, <1>10, <1>11 DEF OfTexts

LEMMA SearchSteps ==
  ASSUME [SearchNext]_searcherVars
  PROVE  \/ RefineQueries \/ (\E source \in Sources : Returns(source))
         \/ FallBack \/ Merge \/ Synthesize \/ Enriched \/ LeaveAsItIs \/ Compact \/ Output
         \/ (\E i \in DOMAIN fetch : TextFetched(i))
         \/ (\E i \in DOMAIN fetch : NoTextFetched(i))
         \/ (\E i \in DOMAIN fetch : WriteRaises(i))
         \/ StageRaises \/ CompactRaises
         \/ ReviseFindings \/ RevisionFails \/ BuildFulltextsBlock
         \/ UNCHANGED searcherVars
BY DEF SearchNext, Stage, Fetch, ArxivReturns, OpenAlexReturns, CrossrefReturns, TavilyReturns,
       WebReturns, Sources, Scholarly, Web

LEMMA RefineFacts ==
  ASSUME SearchTypes, RefineQueries
  PROVE  /\ queries' \in Seq(Words) /\ IsInjective(queries') /\ Len(queries') <= 6
         /\ queries' # <<>> /\ running' \subseteq Sources
<1>1. PICK refined \in Refinements \cup {<<>>} :
         queries' = IF refined = <<>> THEN queries ELSE First(6, Dedupe(refined))
  BY DEF RefineQueries
<1>0. running' \subseteq Sources
  <2>1. {config.primary} \cap (IF config.web THEN Web ELSE {"tavily"}) \subseteq Web
    BY DEF Web
  <2>2. QED
    BY <2>1 DEF RefineQueries, Sources
<1>2. CASE refined = <<>>
  BY <1>0, <1>1, <1>2 DEF SearchTypes, RefineQueries
<1>3. CASE refined # <<>>
  <2>1. refined \in Seq(Words) /\ 6 \in Nat \ {0}
    BY <1>1, <1>3, SearcherAssumption
  <2>2. PICK words : words = First(6, Dedupe(refined))
    OBVIOUS
  <2>3. words \in Seq(Words) /\ words # <<>> /\ IsInjective(words) /\ Len(words) <= 6
    BY <1>3, <2>1, <2>2, CleanListFacts
  <2>4. queries' = words
    BY <1>1, <1>3, <2>2
  <2>5. QED
    BY <1>0, <2>3, <2>4
<1>4. QED
  BY <1>2, <1>3

\* How a fetch ends, and what of it is on disk.
LEMMA FetchFacts ==
  ASSUME SearchTypes, NEW i \in DOMAIN fetch, NEW state \in FetchStates,
         fetch' = [fetch EXCEPT ![i] = state]
  PROVE  /\ i \in 1..Len(fetch) /\ i \in 1..TopN
         /\ fetch' \in Seq(FetchStates) /\ Len(fetch') = Len(fetch) /\ fetch'[i] = state
         /\ \A n \in 1..Len(fetch) : n # i => fetch'[n] = fetch[n]
<1>1. fetch \in Seq(FetchStates) /\ Len(fetch) <= TopN /\ TopN \in Nat
  BY Bounds DEF SearchTypes
<1>2. DOMAIN fetch = 1..Len(fetch) /\ Len(fetch) \in Nat
  BY <1>1
<1>3. i \in 1..Len(fetch) /\ i \in 1..TopN
  BY <1>1, <1>2
<1>4. fetch' \in Seq(FetchStates) /\ Len(fetch') = Len(fetch)
  BY <1>1, <1>2
<1>5. QED
  BY <1>2, <1>3, <1>4

LEMMA WholeIsAText ==
  ASSUME NEW paper \in Papers, NEW length \in {"short", "long"}
  PROVE  /\ Whole(paper, length) \in Texts /\ Whole(paper, length).is = "whole"
         /\ Whole(paper, length).of = paper
BY DEF Whole, Texts

LEMMA TextKinds ==
  /\ Missing \in Texts /\ Torn \in Texts
  /\ Missing.is = "missing" /\ Torn.is = "torn"
  /\ \A text \in Texts : text.is \in {"missing", "torn", "whole"}
BY DEF Texts, Missing, Torn

\* Shortening a whole text keeps whose it is.
LEMMA ShorterText ==
  ASSUME NEW text \in Texts, text.is = "whole"
  PROVE  /\ [text EXCEPT !.length = "short"] \in Texts
         /\ [text EXCEPT !.length = "short"].is = "whole"
         /\ [text EXCEPT !.length = "short"].of = text.of
<1>1. text \in [is : {"whole"}, of : Papers, length : {"short", "long"}]
  BY DEF Texts, Missing, Torn
<1>2. [text EXCEPT !.length = "short"] \in [is : {"whole"}, of : Papers, length : {"short", "long"}]
  BY <1>1
<1>3. QED
  BY <1>1, <1>2 DEF Texts

-----------------------------------------------------------------------------
LEMMA SearchInvInit == SearchInit => SearchIInv
<1> SUFFICES ASSUME SearchInit
             PROVE  SearchIInv
  OBVIOUS
<1> USE DEF SearchInit
<1>1. SearchTypes
  <2>1. queries \in Seq(Words) /\ queries # <<>> /\ IsInjective(queries) /\ Len(queries) <= 6
    <3>1. PICK analysis \in Analyses : queries = BuildQueries(analysis)
      OBVIOUS
    <3>2. QED
      BY <3>1, BuildQueriesFacts
  <2>2. found \in [Sources -> Seq(Papers)]
    BY DEF Nothing
  <2>3. unique \in [scholarly : Seq(Papers), web : Seq(Papers)]
    BY DEF NoPapers
  <2>4. findings \in [papers : Seq(Papers), paths : Seq(Nat)] /\ Len(findings.papers) <= MaxChosen
    BY Bounds DEF NoFindings
  <2>5. disk \in [1..TopN -> Texts]
    BY TextKinds
  <2>6. fetch \in Seq(FetchStates) /\ Len(fetch) <= TopN
    BY Bounds
  <2>7. landed \in Seq(1..Len(fetch)) /\ todo \in Seq(Nat)
    OBVIOUS
  <2>8. running \subseteq Sources /\ failures \in 0..MaxFailures /\ revisions \in 0..MaxRevisions
        /\ searchFaults \in 0..MaxSearchFaults
    BY Bounds
  <2>9. phase = "refine" /\ revised \in BOOLEAN
    OBVIOUS
  <2> HIDE DEF SearchInit
  <2>10. QED
    BY <2>1, <2>2, <2>3, <2>4, <2>5, <2>6, <2>7, <2>8, <2>9 DEF SearchTypes
<1>2. findings.paths = <<>>
  BY DEF NoFindings
<1>3. Phases
  BY <1>2 DEF Phases
<1>4. Files
  BY <1>2 DEF Files, OfTexts, NoFindings
<1>5. Listed
  BY <1>2, TextKinds DEF Listed
<1>6. QED
  BY <1>1, <1>2, <1>3, <1>4, <1>5 DEF SearchIInv, NoGapsBefore, KeptOnce, TextsAreOfTheirPapers

\* The file that is next has a text, which is whole.
LEMMA HeadFacts ==
  ASSUME SearchTypes, Files, phase = "compact", todo # <<>>
  PROVE  /\ Head(todo) \in 1..Len(fetch) /\ Head(todo) \in 1..TopN
         /\ disk[Head(todo)] \in Texts /\ disk[Head(todo)].is = "whole"
         /\ Tail(todo) \in Seq(Nat) /\ OfTexts(Tail(todo))
<1>1. todo \in Seq(Nat) /\ Len(todo) \in Nat /\ 1 \in 1..Len(todo) /\ Head(todo) = todo[1]
  BY DEF SearchTypes
<1>2. Head(todo) \in 1..Len(fetch) /\ fetch[Head(todo)] = "text"
  BY <1>1 DEF Files, OfTexts
<1>3. Head(todo) \in 1..TopN /\ disk[Head(todo)] \in Texts
  <2>1. fetch \in Seq(FetchStates) /\ Len(fetch) <= TopN /\ TopN \in Nat
        /\ disk \in [1..TopN -> Texts]
    BY Bounds DEF SearchTypes
  <2>2. Len(fetch) \in Nat
    BY <2>1
  <2>3. QED
    BY <1>2, <2>1, <2>2
<1>4. disk[Head(todo)].is = "whole"
  BY <1>2 DEF Files
<1>5. /\ Tail(todo) \in Seq(Nat) /\ Len(Tail(todo)) = Len(todo) - 1
      /\ \A k \in 1..Len(todo) - 1 : Tail(todo)[k] = todo[k + 1]
  BY <1>1
<1>6. OfTexts(Tail(todo))
  <2>1. \A k \in 1..Len(todo) - 1 : k + 1 \in 1..Len(todo)
    BY <1>1
  <2>2. QED
    BY <1>5, <2>1 DEF Files, OfTexts
<1>7. QED
  BY <1>2, <1>3, <1>4, <1>5, <1>6

LEMMA FaultFacts ==
  ASSUME SearchTypes, Fault
  PROVE  searchFaults' \in 0..MaxSearchFaults
BY Bounds DEF SearchTypes, Fault

LEMMA WiderSeq ==
  ASSUME NEW S, S \subseteq Nat, NEW s \in Seq(S)
  PROVE  s \in Seq(Nat) /\ \A k \in 1..Len(s) : s[k] \in S
<1>1. Len(s) \in Nat /\ DOMAIN s = 1..Len(s) /\ s = [k \in 1..Len(s) |-> s[k]]
  OBVIOUS
<1>2. \A k \in 1..Len(s) : s[k] \in S
  OBVIOUS
<1>3. s \in [1..Len(s) -> Nat]
  BY <1>1, <1>2
<1>4. s \in Seq(Nat)
  BY <1>1, <1>3
<1>5. QED
  BY <1>2, <1>4

\* A revision: of the papers no more than there were, and it is on record if
\* anything is not as it was.
LEMMA RevisionFacts ==
  ASSUME SearchTypes, Listed, ReviseFindings
  PROVE  /\ findings' \in [papers : Seq(Papers), paths : Seq(Nat)]
         /\ Len(findings'.papers) <= MaxChosen
         /\ \A k \in 1..Len(findings'.paths) : findings'.paths[k] \in 0..TopN
         /\ ~ revised' => ~ revised /\ findings' = findings
         /\ revised' \in BOOLEAN /\ revisions' \in 0..MaxRevisions
<1>1. PICK papers \in Selections(findings.papers, Len(findings.papers)),
            paths \in Rewrites \cup {findings.paths} :
          findings' = [papers |-> papers, paths |-> paths]
  BY DEF ReviseFindings
<1>2. findings \in [papers : Seq(Papers), paths : Seq(Nat)] /\ Len(findings.papers) <= MaxChosen
  BY DEF SearchTypes
<1>3. PICK old \in Seq(Papers) : old = findings.papers
  BY <1>2
<1>4. Len(old) \in Nat
  BY <1>3
<1>5. papers \in Seq(Papers) /\ Len(papers) <= Len(old)
  BY <1>1, <1>3, <1>4, SelectionFacts
<1>6. Len(papers) <= MaxChosen
  BY <1>2, <1>3, <1>4, <1>5, Bounds
<1>7. paths \in Seq(Nat) /\ \A k \in 1..Len(paths) : paths[k] \in 0..TopN
  <2>1. CASE paths = findings.paths
    BY <1>2, <2>1 DEF Listed
  <2>2. CASE paths \in Rewrites
    <3>1. paths \in Seq(0..TopN) /\ 0..TopN \subseteq Nat
      BY <2>2, Bounds, SearcherAssumption
    <3>2. QED
      BY <3>1, WiderSeq
  <2>3. QED
    BY <1>1, <2>1, <2>2
<1>8. /\ findings' \in [papers : Seq(Papers), paths : Seq(Nat)]
      /\ findings'.papers = papers /\ findings'.paths = paths
  BY <1>1, <1>5, <1>7
<1>9. revisions' \in 0..MaxRevisions
  BY Bounds DEF SearchTypes, ReviseFindings
<1>10. revised' \in BOOLEAN /\ (~ revised' => ~ revised /\ findings' = findings)
  BY DEF ReviseFindings
<1>11. QED
  BY <1>6, <1>7, <1>8, <1>9, <1>10

LEMMA SearchTypesStep ==
  ASSUME SearchTypes, Phases, Files, Listed, [SearchNext]_searcherVars
  PROVE  SearchTypes'
<1> USE DEF searchVars, fetchVars, compactVars, reviewVars
<1>1. CASE RefineQueries
  BY <1>1, RefineFacts DEF SearchTypes, RefineQueries
<1>2. ASSUME NEW source \in Sources, Returns(source)
      PROVE  SearchTypes'
  BY <1>2, ReturnsFacts DEF SearchTypes
<1>3. CASE FallBack
  BY <1>3 DEF SearchTypes, FallBack, Sources, Web
<1>4. CASE Merge
  BY <1>4, MergeFacts DEF SearchTypes, Merge
<1>5. CASE Synthesize
  <2>1. queries' = <<>> /\ found' = Nothing /\ unique' = NoPapers
    BY <1>5 DEF Synthesize, SearchIsOver
  <2>2. queries' \in Seq(Words) /\ IsInjective(queries') /\ Len(queries') <= 6
    BY <2>1 DEF IsInjective
  <2>3. found' \in [Sources -> Seq(Papers)]
    BY <2>1 DEF Nothing
  <2>4. unique' \in [scholarly : Seq(Papers), web : Seq(Papers)]
    BY <2>1 DEF NoPapers
  <2>5. landed' \in Seq(1..Len(fetch'))
    <3>1. landed = <<>>
      <4>1. Len(fetch) = 0 /\ landed \in Seq(1..Len(fetch))
        BY <1>5 DEF Phases, SearchTypes, Synthesize
      <4>2. QED
        BY <4>1
    <3>2. landed' = <<>>
      BY <1>5, <3>1 DEF Synthesize
    <3>3. \A S : <<>> \in Seq(S)
      OBVIOUS
    <3>4. QED
      BY <3>2, <3>3
  <2>6. QED
    BY <1>5, <2>2, <2>3, <2>4, <2>5, SynthesizeFacts DEF SearchTypes, Synthesize
<1>6. CASE Enriched
  BY <1>6, EnrichedFacts DEF SearchTypes, Enriched
<1>7. CASE LeaveAsItIs
  <2>1. todo' \in Seq(Nat)
    BY <1>7 DEF SearchTypes, LeaveAsItIs
  <2>2. failures' \in 0..MaxFailures
    <3>1. failures \in 0..MaxFailures /\ MaxFailures \in Nat
      BY Bounds DEF SearchTypes
    <3>2. failures' = failures \/ (failures' = failures + 1 /\ failures < MaxFailures)
      BY <1>7 DEF LeaveAsItIs
    <3>3. QED
      BY <3>1, <3>2
  <2>3. QED
    BY <1>7, <2>1, <2>2 DEF SearchTypes, LeaveAsItIs
<1>8. CASE Compact
  <2>1. PICK h : h = Head(todo)
    OBVIOUS
  <2>2. disk[h] \in Texts /\ disk[h].is = "whole" /\ Tail(todo) \in Seq(Nat)
    BY <1>8, <2>1, HeadFacts DEF Compact, ShouldCompact
  <2>3. disk' \in [1..TopN -> Texts]
    <3>1. disk' = [disk EXCEPT ![h] = [disk[h] EXCEPT !.length = "short"]]
      BY <1>8, <2>1 DEF Compact
    <3>2. disk \in [1..TopN -> Texts]
      BY DEF SearchTypes
    <3>3. QED
      BY <2>2, <3>1, <3>2, ShorterText
  <2>4. todo' \in Seq(Nat) /\ failures' \in 0..MaxFailures
    BY <1>8, <2>2, Bounds DEF Compact
  <2>5. QED
    BY <1>8, <2>3, <2>4 DEF SearchTypes, Compact, ShouldCompact
<1>9. CASE Output
  BY <1>9 DEF SearchTypes, Output
<1>10. ASSUME NEW i \in DOMAIN fetch, TextFetched(i)
       PROVE  SearchTypes'
  <2>1. PICK length \in {"short", "long"} :
           disk' = [disk EXCEPT ![i] = Whole(findings.papers[i], length)]
    BY <1>10 DEF TextFetched
  <2>2. "text" \in FetchStates /\ fetch' = [fetch EXCEPT ![i] = "text"]
    BY <1>10 DEF FetchStates, TextFetched
  <2>3. /\ i \in 1..Len(fetch) /\ fetch' \in Seq(FetchStates) /\ Len(fetch') = Len(fetch)
    BY <2>2, FetchFacts
  <2>4. fetch[i] = "at work" /\ ~ revised
    BY <1>10, <2>3 DEF TextFetched, Phases
  <2>5. findings.papers[i] \in Papers
    <3>1. PICK papers \in Seq(Papers) : papers = findings.papers
      BY DEF SearchTypes
    <3>2. Len(fetch) <= Len(papers)
      BY <2>4, <3>1 DEF Files
    <3>3. Len(fetch) \in Nat /\ Len(papers) \in Nat
      BY DEF SearchTypes
    <3>4. i \in 1..Len(papers)
      BY <2>3, <3>2, <3>3
    <3>5. QED
      BY <3>1, <3>4
  <2>6. disk' \in [1..TopN -> Texts]
    BY <2>1, <2>5, WholeIsAText DEF SearchTypes
  <2>7. landed' \in Seq(1..Len(fetch'))
    <3>1. landed \in Seq(1..Len(fetch)) /\ landed' = Append(landed, i)
      BY <1>10 DEF SearchTypes, TextFetched
    <3>2. QED
      BY <2>3, <3>1
  <2>8. QED
    BY <1>10, <2>3, <2>6, <2>7 DEF SearchTypes, TextFetched
<1>11. ASSUME NEW i \in DOMAIN fetch, NoTextFetched(i)
       PROVE  SearchTypes'
  <2>1. "none" \in FetchStates /\ fetch' = [fetch EXCEPT ![i] = "none"]
    BY <1>11 DEF FetchStates, NoTextFetched
  <2>2. fetch' \in Seq(FetchStates) /\ Len(fetch') = Len(fetch)
    BY <2>1, FetchFacts
  <2>3. QED
    BY <1>11, <2>2 DEF SearchTypes, NoTextFetched
<1>12. ASSUME NEW i \in DOMAIN fetch, WriteRaises(i)
       PROVE  SearchTypes'
  <2>1. "none" \in FetchStates /\ fetch' = [fetch EXCEPT ![i] = "none"]
    BY <1>12 DEF FetchStates, WriteRaises
  <2>2. fetch' \in Seq(FetchStates) /\ Len(fetch') = Len(fetch)
    BY <2>1, FetchFacts
  <2>3. disk' \in [1..TopN -> Texts]
    BY <1>12, TextKinds DEF SearchTypes, WriteRaises
  <2>4. searchFaults' \in 0..MaxSearchFaults
    BY <1>12, FaultFacts DEF WriteRaises
  <2>5. QED
    BY <1>12, <2>2, <2>3, <2>4 DEF SearchTypes, WriteRaises
<1>13. CASE StageRaises
  <2>1. queries' = <<>> /\ found' = Nothing /\ unique' = NoPapers
    BY <1>13 DEF StageRaises, SearchIsOver
  <2>2. queries' \in Seq(Words) /\ IsInjective(queries') /\ Len(queries') <= 6
    BY <2>1 DEF IsInjective
  <2>3. found' \in [Sources -> Seq(Papers)]
    BY <2>1 DEF Nothing
  <2>4. unique' \in [scholarly : Seq(Papers), web : Seq(Papers)]
    BY <2>1 DEF NoPapers
  <2>5. searchFaults' \in 0..MaxSearchFaults
    BY <1>13, FaultFacts DEF StageRaises
  <2>6. QED
    BY <1>13, <2>2, <2>3, <2>4, <2>5 DEF SearchTypes, StageRaises
<1>14. CASE CompactRaises
  <2>1. disk' \in [1..TopN -> Texts]
    BY <1>14, TextKinds DEF SearchTypes, CompactRaises
  <2>2. searchFaults' \in 0..MaxSearchFaults
    BY <1>14, FaultFacts DEF CompactRaises
  <2>3. QED
    BY <1>14, <2>1, <2>2 DEF SearchTypes, CompactRaises
<1>15. CASE ReviseFindings
  <2>1. /\ findings' \in [papers : Seq(Papers), paths : Seq(Nat)]
        /\ Len(findings'.papers) <= MaxChosen
    BY <1>15, RevisionFacts
  <2>2. revised' \in BOOLEAN /\ revisions' \in 0..MaxRevisions
    BY <1>15, RevisionFacts
  <2>3. QED
    BY <1>15, <2>1, <2>2 DEF SearchTypes, ReviseFindings
<1>16. CASE RevisionFails
  <2>1. revisions' \in 0..MaxRevisions
    BY <1>16, Bounds DEF SearchTypes, RevisionFails
  <2>2. QED
    BY <1>16, <2>1 DEF SearchTypes, RevisionFails
<1>17. CASE BuildFulltextsBlock
  BY <1>17 DEF SearchTypes, BuildFulltextsBlock
<1>18. CASE UNCHANGED searcherVars
  BY <1>18 DEF SearchTypes, searcherVars
<1>19. QED
  BY <1>1, <1>2, <1>3, <1>4, <1>5, <1>6, <1>7, <1>8, <1>9, <1>10, <1>11, <1>12, <1>13,
     <1>14, <1>15, <1>16, <1>17, <1>18, SearchSteps

LEMMA PhasesStep ==
  ASSUME SearchTypes, Phases, Files, [SearchNext]_searcherVars
  PROVE  Phases'
<1> USE DEF searchVars, fetchVars, compactVars, reviewVars
<1>1. CASE RefineQueries
  BY <1>1 DEF Phases, RefineQueries
<1>2. ASSUME NEW source \in Sources, Returns(source)
      PROVE  Phases'
  BY <1>2 DEF Phases, Returns
<1>3. CASE FallBack
  BY <1>3 DEF Phases, FallBack
<1>4. CASE Merge
  BY <1>4 DEF Phases, Merge
<1>5. CASE Synthesize
  BY <1>5, SynthesizeFacts DEF Phases, Synthesize
<1>6. CASE Enriched
  BY <1>6, EnrichedFacts DEF Phases, Enriched
<1>7. CASE LeaveAsItIs
  BY <1>7 DEF Phases, LeaveAsItIs
<1>8. CASE Compact
  BY <1>8 DEF Phases, Compact, ShouldCompact
<1>9. CASE Output
  BY <1>9 DEF Phases, Output
<1>10. ASSUME NEW i \in DOMAIN fetch, TextFetched(i)
       PROVE  Phases'
  <2>1. "text" \in FetchStates /\ fetch' = [fetch EXCEPT ![i] = "text"]
    BY <1>10 DEF FetchStates, TextFetched
  <2>2. i \in 1..Len(fetch) /\ fetch[i] = "at work"
    BY <1>10, <2>1, FetchFacts DEF TextFetched
  <2>3. phase \in {"enrich", "failed"}
    BY <2>2 DEF Phases
  <2>4. QED
    BY <1>10, <2>3 DEF Phases, TextFetched
<1>11. ASSUME NEW i \in DOMAIN fetch, NoTextFetched(i)
       PROVE  Phases'
  <2>1. "none" \in FetchStates /\ fetch' = [fetch EXCEPT ![i] = "none"]
    BY <1>11 DEF FetchStates, NoTextFetched
  <2>2. i \in 1..Len(fetch) /\ fetch[i] = "at work"
    BY <1>11, <2>1, FetchFacts DEF NoTextFetched
  <2>3. phase \in {"enrich", "failed"}
    BY <2>2 DEF Phases
  <2>4. QED
    BY <1>11, <2>3 DEF Phases, NoTextFetched
<1>12. ASSUME NEW i \in DOMAIN fetch, WriteRaises(i)
       PROVE  Phases'
  <2>1. "none" \in FetchStates /\ fetch' = [fetch EXCEPT ![i] = "none"]
    BY <1>12 DEF FetchStates, WriteRaises
  <2>2. i \in 1..Len(fetch) /\ fetch[i] = "at work"
    BY <1>12, <2>1, FetchFacts DEF WriteRaises
  <2>3. phase \in {"enrich", "failed"}
    BY <2>2 DEF Phases
  <2>4. QED
    BY <1>12, <2>3 DEF Phases, WriteRaises
<1>13. CASE StageRaises
  BY <1>13 DEF Phases, StageRaises
<1>14. CASE CompactRaises
  BY <1>14 DEF Phases, CompactRaises, ShouldCompact
<1>15. CASE ReviseFindings
  BY <1>15 DEF Phases, ReviseFindings
<1>16. CASE RevisionFails
  BY <1>16 DEF Phases, RevisionFails
<1>17. CASE BuildFulltextsBlock
  BY <1>17 DEF Phases, BuildFulltextsBlock
<1>18. CASE UNCHANGED searcherVars
  BY <1>18 DEF Phases, searcherVars
<1>19. QED
  BY <1>1, <1>2, <1>3, <1>4, <1>5, <1>6, <1>7, <1>8, <1>9, <1>10, <1>11, <1>12, <1>13,
     <1>14, <1>15, <1>16, <1>17, <1>18, SearchSteps

\* Where neither fetches nor files nor the papers' list change, nothing is lost.
LEMMA FilesKept ==
  ASSUME Files, UNCHANGED <<findings, fetch, disk, todo, revised>>,
         phase' # "failed" => phase # "failed"
  PROVE  Files'
BY DEF Files, OfTexts

\* A fetch that ends leaves the files that are announced alone.
LEMMA OfTextsKept ==
  ASSUME SearchTypes, NEW i \in DOMAIN fetch, NEW state \in FetchStates,
         fetch' = [fetch EXCEPT ![i] = state], fetch[i] = "at work",
         NEW files, OfTexts(files)
  PROVE  \A k \in 1..Len(files) : files[k] \in 1..Len(fetch') /\ fetch'[files[k]] = "text"
<1>1. ASSUME NEW k \in 1..Len(files)
      PROVE  files[k] \in 1..Len(fetch') /\ fetch'[files[k]] = "text"
  <2>1. files[k] \in 1..Len(fetch) /\ fetch[files[k]] = "text"
    BY DEF OfTexts
  <2>2. QED
    BY <2>1, FetchFacts
<1>2. QED
  BY <1>1

LEMMA FilesStep ==
  ASSUME SearchTypes, Phases, Files, Listed, [SearchNext]_searcherVars
  PROVE  Files'
<1> USE DEF searchVars, fetchVars, compactVars, reviewVars
<1>1. CASE RefineQueries
  BY <1>1, FilesKept DEF RefineQueries
<1>2. ASSUME NEW source \in Sources, Returns(source)
      PROVE  Files'
  BY <1>2, FilesKept DEF Returns
<1>3. CASE FallBack
  BY <1>3, FilesKept DEF FallBack
<1>4. CASE Merge
  BY <1>4, FilesKept DEF Merge
<1>5. CASE Synthesize
  <2>1. todo' = todo /\ disk' = disk /\ revised' = revised /\ ~ revised
    BY <1>5 DEF Synthesize, Phases
  <2>2. Len(todo) = 0
    <3>1. Len(fetch) = 0 /\ todo \in Seq(Nat) /\ OfTexts(todo)
      BY <1>5 DEF Synthesize, Phases, SearchTypes, Files
    <3>2. \A k \in 1..Len(todo) : FALSE
      BY <3>1 DEF OfTexts
    <3>3. QED
      BY <3>1, <3>2
  <2>3. /\ findings'.paths = <<>> /\ \A n \in 1..Len(fetch') : fetch'[n] = "at work"
        /\ Len(fetch') <= Len(findings'.papers) /\ Len(fetch') <= TopN
        /\ fetch' \in Seq(FetchStates)
    BY <1>5, SynthesizeFacts
  <2>4. ASSUME NEW n \in 1..Len(fetch')
        PROVE  disk'[n].is # "whole"
    <3>1. n \in 1..TopN
      <4>1. TopN \in Nat
        BY Bounds
      <4>2. PICK g \in Seq(FetchStates) : g = fetch'
        BY <2>3
      <4>3. Len(g) \in Nat
        OBVIOUS
      <4>4. Len(g) <= TopN /\ n \in 1..Len(g)
        BY <2>3, <4>2
      <4>5. QED
        BY <4>1, <4>3, <4>4
    <3>2. disk[n] = Missing
      BY <1>5, <3>1 DEF Synthesize, Phases
    <3>3. QED
      BY <2>1, <3>2, TextKinds
  <2>5. (revised' \/ OfTexts(findings.paths)') /\ OfTexts(todo)'
    <3>1. Len(findings'.paths) = 0 /\ Len(todo') = 0
      BY <2>1, <2>2, <2>3
    <3>2. QED
      BY <3>1 DEF OfTexts
  <2>6. QED
    BY <2>1, <2>3, <2>4, <2>5 DEF Files
<1>6. CASE Enriched
  <2>1. /\ findings'.paths = todo' /\ findings'.papers = findings.papers /\ OfTexts(todo')
        /\ phase = "enrich" /\ UNCHANGED <<fetch, disk, revised>>
    BY <1>6, EnrichedFacts DEF Enriched
  <2>2. (revised' \/ OfTexts(findings.paths)') /\ OfTexts(todo)'
    BY <2>1 DEF OfTexts
  <2>3. QED
    BY <2>1, <2>2 DEF Files
<1>7. CASE LeaveAsItIs
  <2>1. todo' = Tail(todo) /\ OfTexts(Tail(todo))
    BY <1>7, HeadFacts DEF LeaveAsItIs
  <2>2. OfTexts(todo)'
    BY <1>7, <2>1 DEF OfTexts, LeaveAsItIs
  <2>3. QED
    BY <1>7, <2>2 DEF Files, OfTexts, LeaveAsItIs
<1>8. CASE Compact
  <2>1. PICK h : h = Head(todo)
    OBVIOUS
  <2>2. /\ h \in 1..TopN /\ disk[h] \in Texts /\ disk[h].is = "whole"
        /\ OfTexts(Tail(todo)) /\ todo' = Tail(todo)
    BY <1>8, <2>1, HeadFacts DEF Compact, ShouldCompact
  <2>3. /\ disk' = [disk EXCEPT ![h] = [disk[h] EXCEPT !.length = "short"]]
        /\ UNCHANGED <<findings, fetch, revised, phase>>
    BY <1>8, <2>1 DEF Compact
  <2>4. \A n \in 1..TopN : disk'[n].is = disk[n].is
                            /\ (disk[n].is = "whole" => disk'[n].of = disk[n].of)
    <3>1. disk \in [1..TopN -> Texts]
      BY DEF SearchTypes
    <3>2. disk'[h] = [disk[h] EXCEPT !.length = "short"]
      BY <2>2, <2>3, <3>1
    <3>3. disk'[h].is = disk[h].is /\ disk'[h].of = disk[h].of
      BY <2>2, <3>2, ShorterText
    <3>4. \A n \in 1..TopN : n # h => disk'[n] = disk[n]
      BY <2>2, <2>3, <3>1
    <3>5. QED
      BY <3>3, <3>4
  <2>5. \A n \in 1..Len(fetch) : n \in 1..TopN
    <3>1. Len(fetch) \in Nat /\ Len(fetch) <= TopN
      BY DEF SearchTypes
    <3>2. QED
      BY <3>1, Bounds
  <2>6. (revised' \/ OfTexts(findings.paths)') /\ OfTexts(todo)'
    BY <2>2, <2>3 DEF Files, OfTexts
  <2>7. QED
    BY <2>3, <2>4, <2>5, <2>6 DEF Files
<1>9. CASE Output
  BY <1>9, FilesKept DEF Output
<1>10. ASSUME NEW i \in DOMAIN fetch, TextFetched(i)
       PROVE  Files'
  <2>1. PICK length \in {"short", "long"} :
           disk' = [disk EXCEPT ![i] = Whole(findings.papers[i], length)]
    BY <1>10 DEF TextFetched
  <2>2. "text" \in FetchStates /\ fetch' = [fetch EXCEPT ![i] = "text"] /\ fetch[i] = "at work"
    BY <1>10 DEF FetchStates, TextFetched
  <2>3. /\ i \in 1..Len(fetch) /\ i \in 1..TopN /\ Len(fetch') = Len(fetch)
        /\ \A n \in 1..Len(fetch) : n # i => fetch'[n] = fetch[n]
    BY <2>2, FetchFacts
  <2>4. disk'[i].is = "whole" /\ disk'[i].of = findings.papers[i]
        /\ \A n \in 1..TopN : n # i => disk'[n] = disk[n]
    BY <2>1, <2>3 DEF SearchTypes, Whole
  <2>5. \A n \in 1..Len(fetch) : n \in 1..TopN
    <3>1. Len(fetch) \in Nat /\ Len(fetch) <= TopN
      BY DEF SearchTypes
    <3>2. QED
      BY <3>1, Bounds
  <2>6. UNCHANGED <<findings, todo, revised, phase>>
    BY <1>10 DEF TextFetched
  <2>7. (revised' \/ OfTexts(findings.paths)') /\ OfTexts(todo)'
    <3>1. \A files : OfTexts(files) =>
             \A k \in 1..Len(files) : files[k] \in 1..Len(fetch') /\ fetch'[files[k]] = "text"
      BY <2>2, OfTextsKept
    <3>2. QED
      BY <2>6, <3>1 DEF Files, OfTexts
  <2>8. QED
    BY <2>3, <2>4, <2>5, <2>6, <2>7 DEF Files
<1>11. ASSUME NEW i \in DOMAIN fetch, NoTextFetched(i)
       PROVE  Files'
  <2>1. "none" \in FetchStates /\ fetch' = [fetch EXCEPT ![i] = "none"] /\ fetch[i] = "at work"
    BY <1>11 DEF FetchStates, NoTextFetched
  <2>2. /\ i \in 1..Len(fetch) /\ Len(fetch') = Len(fetch) /\ fetch'[i] = "none"
        /\ \A n \in 1..Len(fetch) : n # i => fetch'[n] = fetch[n]
    BY <2>1, FetchFacts
  <2>3. UNCHANGED <<findings, todo, revised, phase, disk>>
    BY <1>11 DEF NoTextFetched
  <2>4. (revised' \/ OfTexts(findings.paths)') /\ OfTexts(todo)'
    <3>1. \A files : OfTexts(files) =>
             \A k \in 1..Len(files) : files[k] \in 1..Len(fetch') /\ fetch'[files[k]] = "text"
      BY <2>1, OfTextsKept
    <3>2. QED
      BY <2>3, <3>1 DEF Files, OfTexts
  <2>5. QED
    BY <2>2, <2>3, <2>4 DEF Files
<1>12. ASSUME NEW i \in DOMAIN fetch, WriteRaises(i)
       PROVE  Files'
  <2>1. "none" \in FetchStates /\ fetch' = [fetch EXCEPT ![i] = "none"] /\ fetch[i] = "at work"
    BY <1>12 DEF FetchStates, WriteRaises
  <2>2. /\ i \in 1..Len(fetch) /\ i \in 1..TopN /\ Len(fetch') = Len(fetch)
    BY <2>1, FetchFacts
  <2>3. UNCHANGED <<findings, todo, revised>> /\ phase' = "failed"
    BY <1>12 DEF WriteRaises
  <2>4. \A n \in 1..TopN : disk'[n] = disk[n] \/ disk'[n] = Torn
    BY <1>12, <2>2 DEF SearchTypes, WriteRaises
  <2>5. \A n \in 1..Len(fetch) : n \in 1..TopN
    <3>1. Len(fetch) \in Nat /\ Len(fetch) <= TopN
      BY DEF SearchTypes
    <3>2. QED
      BY <3>1, Bounds
  <2>6. (revised' \/ OfTexts(findings.paths)') /\ OfTexts(todo)'
    <3>1. \A files : OfTexts(files) =>
             \A k \in 1..Len(files) : files[k] \in 1..Len(fetch') /\ fetch'[files[k]] = "text"
      BY <2>1, OfTextsKept
    <3>2. QED
      BY <2>3, <3>1 DEF Files, OfTexts
  <2>7. QED
    BY <2>2, <2>3, <2>4, <2>5, <2>6, TextKinds DEF Files
<1>13. CASE StageRaises
  BY <1>13 DEF StageRaises, Files, OfTexts
<1>14. CASE CompactRaises
  <2>1. PICK h : h = Head(todo)
    OBVIOUS
  <2>2. h \in 1..TopN
    BY <1>14, <2>1, HeadFacts DEF CompactRaises, ShouldCompact
  <2>3. UNCHANGED <<findings, fetch, todo, revised>> /\ phase' = "failed"
    BY <1>14 DEF CompactRaises
  <2>4. \A n \in 1..TopN : disk'[n] = disk[n] \/ disk'[n] = Torn
    BY <1>14, <2>1, <2>2 DEF SearchTypes, CompactRaises
  <2>5. \A n \in 1..Len(fetch) : n \in 1..TopN
    <3>1. Len(fetch) \in Nat /\ Len(fetch) <= TopN
      BY DEF SearchTypes
    <3>2. QED
      BY <3>1, Bounds
  <2>6. (revised' \/ OfTexts(findings.paths)') /\ OfTexts(todo)'
    BY <2>3 DEF Files, OfTexts
  <2>7. QED
    BY <2>3, <2>4, <2>5, <2>6, TextKinds DEF Files
<1>15. CASE ReviseFindings
  <2>1. UNCHANGED <<fetch, disk, todo, phase>>
    BY <1>15 DEF ReviseFindings
  <2>2. (revised' \/ OfTexts(findings.paths)') /\ OfTexts(todo)'
    BY <1>15, <2>1, RevisionFacts DEF Files, OfTexts
  <2>3. ~ revised' => ~ revised /\ findings' = findings
    BY <1>15, RevisionFacts
  <2>4. QED
    BY <2>1, <2>2, <2>3 DEF Files
<1>16. CASE RevisionFails
  BY <1>16, FilesKept DEF RevisionFails
<1>17. CASE BuildFulltextsBlock
  BY <1>17, FilesKept DEF BuildFulltextsBlock
<1>18. CASE UNCHANGED searcherVars
  BY <1>18, FilesKept DEF searcherVars
<1>19. QED
  BY <1>1, <1>2, <1>3, <1>4, <1>5, <1>6, <1>7, <1>8, <1>9, <1>10, <1>11, <1>12, <1>13,
     <1>14, <1>15, <1>16, <1>17, <1>18, SearchSteps

LEMMA NoGapsKept ==
  ASSUME NoGapsBefore, phase' # "failed", phase # "failed",
         UNCHANGED <<findings, fetch, revised>>
  PROVE  NoGapsBefore'
BY DEF NoGapsBefore

LEMMA NoGapsStep ==
  ASSUME SearchTypes, Phases, Files, NoGapsBefore, Listed, [SearchNext]_searcherVars
  PROVE  NoGapsBefore'
<1> USE DEF searchVars, fetchVars, compactVars, reviewVars
<1>0. ASSUME phase' = "failed"
      PROVE  NoGapsBefore'
  BY <1>0 DEF NoGapsBefore
<1>0a. ASSUME findings'.paths = <<>>
       PROVE  NoGapsBefore'
  BY <1>0a DEF NoGapsBefore
<1>1. CASE RefineQueries
  BY <1>1, NoGapsKept DEF RefineQueries
<1>2. ASSUME NEW source \in Sources, Returns(source)
      PROVE  NoGapsBefore'
  BY <1>0, <1>2, NoGapsKept DEF Returns
<1>3. CASE FallBack
  BY <1>3, NoGapsKept DEF FallBack
<1>4. CASE Merge
  BY <1>4, NoGapsKept DEF Merge
<1>5. CASE Synthesize
  BY <1>0a, <1>5, SynthesizeFacts
<1>6. CASE Enriched
  BY <1>6, EnrichedFacts DEF NoGapsBefore, Enriched
<1>7. CASE LeaveAsItIs
  BY <1>7, NoGapsKept DEF LeaveAsItIs
<1>8. CASE Compact
  BY <1>8, NoGapsKept DEF Compact, ShouldCompact
<1>9. CASE Output
  BY <1>9, NoGapsKept DEF Output
<1>10. ASSUME NEW i \in DOMAIN fetch,
              TextFetched(i) \/ NoTextFetched(i)
       PROVE  NoGapsBefore'
  <2>1. fetch[i] = "at work" /\ UNCHANGED <<findings, phase>>
    BY <1>10 DEF TextFetched, NoTextFetched
  <2>2. i \in 1..Len(fetch)
    <3>1. fetch \in Seq(FetchStates)
      BY DEF SearchTypes
    <3>2. QED
      BY <3>1
  <2>3. phase = "failed" \/ findings.paths = <<>>
    BY <2>1, <2>2 DEF Phases
  <2>4. QED
    BY <1>0, <1>0a, <2>1, <2>3
<1>11. ASSUME NEW i \in DOMAIN fetch, WriteRaises(i)
       PROVE  NoGapsBefore'
  BY <1>0, <1>11 DEF WriteRaises
<1>12. CASE StageRaises \/ CompactRaises
  BY <1>0, <1>12 DEF StageRaises, CompactRaises
<1>13. CASE ReviseFindings
  <2>1. phase = "returned" /\ UNCHANGED <<phase, fetch>>
    BY <1>13 DEF ReviseFindings
  <2>2. ~ revised' => ~ revised /\ findings' = findings
    BY <1>13, RevisionFacts
  <2>3. QED
    BY <2>1, <2>2 DEF NoGapsBefore
<1>14. CASE RevisionFails
  BY <1>14, NoGapsKept DEF RevisionFails
<1>15. CASE BuildFulltextsBlock
  BY <1>15, NoGapsKept DEF BuildFulltextsBlock
<1>16. CASE UNCHANGED searcherVars
  BY <1>16 DEF NoGapsBefore, searcherVars
<1>17. QED
  BY <1>1, <1>2, <1>3, <1>4, <1>5, <1>6, <1>7, <1>8, <1>9, <1>10, <1>11, <1>12, <1>13,
     <1>14, <1>15, <1>16, SearchSteps

\* Where neither the paths nor the files change.
LEMMA ListedKept ==
  ASSUME Listed, findings'.paths = findings.paths, disk' = disk,
         phase' # "failed" => phase # "failed"
  PROVE  Listed'
BY DEF Listed

LEMMA ListedStep ==
  ASSUME SearchTypes, Phases, Files, Listed, [SearchNext]_searcherVars
  PROVE  Listed'
<1> USE DEF searchVars, fetchVars, compactVars, reviewVars
<1>1. CASE RefineQueries \/ FallBack \/ Merge
  BY <1>1, ListedKept DEF RefineQueries, FallBack, Merge
<1>2. ASSUME NEW source \in Sources, Returns(source)
      PROVE  Listed'
  BY <1>2, ListedKept DEF Returns
<1>3. CASE Synthesize
  <2>1. findings'.paths = <<>> /\ findings.paths = <<>> /\ disk' = disk /\ phase # "failed"
    BY <1>3, SynthesizeFacts DEF Synthesize, Phases
  <2>2. QED
    BY <2>1, ListedKept
<1>4. CASE Enriched
  <2>1. findings'.paths = todo' /\ OfTexts(todo') /\ phase # "failed" /\ disk' = disk
    BY <1>4, EnrichedFacts DEF Enriched
  <2>2. \A n \in 1..Len(fetch) : n \in 0..TopN
    <3>1. Len(fetch) \in Nat /\ Len(fetch) <= TopN
      BY DEF SearchTypes
    <3>2. QED
      BY <3>1, Bounds
  <2>3. QED
    BY <2>1, <2>2 DEF Listed, OfTexts
<1>5. CASE LeaveAsItIs \/ Output \/ RevisionFails \/ BuildFulltextsBlock \/ UNCHANGED searcherVars
  BY <1>5, ListedKept DEF LeaveAsItIs, Output, RevisionFails, BuildFulltextsBlock, searcherVars
<1>6. CASE Compact
  <2>1. PICK h : h = Head(todo)
    OBVIOUS
  <2>2. h \in 1..TopN /\ disk[h] \in Texts /\ disk[h].is = "whole" /\ phase = "compact"
    BY <1>6, <2>1, HeadFacts DEF Compact, ShouldCompact
  <2>3. /\ disk' = [disk EXCEPT ![h] = [disk[h] EXCEPT !.length = "short"]]
        /\ findings' = findings /\ disk \in [1..TopN -> Texts]
    BY <1>6, <2>1 DEF Compact, SearchTypes
  <2>4. disk'[h].is = "whole"
    BY <2>2, <2>3, ShorterText
  <2>5. \A n \in 1..TopN : n # h => disk'[n] = disk[n]
    BY <2>2, <2>3
  <2>6. QED
    BY <2>2, <2>3, <2>4, <2>5 DEF Listed
<1>7. ASSUME NEW i \in DOMAIN fetch, TextFetched(i)
      PROVE  Listed'
  <2>1. PICK length \in {"short", "long"} :
           disk' = [disk EXCEPT ![i] = Whole(findings.papers[i], length)]
    BY <1>7 DEF TextFetched
  <2>2. disk \in [1..TopN -> Texts] /\ UNCHANGED <<findings, phase>>
    BY <1>7 DEF TextFetched, SearchTypes
  <2>3. \A n \in 1..TopN : disk'[n] = disk[n] \/ disk'[n].is = "whole"
    BY <2>1, <2>2 DEF Whole
  <2>4. QED
    BY <2>2, <2>3 DEF Listed
<1>8. ASSUME NEW i \in DOMAIN fetch, NoTextFetched(i)
      PROVE  Listed'
  BY <1>8, ListedKept DEF NoTextFetched
<1>9. ASSUME phase' = "failed", findings' = findings
      PROVE  Listed'
  BY <1>9 DEF Listed
<1>10. ASSUME NEW i \in DOMAIN fetch, WriteRaises(i)
       PROVE  Listed'
  BY <1>9, <1>10 DEF WriteRaises
<1>11. CASE StageRaises \/ CompactRaises
  BY <1>9, <1>11 DEF StageRaises, CompactRaises
<1>12. CASE ReviseFindings
  <2>1. phase = "returned" /\ UNCHANGED <<phase, disk>>
    BY <1>12 DEF ReviseFindings
  <2>2. QED
    BY <1>12, <2>1, RevisionFacts DEF Listed
<1>13. QED
  BY <1>1, <1>2, <1>3, <1>4, <1>5, <1>6, <1>7, <1>8, <1>10, <1>11, <1>12, SearchSteps

\* What is handed to the model stays as it was merged until the model has it.
LEMMA KeptOnceStep ==
  ASSUME SearchTypes, Phases, KeptOnce, [SearchNext]_searcherVars
  PROVE  KeptOnce'
<1> USE DEF searchVars, fetchVars, compactVars, reviewVars
<1>1. ASSUME phase' # "synthesize"
      PROVE  KeptOnce'
  BY <1>1 DEF KeptOnce
<1>2. ASSUME UNCHANGED <<phase, found, unique>>
      PROVE  KeptOnce'
  BY <1>2 DEF KeptOnce
<1>3. CASE Merge
  BY <1>3, MergeFacts
<1>4. ASSUME NEW source \in Sources, Returns(source)
      PROVE  KeptOnce'
  <2>1. phase # "synthesize" /\ phase' = phase
    BY <1>4 DEF Returns, Phases
  <2>2. QED
    BY <1>1, <2>1
<1>5. CASE RefineQueries \/ FallBack \/ Enriched \/ Output
  BY <1>1, <1>5 DEF RefineQueries, FallBack, Enriched, Output
<1>6. CASE Synthesize
  BY <1>1, <1>6 DEF Synthesize
<1>7. CASE LeaveAsItIs \/ Compact
  BY <1>2, <1>7 DEF LeaveAsItIs, Compact
<1>8. ASSUME NEW i \in DOMAIN fetch, TextFetched(i) \/ NoTextFetched(i)
      PROVE  KeptOnce'
  BY <1>2, <1>8 DEF TextFetched, NoTextFetched
<1>9. ASSUME NEW i \in DOMAIN fetch, WriteRaises(i)
      PROVE  KeptOnce'
  BY <1>1, <1>9 DEF WriteRaises
<1>10. CASE StageRaises \/ CompactRaises
  BY <1>1, <1>10 DEF StageRaises, CompactRaises
<1>11. CASE ReviseFindings \/ RevisionFails
  BY <1>2, <1>11 DEF ReviseFindings, RevisionFails
<1>12. CASE BuildFulltextsBlock
  BY <1>1, <1>12 DEF BuildFulltextsBlock
<1>13. CASE UNCHANGED searcherVars
  BY <1>2, <1>13 DEF searcherVars
<1>14. QED
  BY <1>3, <1>4, <1>5, <1>6, <1>7, <1>8, <1>9, <1>10, <1>11, <1>12, <1>13, SearchSteps

\* What the writer is shown are texts of files that were announced.
LEMMA BlockFacts ==
  ASSUME SearchTypes, Phases, Files, NoGapsBefore, Listed, BuildFulltextsBlock
  PROVE  TextsAreOfTheirPapers'
<1> DEFINE entries == [k \in DOMAIN findings.paths |->
                          [label |-> k, text |-> TextAt(findings.paths[k])]]
<1>1. PICK read : /\ read \subseteq {k \in DOMAIN findings.paths :
                                        TextAt(findings.paths[k]).is # "missing"}
                  /\ shown' = At(read, entries)
  BY DEF BuildFulltextsBlock
<1>1a. phase = "returned" /\ UNCHANGED <<findings, fetch, disk, revised>>
  BY DEF BuildFulltextsBlock, fetchVars
<1>2. PICK paths \in Seq(Nat) : paths = findings.paths
  BY DEF SearchTypes
<1>3. DOMAIN paths = 1..Len(paths) /\ Len(paths) \in Nat
  BY <1>2
<1>4. PICK all : all = entries
  OBVIOUS
<1>5. all = [k \in 1..Len(paths) |-> [label |-> k, text |-> TextAt(paths[k])]]
  BY <1>2, <1>3, <1>4
<1> HIDE DEF entries
<1> DEFINE Entry == {all[k] : k \in 1..Len(paths)}
<1>6. all \in [1..Len(paths) -> Entry]
  BY <1>5
<1> HIDE DEF Entry
<1>7. all \in Seq(Entry) /\ Len(all) = Len(paths)
  BY <1>3, <1>6
<1>8. shown' \in Seq(Entry) /\ \E from : PickedFrom(from, shown', read, all, Len(paths))
  BY <1>1, <1>4, <1>7, AtPicks
<1>9. PICK from : PickedFrom(from, shown', read, all, Len(paths))
  BY <1>8
<1>10. DOMAIN shown' = 1..Len(shown')
  BY <1>8
<1>11. ASSUME NEW i \in DOMAIN shown'
       PROVE  /\ shown'[i].label \in 1..Len(paths)
              /\ shown'[i].text = TextAt(paths[shown'[i].label])
              /\ shown'[i].text.is # "missing"
  <2>1. from[i] \in 1..Len(paths) /\ from[i] \in read /\ shown'[i] = all[from[i]]
    BY <1>9, <1>10, <1>11 DEF PickedFrom
  <2>2. all[from[i]] = [label |-> from[i], text |-> TextAt(paths[from[i]])]
    BY <1>5, <2>1
  <2>3. TextAt(paths[from[i]]).is # "missing"
    BY <1>1, <1>2, <2>1
  <2>4. QED
    BY <2>1, <2>2, <2>3
<1>12. ASSUME NEW i \in DOMAIN shown'
       PROVE  /\ shown'[i].text.is = "whole" \/ (revised /\ shown'[i].text = Other)
              /\ ~ revised /\ (\A j \in 1..shown'[i].label : fetch[j] = "text")
                   => shown'[i].text.of = findings.papers[shown'[i].label]
  <2>1. PICK k : k = shown'[i].label
    OBVIOUS
  <2>2. /\ k \in 1..Len(paths) /\ shown'[i].text = TextAt(paths[k])
        /\ TextAt(paths[k]).is # "missing" /\ paths[k] \in 0..TopN
    BY <1>2, <1>11, <2>1 DEF Listed
  <2>3. CASE revised
    <3>1. CASE paths[k] = 0
      BY <2>2, <2>3, <3>1 DEF TextAt
    <3>2. CASE paths[k] # 0
      <4>1. paths[k] \in 1..TopN /\ shown'[i].text = disk[paths[k]]
        BY <2>2, <3>2, Bounds DEF TextAt
      <4>2. disk[paths[k]] \in Texts /\ disk[paths[k]].is # "torn"
        BY <1>1a, <4>1 DEF SearchTypes, Listed
      <4>3. QED
        BY <2>2, <2>3, <4>1, <4>2, TextKinds
    <3>3. QED
      BY <3>1, <3>2
  <2>4. CASE ~ revised
    <3>1. paths[k] \in 1..Len(fetch) /\ fetch[paths[k]] = "text"
      BY <1>2, <2>2, <2>4 DEF Files, OfTexts
    <3>2. paths[k] # 0 /\ shown'[i].text = disk[paths[k]]
      BY <2>2, <3>1 DEF TextAt
    <3>3. disk[paths[k]].is = "whole"
      BY <1>1a, <3>1 DEF Files
    <3>4. ASSUME \A j \in 1..k : fetch[j] = "text"
          PROVE  disk[paths[k]].of = findings.papers[k]
      <4>1. paths[k] = k
        BY <1>1a, <1>2, <2>2, <2>4, <3>4 DEF NoGapsBefore
      <4>2. QED
        BY <2>4, <3>1, <3>3, <4>1 DEF Files
    <3>5. QED
      BY <2>1, <2>4, <3>2, <3>3, <3>4
  <2>5. QED
    BY <2>3, <2>4
<1>13. QED
  BY <1>1a, <1>12 DEF TextsAreOfTheirPapers

LEMMA TextsStep ==
  ASSUME SearchTypes, Phases, Files, NoGapsBefore, Listed, TextsAreOfTheirPapers,
         [SearchNext]_searcherVars
  PROVE  TextsAreOfTheirPapers'
<1> USE DEF searchVars, fetchVars, compactVars, reviewVars
<1>1. CASE BuildFulltextsBlock
  BY <1>1, BlockFacts
<1>2. CASE UNCHANGED searcherVars
  BY <1>2 DEF TextsAreOfTheirPapers, searcherVars
<1>3. ASSUME phase' # "written"
      PROVE  TextsAreOfTheirPapers'
  BY <1>3 DEF TextsAreOfTheirPapers
<1>4. ASSUME NEW source \in Sources, Returns(source)
      PROVE  TextsAreOfTheirPapers'
  BY <1>3, <1>4 DEF Returns, Phases
<1>5. ASSUME NEW i \in DOMAIN fetch, TextFetched(i) \/ NoTextFetched(i)
      PROVE  TextsAreOfTheirPapers'
  <2>1. fetch[i] = "at work" /\ phase' = phase
    BY <1>5 DEF TextFetched, NoTextFetched
  <2>2. i \in 1..Len(fetch)
    <3>1. fetch \in Seq(FetchStates)
      BY DEF SearchTypes
    <3>2. QED
      BY <3>1
  <2>3. phase # "written"
    BY <2>1, <2>2 DEF Phases
  <2>4. QED
    BY <1>3, <2>1, <2>3
<1>6. ASSUME NEW i \in DOMAIN fetch, WriteRaises(i)
      PROVE  TextsAreOfTheirPapers'
  BY <1>3, <1>6 DEF WriteRaises
<1>7. CASE RefineQueries \/ FallBack \/ Merge \/ Synthesize \/ Enriched
  BY <1>3, <1>7 DEF RefineQueries, FallBack, Merge, Synthesize, Enriched
<1>8. CASE LeaveAsItIs \/ Compact \/ Output
  BY <1>3, <1>8 DEF LeaveAsItIs, Compact, ShouldCompact, Output
<1>9. CASE StageRaises \/ CompactRaises \/ ReviseFindings \/ RevisionFails
  BY <1>3, <1>9 DEF StageRaises, CompactRaises, ReviseFindings, RevisionFails
<1>10. QED
  BY <1>1, <1>2, <1>4, <1>5, <1>6, <1>7, <1>8, <1>9, SearchSteps

-----------------------------------------------------------------------------
LEMMA SearchTypesSuffice ==
  ASSUME SearchTypes, Listed
  PROVE  SearchTypeOK
<1>1. PICK paths \in Seq(Nat) : paths = findings.paths
  BY DEF SearchTypes
<1>2. /\ fetch \in Seq(FetchStates) /\ Len(fetch) <= TopN /\ TopN \in Nat
      /\ landed \in Seq(1..Len(fetch)) /\ queries \in Seq(Words) /\ Len(queries) <= 6
  BY Bounds DEF SearchTypes
<1>3. DOMAIN fetch = 1..Len(fetch) /\ Len(fetch) \in Nat
  BY <1>2
<1>4. ToSet(findings.paths) \subseteq 0..TopN
  <2>1. DOMAIN paths = 1..Len(paths)
    BY <1>1
  <2>2. QED
    BY <1>1, <2>1 DEF ToSet, Listed
<1>5. DOMAIN fetch \subseteq 1..TopN /\ ToSet(fetch) \subseteq {"at work", "text", "none"}
  <2>1. \A i \in 1..Len(fetch) : fetch[i] \in FetchStates
    BY <1>2
  <2>2. ToSet(fetch) \subseteq FetchStates
    BY <1>3, <2>1 DEF ToSet
  <2>3. \A i \in 1..Len(fetch) : i \in 1..TopN
    BY <1>2, <1>3
  <2>4. QED
    BY <1>3, <2>2, <2>3 DEF FetchStates
<1>6. ToSet(landed) \subseteq DOMAIN fetch
  <2>1. DOMAIN landed = 1..Len(landed) /\ \A i \in 1..Len(landed) : landed[i] \in 1..Len(fetch)
    BY <1>2
  <2>2. QED
    BY <1>3, <2>1 DEF ToSet
<1>7. Len(queries) \in 0..6
  <2>1. Len(queries) \in Nat
    BY <1>2
  <2>2. PICK n \in Nat : n = 6
    OBVIOUS
  <2>3. Len(queries) <= n
    BY <1>2, <2>2
  <2>4. Len(queries) \in 0..n
    BY <2>1, <2>3
  <2>5. QED
    BY <2>2, <2>4
<1>8. \A n \in 1..TopN : disk[n].is \in {"missing", "torn", "whole"}
  BY TextKinds DEF SearchTypes
<1>9. DOMAIN found = Sources
  BY DEF SearchTypes
<1>10. QED
  BY <1>4, <1>5, <1>6, <1>7, <1>8, <1>9 DEF SearchTypes, SearchTypeOK

LEMMA SearchInvStep == SearchIInv /\ [SearchNext]_searcherVars => SearchIInv'
BY SearchTypesStep, PhasesStep, FilesStep, NoGapsStep, ListedStep, KeptOnceStep, TextsStep
   DEF SearchIInv

\* The inductive invariant: where the findings, the fetches and the files on
\* disk stand in every phase.
THEOREM SearchInvHolds == SearchSpec => []SearchIInv
<1>1. QED
  BY SearchInvInit, SearchInvStep, PTL DEF SearchSpec

\* agents/searcher.py and tools/pdf.py keep the types of what they hold,
\* whatever the sources, the model and the disk do.
THEOREM SearchTypeCorrect == SearchSpec => []SearchTypeOK
<1>1. SearchIInv => SearchTypeOK
  BY SearchTypesSuffice DEF SearchIInv
<1>2. QED
  BY <1>1, SearchInvHolds, PTL

\* searcher.py:403-541: across sources, queries and the fallback no paper is
\* handed to the model twice, and none that was found is without one that
\* shares a key with it.
THEOREM PapersAreKeptOnce == SearchSpec => []KeptOnce
<1>1. SearchIInv => KeptOnce
  BY DEF SearchIInv
<1>2. QED
  BY <1>1, SearchInvHolds, PTL

\* pdf.py:164-212 and writer.py:161-195: the writer is shown no torn text, and
\* up to the first paper without one each under its own paper, as long as no
\* revision changed the papers or the paths.
THEOREM TextsBelong == SearchSpec => []TextsAreOfTheirPapers
<1>1. SearchIInv => TextsAreOfTheirPapers
  BY DEF SearchIInv
<1>2. QED
  BY <1>1, SearchInvHolds, PTL
=============================================================================
