-------------------------- MODULE EvaluationProofs ---------------------------
(***************************************************************************)
(* What a benchmark concludes (localx-eval-core): the gate of an           *)
(* evaluation, for any number of checks and whatever the host does before  *)
(* and after it; the card; the judge; the grade of a test run; the         *)
(* attribution of an ablation; the ranking of cards; the agreement of      *)
(* judge and human; and the receipts of uplift runs.                       *)
(***************************************************************************)
EXTENDS Evaluation, FiniteSetTheorems, WellFoundedInduction, TLAPS

Ends == StartedEnds \cup {"Denied", "NotStarted"}
Results == [end : Ends, cleanup : {"NotStarted", "Unverified", "Confirmed"}]
Calls == [cmd : {"check", "fix"}, end : Ends, cleanup : {"NotStarted", "Unverified", "Confirmed"}]

\* What the variables of the gate hold; a call that returned has a result.
CallTypeOK ==
  /\ phase \in {"asking", "cleared", "running", "returned", "abandoned"}
  /\ step \in {"check", "fix", "recheck", "over", "none"}
  /\ step = "over" => phase = "returned" /\ outcome.fixed \in BOOLEAN
  /\ phase = "returned" /\ step # "none" => result \in Results
  /\ ends \in Seq(Calls)
  /\ started \in Seq({"check", "fix"})

\* A fixer is at work only after a check that ran and failed.
FixerIsCalledFor ==
  /\ step = "fix" => ends # <<>> /\ ends[Len(ends)].end = "ExitedBad"
  /\ \A i \in DOMAIN ends : ends[i].cmd = "fix" => i > 1

\* The last call of a check that is over was of the check.
OverAfterCheck == step = "over" => ends # <<>>

\* Whatever still runs of a command that was answered for was left unverified.
LeftIsUnverified ==
  /\ phase \in {"asking", "cleared"} => ~live
  /\ phase = "returned" /\ live => result.cleanup = "Unverified"
  /\ step = "over" /\ live => unverified
  /\ leftover => unverified

GateIInv ==
  /\ CallTypeOK /\ FixerIsCalledFor /\ OverAfterCheck /\ LeftIsUnverified
  /\ VerdictIsLastCheck /\ OverlapIsUnverified

LEMMA NoCalls == <<>> \in Seq(Calls) /\ <<>> \in Seq({"check", "fix"})
  OBVIOUS

LEMMA InitGate == Init => GateIInv
<1> SUFFICES ASSUME Init PROVE GateIInv
  OBVIOUS
<1>1. CallTypeOK
  BY NoCalls DEF Init, PromiseInit, CallTypeOK
<1>2. FixerIsCalledFor /\ OverAfterCheck /\ VerdictIsLastCheck
  BY DEF Init, FixerIsCalledFor, OverAfterCheck, VerdictIsLastCheck
<1>3. LeftIsUnverified /\ OverlapIsUnverified
  BY DEF Init, PromiseInit, LeftIsUnverified, OverlapIsUnverified
<1> QED BY <1>1, <1>2, <1>3 DEF GateIInv

\* A step of the call in progress appends no end and decides no outcome.
LEMMA ExecuteKeeps ==
  ASSUME GateIInv, Execute
  PROVE  GateIInv'
<1> USE DEF GateIInv, CallTypeOK, FixerIsCalledFor, OverAfterCheck, LeftIsUnverified,
            VerdictIsLastCheck, OverlapIsUnverified, Results, Ends, StartedEnds
<1>1. CASE Start /\ started' = Append(started, Command) /\ overlap' = (overlap \/ leftover)
  <2>1. CallTypeOK'
    BY <1>1 DEF Execute, Start, Command
  <2>2. FixerIsCalledFor' /\ OverAfterCheck' /\ VerdictIsLastCheck'
    BY <1>1 DEF Execute, Start
  <2>3. LeftIsUnverified' /\ OverlapIsUnverified'
    BY <1>1 DEF Execute, Start
  <2> QED BY <2>1, <2>2, <2>3
<1>2. CASE (CancelCall \/ Clear \/ Quiesce \/ AbandonCall) /\ UNCHANGED <<started, overlap>>
  BY <1>2 DEF Execute, CancelCall, Clear, Quiesce, AbandonCall
<1>3. ASSUME NEW why \in {"Denied", "NotStarted", "Cancelled"}, Decline(why), UNCHANGED <<started, overlap>>
      PROVE  GateIInv'
  BY <1>3 DEF Execute, Decline
<1>4. ASSUME NEW how \in StartedEnds, NEW cleanup \in {"Unverified", "Confirmed"},
             Answer(how, cleanup), UNCHANGED <<started, overlap>>
      PROVE  GateIInv'
  BY <1>4 DEF Execute, Answer
<1> QED BY <1>1, <1>2, <1>3, <1>4 DEF Execute

LEMMA LeftoverKeeps ==
  ASSUME GateIInv, LeftoverEnds
  PROVE  GateIInv'
BY DEF LeftoverEnds, promiseVars, GateIInv, CallTypeOK, FixerIsCalledFor, OverAfterCheck,
       LeftIsUnverified, VerdictIsLastCheck, OverlapIsUnverified

\* Only a check that ran and failed reads as failed.
LEMMA FailedIsExitedBad ==
  ASSUME NEW end \in Ends, Fold(end) = "Failed"
  PROVE  end = "ExitedBad"
BY DEF Fold, Ends, StartedEnds

\* A call returned: its end is recorded last, and what it left running is
\* known to be unverified.
LEMMA ReturnedKeeps ==
  ASSUME GateIInv, Returned
  PROVE  GateIInv'
<1> DEFINE call == [cmd |-> Command, end |-> result.end, cleanup |-> result.cleanup]
<1>1. /\ call \in Calls
      /\ ends' = Append(ends, call)
      /\ phase = "returned" /\ result \in Results
      /\ step \in {"check", "fix", "recheck"}
      /\ ends \in Seq(Calls)
  BY DEF Returned, Command, Calls, Results, GateIInv, CallTypeOK
<1>2. /\ ends' \in Seq(Calls) /\ ends' # <<>>
      /\ Len(ends') = Len(ends) + 1
      /\ ends'[Len(ends')] = call
      /\ \A i \in DOMAIN ends : ends'[i] = ends[i]
      /\ DOMAIN ends' = DOMAIN ends \cup {Len(ends) + 1}
  BY <1>1
<1> HIDE DEF call
<1>3. \A i \in DOMAIN ends' : ends'[i].cmd = "fix" => ends'[i - 1].end = "ExitedBad"
  <2> SUFFICES ASSUME NEW i \in DOMAIN ends', ends'[i].cmd = "fix"
               PROVE  ends'[i - 1].end = "ExitedBad"
    OBVIOUS
  <2>1. CASE i \in DOMAIN ends
    <3>1. ends[i - 1].end = "ExitedBad"
      BY <1>2, <2>1 DEF GateIInv, VerdictIsLastCheck
    <3>2. i - 1 \in DOMAIN ends
      BY <1>1, <1>2, <2>1 DEF GateIInv, FixerIsCalledFor
    <3> QED
      BY <1>2, <2>1, <3>1, <3>2
  <2>2. CASE i = Len(ends) + 1
    <3>1. step = "fix"
      BY <1>1, <1>2, <2>2 DEF call, Command
    <3> QED
      BY <1>1, <1>2, <2>2, <3>1 DEF GateIInv, FixerIsCalledFor
  <2> QED BY <1>2, <2>1, <2>2
<1>4. ends'[Len(ends')].cmd = Command /\ ends'[Len(ends')].end = result.end
  BY <1>2 DEF call
<1>5. unverified' = (unverified \/ result.cleanup = "Unverified")
  BY DEF Returned
<1>6. FixerIsCalledFor => \A i \in DOMAIN ends' : ends'[i].cmd = "fix" => i > 1
  <2>1. ends = <<>> => step # "fix"
    BY DEF GateIInv, FixerIsCalledFor
  <2> QED
    BY <1>1, <1>2, <2>1 DEF FixerIsCalledFor, call, Command
<1>7. ASSUME NEW next \in {"fix", "recheck"}, Call(next),
             next = "fix" => Fold(result.end) = "Failed"
      PROVE  GateIInv'
  <2>1. CallTypeOK'
    BY <1>1, <1>2, <1>5, <1>7 DEF Call, Returned, GateIInv, CallTypeOK
  <2>2. FixerIsCalledFor' /\ OverAfterCheck' /\ VerdictIsLastCheck'
    BY <1>1, <1>2, <1>3, <1>4, <1>6, <1>7, FailedIsExitedBad
       DEF Call, GateIInv, Results, FixerIsCalledFor, OverAfterCheck, VerdictIsLastCheck
  <2>3. LeftIsUnverified' /\ OverlapIsUnverified'
    BY <1>1, <1>5, <1>7
       DEF Call, Returned, GateIInv, CallTypeOK, LeftIsUnverified, OverlapIsUnverified
  <2> QED BY <2>1, <2>2, <2>3 DEF GateIInv
<1>8. ASSUME NEW fixed \in BOOLEAN, Conclude(fixed), step # "fix"
      PROVE  GateIInv'
  <2>1. CallTypeOK'
    BY <1>1, <1>2, <1>5, <1>8 DEF Conclude, promiseVars, Returned, GateIInv, CallTypeOK
  <2>2. FixerIsCalledFor' /\ OverAfterCheck' /\ VerdictIsLastCheck'
    BY <1>1, <1>2, <1>3, <1>4, <1>6, <1>8
       DEF Conclude, Command, GateIInv, FixerIsCalledFor, OverAfterCheck, VerdictIsLastCheck
  <2>3. LeftIsUnverified' /\ OverlapIsUnverified'
    BY <1>1, <1>5, <1>8
       DEF Conclude, promiseVars, Returned, GateIInv, CallTypeOK, LeftIsUnverified, OverlapIsUnverified
  <2> QED BY <2>1, <2>2, <2>3 DEF GateIInv
<1> QED BY <1>7, <1>8 DEF Returned, AfterCheck, AfterFix

LEMMA SameGate == ASSUME GateIInv, UNCHANGED vars PROVE GateIInv'
BY DEF vars, promiseVars, runVars, GateIInv, CallTypeOK, FixerIsCalledFor, OverAfterCheck,
       LeftIsUnverified, VerdictIsLastCheck, OverlapIsUnverified

LEMMA RunningKeeps == ASSUME GateIInv, Next PROVE GateIInv'
BY ExecuteKeeps, LeftoverKeeps, ReturnedKeeps DEF Next

\* The next check starts on a fresh call, with what the last one left.
LEMMA NextCheckKeeps ==
  ASSUME GateIInv, NextCheck
  PROVE  GateIInv'
<1> USE DEF NextCheck, Judged, NoResult, GateIInv
<1>1. CallTypeOK'
  BY NoCalls DEF CallTypeOK
<1>2. FixerIsCalledFor' /\ OverAfterCheck' /\ VerdictIsLastCheck'
  BY DEF FixerIsCalledFor, OverAfterCheck, VerdictIsLastCheck
<1>3. LeftIsUnverified' /\ OverlapIsUnverified'
  BY DEF CallTypeOK, LeftIsUnverified, OverlapIsUnverified
<1> QED BY <1>1, <1>2, <1>3

LEMMA CloseGateKeeps ==
  ASSUME GateIInv, CloseGate
  PROVE  GateIInv'
<1> USE DEF CloseGate, Judged, NoResult, GateIInv
<1>1. CallTypeOK'
  BY NoCalls DEF CallTypeOK
<1>2. FixerIsCalledFor' /\ OverAfterCheck' /\ VerdictIsLastCheck'
  BY DEF FixerIsCalledFor, OverAfterCheck, VerdictIsLastCheck
<1>3. LeftIsUnverified' /\ OverlapIsUnverified'
  BY DEF CallTypeOK, LeftIsUnverified, OverlapIsUnverified
<1> QED BY <1>1, <1>2, <1>3

LEMMA GateInvariance == EvaluationSpec => []GateIInv
<1>1. EvaluationInit => GateIInv
  BY InitGate DEF EvaluationInit
<1>2. GateIInv /\ [EvaluationNext]_evaluationVars => GateIInv'
  <2> SUFFICES ASSUME GateIInv, [EvaluationNext]_evaluationVars PROVE GateIInv'
    OBVIOUS
  <2>1. CASE Running
    BY <2>1, RunningKeeps DEF Running
  <2>2. CASE NextCheck
    BY <2>2, NextCheckKeeps
  <2>3. CASE CloseGate
    BY <2>3, CloseGateKeeps
  <2>4. CASE Verify \/ Report \/ Ablate \/ Consult \/ RunUplift \/ UNCHANGED evaluationVars
    BY <2>4, SameGate DEF Verify, Report, Ablate, Consult, RunUplift, evaluationVars
  <2> QED BY <2>1, <2>2, <2>3, <2>4 DEF EvaluationNext
<1> QED BY <1>1, <1>2, PTL DEF EvaluationSpec

\* CheckRunner::run and maybe_fix: the outcome is what the last run of the check
\* itself said, and a fixer ran only after a check that ran and failed.
THEOREM EvaluationVerdictIsLastCheck == EvaluationSpec => []VerdictIsLastCheck
<1>1. GateIInv => VerdictIsLastCheck
  BY DEF GateIInv
<1> QED BY <1>1, GateInvariance, PTL

\* CheckRunner::run ignores cleanup: two commands of one check run next to each
\* other only if a cleanup was reported Unverified.
THEOREM EvaluationOverlapIsUnverified == EvaluationSpec => []OverlapIsUnverified
<1>1. GateIInv => OverlapIsUnverified
  BY DEF GateIInv
<1> QED BY <1>1, GateInvariance, PTL

\* CancelSignal: "refuse to start one, once cancel fires".
THEOREM EvaluationNothingStartsOnceCancelled == EvaluationSpec => NothingStartsOnceCancelled
<1>1. ASSUME GateIInv, [EvaluationNext]_evaluationVars, cancelled, phase # "cleared"
      PROVE  UNCHANGED vars \/ (Len(started') <= Len(started) /\ phase' # "cleared")
  <2>0. /\ Len(started) \in Nat /\ Len(started) >= 0
        /\ started' = started => Len(started') <= Len(started)
    BY <1>1 DEF GateIInv, CallTypeOK
  <2>1. CASE Execute
    BY <1>1, <2>0, <2>1 DEF Execute, Start, CancelCall, Clear, Quiesce, AbandonCall, Decline, Answer
  <2>2. CASE LeftoverEnds
    BY <1>1, <2>0, <2>2 DEF LeftoverEnds, promiseVars
  <2>3. CASE Returned
    BY <1>1, <2>0, <2>3 DEF Returned, AfterCheck, AfterFix, Call, Conclude, promiseVars
  <2>4. CASE NextCheck \/ CloseGate
    BY <1>1, <2>0, <2>4 DEF NextCheck, CloseGate
  <2>5. CASE Verify \/ Report \/ Ablate \/ Consult \/ RunUplift \/ UNCHANGED evaluationVars
    BY <2>5 DEF Verify, Report, Ablate, Consult, RunUplift, evaluationVars
  <2> QED BY <1>1, <2>1, <2>2, <2>3, <2>4, <2>5 DEF EvaluationNext, Running, Next
<1> QED BY <1>1, GateInvariance, PTL DEF EvaluationSpec, NothingStartsOnceCancelled

-----------------------------------------------------------------------------
(* The card. *)

\* The outcomes are those of the checks of the gate in its order; one says Passed
\* exactly if the command of its check last exited 0.
OutcomesAreTrue ==
  /\ Len(outcomes) <= Len(Gate)
  /\ outcomes \in Seq([name : DOMAIN Role, status : {"Denied", "Passed", "Failed", "Errored"}, fixed : BOOLEAN])
  /\ \A i \in DOMAIN outcomes :
       outcomes[i].name = Gate[i] /\ (OutcomePassed(outcomes[i]) <=> Gate[i] \in proved)
  /\ proved \subseteq {Gate[i] : i \in DOMAIN outcomes}

\* How far the gate is in each stage, and what the card says of it.
CardIsOfOutcomes ==
  /\ stage = "gate" => Len(outcomes) < Len(Gate)
  /\ stage \in {"closed", "graded", "reported"} => Len(outcomes) = Len(Gate)
  /\ stage = "reported" =>
       /\ card[1].quality.format_clean = CheckClean(outcomes, Formatters)
       /\ card[1].quality.lint_clean = CheckClean(outcomes, Linters)
       /\ card[1].quality.typecheck_clean = CheckClean(outcomes, Compilers)

LEMMA OutcomeIsOfExit ==
  ASSUME GateIInv, step = "over"
  PROVE  /\ outcome.status \in {"Denied", "Passed", "Failed", "Errored"}
         /\ outcome.status = "Passed" <=> ends[Len(ends)].end = "ExitedOk"
<1>1. outcome.status = Fold(ends[Len(ends)].end)
  BY DEF GateIInv, VerdictIsLastCheck
<1> QED BY <1>1 DEF Fold

\* A check that is judged adds its own outcome and none before it.
LEMMA JudgedKeeps ==
  ASSUME GateIInv, OutcomesAreTrue, CardIsOfOutcomes, Judged
  PROVE  OutcomesAreTrue' /\ Len(outcomes') = Len(outcomes) + 1
<1> DEFINE n == Len(outcomes) + 1
           new == [name |-> Gate[n], status |-> outcome.status, fixed |-> outcome.fixed]
<1>1. /\ n \in DOMAIN Gate /\ Gate[n] \in DOMAIN Role
      /\ DOMAIN outcomes = 1..(n - 1) /\ n \in Nat
  BY GateAssumption DEF OutcomesAreTrue, CardIsOfOutcomes, Judged
<1>2. /\ outcomes' = Append(outcomes, new)
      /\ proved' = IF ends[Len(ends)].end = "ExitedOk" THEN proved \cup {Gate[n]} ELSE proved
  BY DEF Judged
<1>3. OutcomePassed(new) <=> ends[Len(ends)].end = "ExitedOk"
  BY OutcomeIsOfExit DEF Judged, OutcomePassed
<1>4. Gate[n] \notin proved
  BY <1>1, GateAssumption DEF OutcomesAreTrue
<1>5. new \in [name : DOMAIN Role, status : {"Denied", "Passed", "Failed", "Errored"}, fixed : BOOLEAN]
  BY <1>1, OutcomeIsOfExit DEF Judged, GateIInv, CallTypeOK
<1>6. /\ outcomes' \in Seq([name : DOMAIN Role, status : {"Denied", "Passed", "Failed", "Errored"},
                           fixed : BOOLEAN])
      /\ Len(outcomes') = n /\ DOMAIN outcomes' = DOMAIN outcomes \cup {n}
      /\ outcomes'[n] = new /\ \A i \in DOMAIN outcomes : outcomes'[i] = outcomes[i]
  <2> HIDE DEF new
  <2> QED BY <1>2, <1>5 DEF OutcomesAreTrue
<1> HIDE DEF new
<1>7. n <= Len(Gate)
  BY <1>1, GateAssumption
<1>8. ASSUME NEW i \in DOMAIN outcomes'
      PROVE  /\ outcomes'[i].name = Gate[i]
             /\ OutcomePassed(outcomes'[i]) <=> Gate[i] \in proved'
  <2>1. CASE i = n
    BY <1>2, <1>3, <1>4, <1>6, <2>1 DEF new
  <2>2. CASE i \in DOMAIN outcomes
    <3>1. i \in DOMAIN Gate /\ i # n
      BY <1>1, <2>2, GateAssumption
    <3>2. Gate[i] # Gate[n]
      BY <1>1, <3>1, GateAssumption
    <3>3. Gate[i] \in proved' <=> Gate[i] \in proved
      BY <1>2, <3>2
    <3> QED BY <1>6, <2>2, <3>3 DEF OutcomesAreTrue, OutcomePassed
  <2> QED BY <1>6, <2>1, <2>2
<1>9. proved' \subseteq {Gate[i] : i \in DOMAIN outcomes'}
  BY <1>2, <1>6 DEF OutcomesAreTrue
<1> QED BY <1>6, <1>7, <1>8, <1>9 DEF OutcomesAreTrue, OutcomePassed

LEMMA CardInvariance == EvaluationSpec => [](OutcomesAreTrue /\ CardIsOfOutcomes)
<1>1. EvaluationInit => OutcomesAreTrue /\ CardIsOfOutcomes
  BY GateAssumption DEF EvaluationInit, OutcomesAreTrue, CardIsOfOutcomes
<1>2. GateIInv /\ OutcomesAreTrue /\ CardIsOfOutcomes /\ [EvaluationNext]_evaluationVars
        => OutcomesAreTrue' /\ CardIsOfOutcomes'
  <2> SUFFICES ASSUME GateIInv, OutcomesAreTrue, CardIsOfOutcomes, [EvaluationNext]_evaluationVars
               PROVE  OutcomesAreTrue' /\ CardIsOfOutcomes'
    OBVIOUS
  <2>1. CASE UNCHANGED scoreVars
    BY <2>1 DEF scoreVars, OutcomesAreTrue, CardIsOfOutcomes, OutcomePassed, CheckClean
  <2>2. CASE NextCheck
    BY <2>2, JudgedKeeps, GateAssumption DEF NextCheck, Judged, OutcomesAreTrue, CardIsOfOutcomes
  <2>3. CASE CloseGate
    BY <2>3, JudgedKeeps, GateAssumption DEF CloseGate, Judged, CardIsOfOutcomes
  <2>4. CASE Verify \/ Ablate
    BY <2>4 DEF Verify, Ablate, OutcomesAreTrue, CardIsOfOutcomes, OutcomePassed
  <2>5. CASE Report
    <3>1. UNCHANGED <<outcomes, proved>> /\ stage = "graded" /\ stage' = "reported"
      BY <2>5 DEF Report
    <3>2. /\ card'[1].quality.format_clean = CheckClean(outcomes, Formatters)
          /\ card'[1].quality.lint_clean = CheckClean(outcomes, Linters)
          /\ card'[1].quality.typecheck_clean = CheckClean(outcomes, Compilers)
      BY <2>5 DEF Report, FromSignals
    <3>3. OutcomesAreTrue'
      BY <3>1 DEF OutcomesAreTrue, OutcomePassed
    <3>4. CardIsOfOutcomes'
      BY <3>1, <3>2 DEF CardIsOfOutcomes, CheckClean, OutcomePassed, Formatters, Linters, Compilers
    <3> QED BY <3>3, <3>4
  <2> QED BY <2>1, <2>2, <2>3, <2>4, <2>5
          DEF EvaluationNext, Running, Consult, RunUplift, evaluationVars
<1> QED BY <1>1, <1>2, GateInvariance, PTL DEF EvaluationSpec

\* check_clean and QualityBlock::from_signals: a clean flag on the card is that of
\* checks whose own last run exited 0, and a gate of such checks has a clean card.
THEOREM EvaluationCleanMeansRan == EvaluationSpec => []CleanMeansRan
<1>1. ASSUME OutcomesAreTrue, CardIsOfOutcomes, stage = "reported"
      PROVE  CleanMeansRan
  <2>1. /\ DOMAIN outcomes = DOMAIN Gate
        /\ \A i \in DOMAIN Gate : outcomes[i].name = Gate[i]
        /\ \A i \in DOMAIN Gate : OutcomePassed(outcomes[i]) <=> Gate[i] \in proved
    BY <1>1, GateAssumption DEF OutcomesAreTrue, CardIsOfOutcomes
  <2>2. ASSUME NEW names
        PROVE  CheckClean(outcomes, names)
                 <=> \A i \in DOMAIN Gate : Words[Gate[i]] \cap names # {} => Gate[i] \in proved
    BY <2>1 DEF CheckClean
  <2> DEFINE quality == card[1].quality
             Ok(role) == \A i \in DOMAIN Gate : Role[Gate[i]] = role => Gate[i] \in proved
             all == \A i \in DOMAIN Gate : Gate[i] \in proved
  <2>3. /\ quality.format_clean => Ok("format")
        /\ all => quality.format_clean
    BY <1>1, <2>2, GateAssumption DEF CardIsOfOutcomes
  <2>4. /\ quality.lint_clean => Ok("lint")
        /\ all => quality.lint_clean
    BY <1>1, <2>2, GateAssumption DEF CardIsOfOutcomes
  <2>5. /\ quality.typecheck_clean => Ok("compile")
        /\ all => quality.typecheck_clean
    BY <1>1, <2>2, GateAssumption DEF CardIsOfOutcomes
  <2> QED BY <2>3, <2>4, <2>5 DEF CleanMeansRan
<1>2. stage # "reported" => CleanMeansRan
  BY DEF CleanMeansRan
<1>3. OutcomesAreTrue /\ CardIsOfOutcomes => CleanMeansRan
  BY <1>1, <1>2
<1> QED BY <1>3, CardInvariance, PTL

-----------------------------------------------------------------------------
(* The judge.  How a reply is read is left to the run: the theorems assume     *)
(* that what the parsers make of a reply is what the judge meant, and show     *)
(* that caching, blinding and the self-test take nothing away from that.       *)

RepliesAreRead ==
  /\ \A reply \in Scorings : ParseJudgeBlock(reply.raw) = {FromDimensions(s) : s \in reply.means}
  /\ \A reply \in Preferences : ParsePreference(reply.raw) = reply.means

\* Under each prompt the cache holds the last reply that was meant for it.
Scored(prompt) ==
  \E reply \in Scorings : cache[prompt] = reply.raw /\ meant[prompt] = reply.means
Compared(prompt) ==
  \E reply \in Preferences :
    /\ cache[prompt] = reply.raw /\ meant[prompt] = reply.means
    /\ \A place \in reply.means :
         favourite = IF place = 1 THEN prompt.solution_1 ELSE prompt.solution_2
IsScoring(prompt) == \E diff, trajectory : prompt = [solution |-> diff, produced |-> trajectory]
IsComparison(prompt) == \E one, two : prompt = [solution_1 |-> one, solution_2 |-> two]

CacheIsMeant ==
  /\ DOMAIN cache = DOMAIN meant
  /\ \A prompt \in DOMAIN cache :
       (IsScoring(prompt) /\ Scored(prompt)) \/ (IsComparison(prompt) /\ Compared(prompt))

\* A prompt asks for a score or for a preference, never for both.
LEMMA PromptsDiffer ==
  ASSUME NEW prompt, IsScoring(prompt)
  PROVE  ~IsComparison(prompt)
<1>1. PICK diff, trajectory : prompt = [solution |-> diff, produced |-> trajectory]
  BY DEF IsScoring
<1>2. "solution" \in DOMAIN prompt
  BY <1>1
<1>3. ASSUME NEW one, NEW two, prompt = [solution_1 |-> one, solution_2 |-> two]
      PROVE  FALSE
  BY <1>2, <1>3
<1> QED BY <1>3 DEF IsComparison

\* A new reply leaves the others in their place.
LEMMA InsertKeeps ==
  ASSUME CacheIsMeant, NEW prompt, NEW reply, Insert(prompt, reply),
         \/ IsScoring(prompt) /\ reply \in Scorings
         \/ /\ IsComparison(prompt) /\ reply \in Preferences
            /\ \A place \in reply.means :
                 favourite = IF place = 1 THEN prompt.solution_1 ELSE prompt.solution_2
  PROVE  CacheIsMeant'
<1>1. /\ DOMAIN cache' = DOMAIN cache \cup {prompt}
      /\ DOMAIN meant' = DOMAIN cache'
      /\ cache'[prompt] = reply.raw /\ meant'[prompt] = reply.means
      /\ \A p \in DOMAIN cache : p # prompt => cache'[p] = cache[p] /\ meant'[p] = meant[p]
      /\ favourite' = favourite
  BY DEF Insert, CacheIsMeant
<1>2. ASSUME NEW p \in DOMAIN cache, p # prompt
      PROVE  (IsScoring(p) /\ Scored(p)') \/ (IsComparison(p) /\ Compared(p)')
  <2>1. cache'[p] = cache[p] /\ meant'[p] = meant[p] /\ favourite' = favourite
    BY <1>1, <1>2
  <2>2. Scored(p) => Scored(p)'
    BY <2>1 DEF Scored
  <2>3. Compared(p) => Compared(p)'
    BY <2>1 DEF Compared
  <2> QED BY <1>2, <2>2, <2>3 DEF CacheIsMeant
<1>3. (IsScoring(prompt) /\ Scored(prompt)') \/ (IsComparison(prompt) /\ Compared(prompt)')
  BY <1>1 DEF Scored, Compared
<1>4. \A p \in DOMAIN cache' :
        (IsScoring(p) /\ Scored(p)') \/ (IsComparison(p) /\ Compared(p)')
  BY <1>1, <1>2, <1>3
<1> QED BY <1>1, <1>4 DEF CacheIsMeant, IsScoring, IsComparison

LEMMA JudgingKeeps ==
  ASSUME CacheIsMeant, JudgingNext
  PROVE  CacheIsMeant'
<1>1. ASSUME NEW input, AskScore(input)
      PROVE  CacheIsMeant'
  <2>1. PICK reply \in Scorings : Insert(JudgePrompt(input), reply)
    BY <1>1 DEF AskScore
  <2>2. IsScoring(JudgePrompt(input))
    BY DEF JudgePrompt, IsScoring
  <2> QED BY <2>1, <2>2, InsertKeeps
<1>2. ASSUME NEW pair \in Pairs, AskPreference(pair)
      PROVE  CacheIsMeant'
  <2>1. PICK reply \in Preferences :
          /\ \A place \in reply.means :
               favourite = IF place = 1 THEN pair.solution_1 ELSE pair.solution_2
          /\ Insert(PreferencePrompt(pair), reply)
    BY <1>2 DEF AskPreference
  <2> DEFINE prompt == PreferencePrompt(pair)
  <2>2. IsComparison(prompt) /\ prompt.solution_1 = pair.solution_1 /\ prompt.solution_2 = pair.solution_2
    BY DEF PreferencePrompt, IsComparison
  <2> QED BY <2>1, <2>2, InsertKeeps
<1> QED BY <1>1, <1>2 DEF JudgingNext

LEMMA CacheInvariance == EvaluationSpec => []CacheIsMeant
<1>1. EvaluationInit => CacheIsMeant
  BY DEF EvaluationInit, JudgingInit, CacheIsMeant
<1>2. CacheIsMeant /\ [EvaluationNext]_evaluationVars => CacheIsMeant'
  <2> SUFFICES ASSUME CacheIsMeant, [EvaluationNext]_evaluationVars PROVE CacheIsMeant'
    OBVIOUS
  <2>1. CASE UNCHANGED judgeVars
    BY <2>1 DEF judgeVars, CacheIsMeant, Scored, Compared
  <2>2. CASE JudgingNext
    BY <2>2, JudgingKeeps
  <2> QED BY <2>1, <2>2 DEF EvaluationNext, Consult, RunUplift, evaluationVars
<1> QED BY <1>1, <1>2, PTL DEF EvaluationSpec

\* Judge::score_offline: what is read for an input is what was last meant by it.
LEMMA ScoreIsMeant ==
  ASSUME RepliesAreRead, CacheIsMeant, NEW input
  PROVE  ScoreOffline(input) = {FromDimensions(s) : s \in Meant(input)}
<1> DEFINE prompt == JudgePrompt(input)
<1>1. IsScoring(prompt)
  BY DEF JudgePrompt, IsScoring
<1>2. CASE prompt \notin DOMAIN cache
  BY <1>2 DEF ScoreOffline, Get, Meant, CacheIsMeant
<1>3. CASE prompt \in DOMAIN cache
  <2>1. Scored(prompt)
    BY <1>1, <1>3, PromptsDiffer DEF CacheIsMeant
  <2>2. ParseJudgeBlock(cache[prompt]) = {FromDimensions(s) : s \in meant[prompt]}
    BY <2>1 DEF Scored, RepliesAreRead
  <2>3. ScoreOffline(input) = ParseJudgeBlock(cache[prompt])
    BY <1>3 DEF ScoreOffline, Get
  <2>4. Meant(input) = meant[prompt]
    BY <1>3 DEF Meant, CacheIsMeant
  <2> QED BY <2>2, <2>3, <2>4
<1> QED BY <1>2, <1>3

\* "Prove the instrument before spending on it": whatever was asked, in any order
\* and again, a score is given exactly of a judge that by what it last meant ranks
\* every fixture, and is what it last meant by that input.
THEOREM EvaluationGatedScoreIsEarned ==
  ASSUME RepliesAreRead
  PROVE  EvaluationSpec => []GatedScoreIsEarned
<1>1. ASSUME CacheIsMeant
      PROVE  GatedScoreIsEarned
  <2> DEFINE Ranks ==
        \A fx \in RANKING_FIXTURES :
          \E b \in Meant(NoTrajectory(fx.better)), w \in Meant(NoTrajectory(fx.worse)) :
            Total(b) > Total(w)
  <2>1. \A input : ScoreOffline(input) = {FromDimensions(s) : s \in Meant(input)}
    BY <1>1, ScoreIsMeant
  <2>2. \A s : FromDimensions(s).overall = Total(s) /\ FromDimensions(s).scores = s
    BY DEF FromDimensions
  <2>3. RankingVerdict <=> Ranks
    <3>1. ASSUME NEW fx \in RANKING_FIXTURES
          PROVE  (\E b \in ScoreOffline(NoTrajectory(fx.better)), w \in ScoreOffline(NoTrajectory(fx.worse)) :
                    b.overall > w.overall)
                 <=> (\E b \in Meant(NoTrajectory(fx.better)), w \in Meant(NoTrajectory(fx.worse)) :
                        Total(b) > Total(w))
      BY <2>1, <2>2
    <3> QED BY <3>1 DEF RankingVerdict
  <2>4. ASSUME NEW input \in AllInputs
        PROVE  /\ ScoreOfflineGated(input).refused <=> ~Ranks
               /\ {block.scores : block \in ScoreOfflineGated(input).block}
                    = IF Ranks THEN Meant(input) ELSE {}
    <3> HIDE DEF Ranks
    <3>1. CASE Ranks
      <4>1. ScoreOfflineGated(input) = [refused |-> FALSE, block |-> ScoreOffline(input)]
        BY <2>3, <3>1 DEF ScoreOfflineGated
      <4>2. {block.scores : block \in ScoreOffline(input)} = Meant(input)
        BY <2>1, <2>2
      <4> QED BY <3>1, <4>1, <4>2
    <3>2. CASE ~Ranks
      BY <2>3, <3>2 DEF ScoreOfflineGated
    <3> QED BY <3>1, <3>2
  <2> QED BY <2>4 DEF GatedScoreIsEarned
<1> QED BY <1>1, CacheInvariance, PTL

\* Judge blinding: whatever the seed and the order of the arguments, the arm a
\* cached preference resolves to holds the solution the judge prefers.
THEOREM EvaluationVerdictIsOfContent ==
  ASSUME RepliesAreRead
  PROVE  EvaluationSpec => []VerdictIsOfContent
<1>1. ASSUME CacheIsMeant
      PROVE  VerdictIsOfContent
  <2> SUFFICES ASSUME NEW a \in Solutions, NEW b \in Solutions, NEW seed \in Seeds
               PROVE  LET pair == Blind(a, b, seed)
                          prompt == PreferencePrompt(pair)
                          verdicts == UNION {ResolvePreference(pair, place) :
                                        place \in UNION {ParsePreference(raw) : raw \in Get(prompt)}}
                      IN  /\ \A verdict \in verdicts : favourite = IF verdict = "First" THEN a ELSE b
                          /\ prompt \in DOMAIN meant /\ meant[prompt] # {} => verdicts # {}
    BY DEF VerdictIsOfContent
  <2> DEFINE pair == Blind(a, b, seed)
             prompt == PreferencePrompt(pair)
             places == UNION {ParsePreference(raw) : raw \in Get(prompt)}
             verdicts == UNION {ResolvePreference(pair, place) : place \in places}
  <2>1. /\ pair.swapped <=> seed \in OddSeeds
        /\ prompt.solution_1 = IF seed \in OddSeeds THEN b ELSE a
        /\ prompt.solution_2 = IF seed \in OddSeeds THEN a ELSE b
    BY DEF Blind, PreferencePrompt
  <2>2. IsComparison(prompt)
    BY DEF PreferencePrompt, IsComparison
  <2>3. \A raw : ParsePreference(raw) \subseteq {1, 2}
    BY DEF ParsePreference
  <2>4. CASE prompt \notin DOMAIN cache
    <3>1. Get(prompt) = {} /\ prompt \notin DOMAIN meant
      BY <1>1, <2>4 DEF Get, CacheIsMeant
    <3> QED BY <3>1
  <2>5. CASE prompt \in DOMAIN cache
    <3>1. Compared(prompt)
      BY <1>1, <2>2, <2>5, PromptsDiffer DEF CacheIsMeant
    <3>2. places = ParsePreference(cache[prompt])
      BY <2>5 DEF Get
    <3>3. /\ places = meant[prompt] /\ places \subseteq {1, 2}
          /\ \A place \in places :
               favourite = IF place = 1 THEN prompt.solution_1 ELSE prompt.solution_2
      BY <2>3, <3>1, <3>2 DEF Compared, RepliesAreRead
    <3> HIDE DEF pair, prompt, places
    <3>4. ASSUME NEW place \in places
          PROVE  /\ ResolvePreference(pair, place) # {}
                 /\ \A verdict \in ResolvePreference(pair, place) :
                      favourite = IF verdict = "First" THEN a ELSE b
      BY <2>1, <3>3 DEF ResolvePreference
    <3>5. \A verdict \in verdicts : favourite = IF verdict = "First" THEN a ELSE b
      BY <3>4
    <3>6. meant[prompt] # {} => verdicts # {}
      BY <3>3, <3>4
    <3> QED BY <3>5, <3>6 DEF pair, prompt, places
  <2> QED BY <2>4, <2>5
<1> QED BY <1>1, CacheInvariance, PTL
-----------------------------------------------------------------------------
(* The grade of a test run. *)

LEMMA LeastOf ==
  ASSUME NEW T \in SUBSET Nat, T # {}
  PROVE  \E n \in T : \A m \in T : n <= m
<1>1. PICK n \in T : \A m \in T : <<m, n>> \notin OpToRel(<, Nat)
  BY NatLessThanWellFounded, WFMin
<1>2. \A m \in T : ~(m < n)
  BY <1>1 DEF OpToRel
<1> QED BY <1>2

LEMMA MinIs ==
  ASSUME NEW T \in SUBSET Nat, T # {}
  PROVE  Min(T) \in T /\ \A m \in T : Min(T) <= m
<1>1. \E n \in T : \A m \in T : n <= m
  BY LeastOf
<1> QED BY <1>1 DEF Min

\* What holds at 0 and of every successor up to a bound holds up to it.
LEMMA UpTo ==
  ASSUME NEW N \in Nat, NEW S, 0 \in S, \A n \in 1..N : n - 1 \in S => n \in S
  PROVE  0..N \subseteq S
<1> DEFINE T == (0..N) \ S
<1>1. SUFFICES ASSUME T # {} PROVE FALSE
  OBVIOUS
<1>2. PICK n \in T : \A m \in T : n <= m
  <2>1. T \in SUBSET Nat
    OBVIOUS
  <2> HIDE DEF T
  <2> QED BY <1>1, <2>1, LeastOf
<1>3. n # 0 /\ n \in 1..N /\ n - 1 \in 0..N /\ n - 1 \notin T
  BY <1>2
<1> QED BY <1>2, <1>3

Sums(f, counts, n) ==
  f = [m \in 0..n |-> IF m = 0 THEN 0 ELSE f[m - 1] + counts[m]]

LEMMA SumsExist ==
  ASSUME NEW counts, NEW N \in Nat
  PROVE  \E f : Sums(f, counts, N)
<1> DEFINE S == {n \in 0..N : \E f : Sums(f, counts, n)}
<1>1. 0 \in S
  <2>1. Sums([m \in 0..0 |-> 0], counts, 0)
    BY DEF Sums
  <2> QED BY <2>1
<1>2. ASSUME NEW n \in 1..N, n - 1 \in S PROVE n \in S
  <2>1. PICK f : Sums(f, counts, n - 1)
    BY <1>2
  <2> DEFINE g == [m \in 0..n |-> IF m = n THEN f[n - 1] + counts[n] ELSE f[m]]
  <2>2. \A m \in 0..(n - 1) : f[m] = IF m = 0 THEN 0 ELSE f[m - 1] + counts[m]
    BY <2>1 DEF Sums
  <2>3. \A m \in 0..n : g[m] = IF m = 0 THEN 0 ELSE g[m - 1] + counts[m]
    BY <2>2
  <2>4. g = [m \in 0..n |-> g[m]]
    OBVIOUS
  <2>5. g = [m \in 0..n |-> IF m = 0 THEN 0 ELSE g[m - 1] + counts[m]]
    <3> HIDE DEF g
    <3> QED BY <2>3, <2>4
  <2>6. Sums(g, counts, n)
    BY <2>5 DEF Sums
  <2> QED BY <2>6
<1>3. 0..N \subseteq S
  <2> HIDE DEF S
  <2> QED BY <1>1, <1>2, UpTo
<1> QED BY <1>3

\* A sum of counts is positive if and only if one of them is.
LEMMA SummedIs ==
  ASSUME NEW counts, NEW N \in Nat, Len(counts) = N, \A i \in 1..N : counts[i] \in Nat
  PROVE  Summed(counts) \in Nat /\ (Summed(counts) > 0 <=> \E i \in 1..N : counts[i] > 0)
<1> DEFINE f == CHOOSE g : Sums(g, counts, Len(counts))
<1>1. Summed(counts) = f[N]
  <2>1. Summed(counts) = f[Len(counts)]
    BY Zenon DEF Summed, Sums
  <2> QED BY <2>1
<1>2. Sums(f, counts, N)
  BY SumsExist
<1> HIDE DEF f
<1>3. \A n \in 0..N : f[n] = IF n = 0 THEN 0 ELSE f[n - 1] + counts[n]
  BY <1>2 DEF Sums
<1> DEFINE S == {n \in 0..N : f[n] \in Nat /\ (f[n] > 0 <=> \E i \in 1..n : counts[i] > 0)}
<1>4. 0 \in S
  BY <1>3
<1>5. ASSUME NEW n \in 1..N, n - 1 \in S PROVE n \in S
  <2>1. f[n] = f[n - 1] + counts[n] /\ f[n - 1] \in Nat /\ counts[n] \in Nat
    BY <1>3, <1>5
  <2>2. f[n - 1] > 0 <=> \E i \in 1..(n - 1) : counts[i] > 0
    BY <1>5
  <2>3. (\E i \in 1..n : counts[i] > 0) <=> counts[n] > 0 \/ \E i \in 1..(n - 1) : counts[i] > 0
    OBVIOUS
  <2>4. f[n] \in Nat /\ (f[n] > 0 <=> \E i \in 1..n : counts[i] > 0)
    BY <2>1, <2>2, <2>3
  <2> QED BY <2>4
<1>6. 0..N \subseteq S
  <2> HIDE DEF S
  <2> QED BY <1>4, <1>5, UpTo
<1> QED BY <1>1, <1>6

Counted == [passed : Nat, failed : Nat, told : BOOLEAN]

\* What Totals says of suites.
LEMMA TotalsAre ==
  ASSUME NEW suites \in Seq(Counted)
  PROVE  /\ Totals(suites) = Suite(Totals(suites).passed, Totals(suites).failed)
         /\ Totals(suites).passed \in Nat /\ Totals(suites).failed \in Nat
         /\ Totals(suites).passed > 0 <=> \E i \in DOMAIN suites : suites[i].passed > 0
         /\ Totals(suites).failed > 0 <=> Failed(suites)
<1> DEFINE P == [i \in DOMAIN suites |-> suites[i].passed]
           F == [i \in DOMAIN suites |-> suites[i].failed]
<1>1. PICK N \in Nat : N = Len(suites) /\ DOMAIN suites = 1..N
  OBVIOUS
<1>2. \A i \in 1..N : suites[i].passed \in Nat /\ suites[i].failed \in Nat
  <2>1. \A i \in 1..N : suites[i] \in Counted
    BY <1>1
  <2> QED BY <2>1 DEF Counted
<1>3. /\ DOMAIN P = 1..N /\ DOMAIN F = 1..N
      /\ \A i \in 1..N : P[i] = suites[i].passed /\ F[i] = suites[i].failed
  BY <1>1
<1>4. Totals(suites) = Suite(Summed(P), Summed(F))
  BY DEF Totals
<1> HIDE DEF P, F
<1>5. Len(P) = N /\ Len(F) = N
  <2>1. \A q : DOMAIN q = 1..N => Len(q) = N
    OBVIOUS
  <2> QED BY <1>3, <2>1
<1>6. Summed(P) \in Nat /\ (Summed(P) > 0 <=> \E i \in 1..N : P[i] > 0)
  BY <1>2, <1>3, <1>5, SummedIs
<1>7. Summed(F) \in Nat /\ (Summed(F) > 0 <=> \E i \in 1..N : F[i] > 0)
  BY <1>2, <1>3, <1>5, SummedIs
<1>8. Totals(suites).passed = Summed(P) /\ Totals(suites).failed = Summed(F)
  BY <1>4 DEF Suite
<1> QED BY <1>1, <1>2, <1>3, <1>4, <1>6, <1>7, <1>8 DEF Failed, Suite

\* first_capture of no line and of one.
LEMMA CaptureIs ==
  ASSUME NEW kind
  PROVE  /\ FirstCapture(kind, <<>>) = {} /\ Lines(kind, <<>>) = {}
         /\ \A line : FirstCapture(kind, <<line>>) = IF line.kind = kind THEN {Ran(line)} ELSE {}
<1>1. Lines(kind, <<>>) = {}
  BY DEF Lines
<1>2. ASSUME NEW line
      PROVE  FirstCapture(kind, <<line>>) = IF line.kind = kind THEN {Ran(line)} ELSE {}
  <2> DEFINE output == <<line>>
  <2>1. DOMAIN output = {1} /\ output[1] = line
    OBVIOUS
  <2> HIDE DEF output
  <2>2. Lines(kind, output) = IF line.kind = kind THEN {1} ELSE {}
    BY <2>1 DEF Lines
  <2>3. Min({1}) = 1
    BY MinIs
  <2>4. FirstCapture(kind, output) = IF line.kind = kind THEN {Ran(line)} ELSE {}
    <3>1. CASE line.kind = kind
      <4>1. Lines(kind, output) = {1} /\ {1} # {}
        BY <2>2, <3>1
      <4>2. FirstCapture(kind, output) = {Ran(output[Min(Lines(kind, output))])}
        BY <4>1 DEF FirstCapture
      <4>3. output[Min(Lines(kind, output))] = line
        BY <2>1, <2>3, <4>1, Zenon
      <4> QED BY <3>1, <4>2, <4>3, Zenon
    <3>2. CASE line.kind # kind
      BY <2>2, <3>2 DEF FirstCapture
    <3> QED BY <3>1, <3>2
  <2> QED BY <2>4 DEF output
<1> QED BY <1>1, <1>2 DEF FirstCapture

LEMMA OrZeroIs == OrZero({}) = 0 /\ \A n : OrZero({n}) = n
BY DEF OrZero

\* An output that is cut or of a killed run lacks its last line.
LEMMA CutIs ==
  ASSUME NEW N \in Nat, NEW output, Len(output) = N
  PROVE  LET read == SubSeq(output, 1, N - 1)
         IN  DOMAIN read = 1..(N - 1) /\ \A i \in 1..(N - 1) : read[i] = output[i]
<1>1. SubSeq(output, 1, N - 1) = [i \in 1..(N - 1) |-> output[i]]
  OBVIOUS
<1> QED BY <1>1

\* A suite of which no test failed, and its line by cargo test, go test and gradle.
CleanSuite(suite) == suite \in Counted /\ suite.failed = 0
CargoLine(suite) == Line("test result", suite.passed, suite.failed)
GoLine(suite) ==
  IF Told(suite) THEN Line("no test files", 0, 0)
  ELSE Line(IF suite.failed > 0 THEN "FAIL" ELSE "ok", suite.passed, suite.failed)
TaskLine(suite) == Line(IF Told(suite) THEN ":test skipped" ELSE ":test", suite.passed, suite.failed)

LEMMA CleanLines ==
  ASSUME NEW suite, CleanSuite(suite)
  PROVE  /\ suite.passed \in Nat
         /\ CargoLine(suite).kind = "test result" /\ Ran(CargoLine(suite)) = suite.passed
         /\ GoLine(suite).kind = IF Told(suite) THEN "no test files" ELSE "ok"
         /\ TaskLine(suite).kind = IF Told(suite) THEN ":test skipped" ELSE ":test"
         /\ suite.passed > 0 => ~Told(suite)
         /\ ~Told(suite) => suite.passed > 0 \/ Untold(suite)
<1>1. PICK p \in Nat : p = suite.passed /\ suite.failed = 0
  BY DEF CleanSuite, Counted
<1>2. \A kind, x, y : Line(kind, x, y).kind = kind /\ Line(kind, x, y).passed = x /\ Line(kind, x, y).failed = y
  BY DEF Line
<1>3. Ran(suite) = p
  BY <1>1 DEF Ran
<1>4. Ran(CargoLine(suite)) = p
  <2>0. CargoLine(suite) = Line("test result", p, 0)
    BY <1>1 DEF CargoLine
  <2>1. CargoLine(suite).passed = p /\ CargoLine(suite).failed = 0
    <3>1. /\ Line("test result", p, 0).passed = p
          /\ Line("test result", p, 0).failed = 0
      BY DEF Line
    <3> QED BY <2>0, <3>1, Zenon
  <2>2. PICK line : line = CargoLine(suite)
    OBVIOUS
  <2>3. p + 0 = p
    OBVIOUS
  <2> QED BY <2>1, <2>2, <2>3, Zenon DEF Ran
<1>5. /\ Told(suite) <=> p = 0 /\ suite.told
      /\ Untold(suite) <=> p = 0 /\ ~suite.told
  BY <1>3, Zenon DEF Told, Untold
<1>6. GoLine(suite).kind = IF Told(suite) THEN "no test files" ELSE "ok"
  <2>1. (IF suite.failed > 0 THEN "FAIL" ELSE "ok") = "ok"
    BY <1>1
  <2> QED BY <1>2, <2>1, Zenon DEF GoLine
<1>7. TaskLine(suite).kind = IF Told(suite) THEN ":test skipped" ELSE ":test"
  BY <1>2, Zenon DEF TaskLine
<1>8. CargoLine(suite).kind = "test result"
  BY <1>2, Zenon DEF CargoLine
<1>9. p > 0 => p # 0
  OBVIOUS
<1>10. p # 0 => p > 0
  OBVIOUS
<1> QED BY <1>1, <1>4, <1>5, <1>6, <1>7, <1>8, <1>9, <1>10, Zenon

\* The lines of cargo test: a test ran if and only if the sum is positive.
LEMMA CargoIs ==
  ASSUME NEW run, NEW M \in Nat, NEW read, DOMAIN read = 1..M,
         \A i \in 1..M : CleanSuite(run[i]) /\ read[i] = CargoLine(run[i])
  PROVE  SumRan("test result", read) > 0 <=> \E i \in 1..M : run[i].passed > 0
<1> DEFINE counts == [i \in DOMAIN read |-> IF read[i].kind = "test result" THEN Ran(read[i]) ELSE 0]
<1>1. \A i \in 1..M : read[i].kind = "test result" /\ Ran(read[i]) = run[i].passed /\ run[i].passed \in Nat
  <2>1. \A i \in 1..M : /\ CargoLine(run[i]).kind = "test result" /\ Ran(CargoLine(run[i])) = run[i].passed
                        /\ run[i].passed \in Nat
    BY CleanLines, Zenon
  <2> QED BY <2>1, Zenon
<1>2. DOMAIN counts = 1..M /\ \A i \in 1..M : counts[i] = run[i].passed /\ counts[i] \in Nat
  BY <1>1
<1>3. SumRan("test result", read) = Summed(counts)
  BY DEF SumRan
<1> HIDE DEF counts
<1>4. Len(counts) = M
  BY <1>2
<1> QED BY <1>2, <1>3, <1>4, SummedIs

\* The lines of go test: a package of which it is not told that it has no test.
LEMMA GoIs ==
  ASSUME NEW run, NEW M \in Nat, NEW read, DOMAIN read = 1..M,
         \A i \in 1..M : CleanSuite(run[i]) /\ read[i] = GoLine(run[i])
  PROVE  Cardinality(Lines("ok", read) \cup Lines("FAIL", read)) > 0 <=> \E i \in 1..M : ~Told(run[i])
<1> DEFINE S == Lines("ok", read) \cup Lines("FAIL", read)
<1>1. \A i \in 1..M : read[i].kind = IF Told(run[i]) THEN "no test files" ELSE "ok"
  <2>1. \A i \in 1..M : GoLine(run[i]).kind = IF Told(run[i]) THEN "no test files" ELSE "ok"
    BY CleanLines, Zenon
  <2> QED BY <2>1, Zenon
<1>2. S \subseteq 1..M /\ \A i \in 1..M : i \in S <=> ~Told(run[i])
  <2>1. S \subseteq 1..M /\ \A i \in 1..M : i \in S <=> read[i].kind = "ok" \/ read[i].kind = "FAIL"
    BY DEF Lines
  <2> QED BY <1>1, <2>1
<1> HIDE DEF S
<1>3. IsFiniteSet(S)
  <2>1. IsFiniteSet(1..M)
    BY FS_Interval
  <2> QED BY <1>2, <2>1, FS_Subset
<1>4. Cardinality(S) \in Nat /\ (Cardinality(S) = 0 <=> S = {})
  BY <1>3, FS_CardinalityType, FS_EmptySet
<1>5. S # {} <=> \E i \in 1..M : ~Told(run[i])
  BY <1>2
<1>6. Cardinality(S) > 0 <=> S # {}
  BY <1>4
<1> QED BY <1>5, <1>6 DEF S

\* What is read of the output of a run in which no test failed.
Read(tool, run, whole) ==
  LET output == Printed(tool, run)
  IN  IF whole THEN output ELSE SubSeq(output, 1, Len(output) - 1)

\* A count is positive only if a test ran or a suite without is not told of, and
\* is if the whole output was read and gradle tells of no such suite.
IsGo(tool) == tool = "go test"
IsGradle(tool) == tool = "gradle test"
HasUntold(tool, run) == tool \in {"go test", "gradle test"} /\ \E i \in DOMAIN run : Untold(run[i])
HasSkipped(tool, run) == tool = "gradle test" /\ \E i \in DOMAIN run : Told(run[i])
CountIsTrue(tool, run, whole) ==
  LET tests_run == CountTests(LangOf(tool), Read(tool, run, whole))
  IN  /\ tests_run > 0 => Totals(run).passed > 0 \/ HasUntold(tool, run)
      /\ tool \in Understood /\ whole /\ ~HasSkipped(tool, run) /\ Totals(run).passed > 0 => tests_run > 0

\* Of the other tools: only if a test ran, and if one did.
CountIsExact(tool, run, whole) ==
  LET tests_run == CountTests(LangOf(tool), Read(tool, run, whole))
  IN  /\ tests_run > 0 => Totals(run).passed > 0
      /\ tool \in Understood /\ whole /\ Totals(run).passed > 0 => tests_run > 0

LEMMA ExactIsTrue ==
  ASSUME NEW tool, NEW run, NEW whole, CountIsExact(tool, run, whole)
  PROVE  CountIsTrue(tool, run, whole)
BY Zenon DEF CountIsExact, CountIsTrue

LEMMA CutOne == \A line : SubSeq(<<line>>, 1, Len(<<line>>) - 1) = <<>>
OBVIOUS

LEMMA TwoLines ==
  ASSUME NEW a, NEW b, NEW output, output = <<a>> \o <<b>>
  PROVE  Len(output) = 2 /\ DOMAIN output = 1..2 /\ output[1] = a
<1>1. PICK x \in Seq({a, b}), y \in Seq({a, b}) :
        x = <<a>> /\ y = <<b>> /\ Len(x) = 1 /\ Len(y) = 1 /\ x[1] = a
  <2>1. <<a>> \in Seq({a, b}) /\ <<b>> \in Seq({a, b})
    OBVIOUS
  <2>2. Len(<<a>>) = 1 /\ Len(<<b>>) = 1 /\ <<a>>[1] = a
    OBVIOUS
  <2> QED BY <2>1, <2>2, Zenon
<1>2. x \o y \in Seq({a, b}) /\ Len(x \o y) = 2 /\ (x \o y)[1] = a
  BY <1>1
<1>3. DOMAIN (x \o y) = 1..2
  BY <1>2
<1> QED BY <1>1, <1>2, <1>3, Zenon

\* Outputs of one line or none.
LEMMA ReadOne ==
  ASSUME NEW tool, NEW run, NEW whole \in BOOLEAN, NEW line, Printed(tool, run) = <<line>>
  PROVE  Read(tool, run, whole) = IF whole THEN <<line>> ELSE <<>>
BY CutOne, Zenon DEF Read

LEMMA ReadNone ==
  ASSUME NEW tool, NEW run, NEW whole \in BOOLEAN, Printed(tool, run) = <<>>
  PROVE  Read(tool, run, whole) = <<>>
<1>1. SubSeq(<<>>, 1, Len(<<>>) - 1) = <<>>
  OBVIOUS
<1> QED BY <1>1, Zenon DEF Read

\* A summary of one line, with the totals.
LEMMA SummaryCounts ==
  ASSUME NEW run \in Seq(Counted), ~Failed(run), NEW kind
  PROVE  LET line == Line(kind, Totals(run).passed, Totals(run).failed)
         IN  /\ Summary(kind, Totals(run)) = <<line>> /\ line.kind = kind
             /\ Ran(line) = Totals(run).passed /\ Ran(line) \in Nat
<1>1. PICK p \in Nat : Totals(run).passed = p /\ Totals(run).failed = 0
  BY TotalsAre
<1> DEFINE line == Line(kind, p, 0)
<1>2. line.kind = kind /\ line.passed = p /\ line.failed = 0
  BY DEF Line
<1> HIDE DEF line
<1>3. Ran(line) = p
  BY <1>2 DEF Ran
<1>4. Summary(kind, Totals(run)) = <<line>>
  BY <1>1, Zenon DEF Summary, line
<1> QED BY <1>1, <1>2, <1>3, <1>4, Zenon DEF line

LEMMA PythonCounts ==
  ASSUME NEW run \in Seq(Counted), ~Failed(run), NEW whole \in BOOLEAN, NEW tool,
         NEW lang \in {"Python", "Javascript"}, NEW kind, NEW said, LangOf(tool) = lang,
         kind = IF lang = "Python" THEN "Ran" ELSE "Tests",
         Printed(tool, run) = Summary(said, Totals(run)),
         tool \in Understood /\ Totals(run).passed > 0 => said = kind
  PROVE  CountIsExact(tool, run, whole)
<1>1. PICK line : /\ Summary(said, Totals(run)) = <<line>> /\ line.kind = said
                  /\ Ran(line) = Totals(run).passed /\ Ran(line) \in Nat
  BY SummaryCounts
<1>2. Read(tool, run, whole) = IF whole THEN <<line>> ELSE <<>>
  BY <1>1, ReadOne
<1>3. CountTests(lang, Read(tool, run, whole)) = OrZero(FirstCapture(kind, Read(tool, run, whole)))
  BY DEF CountTests
<1>4. CASE whole /\ said = kind
  <2>1. FirstCapture(kind, Read(tool, run, whole)) = {Ran(line)}
    BY <1>1, <1>2, <1>4, CaptureIs, Zenon
  <2>2. CountTests(lang, Read(tool, run, whole)) = Ran(line)
    BY <1>3, <2>1, OrZeroIs, Zenon
  <2> QED BY <1>1, <1>4, <2>2 DEF CountIsExact
<1>5. CASE ~(whole /\ said = kind)
  <2>1. FirstCapture(kind, Read(tool, run, whole)) = {}
    BY <1>1, <1>2, <1>5, CaptureIs, Zenon
  <2>2. CountTests(lang, Read(tool, run, whole)) = 0
    BY <1>3, <2>1, OrZeroIs, Zenon
  <2> QED BY <1>5, <2>2 DEF CountIsExact
<1> QED BY <1>4, <1>5

CatchSays(run) == Summary("All tests passed", Totals(run))
GradleSays(run) == [i \in DOMAIN run |-> TaskLine(run[i])] \o Summary("BUILD SUCCESSFUL", Totals(run))

LEMMA CppCounts ==
  ASSUME NEW run \in Seq(Counted), ~Failed(run), NEW whole \in BOOLEAN, NEW tool, LangOf(tool) = "Cpp",
         Printed(tool, run) = CatchSays(run)
  PROVE  CountIsExact(tool, run, whole)
<1>1. PICK line : /\ CatchSays(run) = <<line>> /\ line.kind = "All tests passed"
                  /\ Ran(line) = Totals(run).passed /\ Ran(line) \in Nat
  BY SummaryCounts, Zenon DEF CatchSays
<1>2. Read(tool, run, whole) = IF whole THEN <<line>> ELSE <<>>
  BY <1>1, ReadOne
<1> DEFINE read == Read(tool, run, whole)
<1>3. CountTests("Cpp", read) = IF FirstCapture("All tests passed", read) # {}
                                  THEN OrZero(FirstCapture("All tests passed", read))
                                  ELSE OrZero(FirstCapture("test cases", read))
  BY DEF CountTests
<1> HIDE DEF read
<1>4. CASE whole
  <2>1. FirstCapture("All tests passed", read) = {Ran(line)}
    BY <1>1, <1>2, <1>4, CaptureIs, Zenon DEF read
  <2>2. CountTests("Cpp", read) = Ran(line)
    BY <1>3, <2>1, OrZeroIs
  <2> QED BY <1>1, <2>2 DEF CountIsExact, read
<1>5. CASE ~whole
  <2>1. FirstCapture("All tests passed", read) = {} /\ FirstCapture("test cases", read) = {}
    BY <1>2, <1>5, CaptureIs, Zenon DEF read
  <2>2. CountTests("Cpp", read) = 0
    BY <1>3, <2>1, OrZeroIs
  <2>3. CountTests(LangOf(tool), Read(tool, run, whole)) = 0
    BY <2>2, Zenon DEF read
  <2>4. ~(CountTests(LangOf(tool), Read(tool, run, whole)) > 0)
    BY <2>3
  <2> QED BY <1>5, <2>4, Zenon DEF CountIsExact
<1> QED BY <1>4, <1>5

\* A tool that prints nothing the grader reads.
LEMMA NothingCounts ==
  ASSUME NEW run, NEW whole \in BOOLEAN, NEW tool, tool \notin Understood,
         LangOf(tool) \in {"Cpp", "Java"}, Printed(tool, run) = <<>>
  PROVE  CountIsExact(tool, run, whole)
<1>1. Read(tool, run, whole) = <<>>
  BY ReadNone
<1>2. CountTests("Cpp", <<>>) = 0
  BY CaptureIs, OrZeroIs DEF CountTests
<1>3. CountTests("Java", <<>>) = 0
  BY CaptureIs DEF CountTests
<1>4. CountTests(LangOf(tool), Read(tool, run, whole)) = 0
  BY <1>1, <1>2, <1>3, Zenon
<1> QED BY <1>4 DEF CountIsExact

LEMMA CargoCounts ==
  ASSUME NEW run \in Seq(Counted), ~Failed(run), NEW whole \in BOOLEAN, NEW tool,
         NEW lang \in {"Rust", "Go"}, LangOf(tool) = lang, lang = "Go" => IsGo(tool),
         Printed(tool, run) = [i \in DOMAIN run |-> IF lang = "Rust" THEN CargoLine(run[i]) ELSE GoLine(run[i])]
  PROVE  CountIsTrue(tool, run, whole)
<1> DEFINE output == [i \in DOMAIN run |-> IF lang = "Rust" THEN CargoLine(run[i]) ELSE GoLine(run[i])]
           read == Read(tool, run, whole)
<1>1. PICK N \in Nat : N = Len(run) /\ DOMAIN run = 1..N
  OBVIOUS
<1>2. DOMAIN output = 1..N /\ Len(output) = N
  BY <1>1
<1>3. \A i \in 1..N : CleanSuite(run[i])
  <2>1. \A i \in 1..N : run[i] \in Counted
    BY <1>1
  <2>2. \A i \in 1..N : ~(run[i].failed > 0)
    BY <1>1 DEF Failed
  <2>3. \A s \in Counted : s.failed \in Nat
    BY DEF Counted
  <2>4. \A i \in 1..N : run[i].failed = 0
    BY <2>1, <2>2, <2>3
  <2> QED BY <2>1, <2>4 DEF CleanSuite
<1>4. \A i \in 1..N : output[i] = IF lang = "Rust" THEN CargoLine(run[i]) ELSE GoLine(run[i])
  BY <1>1
<1> HIDE DEF output
<1>5. PICK M \in Nat : /\ M <= N /\ (whole => M = N) /\ DOMAIN read = 1..M
                       /\ \A i \in 1..M : read[i] = output[i]
  <2>1. CASE whole
    <3>1. read = output
      BY <2>1, Zenon DEF Read, output
    <3>2. N <= N /\ DOMAIN read = 1..N /\ \A i \in 1..N : read[i] = output[i]
      BY <1>2, <3>1
    <3> QED BY <3>2
  <2>2. CASE ~whole
    <3>1. read = SubSeq(output, 1, N - 1)
      BY <1>2, <2>2, Zenon DEF Read, output
    <3>2. DOMAIN read = 1..(N - 1) /\ \A i \in 1..(N - 1) : read[i] = output[i]
      BY <1>2, <3>1, CutIs
    <3>3. CASE N = 0
      <4>1. 1..(N - 1) = 1..0
        BY <3>3
      <4>2. 0 <= N /\ DOMAIN read = 1..0 /\ \A i \in 1..0 : read[i] = output[i]
        BY <3>2, <4>1
      <4> QED BY <2>2, <4>2
    <3>4. CASE N # 0
      <4>1. N - 1 \in Nat /\ N - 1 <= N
        BY <3>4
      <4> QED BY <2>2, <3>2, <4>1
    <3> QED BY <3>3, <3>4
  <2> QED BY <2>1, <2>2
<1> HIDE DEF read
<1>6. \A i \in 1..M : i \in 1..N /\ CleanSuite(run[i])
  BY <1>3, <1>5
<1>7. CASE lang = "Rust"
  <2>1. \A i \in 1..M : read[i] = CargoLine(run[i])
    BY <1>4, <1>5, <1>6, <1>7
  <2>2. CountTests(lang, read) = SumRan("test result", read)
    BY <1>7 DEF CountTests
  <2>3. SumRan("test result", read) > 0 <=> \E i \in 1..M : run[i].passed > 0
    BY <1>5, <1>6, <2>1, CargoIs
  <2>4. Totals(run).passed > 0 <=> \E i \in 1..N : run[i].passed > 0
    BY <1>1, TotalsAre
  <2>5. /\ CountTests(lang, read) > 0 => Totals(run).passed > 0
        /\ whole /\ Totals(run).passed > 0 => CountTests(lang, read) > 0
    BY <1>5, <1>6, <2>2, <2>3, <2>4
  <2>6. CountIsExact(tool, run, whole)
    BY <2>5 DEF CountIsExact, read
  <2> QED BY <2>6, ExactIsTrue
<1>8. CASE lang = "Go"
  <2>1. \A i \in 1..M : read[i] = GoLine(run[i])
    BY <1>4, <1>5, <1>6, <1>8
  <2>2. CountTests(lang, read) = Cardinality(Lines("ok", read) \cup Lines("FAIL", read))
    BY <1>8 DEF CountTests
  <2>3. CountTests(lang, read) > 0 <=> \E i \in 1..M : ~Told(run[i])
    BY <1>5, <1>6, <2>1, <2>2, GoIs
  <2>4. Totals(run).passed > 0 <=> \E i \in 1..N : run[i].passed > 0
    BY <1>1, TotalsAre
  <2>5. \A i \in 1..N : /\ run[i].passed > 0 => ~Told(run[i])
                        /\ ~Told(run[i]) => run[i].passed > 0 \/ Untold(run[i])
    BY <1>3, CleanLines, Zenon
  <2>6. CountTests(lang, read) > 0 => Totals(run).passed > 0 \/ HasUntold(tool, run)
    <3>1. (\E i \in 1..M : ~Told(run[i])) => (\E i \in 1..N : run[i].passed > 0) \/ \E i \in 1..N : Untold(run[i])
      BY <1>6, <2>5, Zenon
    <3>2. (\E i \in 1..N : Untold(run[i])) => HasUntold(tool, run)
      BY <1>1, <1>8, Zenon DEF HasUntold, IsGo
    <3> QED BY <2>3, <2>4, <3>1, <3>2, Zenon
  <2>7. whole /\ Totals(run).passed > 0 => CountTests(lang, read) > 0
    BY <1>5, <2>3, <2>4, <2>5
  <2> QED BY <2>6, <2>7, Zenon DEF CountIsTrue, read
<1> QED BY <1>7, <1>8

LEMMA OneMore ==
  ASSUME NEW N \in Nat, NEW S, NEW a \in Seq(S), Len(a) = N, NEW b \in S, NEW output, output = a \o <<b>>
  PROVE  /\ Len(output) = N + 1 /\ DOMAIN output = 1..(N + 1)
         /\ output[N + 1] = b /\ \A i \in 1..N : output[i] = a[i]
<1>1. <<b>> \in Seq(S) /\ Len(<<b>>) = 1 /\ <<b>>[1] = b
  OBVIOUS
<1>2. PICK x \in Seq(S) : x = <<b>> /\ Len(x) = 1 /\ x[1] = b
  BY <1>1
<1>3. a \o x \in Seq(S) /\ Len(a \o x) = N + 1 /\ (a \o x)[N + 1] = b /\ \A i \in 1..N : (a \o x)[i] = a[i]
  BY <1>2
<1>4. DOMAIN (a \o x) = 1..(N + 1)
  BY <1>3
<1> QED BY <1>2, <1>3, <1>4, Zenon

\* What a Gradle run says: a line of each project and the last line.
LEMMA JavaCounts ==
  ASSUME NEW run \in Seq(Counted), ~Failed(run), run # <<>>, NEW whole \in BOOLEAN,
         NEW tool, IsGradle(tool), LangOf(tool) = "Java", Printed(tool, run) = GradleSays(run)
  PROVE  CountIsTrue(tool, run, whole)
<1> DEFINE tasks == [i \in DOMAIN run |-> TaskLine(run[i])]
           read == Read(tool, run, whole)
           n == CountTests("Java", read)
<1>1. PICK N \in Nat : N = Len(run) /\ DOMAIN run = 1..N /\ N > 0
  OBVIOUS
<1>2. \A i \in 1..N : CleanSuite(run[i])
  <2>1. \A i \in 1..N : run[i] \in Counted
    BY <1>1
  <2>2. \A i \in 1..N : ~(run[i].failed > 0)
    BY <1>1 DEF Failed
  <2>3. \A s \in Counted : s.failed \in Nat
    BY DEF Counted
  <2>4. \A i \in 1..N : run[i].failed = 0
    BY <2>1, <2>2, <2>3
  <2> QED BY <2>1, <2>4 DEF CleanSuite
<1>3. PICK built : Summary("BUILD SUCCESSFUL", Totals(run)) = <<built>> /\ built.kind = "BUILD SUCCESSFUL"
  BY SummaryCounts
<1>4. PICK output : /\ output = tasks \o <<built>> /\ output = Printed(tool, run)
  BY <1>3, Zenon DEF GradleSays
<1>5. \A i \in 1..N : /\ TaskLine(run[i]).kind = IF Told(run[i]) THEN ":test skipped" ELSE ":test"
                      /\ run[i].passed > 0 => ~Told(run[i])
                      /\ ~Told(run[i]) => run[i].passed > 0 \/ Untold(run[i])
  BY <1>2, CleanLines, Zenon
<1>6. /\ Len(output) = N + 1 /\ DOMAIN output = 1..(N + 1)
      /\ output[N + 1] = built /\ \A i \in 1..N : output[i] = TaskLine(run[i])
  <2> DEFINE S == {TaskLine(run[i]) : i \in 1..N} \cup {built}
  <2>1. tasks \in Seq(S) /\ Len(tasks) = N /\ \A i \in 1..N : tasks[i] = TaskLine(run[i])
    BY <1>1
  <2>2. built \in S
    OBVIOUS
  <2> HIDE DEF S, tasks, read, n
  <2>3. output = tasks \o <<built>>
    BY <1>4, Zenon
  <2>4. /\ Len(output) = N + 1 /\ DOMAIN output = 1..(N + 1)
        /\ output[N + 1] = built /\ \A i \in 1..N : output[i] = tasks[i]
    BY <2>1, <2>2, <2>3, OneMore, SMTT(40)
  <2> QED BY <2>1, <2>4
<1> HIDE DEF tasks
<1>7. /\ DOMAIN read = IF whole THEN 1..(N + 1) ELSE 1..N
      /\ \A i \in DOMAIN read : read[i] = output[i]
  <2>1. CASE whole
    <3>1. read = output
      BY <1>4, <2>1, Zenon DEF Read
    <3> QED BY <1>6, <2>1, <3>1, Zenon
  <2>2. CASE ~whole
    <3>1. read = SubSeq(output, 1, Len(output) - 1)
      BY <1>4, <2>2, Zenon DEF Read
    <3>2. Len(output) - 1 = N
      BY <1>6
    <3>3. read = SubSeq(output, 1, N)
      BY <3>1, <3>2, Zenon
    <3>4. PICK m \in Nat : m = N + 1
      OBVIOUS
    <3>5. m - 1 = N
      BY <3>4
    <3>6. DOMAIN SubSeq(output, 1, m - 1) = 1..(m - 1) /\ \A i \in 1..(m - 1) : SubSeq(output, 1, m - 1)[i] = output[i]
      BY <1>6, <3>4, CutIs, Zenon
    <3> QED BY <2>2, <3>3, <3>5, <3>6, Zenon
  <2> QED BY <2>1, <2>2
<1>8. n = IF Lines("BUILD SUCCESSFUL", read) # {} /\ Lines(":test skipped", read) = {} THEN 1 ELSE 0
  BY DEF CountTests
<1> HIDE DEF read, n
<1>9. n > 0 <=> Lines("BUILD SUCCESSFUL", read) # {} /\ Lines(":test skipped", read) = {}
  <2>1. Lines("BUILD SUCCESSFUL", read) # {} /\ Lines(":test skipped", read) = {} => n = 1
    BY <1>8, Zenon
  <2>2. ~(Lines("BUILD SUCCESSFUL", read) # {} /\ Lines(":test skipped", read) = {}) => n = 0
    BY <1>8, Zenon
  <2>3. 1 > 0 /\ ~(0 > 0)
    OBVIOUS
  <2> QED BY <2>1, <2>2, <2>3, Zenon
<1>10. ASSUME n > 0 PROVE Totals(run).passed > 0 \/ HasUntold(tool, run)
  <2>1. PICK j \in DOMAIN read : read[j].kind = "BUILD SUCCESSFUL"
    BY <1>9, <1>10 DEF Lines
  <2>2. 1 \in 1..N /\ 1 \in DOMAIN read
    BY <1>1, <1>7
  <2>3. read[1].kind # ":test skipped"
    BY <1>9, <1>10, <2>2 DEF Lines
  <2>4. read[1] = TaskLine(run[1])
    BY <1>6, <1>7, <2>2
  <2>5. ~Told(run[1])
    BY <1>5, <2>2, <2>3, <2>4
  <2>6. run[1].passed > 0 \/ Untold(run[1])
    BY <1>5, <2>2, <2>5
  <2>7. Totals(run).passed > 0 <=> \E i \in 1..N : run[i].passed > 0
    BY <1>1, TotalsAre
  <2>8. Untold(run[1]) => HasUntold(tool, run)
    BY <1>1, <2>2, Zenon DEF HasUntold, IsGradle
  <2> QED BY <2>2, <2>6, <2>7, <2>8, Zenon
<1>11. ASSUME whole, ~HasSkipped(tool, run) PROVE n > 0
  <2>1. DOMAIN read = 1..(N + 1)
    BY <1>7, <1>11
  <2>2. N + 1 \in DOMAIN read /\ read[N + 1] = built
    BY <1>6, <1>7, <2>1
  <2>3. Lines("BUILD SUCCESSFUL", read) # {}
    BY <1>3, <2>2 DEF Lines
  <2>4. ASSUME NEW i \in DOMAIN read PROVE read[i].kind # ":test skipped"
    <3>1. CASE i = N + 1
      BY <1>3, <2>2, <3>1
    <3>2. CASE i \in 1..N
      <4>1. ~Told(run[i])
        BY <1>1, <1>11, <3>2, Zenon DEF HasSkipped, IsGradle
      <4>2. read[i] = TaskLine(run[i])
        BY <1>6, <1>7, <3>2
      <4> QED BY <1>5, <3>2, <4>1, <4>2
    <3>3. i = N + 1 \/ i \in 1..N
      BY <2>1
    <3> QED BY <3>1, <3>2, <3>3
  <2>5. Lines(":test skipped", read) = {}
    BY <2>4 DEF Lines
  <2> QED BY <1>9, <2>3, <2>5
<1> QED BY <1>10, <1>11, Zenon DEF CountIsTrue, read, n

\* count_tests reads what each tool prints.
LEMMA ToolCounts ==
  ASSUME NEW tool, NEW run \in Seq(Counted), ~Broken(tool, run), NEW whole \in BOOLEAN
  PROVE  CountIsTrue(tool, run, whole)
<1> DEFINE all == Totals(run)
<1>0. ~Failed(run)
  BY Zenon DEF Broken
<1>1. PICK p \in Nat : all.passed = p /\ all = Suite(p, 0) /\ (all = Suite(0, 0) <=> p = 0)
  <2>1. PICK p \in Nat : all.passed = p /\ all.failed = 0
    BY <1>0, TotalsAre
  <2>2. all = Suite(p, 0)
    BY <2>1, TotalsAre
  <2>3. Suite(p, 0) = Suite(0, 0) <=> p = 0
    BY DEF Suite
  <2> QED BY <2>1, <2>2, <2>3
<1> HIDE DEF all
<1>2. CASE tool = "cargo test"
  <2>1. LangOf(tool) = "Rust"
    BY <1>2 DEF LangOf
  <2>2. Printed(tool, run) = [i \in DOMAIN run |-> CargoLine(run[i])]
    BY <1>2 DEF Printed, CargoLine
  <2>3. [i \in DOMAIN run |-> CargoLine(run[i])] =
          [i \in DOMAIN run |-> IF "Rust" = "Rust" THEN CargoLine(run[i]) ELSE GoLine(run[i])]
    OBVIOUS
  <2> QED BY <1>0, <2>1, <2>2, <2>3, CargoCounts
<1>3. CASE tool = "go test"
  <2>1. LangOf(tool) = "Go"
    BY <1>3 DEF LangOf
  <2>2. Printed(tool, run) = [i \in DOMAIN run |-> GoLine(run[i])]
    BY <1>3 DEF Printed, GoLine
  <2>3. IsGo(tool)
    BY <1>3, Zenon DEF IsGo
  <2> QED BY <1>0, <2>1, <2>2, <2>3, CargoCounts
<1>4. CASE tool = "python -m unittest"
  <2>1. LangOf(tool) = "Python"
    BY <1>4 DEF LangOf
  <2>2. Printed(tool, run) = Summary("Ran", Totals(run))
    BY <1>4 DEF Printed
  <2> QED BY <1>0, <2>1, <2>2, PythonCounts, ExactIsTrue
<1>5. CASE tool = "pytest"
  <2>1. LangOf(tool) = "Python" /\ tool \notin Understood
    BY <1>5 DEF LangOf, Understood
  <2>2. Printed(tool, run) = Summary("passed", Totals(run))
    BY <1>5 DEF Printed
  <2> QED BY <1>0, <2>1, <2>2, PythonCounts, ExactIsTrue
<1>6. CASE tool = "npm test"
  <2>1. LangOf(tool) = "Javascript"
    BY <1>6 DEF LangOf
  <2>2. PICK said : said = IF p = 0 THEN "No tests found" ELSE "Tests"
    OBVIOUS
  <2>3. Printed(tool, run) = Summary(said, Totals(run))
    BY <1>1, <1>6, <2>2 DEF Printed, all
  <2>4. Totals(run).passed > 0 => p # 0
    BY <1>1 DEF all
  <2>5. Totals(run).passed > 0 => said = "Tests"
    BY <2>2, <2>4, Zenon
  <2> QED BY <1>0, <2>1, <2>3, <2>5, PythonCounts, ExactIsTrue
<1>7. CASE tool = "gradle test"
  <2>1. LangOf(tool) = "Java"
    BY <1>7 DEF LangOf
  <2>2. Printed(tool, run) = GradleSays(run)
    <3>1. (IF Broken(tool, run) THEN "BUILD FAILED" ELSE "BUILD SUCCESSFUL") = "BUILD SUCCESSFUL"
      BY Zenon
    <3> QED BY <1>7, <3>1, Zenon DEF Printed, GradleSays, TaskLine
  <2>3. run # <<>> /\ IsGradle(tool)
    BY <1>7, Zenon DEF Broken, IsGradle
  <2> QED BY <1>0, <2>1, <2>2, <2>3, JavaCounts
<1>8. CASE tool = "catch2"
  <2>1. LangOf(tool) = "Cpp"
    BY <1>8 DEF LangOf
  <2>2. Printed(tool, run) = CatchSays(run)
    BY <1>0, <1>8 DEF Printed, CatchSays
  <2> QED BY <1>0, <2>1, <2>2, CppCounts, ExactIsTrue
<1>9. CASE tool \notin {"cargo test", "go test", "python -m unittest", "pytest", "npm test", "gradle test", "catch2"}
  <2>1. LangOf(tool) \in {"Cpp", "Java"} /\ tool \notin Understood
    BY <1>9 DEF LangOf, Understood
  <2>2. Printed(tool, run) = <<>>
    BY <1>9 DEF Printed
  <2> QED BY <2>1, <2>2, NothingCounts, ExactIsTrue
<1> QED BY <1>2, <1>3, <1>4, <1>5, <1>6, <1>7, <1>8, <1>9

LEMMA ReachedIs ==
  ASSUME NEW tool, NEW suites \in Seq(Counted)
  PROVE  Reached(tool, suites) \in Seq(Counted)
<1> DEFINE failing == {i \in DOMAIN suites : suites[i].failed > 0}
<1>1. CASE tool \in {"cargo test", "gradle test"} /\ Failed(suites)
  <2>1. failing # {} /\ failing \in SUBSET Nat /\ failing \subseteq 1..Len(suites)
    <3>1. Len(suites) \in Nat /\ DOMAIN suites = 1..Len(suites)
      OBVIOUS
    <3>2. failing # {}
      BY <1>1 DEF Failed
    <3>3. failing \subseteq 1..Len(suites)
      BY <3>1
    <3> HIDE DEF failing
    <3> QED BY <3>1, <3>2, <3>3
  <2>2. Min(failing) \in 1..Len(suites)
    <3> HIDE DEF failing
    <3> QED BY <2>1, MinIs
  <2>3. Reached(tool, suites) = SubSeq(suites, 1, Min(failing))
    BY <1>1 DEF Reached
  <2> HIDE DEF failing
  <2>4. PICK n \in 1..Len(suites) : n = Min(failing)
    BY <2>2
  <2>5. SubSeq(suites, 1, n) \in Seq(Counted)
    OBVIOUS
  <2> QED BY <2>3, <2>4, <2>5, Zenon
<1>2. CASE ~(tool \in {"cargo test", "gradle test"} /\ Failed(suites))
  BY <1>2 DEF Reached
<1> QED BY <1>1, <1>2

\* grade: what is made of a run of one tool.
LEMMA GradeRunIsTrue ==
  ASSUME NEW tool, NEW native \in BOOLEAN, NEW suites \in Seq(Counted), NEW killed \in BOOLEAN, NEW cut \in BOOLEAN,
         native => tool \notin Builds, GradeRun(tool, native, suites, killed, cut)
  PROVE  GradeIsTrue'
<1>1. PICK run \in Seq(Counted) : run = IF tool \in Builds THEN <<>> ELSE Reached(tool, suites)
  <2>1. <<>> \in Seq(Counted) /\ Reached(tool, suites) \in Seq(Counted)
    BY ReachedIs
  <2>2. CASE tool \in Builds
    BY <2>1, <2>2, Zenon
  <2>3. CASE tool \notin Builds
    BY <2>1, <2>3, Zenon
  <2> QED BY <2>2, <2>3
<1>2. PICK whole \in BOOLEAN : whole = (~killed /\ ~cut)
  OBVIOUS
<1>3. PICK exit \in {0, 1} : exit = IF killed \/ Broken(tool, run) THEN 1 ELSE 0
  OBVIOUS
<1>4. PICK n : n = CountTests(LangOf(tool), Read(tool, run, whole))
  OBVIOUS
<1>5. /\ tests' = [passed |-> exit = 0 /\ n > 0, tests_run |-> n]
      /\ truth' = [tool |-> {tool}, ran |-> Ran(Totals(run)), failed |-> Totals(run).failed,
                   exit |-> exit, whole |-> whole, native |-> native,
                   untold |-> HasUntold(tool, run), skipped |-> HasSkipped(tool, run)]
  BY <1>1, <1>2, <1>3, <1>4, Zenon DEF GradeRun, Grade, Read, HasUntold, HasSkipped
<1>6. PICK p \in Nat, f \in Nat : /\ p = Totals(run).passed /\ f = Totals(run).failed
                                  /\ f > 0 <=> Failed(run)
                                  /\ p > 0 => run # <<>>
  <2>1. \A i : i \in DOMAIN run => run # <<>>
    OBVIOUS
  <2> QED BY <2>1, TotalsAre
<1>7. Ran(Totals(run)) = p + f
  BY <1>6, Zenon DEF Ran
<1>8. ~Broken(tool, run) /\ tool \in Understood /\ whole /\ ~HasSkipped(tool, run) /\ p > 0 => n > 0
  BY <1>4, <1>6, ToolCounts, Zenon DEF CountIsTrue
<1>9. /\ tests'.passed <=> (exit = 0 /\ n > 0)
      /\ truth'.tool = {tool} /\ truth'.ran = p + f /\ truth'.failed = f
      /\ truth'.exit = exit /\ truth'.whole = whole /\ truth'.native = native
      /\ truth'.untold = HasUntold(tool, run) /\ truth'.skipped = HasSkipped(tool, run)
  BY <1>5, <1>6, <1>7
<1>10. exit = 0 <=> ~killed /\ ~Broken(tool, run)
  BY <1>3
<1>11. exit = 0 /\ n > 0 => exit = 0 /\ f = 0 /\ (p + f > 0 \/ HasUntold(tool, run))
  <2>1. ~Failed(run) => f = 0
    BY <1>6
  <2>2. p > 0 => p + f > 0
    BY <1>6
  <2>3. exit = 0 => ~Broken(tool, run) /\ f = 0
    BY <1>10, <2>1, Zenon DEF Broken
  <2>4. ~Broken(tool, run) /\ n > 0 => p > 0 \/ HasUntold(tool, run)
    BY <1>4, <1>6, ToolCounts, Zenon DEF CountIsTrue
  <2> QED BY <2>2, <2>3, <2>4, Zenon
<1>12. tool \in Understood /\ whole /\ ~HasSkipped(tool, run) /\ f = 0 /\ p + f > 0 => exit = 0 /\ n > 0
  <2>1. whole => ~killed
    BY <1>2, Zenon
  <2>2. f = 0 /\ p + f > 0 => p > 0
    OBVIOUS
  <2>3. f = 0 => ~Failed(run)
    BY <1>6
  <2>4. f = 0 /\ p > 0 => ~Broken(tool, run)
    BY <1>6, <2>3, Zenon DEF Broken
  <2> QED BY <1>8, <1>10, <2>1, <2>2, <2>4, Zenon
<1> QED BY <1>9, <1>11, <1>12, Zenon DEF GradeIsTrue

\* detect_verify_command: a workspace with a test runner is not verified by a build.
LEMMA NativeIsTested ==
  ASSUME NEW root \in Roots, root \ {"Makefile", "makefile", "x.cpp"} # {}
  PROVE  DetectVerifyCommand(root) \cap Builds = {}
<1> DEFINE found == {i \in DOMAIN Stacks : Stacks[i].markers \cap root # {}}
<1>1. /\ DOMAIN Stacks = 1..8
      /\ \A i \in 1..8 : Stacks[i].command \in Builds => i \in {7, 8}
      /\ Stacks[7].markers \cup Stacks[8].markers = {"Makefile", "makefile", "x.cpp"}
  <2>1. DOMAIN Stacks = 1..8
    BY DEF Stacks
  <2>2. \A i \in 1..8 : i \notin {7, 8} => Stacks[i].command \notin Builds
    <3>1. /\ Stacks[1].command = "cargo test" /\ Stacks[2].command = "go test"
          /\ Stacks[3].command = "mvn -q test" /\ Stacks[4].command = "gradle test"
          /\ Stacks[5].command = "npm test" /\ Stacks[6].command = "pytest"
      BY DEF Stacks
    <3>2. \A i \in 1..8 : i \notin {7, 8} => i \in {1, 2, 3, 4, 5, 6}
      OBVIOUS
    <3> QED BY <3>1, <3>2 DEF Builds
  <2>3. Stacks[7].markers = {"Makefile", "makefile"} /\ Stacks[8].markers = {"x.cpp"}
    BY DEF Stacks
  <2> QED BY <2>1, <2>2, <2>3
<1>2. PICK i \in 1..8 : i \in found /\ i \notin {7, 8}
  BY <1>1, RunsAssumption
<1>3. Min(found) \in found /\ Min(found) <= i
  <2>1. found \in SUBSET Nat
    BY <1>1
  <2> HIDE DEF found
  <2> QED BY <1>2, <2>1, MinIs
<1>4. DetectVerifyCommand(root) = {Stacks[Min(found)].command}
  BY <1>2 DEF DetectVerifyCommand
<1> HIDE DEF found
<1>5. Min(found) \in 1..8 /\ Min(found) \notin {7, 8}
  BY <1>1, <1>2, <1>3 DEF found
<1> QED BY <1>1, <1>4, <1>5

\* count_tests and grade, grade.rs, and detect_verify_command, verify.rs: whatever
\* the workspace, the suites and the tool, a run graded as solved exited 0, no test
\* failed, and one ran or go or gradle printed of a suite without tests what the
\* grader counts; and a whole run the grader reads, whose tests passed, is solved
\* unless gradle skipped the root project's.
THEOREM EvaluationGradeIsTrue == EvaluationSpec => []GradeIsTrue
<1>1. EvaluationInit => GradeIsTrue
  BY DEF EvaluationInit, GradeIsTrue, Ungraded, NoTruth
<1>2. GradeIsTrue /\ [EvaluationNext]_evaluationVars => GradeIsTrue'
  <2> SUFFICES ASSUME GradeIsTrue, [EvaluationNext]_evaluationVars PROVE GradeIsTrue'
    OBVIOUS
  <2>1. CASE Verify
    <3>1. PICK root \in Roots, override_cmd \in Overrides, suites \in Suites, killed \in BOOLEAN, cut \in BOOLEAN :
            LET command == ResolveVerifyCommand(root, override_cmd)
                native == /\ override_cmd \subseteq {"blank"}
                          /\ root \ {"Makefile", "makefile", "x.cpp"} # {}
            IN  \/ command = {} /\ UNCHANGED <<tests, truth>>
                \/ \E tool \in command : GradeRun(tool, native, suites, killed, cut)
      BY <2>1 DEF Verify
    <3>2. CASE UNCHANGED <<tests, truth>>
      BY <3>2 DEF GradeIsTrue
    <3>3. PICK native \in BOOLEAN : native = (/\ override_cmd \subseteq {"blank"}
                                             /\ root \ {"Makefile", "makefile", "x.cpp"} # {})
      OBVIOUS
    <3>4. ASSUME NEW tool \in ResolveVerifyCommand(root, override_cmd),
                 GradeRun(tool, native, suites, killed, cut)
          PROVE  GradeIsTrue'
      <4>1. native => ResolveVerifyCommand(root, override_cmd) \cap Builds = {}
        BY <3>3, NativeIsTested DEF ResolveVerifyCommand
      <4>2. native => tool \notin Builds
        BY <4>1
      <4>3. suites \in Seq(Counted)
        BY RunsAssumption DEF Counted
      <4> QED BY <3>4, <4>2, <4>3, GradeRunIsTrue
    <3> QED BY <3>1, <3>2, <3>3, <3>4, Zenon
  <2>2. CASE UNCHANGED <<tests, truth>>
    BY <2>2 DEF GradeIsTrue
  <2>3. Verify \/ UNCHANGED <<tests, truth>>
    BY DEF EvaluationNext, Running, NextCheck, CloseGate, Judged, Report, Ablate, Consult, RunUplift, evaluationVars, scoreVars
  <2> QED BY <2>1, <2>2, <2>3
<1> QED BY <1>1, <1>2, PTL DEF EvaluationSpec

-----------------------------------------------------------------------------
(* The attribution of an ablation. *)

\* ablation_matrix and attribute: what leaving one feature out does to the
\* signal it is said to move.
Moves(f, effective) ==
  Signals(AblationMatrix["full"], effective)[FeatureSignal[f]]
    # Signals(AblationMatrix[f], effective)[FeatureSignal[f]]

LEMMA FeaturesAre ==
  /\ Features = {"retrieval", "code_intelligence", "tool_budget", "check_before_launch", "tool_pull_discovery"}
  /\ FeatureSignal["retrieval"] = "retrieval_used"
  /\ FeatureSignal["code_intelligence"] = "reproduce_before_fix"
  /\ FeatureSignal["tool_budget"] = "tool_calls"
  /\ FeatureSignal["check_before_launch"] = "reproduce_before_fix"
  /\ FeatureSignal["tool_pull_discovery"] = "redundant_calls"
BY DEF Features, FeatureSignal

LEMMA ArmsAre ==
  /\ AblationMatrix["full"] = Features
  /\ \A f \in Features : AblationMatrix[f] = Features \ {f}
<1>1. \A f \in Features : f # "full" /\ f # "baseline"
  BY FeaturesAre
<1> QED BY <1>1 DEF AblationMatrix, SetFeature

LEMMA MovesIf ==
  ASSUME NEW effective, NEW f \in Features
  PROVE  /\ Moves(f, effective) => f \in effective
         /\ {g \in Features : FeatureSignal[g] = FeatureSignal[f]} \cap effective = {f} => Moves(f, effective)
<1> DEFINE S(on) == Signals(on, effective)
<1>1. ASSUME NEW on
      PROVE  /\ S(on)["retrieval_used"] = One("retrieval" \in on \cap effective)
             /\ S(on)["reproduce_before_fix"]
                  = One("code_intelligence" \in on \cap effective \/ "check_before_launch" \in on \cap effective)
             /\ S(on)["tool_calls"] = 3 - One("tool_budget" \in on \cap effective)
             /\ S(on)["redundant_calls"] = 1 - One("tool_pull_discovery" \in on \cap effective)
  BY DEF Signals
<1> HIDE DEF S
<1>2. Moves(f, effective) <=> S(Features)[FeatureSignal[f]] # S(Features \ {f})[FeatureSignal[f]]
  BY ArmsAre DEF Moves, S
<1>3. One(TRUE) = 1 /\ One(FALSE) = 0
  BY DEF One
<1>4. CASE f = "retrieval"
  BY <1>1, <1>2, <1>3, <1>4, FeaturesAre DEF One
<1>5. CASE f = "tool_budget"
  BY <1>1, <1>2, <1>3, <1>5, FeaturesAre DEF One
<1>6. CASE f = "tool_pull_discovery"
  BY <1>1, <1>2, <1>3, <1>6, FeaturesAre DEF One
<1>7. CASE f = "code_intelligence"
  BY <1>1, <1>2, <1>3, <1>7, FeaturesAre DEF One
<1>8. CASE f = "check_before_launch"
  BY <1>1, <1>2, <1>3, <1>8, FeaturesAre DEF One
<1> QED BY <1>4, <1>5, <1>6, <1>7, <1>8, FeaturesAre

\* What is kept of an ablation.
AblationInv ==
  stage = "ablated" =>
    /\ ablation.done \subseteq Features
    /\ ablation.rows = {[feature |-> f, moved |-> Moves(f, ablation.effective)] : f \in ablation.done}

LEMMA AblateKeeps ==
  ASSUME Ablate
  PROVE  AblationInv'
<1>1. PICK effective \in SUBSET Features, done \in SUBSET Features :
        ablation' = [effective |-> effective, done |-> done,
                     rows |-> Attribute(Signals(AblationMatrix["full"], effective),
                                        [f \in done |-> Signals(AblationMatrix[f], effective)])]
  BY DEF Ablate
<1>2. Attribute(Signals(AblationMatrix["full"], effective),
                [f \in done |-> Signals(AblationMatrix[f], effective)])
        = {[feature |-> f, moved |-> Moves(f, effective)] : f \in done}
  <2> DEFINE full == Signals(AblationMatrix["full"], effective)
             arms == [f \in done |-> Signals(AblationMatrix[f], effective)]
  <2>1. Features \cap DOMAIN arms = done
    OBVIOUS
  <2>2. \A f \in done : (full[FeatureSignal[f]] # arms[f][FeatureSignal[f]]) = Moves(f, effective)
    BY Zenon DEF Moves
  <2> HIDE DEF full, arms
  <2>3. Attribute(full, arms) = {[feature |-> f, moved |-> full[FeatureSignal[f]] # arms[f][FeatureSignal[f]]] : f \in done}
    BY <2>1, Zenon DEF Attribute
  <2>4. \A f \in done : [feature |-> f, moved |-> full[FeatureSignal[f]] # arms[f][FeatureSignal[f]]]
                          = [feature |-> f, moved |-> Moves(f, effective)]
    BY <2>2, Zenon
  <2>5. Attribute(full, arms) = {[feature |-> f, moved |-> Moves(f, effective)] : f \in done}
    BY <2>3, <2>4, Zenon
  <2> QED BY <2>5 DEF full, arms
<1>3. ablation'.done = done /\ ablation'.effective = effective
      /\ ablation'.rows = {[feature |-> f, moved |-> Moves(f, effective)] : f \in done}
  BY <1>1, <1>2
<1> QED BY <1>3, Zenon DEF AblationInv, Moves

\* ablation_matrix and attribute: a feature is said to move its signal only if it
\* does something, and is said so if nothing else moves that signal.
THEOREM EvaluationAttributionIsSound == EvaluationSpec => []AttributionIsSound
<1>1. EvaluationInit => AblationInv
  BY DEF EvaluationInit, AblationInv
<1>2. AblationInv /\ [EvaluationNext]_evaluationVars => AblationInv'
  <2> SUFFICES ASSUME AblationInv, [EvaluationNext]_evaluationVars PROVE AblationInv'
    OBVIOUS
  <2>1. CASE UNCHANGED <<stage, ablation>>
    BY <2>1, Zenon DEF AblationInv
  <2>2. CASE Ablate
    BY <2>2, AblateKeeps
  <2>3. CASE CloseGate \/ Verify \/ Report
    BY <2>3 DEF CloseGate, Verify, Report, AblationInv
  <2>4. Running \/ NextCheck \/ Consult \/ RunUplift \/ UNCHANGED evaluationVars => UNCHANGED <<stage, ablation>>
    BY DEF Running, NextCheck, Judged, Consult, RunUplift, evaluationVars, scoreVars
  <2> QED BY <2>1, <2>2, <2>3, <2>4 DEF EvaluationNext
<1>3. ASSUME AblationInv, stage = "ablated"
      PROVE  AttributionIsSound
  <2>1. /\ ablation.done \subseteq Features
        /\ ablation.rows = {[feature |-> f, moved |-> Moves(f, ablation.effective)] : f \in ablation.done}
    BY <1>3 DEF AblationInv
  <2>2. {row.feature : row \in ablation.rows} = ablation.done
    <3>1. \A f \in ablation.done : \E row \in ablation.rows : row.feature = f
      <4> SUFFICES ASSUME NEW f \in ablation.done PROVE \E row \in ablation.rows : row.feature = f
        OBVIOUS
      <4> DEFINE row == [feature |-> f, moved |-> Moves(f, ablation.effective)]
      <4>1. row.feature = f
        OBVIOUS
      <4>2. row \in ablation.rows
        BY <2>1, Zenon
      <4> QED BY <4>1, <4>2
    <3>2. \A row \in ablation.rows : row.feature \in ablation.done
      BY <2>1
    <3> QED BY <3>1, <3>2
  <2>3. \A row \in ablation.rows : row.feature \in Features /\ row.moved = Moves(row.feature, ablation.effective)
    BY <2>1
  <2> QED BY <2>2, <2>3, MovesIf DEF AttributionIsSound
<1>4. AblationInv => AttributionIsSound
  BY <1>3 DEF AttributionIsSound
<1> QED BY <1>1, <1>2, <1>4, PTL DEF EvaluationSpec

-----------------------------------------------------------------------------
(* The ranking.  A fraction at least as large as another stays so in sums and  *)
(* shares; so does the composite score of a card that is at least as good in   *)
(* every signal; so the cards have an order, and each place of it is taken.    *)

Fractions == Nat \X (Nat \ {0})

\* Products of natural numbers keep the order.
LEMMA TimesMono ==
  ASSUME NEW a \in Int, NEW b \in Int, NEW c \in Nat, a <= b
  PROVE  a * c <= b * c /\ a * c \in Int /\ b * c \in Int
  OBVIOUS

LEMMA PlusMono ==
  ASSUME NEW a \in Int, NEW b \in Int, NEW c \in Int, NEW d \in Int, a <= b, c <= d
  PROVE  a + c <= b + d
  OBVIOUS

LEMMA TimesCancels ==
  ASSUME NEW a \in Int, NEW b \in Int, NEW c \in Nat \ {0}, a * c <= b * c
  PROVE  a <= b
  OBVIOUS

LEMMA TimesRegroups ==
  ASSUME NEW p \in Int, NEW q \in Int, NEW r \in Int, NEW s \in Int
  PROVE  (p * q) * (r * s) = (p * r) * (s * q)
  OBVIOUS

LEMMA TimesDistributes ==
  ASSUME NEW p \in Int, NEW q \in Int, NEW r \in Int
  PROVE  (p + q) * r = p * r + q * r
  OBVIOUS

LEMMA FractionIs ==
  \A x \in Fractions : x[1] \in Nat /\ x[2] \in Nat \ {0} /\ x = <<x[1], x[2]>>
  BY DEF Fractions

LEMMA AtLeastIs ==
  ASSUME NEW x \in Fractions, NEW y \in Fractions
  PROVE  AtLeast(x, y) <=> y[1] * x[2] <= x[1] * y[2]
<1>1. x[1] \in Nat /\ x[2] \in Nat /\ y[1] \in Nat /\ y[2] \in Nat
  BY FractionIs
<1> DEFINE p == y[1] * x[2]
           q == x[1] * y[2]
<1>2. p \in Nat /\ q \in Nat
  BY <1>1
<1>3. AtLeast(x, y) <=> ~(p > q)
  BY DEF AtLeast, Exceeds
<1> HIDE DEF p, q
<1>4. AtLeast(x, y) <=> p <= q
  BY <1>2, <1>3
<1> QED BY <1>4 DEF p, q

LEMMA AtLeastTotal ==
  ASSUME NEW x \in Fractions, NEW y \in Fractions
  PROVE  AtLeast(x, x) /\ (AtLeast(x, y) \/ AtLeast(y, x))
<1>1. x[1] \in Nat /\ x[2] \in Nat /\ y[1] \in Nat /\ y[2] \in Nat
  BY FractionIs
<1>2. x[1] * x[2] <= x[1] * x[2] /\ (y[1] * x[2] <= x[1] * y[2] \/ x[1] * y[2] <= y[1] * x[2])
  BY <1>1
<1> QED BY <1>2, AtLeastIs

LEMMA AtLeastTransitive ==
  ASSUME NEW x \in Fractions, NEW y \in Fractions, NEW z \in Fractions,
         AtLeast(x, y), AtLeast(y, z)
  PROVE  AtLeast(x, z)
<1> PICK a \in Nat, b \in Nat \ {0} : a = x[1] /\ b = x[2]
  BY FractionIs
<1> PICK c \in Nat, d \in Nat \ {0} : c = y[1] /\ d = y[2]
  BY FractionIs
<1> PICK e \in Nat, f \in Nat \ {0} : e = z[1] /\ f = z[2]
  BY FractionIs
<1>1. c * b <= a * d /\ e * d <= c * f
  BY AtLeastIs
<1>2. (c * b) * f <= (a * d) * f /\ (e * d) * b <= (c * f) * b
  <2>1. c * b \in Int /\ a * d \in Int /\ e * d \in Int /\ c * f \in Int /\ f \in Nat /\ b \in Nat
    OBVIOUS
  <2>2. (c * b) * f <= (a * d) * f
    BY <1>1, <2>1, TimesMono
  <2>3. (e * d) * b <= (c * f) * b
    BY <1>1, <2>1, TimesMono
  <2> QED BY <2>2, <2>3
<1>3. (c * b) * f = (c * f) * b /\ (a * d) * f = (a * f) * d /\ (e * d) * b = (e * b) * d
  OBVIOUS
<1>4. (e * b) * d <= (a * f) * d
  BY <1>2, <1>3
<1>5. e * b <= a * f
  BY <1>4, TimesCancels
<1> QED BY <1>5, AtLeastIs

LEMMA PlusKeeps ==
  ASSUME NEW x \in Fractions, NEW y \in Fractions, NEW u \in Fractions, NEW v \in Fractions,
         AtLeast(x, y), AtLeast(u, v)
  PROVE  /\ Plus(x, u) \in Fractions /\ Plus(y, v) \in Fractions
         /\ AtLeast(Plus(x, u), Plus(y, v))
<1> PICK a \in Nat, b \in Nat \ {0} : a = x[1] /\ b = x[2]
  BY FractionIs
<1> PICK c \in Nat, d \in Nat \ {0} : c = y[1] /\ d = y[2]
  BY FractionIs
<1> PICK e \in Nat, f \in Nat \ {0} : e = u[1] /\ f = u[2]
  BY FractionIs
<1> PICK g \in Nat, h \in Nat \ {0} : g = v[1] /\ h = v[2]
  BY FractionIs
<1>1. c * b <= a * d /\ g * f <= e * h
  BY AtLeastIs
<1>2. Plus(x, u) = <<a * f + e * b, b * f>> /\ Plus(y, v) = <<c * h + g * d, d * h>>
  BY DEF Plus
<1>3. b * f \in Nat \ {0} /\ d * h \in Nat \ {0} /\ a * f + e * b \in Nat /\ c * h + g * d \in Nat
  OBVIOUS
<1>4. Plus(x, u) \in Fractions /\ Plus(y, v) \in Fractions
  BY <1>2, <1>3 DEF Fractions
<1>5. f * h \in Nat /\ b * d \in Nat
  OBVIOUS
<1>6. (c * b) * (f * h) <= (a * d) * (f * h) /\ (g * f) * (b * d) <= (e * h) * (b * d)
  BY <1>1, <1>5, TimesMono
<1>7. /\ (c * h + g * d) * (b * f) = (c * b) * (f * h) + (g * f) * (b * d)
      /\ (a * f + e * b) * (d * h) = (a * d) * (f * h) + (e * h) * (b * d)
  <2>1. c * h \in Int /\ g * d \in Int /\ b * f \in Int /\ a * f \in Int /\ e * b \in Int /\ d * h \in Int
    OBVIOUS
  <2>2. /\ (c * h + g * d) * (b * f) = (c * h) * (b * f) + (g * d) * (b * f)
        /\ (a * f + e * b) * (d * h) = (a * f) * (d * h) + (e * b) * (d * h)
    BY <2>1, TimesDistributes
  <2>3. (c * h) * (b * f) = (c * b) * (f * h) /\ (e * b) * (d * h) = (e * d) * (h * b)
    BY TimesRegroups
  <2>4. (g * d) * (b * f) = (g * f) * (b * d) /\ (a * f) * (d * h) = (a * d) * (h * f)
    <3>1. (g * d) * (f * b) = (g * f) * (b * d) /\ (a * f) * (d * h) = (a * d) * (h * f)
      BY TimesRegroups
    <3>2. f * b = b * f
      OBVIOUS
    <3> QED BY <3>1, <3>2
  <2>5. (e * b) * (h * d) = (e * h) * (d * b)
    BY TimesRegroups
  <2>6. h * d = d * h /\ d * b = b * d /\ h * f = f * h
    OBVIOUS
  <2> QED BY <2>2, <2>3, <2>4, <2>5, <2>6
<1>8. (c * h + g * d) * (b * f) <= (a * f + e * b) * (d * h)
  <2> DEFINE p == (c * b) * (f * h)
             q == (a * d) * (f * h)
             r == (g * f) * (b * d)
             s == (e * h) * (b * d)
  <2>1. p \in Int /\ q \in Int /\ r \in Int /\ s \in Int
    OBVIOUS
  <2>2. p <= q /\ r <= s
    BY <1>6
  <2>3. (c * h + g * d) * (b * f) = p + r /\ (a * f + e * b) * (d * h) = q + s
    BY <1>7
  <2> HIDE DEF p, q, r, s
  <2>4. p + r <= q + s
    BY <2>1, <2>2, PlusMono
  <2> QED BY <2>3, <2>4, Zenon
<1>9. Plus(y, v)[1] * Plus(x, u)[2] <= Plus(x, u)[1] * Plus(y, v)[2]
  BY <1>2, <1>8
<1> QED BY <1>4, <1>9, AtLeastIs

LEMMA OverKeeps ==
  ASSUME NEW x \in Fractions, NEW y \in Fractions, NEW n \in Nat \ {0}, AtLeast(x, y)
  PROVE  Over(x, n) \in Fractions /\ Over(y, n) \in Fractions /\ AtLeast(Over(x, n), Over(y, n))
<1> PICK a \in Nat, b \in Nat \ {0} : a = x[1] /\ b = x[2]
  BY FractionIs
<1> PICK c \in Nat, d \in Nat \ {0} : c = y[1] /\ d = y[2]
  BY FractionIs
<1>1. c * b <= a * d
  BY AtLeastIs
<1>2. Over(x, n) = <<a, b * n>> /\ Over(y, n) = <<c, d * n>> /\ b * n \in Nat \ {0} /\ d * n \in Nat \ {0}
  BY DEF Over
<1>3. (c * b) * n <= (a * d) * n
  BY <1>1, TimesMono
<1>4. c * (b * n) <= a * (d * n)
  <2>1. c * (b * n) = (c * b) * n /\ a * (d * n) = (a * d) * n
    OBVIOUS
  <2> QED BY <1>3, <2>1
<1>5. Over(x, n) \in Fractions /\ Over(y, n) \in Fractions
  BY <1>2 DEF Fractions
<1> QED BY <1>2, <1>4, <1>5, AtLeastIs

LEMMA MaxIs ==
  ASSUME NEW a \in Int, NEW b \in Int
  PROVE  Max({a, b}) = IF a >= b THEN a ELSE b
<1> DEFINE m == IF a >= b THEN a ELSE b
<1>1. m \in {a, b} /\ \A y \in {a, b} : m >= y
  OBVIOUS
<1>2. \A x \in {a, b} : (\A y \in {a, b} : x >= y) => x = m
  OBVIOUS
<1> HIDE DEF m
<1>3. Max({a, b}) = m
  BY <1>1, <1>2 DEF Max
<1> QED BY <1>3 DEF m

LEMMA OneIs == One(TRUE) = 1 /\ One(FALSE) = 0
  BY DEF One

LEMMA OneKeeps ==
  ASSUME NEW x \in BOOLEAN, NEW y \in BOOLEAN, y => x
  PROVE  One(x) \in {0, 1} /\ One(y) \in {0, 1} /\ One(y) <= One(x)
  BY DEF One

\* Three flags that are up where the others are make at least as large a sum.
LEMMA CountKeeps ==
  ASSUME NEW a \in BOOLEAN, NEW b \in BOOLEAN, NEW c \in BOOLEAN,
         NEW d \in BOOLEAN, NEW e \in BOOLEAN, NEW f \in BOOLEAN,
         d => a, e => b, f => c
  PROVE  /\ One(a) + One(b) + One(c) \in Nat /\ One(d) + One(e) + One(f) \in Nat
         /\ One(d) + One(e) + One(f) <= One(a) + One(b) + One(c)
<1>1. One(a) \in {0, 1} /\ One(d) \in {0, 1} /\ One(d) <= One(a)
  BY OneKeeps
<1>2. One(b) \in {0, 1} /\ One(e) \in {0, 1} /\ One(e) <= One(b)
  BY OneKeeps
<1>3. One(c) \in {0, 1} /\ One(f) \in {0, 1} /\ One(f) <= One(c)
  BY OneKeeps
<1> QED BY <1>1, <1>2, <1>3

-----------------------------------------------------------------------------
\* Of the calls of a session, how many there count as and how many were of use.
Calling(p) == IF p.tool_calls = 0 THEN 1 ELSE p.tool_calls
Useful(p) == IF p.tool_calls = 0 THEN 1 ELSE Max({0, Calling(p) - p.redundant_calls})
Good(p) == One(p.reproduce_before_fix) + One(p.test_before_done) + One(p.retrieval_used)

LEMMA ProcessIs == \A p : ProcessComponent(p) = <<Good(p) * Useful(p), 3 * Calling(p)>>
  BY DEF ProcessComponent, Good, Useful, Calling

LEMMA UsefulIs ==
  ASSUME NEW p \in Processes
  PROVE  /\ Calling(p) \in Nat \ {0}
         /\ Useful(p) \in Nat /\ Useful(p) <= Calling(p)
         /\ p.tool_calls = 0 => Useful(p) = 1 /\ Calling(p) = 1
         /\ p.tool_calls # 0 =>
              /\ Calling(p) = p.tool_calls
              /\ Useful(p) = IF p.redundant_calls >= p.tool_calls THEN 0
                             ELSE p.tool_calls - p.redundant_calls
<1> USE DEF Processes
<1>1. CASE p.tool_calls = 0
  BY <1>1 DEF Calling, Useful
<1>2. CASE p.tool_calls # 0
  <2>1. Calling(p) = p.tool_calls /\ p.tool_calls \in Nat \ {0} /\ p.redundant_calls \in Nat
    BY <1>2 DEF Calling
  <2>2. Useful(p) = Max({0, p.tool_calls - p.redundant_calls})
    BY <1>2, <2>1 DEF Useful
  <2> PICK t \in Nat \ {0}, r \in Nat : t = p.tool_calls /\ r = p.redundant_calls
    BY <2>1
  <2>3. Max({0, t - r}) = IF 0 >= t - r THEN 0 ELSE t - r
    BY MaxIs
  <2>4. Useful(p) = IF r >= t THEN 0 ELSE t - r
    BY <2>2, <2>3
  <2> QED BY <1>2, <2>1, <2>4
<1> QED BY <1>1, <1>2

\* Less waste is more use.
LEMMA UseIsNoWaste ==
  ASSUME NEW t \in Nat \ {0}, NEW r \in Nat, NEW d \in Nat \ {0}, NEW w \in Nat,
         NEW u \in Nat, NEW v \in Nat,
         u = (IF r >= t THEN 0 ELSE t - r), v = (IF w >= d THEN 0 ELSE d - w),
         r * d <= w * t
  PROVE  v * t <= u * d
<1>1. u * d \in Nat
  OBVIOUS
<1>2. CASE w >= d
  BY <1>1, <1>2
<1>3. CASE w < d
  <2>1. v * t = (d - w) * t
    BY <1>3
  <2>2. (d - w) * t = d * t - w * t /\ (t - r) * d = t * d - r * d
    OBVIOUS
  <2>3. d * t = t * d /\ d * t \in Int /\ w * t \in Int /\ r * d \in Int
    OBVIOUS
  <2>4. (d - w) * t <= (t - r) * d
    BY <2>2, <2>3
  <2>5. (d - w) * t > 0
    BY <1>3
  <2>6. ~(r >= t)
    <3>1. SUFFICES ASSUME r >= t PROVE FALSE
      OBVIOUS
    <3>2. t * d <= r * d
      BY <3>1, TimesMono
    <3> QED BY <2>2, <2>3, <2>4, <2>5, <3>2
  <2> QED BY <2>1, <2>4, <2>6
<1> QED BY <1>2, <1>3

LEMMA UsefulKeeps ==
  ASSUME NEW p \in Processes, NEW q \in Processes, AtLeast(Wasted(q), Wasted(p))
  PROVE  Useful(q) * Calling(p) <= Useful(p) * Calling(q)
<1>1. Wasted(p) \in Fractions /\ Wasted(q) \in Fractions
  BY DEF Wasted, Fractions, Processes
<1>2. Wasted(p)[1] * Wasted(q)[2] <= Wasted(q)[1] * Wasted(p)[2]
  BY <1>1, AtLeastIs
<1>3. CASE p.tool_calls = 0
  BY <1>3, UsefulIs
<1>4. CASE p.tool_calls # 0 /\ q.tool_calls = 0
  <2>1. Wasted(p)[1] = p.redundant_calls /\ Wasted(q) = <<0, 1>> /\ Wasted(p)[2] = p.tool_calls
    BY <1>4 DEF Wasted
  <2>2. p.redundant_calls \in Nat /\ p.tool_calls \in Nat
    BY DEF Processes
  <2>3. p.redundant_calls = 0
    BY <1>2, <2>1, <2>2
  <2> QED BY <1>4, <2>2, <2>3, UsefulIs
<1>5. CASE p.tool_calls # 0 /\ q.tool_calls # 0
  <2>1. /\ p.tool_calls \in Nat \ {0} /\ p.redundant_calls \in Nat
        /\ q.tool_calls \in Nat \ {0} /\ q.redundant_calls \in Nat
    BY <1>5 DEF Processes
  <2>2. /\ Wasted(p) = <<p.redundant_calls, p.tool_calls>>
        /\ Wasted(q) = <<q.redundant_calls, q.tool_calls>>
    BY <1>5 DEF Wasted
  <2>3. p.redundant_calls * q.tool_calls <= q.redundant_calls * p.tool_calls
    BY <1>2, <2>2
  <2>4. /\ Useful(p) \in Nat /\ Useful(q) \in Nat
        /\ Calling(p) = p.tool_calls /\ Calling(q) = q.tool_calls
        /\ Useful(p) = (IF p.redundant_calls >= p.tool_calls THEN 0 ELSE p.tool_calls - p.redundant_calls)
        /\ Useful(q) = (IF q.redundant_calls >= q.tool_calls THEN 0 ELSE q.tool_calls - q.redundant_calls)
    BY <1>5, UsefulIs
  <2> PICK t \in Nat \ {0}, r \in Nat : t = p.tool_calls /\ r = p.redundant_calls
    BY <2>1
  <2> PICK d \in Nat \ {0}, w \in Nat : d = q.tool_calls /\ w = q.redundant_calls
    BY <2>1
  <2>5. Useful(q) * t <= Useful(p) * d
    BY <2>3, <2>4, UseIsNoWaste
  <2> QED BY <2>4, <2>5
<1> QED BY <1>3, <1>4, <1>5

LEMMA ProcessFraction == \A p \in Processes : ProcessComponent(p) \in Fractions
<1> SUFFICES ASSUME NEW p \in Processes PROVE ProcessComponent(p) \in Fractions
  OBVIOUS
<1>1. p.reproduce_before_fix \in BOOLEAN /\ p.test_before_done \in BOOLEAN /\ p.retrieval_used \in BOOLEAN
  BY DEF Processes
<1>2. Good(p) \in Nat
  BY <1>1, CountKeeps DEF Good
<1>3. Good(p) * Useful(p) \in Nat /\ 3 * Calling(p) \in Nat \ {0}
  BY <1>2, UsefulIs
<1> QED BY <1>3, ProcessIs DEF Fractions

LEMMA ProcessKeeps ==
  ASSUME NEW p \in Processes, NEW q \in Processes,
         q.reproduce_before_fix => p.reproduce_before_fix,
         q.test_before_done => p.test_before_done, q.retrieval_used => p.retrieval_used,
         AtLeast(Wasted(q), Wasted(p))
  PROVE  AtLeast(ProcessComponent(p), ProcessComponent(q))
<1>1. /\ p.reproduce_before_fix \in BOOLEAN /\ p.test_before_done \in BOOLEAN /\ p.retrieval_used \in BOOLEAN
      /\ q.reproduce_before_fix \in BOOLEAN /\ q.test_before_done \in BOOLEAN /\ q.retrieval_used \in BOOLEAN
  BY DEF Processes
<1>2. Good(p) \in Nat /\ Good(q) \in Nat /\ Good(q) <= Good(p)
  BY <1>1, CountKeeps DEF Good
<1>3. Useful(q) * Calling(p) <= Useful(p) * Calling(q)
  BY UsefulKeeps
<1> PICK g \in Nat, u \in Nat, c \in Nat \ {0} : g = Good(p) /\ u = Useful(p) /\ c = Calling(p)
  BY <1>2, UsefulIs
<1> PICK h \in Nat, v \in Nat, d \in Nat \ {0} : h = Good(q) /\ v = Useful(q) /\ d = Calling(q)
  BY <1>2, UsefulIs
<1>4. v * c <= u * d /\ v * c \in Nat /\ u * d \in Nat
  BY <1>3
<1>5. h * (v * c) <= g * (u * d)
  <2>1. h * (v * c) <= g * (v * c)
    BY <1>2, <1>4, TimesMono
  <2>2. (v * c) * g <= (u * d) * g
    BY <1>4, TimesMono
  <2>3. (v * c) * g = g * (v * c) /\ (u * d) * g = g * (u * d)
    OBVIOUS
  <2>4. h * (v * c) \in Int /\ g * (v * c) \in Int /\ g * (u * d) \in Int
    OBVIOUS
  <2> QED BY <2>1, <2>2, <2>3, <2>4
<1>6. (h * v) * (3 * c) = 3 * (h * (v * c)) /\ (g * u) * (3 * d) = 3 * (g * (u * d))
  <2>1. (h * v) * (3 * c) = (h * 3) * (c * v) /\ (g * u) * (3 * d) = (g * 3) * (d * u)
    BY TimesRegroups
  <2>2. c * v = v * c /\ d * u = u * d /\ h * 3 = 3 * h /\ g * 3 = 3 * g
    OBVIOUS
  <2>3. (3 * h) * (v * c) = 3 * (h * (v * c)) /\ (3 * g) * (u * d) = 3 * (g * (u * d))
    OBVIOUS
  <2> QED BY <2>1, <2>2, <2>3
<1>7. h * (v * c) \in Int /\ g * (u * d) \in Int
  OBVIOUS
<1>8. (h * v) * (3 * c) <= (g * u) * (3 * d)
  BY <1>5, <1>6, <1>7
<1>9. ProcessComponent(p) = <<g * u, 3 * c>> /\ ProcessComponent(q) = <<h * v, 3 * d>>
  BY ProcessIs
<1>10. ProcessComponent(q)[1] * ProcessComponent(p)[2] <= ProcessComponent(p)[1] * ProcessComponent(q)[2]
  BY <1>8, <1>9
<1> QED BY <1>10, AtLeastIs, ProcessFraction

Minimal(ratios) ==
  IF ratios = {} THEN <<1, 2>>
  ELSE LET ratio == CHOOSE r \in ratios : TRUE
       IN  <<ratio[2], Max({ratio[1], ratio[2]})>>
Clean(q) == <<One(q.format_clean) + One(q.lint_clean) + One(q.typecheck_clean), 3>>
Tested(q) == IF q.tests_added THEN <<1, 1>> ELSE <<1, 2>>

LEMMA QualityIs ==
  \A q : QualityComponent(q) = Over(Plus(Plus(Clean(q), Minimal(q.vs_gold_ratio)), Tested(q)), 3)
  BY DEF QualityComponent, Clean, Minimal, Tested

\* The ratio to the gold patch, if there is one.
Ratios == {{}} \cup {{r} : r \in Nat \X (Nat \ {0})}

LEMMA CardIs ==
  ASSUME NEW c, IsCard(c)
  PROVE  /\ c.results \in [passed : BOOLEAN, regression_safe : BOOLEAN]
         /\ c.process \in Processes
         /\ c.quality \in Qualities(Ratios)
<1>1. c.quality.vs_gold_ratio \in Ratios
  BY DEF IsCard, Ratios
<1>2. c.quality \in Qualities({c.quality.vs_gold_ratio})
  BY DEF IsCard
<1>3. c.quality \in Qualities(Ratios)
  BY <1>1, <1>2 DEF Qualities
<1> QED BY <1>3 DEF IsCard

LEMMA MinimalIs ==
  /\ Minimal({}) = <<1, 2>>
  /\ \A c \in Nat, g \in Nat \ {0} : Minimal({<<c, g>>}) = <<g, IF c >= g THEN c ELSE g>>
<1>1. Minimal({}) = <<1, 2>>
  BY DEF Minimal
<1>2. ASSUME NEW c \in Nat, NEW g \in Nat \ {0}
      PROVE  Minimal({<<c, g>>}) = <<g, IF c >= g THEN c ELSE g>>
  <2>1. (CHOOSE r \in {<<c, g>>} : TRUE) = <<c, g>>
    OBVIOUS
  <2>2. Minimal({<<c, g>>}) = <<g, Max({c, g})>>
    BY <2>1 DEF Minimal
  <2> QED BY <2>2, MaxIs
<1> QED BY <1>1, <1>2

LEMMA RatioIs ==
  ASSUME NEW ratios \in Ratios, ratios # {}
  PROVE  \E c \in Nat, g \in Nat \ {0} : ratios = {<<c, g>>}
<1>1. PICK r \in Nat \X (Nat \ {0}) : ratios = {r}
  BY DEF Ratios
<1>2. r[1] \in Nat /\ r[2] \in Nat \ {0} /\ r = <<r[1], r[2]>>
  BY <1>1
<1> QED BY <1>1, <1>2

LEMMA MinimalFraction == \A ratios \in Ratios : Minimal(ratios) \in Fractions
<1> SUFFICES ASSUME NEW ratios \in Ratios PROVE Minimal(ratios) \in Fractions
  OBVIOUS
<1>1. CASE ratios = {}
  BY <1>1, MinimalIs DEF Fractions
<1>2. CASE ratios # {}
  <2>1. PICK c \in Nat, g \in Nat \ {0} : ratios = {<<c, g>>}
    BY <1>2, RatioIs
  <2>2. Minimal(ratios) = <<g, IF c >= g THEN c ELSE g>>
    BY <2>1, MinimalIs
  <2> QED BY <2>2 DEF Fractions
<1> QED BY <1>1, <1>2

\* Less churn is more minimal.
LEMMA MinimalKeeps ==
  ASSUME NEW p \in Ratios, NEW q \in Ratios, NoMoreChurn(p, q)
  PROVE  AtLeast(Minimal(p), Minimal(q))
<1>1. CASE p = q
  BY <1>1, MinimalFraction, AtLeastTotal
<1>2. CASE p # q
  <2>1. PICK x \in p, y \in q : AtLeast(y, x)
    BY <1>2 DEF NoMoreChurn
  <2>2. PICK c \in Nat, g \in Nat \ {0} : p = {<<c, g>>}
    BY <2>1, RatioIs
  <2>3. PICK d \in Nat, h \in Nat \ {0} : q = {<<d, h>>}
    BY <2>1, RatioIs
  <2> DEFINE m == IF c >= g THEN c ELSE g
             n == IF d >= h THEN d ELSE h
  <2>4. AtLeast(<<d, h>>, <<c, g>>) /\ <<d, h>> \in Fractions /\ <<c, g>> \in Fractions
    BY <2>1, <2>2, <2>3 DEF Fractions
  <2>5. c * h <= d * g
    BY <2>4, AtLeastIs
  <2>6. m \in Nat \ {0} /\ n \in Nat \ {0} /\ h <= n /\ d <= n /\ m \in {c, g}
    OBVIOUS
  <2> HIDE DEF m, n
  <2>7. h * m <= g * n
    <3>1. d * g <= n * g /\ h * g <= n * g /\ d * g \in Int /\ n * g \in Int /\ c * h \in Int
      BY <2>6, TimesMono
    <3>2. n * g = g * n /\ c * h = h * c
      BY <2>6
    <3>3. CASE m = c
      BY <2>5, <3>1, <3>2, <3>3
    <3>4. CASE m = g
      BY <3>1, <3>2, <3>4
    <3> QED BY <2>6, <3>3, <3>4
  <2>8. Minimal(p) = <<g, m>> /\ Minimal(q) = <<h, n>>
    BY <2>2, <2>3, MinimalIs DEF m, n
  <2>9. Minimal(q)[1] * Minimal(p)[2] <= Minimal(p)[1] * Minimal(q)[2]
    BY <2>7, <2>8
  <2> QED BY <2>9, MinimalFraction, AtLeastIs
<1> QED BY <1>1, <1>2

LEMMA TestedKeeps ==
  ASSUME NEW p, NEW q, q.tests_added \in BOOLEAN, p.tests_added \in BOOLEAN,
         q.tests_added => p.tests_added
  PROVE  Tested(p) \in Fractions /\ Tested(q) \in Fractions /\ AtLeast(Tested(p), Tested(q))
<1>1. Tested(p) \in Fractions /\ Tested(q) \in Fractions
  BY DEF Tested, Fractions
<1>2. Tested(q)[1] * Tested(p)[2] <= Tested(p)[1] * Tested(q)[2]
  BY DEF Tested
<1> QED BY <1>1, <1>2, AtLeastIs

LEMMA CleanKeeps ==
  ASSUME NEW p \in Qualities(Ratios), NEW q \in Qualities(Ratios),
         q.format_clean => p.format_clean, q.lint_clean => p.lint_clean,
         q.typecheck_clean => p.typecheck_clean
  PROVE  Clean(p) \in Fractions /\ Clean(q) \in Fractions /\ AtLeast(Clean(p), Clean(q))
<1>1. /\ p.format_clean \in BOOLEAN /\ p.lint_clean \in BOOLEAN /\ p.typecheck_clean \in BOOLEAN
      /\ q.format_clean \in BOOLEAN /\ q.lint_clean \in BOOLEAN /\ q.typecheck_clean \in BOOLEAN
  BY DEF Qualities
<1> DEFINE a == One(p.format_clean) + One(p.lint_clean) + One(p.typecheck_clean)
           b == One(q.format_clean) + One(q.lint_clean) + One(q.typecheck_clean)
<1>2. a \in Nat /\ b \in Nat /\ b <= a
  BY <1>1, CountKeeps
<1>3. Clean(p) = <<a, 3>> /\ Clean(q) = <<b, 3>>
  BY DEF Clean
<1> HIDE DEF a, b
<1>4. Clean(p) \in Fractions /\ Clean(q) \in Fractions
  BY <1>2, <1>3 DEF Fractions
<1>5. Clean(q)[1] * Clean(p)[2] <= Clean(p)[1] * Clean(q)[2]
  BY <1>2, <1>3
<1> QED BY <1>4, <1>5, AtLeastIs

LEMMA QualityKeeps ==
  ASSUME NEW p \in Qualities(Ratios), NEW q \in Qualities(Ratios),
         q.format_clean => p.format_clean, q.lint_clean => p.lint_clean,
         q.typecheck_clean => p.typecheck_clean, q.tests_added => p.tests_added,
         NoMoreChurn(p.vs_gold_ratio, q.vs_gold_ratio)
  PROVE  /\ QualityComponent(p) \in Fractions /\ QualityComponent(q) \in Fractions
         /\ AtLeast(QualityComponent(p), QualityComponent(q))
<1>1. Clean(p) \in Fractions /\ Clean(q) \in Fractions /\ AtLeast(Clean(p), Clean(q))
  BY CleanKeeps
<1>2. /\ p.vs_gold_ratio \in Ratios /\ q.vs_gold_ratio \in Ratios
      /\ p.tests_added \in BOOLEAN /\ q.tests_added \in BOOLEAN
  BY DEF Qualities
<1>3. /\ Minimal(p.vs_gold_ratio) \in Fractions /\ Minimal(q.vs_gold_ratio) \in Fractions
      /\ AtLeast(Minimal(p.vs_gold_ratio), Minimal(q.vs_gold_ratio))
  BY <1>2, MinimalFraction, MinimalKeeps
<1>4. Tested(p) \in Fractions /\ Tested(q) \in Fractions /\ AtLeast(Tested(p), Tested(q))
  BY <1>2, TestedKeeps
<1> DEFINE a == Plus(Clean(p), Minimal(p.vs_gold_ratio))
           b == Plus(Clean(q), Minimal(q.vs_gold_ratio))
<1>5. a \in Fractions /\ b \in Fractions /\ AtLeast(a, b)
  BY <1>1, <1>3, PlusKeeps
<1> HIDE DEF a, b
<1>6. Plus(a, Tested(p)) \in Fractions /\ Plus(b, Tested(q)) \in Fractions
      /\ AtLeast(Plus(a, Tested(p)), Plus(b, Tested(q)))
  BY <1>4, <1>5, PlusKeeps
<1>7. /\ Over(Plus(a, Tested(p)), 3) \in Fractions /\ Over(Plus(b, Tested(q)), 3) \in Fractions
      /\ AtLeast(Over(Plus(a, Tested(p)), 3), Over(Plus(b, Tested(q)), 3))
  BY <1>6, OverKeeps
<1>8. QualityComponent(p) = Over(Plus(a, Tested(p)), 3) /\ QualityComponent(q) = Over(Plus(b, Tested(q)), 3)
  BY QualityIs DEF a, b
<1> QED BY <1>7, <1>8

-----------------------------------------------------------------------------
Safety(c) == <<One(c.results.regression_safe), 1>>
Score(c) == IF c.results.passed
              THEN Over(Plus(Plus(QualityComponent(c.quality), ProcessComponent(c.process)), Safety(c)), 3)
              ELSE ProcessComponent(c.process)

LEMMA CompositeIs ==
  \A c : CompositeScore(c) = <<IF c.results.passed THEN 1 ELSE 0, Score(c)>>
  BY DEF CompositeScore, Score, Safety

\* The score of a passing card that is at least as good in everything.
LEMMA PassedKeeps ==
  ASSUME NEW a, NEW b, IsCard(a), IsCard(b), a.results.passed, b.results.passed, Dominates(a, b)
  PROVE  Score(a) \in Fractions /\ Score(b) \in Fractions /\ AtLeast(Score(a), Score(b))
<1>1. /\ b.results.regression_safe => a.results.regression_safe
      /\ b.process.reproduce_before_fix => a.process.reproduce_before_fix
      /\ b.process.test_before_done => a.process.test_before_done
      /\ b.process.retrieval_used => a.process.retrieval_used
      /\ b.quality.format_clean => a.quality.format_clean
      /\ b.quality.lint_clean => a.quality.lint_clean
      /\ b.quality.typecheck_clean => a.quality.typecheck_clean
      /\ b.quality.tests_added => a.quality.tests_added
      /\ NoMoreChurn(a.quality.vs_gold_ratio, b.quality.vs_gold_ratio)
      /\ AtLeast(Wasted(b.process), Wasted(a.process))
  BY DEF Dominates
<1>2. /\ a.process \in Processes /\ b.process \in Processes
      /\ a.quality \in Qualities(Ratios) /\ b.quality \in Qualities(Ratios)
      /\ a.results.regression_safe \in BOOLEAN /\ b.results.regression_safe \in BOOLEAN
  BY CardIs
<1>3. /\ QualityComponent(a.quality) \in Fractions /\ QualityComponent(b.quality) \in Fractions
      /\ AtLeast(QualityComponent(a.quality), QualityComponent(b.quality))
  BY <1>1, <1>2, QualityKeeps
<1>4. /\ ProcessComponent(a.process) \in Fractions /\ ProcessComponent(b.process) \in Fractions
      /\ AtLeast(ProcessComponent(a.process), ProcessComponent(b.process))
  BY <1>1, <1>2, ProcessKeeps, ProcessFraction
<1>5. Safety(a) \in Fractions /\ Safety(b) \in Fractions /\ AtLeast(Safety(a), Safety(b))
  <2>1. /\ One(a.results.regression_safe) \in {0, 1} /\ One(b.results.regression_safe) \in {0, 1}
        /\ One(b.results.regression_safe) <= One(a.results.regression_safe)
    BY <1>1, <1>2, OneKeeps
  <2>2. Safety(a) \in Fractions /\ Safety(b) \in Fractions
    BY <2>1 DEF Safety, Fractions
  <2>3. Safety(b)[1] * Safety(a)[2] <= Safety(a)[1] * Safety(b)[2]
    BY <2>1 DEF Safety
  <2> QED BY <2>2, <2>3, AtLeastIs
<1> DEFINE x == Plus(QualityComponent(a.quality), ProcessComponent(a.process))
           y == Plus(QualityComponent(b.quality), ProcessComponent(b.process))
<1>6. x \in Fractions /\ y \in Fractions /\ AtLeast(x, y)
  BY <1>3, <1>4, PlusKeeps
<1> HIDE DEF x, y
<1>7. /\ Plus(x, Safety(a)) \in Fractions /\ Plus(y, Safety(b)) \in Fractions
      /\ AtLeast(Plus(x, Safety(a)), Plus(y, Safety(b)))
  BY <1>5, <1>6, PlusKeeps
<1>8. /\ Over(Plus(x, Safety(a)), 3) \in Fractions /\ Over(Plus(y, Safety(b)), 3) \in Fractions
      /\ AtLeast(Over(Plus(x, Safety(a)), 3), Over(Plus(y, Safety(b)), 3))
  BY <1>7, OverKeeps
<1>9. Score(a) = Over(Plus(x, Safety(a)), 3) /\ Score(b) = Over(Plus(y, Safety(b)), 3)
  BY DEF Score, x, y
<1> QED BY <1>8, <1>9

LEMMA DominatesItself ==
  ASSUME NEW c, IsCard(c)
  PROVE  Dominates(c, c)
<1>1. Wasted(c.process) \in Fractions
  BY CardIs DEF Wasted, Fractions, Processes
<1> QED BY <1>1, AtLeastTotal DEF Dominates, NoMoreChurn

LEMMA ScoreFraction ==
  ASSUME NEW c, IsCard(c)
  PROVE  Score(c) \in Fractions
<1>1. CASE c.results.passed
  BY <1>1, DominatesItself, PassedKeeps
<1>2. CASE ~c.results.passed
  BY <1>2, CardIs, ProcessFraction DEF Score
<1> QED BY <1>1, <1>2

LEMMA OutranksIs ==
  ASSUME NEW a, NEW b, IsCard(a), IsCard(b)
  PROVE  Outranks(a, b) <=>
           \/ a.results.passed /\ ~b.results.passed
           \/ (a.results.passed <=> b.results.passed) /\ ~AtLeast(Score(b), Score(a))
<1>1. a.results.passed \in BOOLEAN /\ b.results.passed \in BOOLEAN
  BY CardIs
<1>2. /\ CompositeScore(a)[1] = IF a.results.passed THEN 1 ELSE 0
      /\ CompositeScore(b)[1] = IF b.results.passed THEN 1 ELSE 0
      /\ CompositeScore(a)[2] = Score(a) /\ CompositeScore(b)[2] = Score(b)
  BY CompositeIs
<1>3. Outranks(a, b) <=>
        \/ CompositeScore(a)[1] > CompositeScore(b)[1]
        \/ CompositeScore(a)[1] = CompositeScore(b)[1] /\ Exceeds(Score(a), Score(b))
  BY <1>2, Zenon DEF Outranks
<1>4. AtLeast(Score(b), Score(a)) <=> ~Exceeds(Score(a), Score(b))
  BY DEF AtLeast
<1>5. CASE a.results.passed /\ b.results.passed
  BY <1>2, <1>3, <1>4, <1>5
<1>6. CASE a.results.passed /\ ~b.results.passed
  BY <1>2, <1>3, <1>4, <1>6
<1>7. CASE ~a.results.passed /\ b.results.passed
  BY <1>2, <1>3, <1>4, <1>7
<1>8. CASE ~a.results.passed /\ ~b.results.passed
  BY <1>2, <1>3, <1>4, <1>8
<1> QED BY <1>1, <1>5, <1>6, <1>7, <1>8

LEMMA DominatingIsNotOutranked ==
  ASSUME NEW a, NEW b, IsCard(a), IsCard(b), Dominates(a, b)
  PROVE  ~Outranks(b, a)
<1>1. b.results.passed => a.results.passed
  BY DEF Dominates
<1>2. CASE a.results.passed /\ b.results.passed
  BY <1>2, PassedKeeps, OutranksIs
<1>3. CASE a.results.passed /\ ~b.results.passed
  BY <1>3, OutranksIs
<1>4. CASE ~a.results.passed /\ ~b.results.passed
  <2>1. /\ b.process.reproduce_before_fix => a.process.reproduce_before_fix
        /\ b.process.test_before_done => a.process.test_before_done
        /\ b.process.retrieval_used => a.process.retrieval_used
        /\ AtLeast(Wasted(b.process), Wasted(a.process))
    BY DEF Dominates
  <2>2. AtLeast(ProcessComponent(a.process), ProcessComponent(b.process))
    BY <2>1, CardIs, ProcessKeeps
  <2>3. AtLeast(Score(a), Score(b))
    BY <1>4, <2>2 DEF Score
  <2> QED BY <1>4, <2>3, OutranksIs
<1> QED BY <1>1, <1>2, <1>3, <1>4

\* Outranks is a weak order.
LEMMA OutranksOrders ==
  ASSUME NEW a, NEW b, NEW c, IsCard(a), IsCard(b), IsCard(c)
  PROVE  /\ Outranks(a, b) => ~Outranks(b, a)
         /\ ~Outranks(b, a) /\ ~Outranks(c, b) => ~Outranks(c, a)
<1>1. a.results.passed \in BOOLEAN /\ b.results.passed \in BOOLEAN /\ c.results.passed \in BOOLEAN
  BY CardIs
<1>2. Score(a) \in Fractions /\ Score(b) \in Fractions /\ Score(c) \in Fractions
  BY ScoreFraction
<1>3. AtLeast(Score(a), Score(b)) \/ AtLeast(Score(b), Score(a))
  BY <1>2, AtLeastTotal
<1>4. AtLeast(Score(a), Score(b)) /\ AtLeast(Score(b), Score(c)) => AtLeast(Score(a), Score(c))
  BY <1>2, AtLeastTransitive
<1>5. Outranks(a, b) => ~Outranks(b, a)
  BY <1>1, <1>3, OutranksIs
<1>6. ~Outranks(b, a) /\ ~Outranks(c, b) => ~Outranks(c, a)
  BY <1>1, <1>4, OutranksIs
<1> QED BY <1>5, <1>6

\* Cards that have to be ranked.
AreCards(cards, N) == N \in Nat /\ DOMAIN cards = 1..N /\ \A i \in 1..N : IsCard(cards[i])

Place(cards, i) == Cardinality(Ahead(cards, i))

\* Before is a strict and total order.
LEMMA BeforeOrders ==
  ASSUME NEW cards, NEW N, AreCards(cards, N), NEW i \in 1..N, NEW j \in 1..N, NEW k \in 1..N
  PROVE  /\ ~Before(cards, i, i)
         /\ i # j => Before(cards, i, j) \/ Before(cards, j, i)
         /\ Before(cards, i, j) => ~Before(cards, j, i)
         /\ Before(cards, i, j) /\ Before(cards, j, k) => Before(cards, i, k)
<1>1. IsCard(cards[i]) /\ IsCard(cards[j]) /\ IsCard(cards[k])
  BY DEF AreCards
<1> DEFINE O(x, y) == Outranks(cards[x], cards[y])
<1>2. ~O(i, i)
  BY <1>1, OutranksOrders
<1>3. /\ O(i, j) => ~O(j, i)
      /\ O(j, k) => ~O(k, j)
      /\ O(i, k) => ~O(k, i)
  BY <1>1, OutranksOrders
<1>4. /\ ~O(j, i) /\ ~O(k, j) => ~O(k, i)
      /\ ~O(i, k) /\ ~O(k, j) => ~O(i, j)
      /\ ~O(j, i) /\ ~O(i, k) => ~O(j, k)
  BY <1>1, OutranksOrders
<1>5. /\ Before(cards, i, i) <=> O(i, i) \/ (~O(i, i) /\ i < i)
      /\ Before(cards, i, j) <=> O(i, j) \/ (~O(j, i) /\ i < j)
      /\ Before(cards, j, i) <=> O(j, i) \/ (~O(i, j) /\ j < i)
      /\ Before(cards, j, k) <=> O(j, k) \/ (~O(k, j) /\ j < k)
      /\ Before(cards, i, k) <=> O(i, k) \/ (~O(k, i) /\ i < k)
  BY DEF Before
<1> HIDE DEF O
<1>6. i \in Int /\ j \in Int /\ k \in Int
  OBVIOUS
<1>7. /\ i # j => i < j \/ j < i
      /\ i < j => ~(j < i)
      /\ i < j /\ j < k => i < k
      /\ ~(i < i)
  BY <1>6
<1> QED BY <1>2, <1>3, <1>4, <1>5, <1>7

LEMMA PlaceIs ==
  ASSUME NEW cards, NEW N, AreCards(cards, N), NEW i \in 1..N
  PROVE  /\ IsFiniteSet(Ahead(cards, i)) /\ Ahead(cards, i) \subseteq (1..N) \ {i}
         /\ Place(cards, i) \in 0..(N - 1)
<1>1. N \in Nat /\ DOMAIN cards = 1..N
  BY DEF AreCards
<1>2. Ahead(cards, i) \subseteq (1..N) \ {i}
  BY <1>1, BeforeOrders DEF Ahead
<1>3. IsFiniteSet(1..N) /\ Cardinality(1..N) = N
  BY <1>1, FS_Interval
<1>4. IsFiniteSet((1..N) \ {i}) /\ Cardinality((1..N) \ {i}) = N - 1
  BY <1>3, FS_RemoveElement
<1>5. IsFiniteSet(Ahead(cards, i)) /\ Cardinality(Ahead(cards, i)) <= N - 1
  BY <1>2, <1>4, FS_Subset
<1>6. Cardinality(Ahead(cards, i)) \in Nat
  BY <1>5, FS_CardinalityType
<1> QED BY <1>1, <1>2, <1>5, <1>6 DEF Place

LEMMA PlacesOrder ==
  ASSUME NEW cards, NEW N, AreCards(cards, N), NEW i \in 1..N, NEW j \in 1..N, Before(cards, i, j)
  PROVE  Place(cards, i) < Place(cards, j)
<1>1. DOMAIN cards = 1..N
  BY DEF AreCards
<1>2. Ahead(cards, i) \subseteq Ahead(cards, j)
  <2>1. SUFFICES ASSUME NEW k \in Ahead(cards, i) PROVE k \in Ahead(cards, j)
    OBVIOUS
  <2>2. k \in 1..N /\ Before(cards, k, i)
    BY <1>1 DEF Ahead
  <2>3. Before(cards, k, j)
    BY <2>2, BeforeOrders
  <2> QED BY <1>1, <2>2, <2>3 DEF Ahead
<1>3. i \in Ahead(cards, j) /\ i \notin Ahead(cards, i)
  BY <1>1, PlaceIs DEF Ahead
<1>4. Cardinality(Ahead(cards, i)) <= Cardinality(Ahead(cards, j))
      /\ Cardinality(Ahead(cards, i)) # Cardinality(Ahead(cards, j))
  BY <1>2, <1>3, PlaceIs, FS_Subset
<1>5. Cardinality(Ahead(cards, i)) \in Nat /\ Cardinality(Ahead(cards, j)) \in Nat
  BY PlaceIs, FS_CardinalityType
<1> QED BY <1>4, <1>5 DEF Place

\* Every place is taken, so that the ranking is what its definition says.
LEMMA PlacesTaken ==
  ASSUME NEW cards, NEW N, AreCards(cards, N), NEW n \in 1..N
  PROVE  \E i \in 1..N : Place(cards, i) = n - 1
<1>1. N \in Nat
  BY DEF AreCards
<1> DEFINE f == [i \in 1..N |-> Place(cards, i)]
<1>2. f \in [1..N -> 0..(N - 1)]
  BY PlaceIs
<1>3. \A i, j \in 1..N : f[i] = f[j] => i = j
  <2>1. SUFFICES ASSUME NEW i \in 1..N, NEW j \in 1..N, i # j PROVE f[i] # f[j]
    OBVIOUS
  <2>2. Before(cards, i, j) \/ Before(cards, j, i)
    BY <2>1, BeforeOrders
  <2>3. Place(cards, i) < Place(cards, j) \/ Place(cards, j) < Place(cards, i)
    BY <2>2, PlacesOrder
  <2>4. Place(cards, i) \in Int /\ Place(cards, j) \in Int
    BY PlaceIs
  <2> QED BY <2>3, <2>4
<1>4. f \in Injection(1..N, 0..(N - 1))
  BY <1>2, <1>3 DEF Injection, IsInjective
<1>5. IsFiniteSet(0..(N - 1)) /\ Cardinality(0..(N - 1)) = N /\ Cardinality(1..N) = N
  BY <1>1, FS_Interval
<1> HIDE DEF f
<1>6. f \in Surjection(1..N, 0..(N - 1))
  BY <1>4, <1>5, FS_Injection
<1>7. n - 1 \in 0..(N - 1)
  BY <1>1
<1>8. \E i \in 1..N : f[i] = n - 1
  BY <1>6, <1>7 DEF Surjection
<1> QED BY <1>8 DEF f

LEMMA RankIs ==
  ASSUME NEW cards, NEW N, AreCards(cards, N)
  PROVE  /\ DOMAIN Rank(cards) = 1..N /\ Len(Rank(cards)) = N
         /\ \A n \in 1..N : Rank(cards)[n] \in 1..N /\ Place(cards, Rank(cards)[n]) = n - 1
         /\ {Rank(cards)[n] : n \in 1..N} = 1..N
<1>1. N \in Nat /\ DOMAIN cards = 1..N
  BY DEF AreCards
<1> DEFINE At(n) == CHOOSE i \in 1..N : Place(cards, i) = n - 1
<1>2. Rank(cards) = [n \in 1..N |-> At(n)]
  BY <1>1 DEF Rank, Place
<1>3. \A n \in 1..N : At(n) \in 1..N /\ Place(cards, At(n)) = n - 1
  <2> TAKE n \in 1..N
  <2> QED BY PlacesTaken
<1> HIDE DEF At
<1>4. Rank(cards) \in Seq(1..N) /\ Len(Rank(cards)) = N
  BY <1>1, <1>2, <1>3
<1>5. \A n \in 1..N : Rank(cards)[n] \in 1..N /\ Place(cards, Rank(cards)[n]) = n - 1
  BY <1>2, <1>3
<1>6. ASSUME NEW i \in 1..N
      PROVE  \E n \in 1..N : Rank(cards)[n] = i
  <2> DEFINE n == Place(cards, i) + 1
  <2>1. n \in 1..N /\ Place(cards, i) = n - 1
    BY <1>1, PlaceIs
  <2> HIDE DEF n
  <2>2. Rank(cards)[n] \in 1..N /\ Place(cards, Rank(cards)[n]) = Place(cards, i)
    BY <1>5, <2>1
  <2> PICK k \in 1..N : k = Rank(cards)[n]
    BY <2>2
  <2>3. k = i
    <3>1. SUFFICES ASSUME k # i PROVE FALSE
      OBVIOUS
    <3>2. Before(cards, k, i) \/ Before(cards, i, k)
      BY <3>1, BeforeOrders
    <3>3. Place(cards, k) < Place(cards, i) \/ Place(cards, i) < Place(cards, k)
      BY <3>2, PlacesOrder
    <3>4. Place(cards, k) = Place(cards, i) /\ Place(cards, i) \in Int
      BY <2>2, PlaceIs
    <3> QED BY <3>3, <3>4
  <2> QED BY <2>1, <2>3
<1>7. {Rank(cards)[n] : n \in 1..N} = 1..N
  BY <1>5, <1>6
<1>8. DOMAIN Rank(cards) = 1..N
  BY <1>2
<1> QED BY <1>4, <1>5, <1>7, <1>8

LEMMA RankOrders ==
  ASSUME NEW cards, NEW N, AreCards(cards, N), NEW m \in 1..N, NEW n \in 1..N, m < n
  PROVE  /\ cards[Rank(cards)[n]].results.passed => cards[Rank(cards)[m]].results.passed
         /\ ~Outranks(cards[Rank(cards)[n]], cards[Rank(cards)[m]])
<1>1. PICK i \in 1..N : i = Rank(cards)[m] /\ Place(cards, i) = m - 1
  BY RankIs
<1>2. PICK j \in 1..N : j = Rank(cards)[n] /\ Place(cards, j) = n - 1
  BY RankIs
<1>3. i # j
  BY <1>1, <1>2
<1>4. ~Before(cards, j, i)
  <2>1. SUFFICES ASSUME Before(cards, j, i) PROVE FALSE
    OBVIOUS
  <2>2. Place(cards, j) < Place(cards, i)
    BY <2>1, PlacesOrder
  <2> QED BY <1>1, <1>2, <2>2
<1>5. Before(cards, i, j)
  BY <1>3, <1>4, BeforeOrders
<1>6. IsCard(cards[i]) /\ IsCard(cards[j])
  BY DEF AreCards
<1>7. ~Outranks(cards[j], cards[i])
  BY <1>5, <1>6, OutranksOrders DEF Before
<1>8. cards[j].results.passed \in BOOLEAN /\ cards[i].results.passed \in BOOLEAN
  BY <1>6, CardIs
<1>9. cards[j].results.passed => cards[i].results.passed
  BY <1>6, <1>7, <1>8, OutranksIs
<1> QED BY <1>1, <1>2, <1>7, <1>9

-----------------------------------------------------------------------------
\* A card that was reported has the numbers of a card.
ReportIInv ==
  /\ stage \in {"gate", "closed", "graded", "reported", "ablated", "judging", "uplift"}
  /\ tests.passed \in BOOLEAN
  /\ stage = "reported" => IsCard(card[1])

LEMMA ReportKeeps ==
  ASSUME ReportIInv, Report
  PROVE  IsCard(card'[1])
<1>1. PICK s \in Sessions :
        card' = <<[results |-> [passed |-> tests.passed, regression_safe |-> s.regression_safe],
                   quality |-> FromSignals(outcomes, s.churn, Gold, s.tests_added),
                   process |-> s.process]>>
  BY DEF Report
<1>2. s \in [process : Processes, regression_safe : BOOLEAN, churn : Nat, tests_added : BOOLEAN] /\ Gold \in Nat
  BY CardsAssumption
<1>3. s.process \in Processes /\ s.regression_safe \in BOOLEAN /\ s.churn \in Nat /\ s.tests_added \in BOOLEAN
  BY <1>2
<1> DEFINE c == card'[1]
           ratios == c.quality.vs_gold_ratio
<1>4. /\ c.results = [passed |-> tests.passed, regression_safe |-> s.regression_safe]
      /\ c.process = s.process
      /\ c.quality = FromSignals(outcomes, s.churn, Gold, s.tests_added)
  BY <1>1
<1>5. ratios = IF Gold = 0 THEN {} ELSE {<<s.churn, Gold>>}
  BY <1>4 DEF FromSignals
<1>6. c.quality \in Qualities({ratios})
  <2>1. /\ CheckClean(outcomes, Formatters) \in BOOLEAN
        /\ CheckClean(outcomes, Linters) \in BOOLEAN
        /\ CheckClean(outcomes, Compilers) \in BOOLEAN
    BY DEF CheckClean
  <2>2. c.quality = [format_clean |-> CheckClean(outcomes, Formatters),
                     lint_clean |-> CheckClean(outcomes, Linters),
                     typecheck_clean |-> CheckClean(outcomes, Compilers),
                     vs_gold_ratio |-> ratios, tests_added |-> s.tests_added]
    BY <1>4, <1>5 DEF FromSignals
  <2> HIDE DEF ratios, c
  <2> QED BY <1>3, <2>1, <2>2 DEF Qualities
<1>7. \/ ratios = {}
      \/ \E r \in ratios : r \in Nat \X (Nat \ {0}) /\ ratios = {r}
  <2>1. CASE Gold = 0
    BY <1>5, <2>1
  <2>2. CASE Gold # 0
    <3>1. <<s.churn, Gold>> \in Nat \X (Nat \ {0}) /\ ratios = {<<s.churn, Gold>>}
      BY <1>2, <1>3, <1>5, <2>2
    <3> HIDE DEF ratios
    <3> QED BY <3>1
  <2> QED BY <2>1, <2>2
<1>8. c.results \in [passed : BOOLEAN, regression_safe : BOOLEAN] /\ c.process \in Processes
  BY <1>3, <1>4 DEF ReportIInv
<1> QED BY <1>6, <1>7, <1>8 DEF IsCard

LEMMA GradeRunTyped ==
  ASSUME NEW tool, NEW native, NEW suites, NEW killed, NEW cut,
         GradeRun(tool, native, suites, killed, cut)
  PROVE  tests'.passed \in BOOLEAN
  BY DEF GradeRun, Grade

LEMMA ReportInvariance == EvaluationSpec => []ReportIInv
<1>1. EvaluationInit => ReportIInv
  BY DEF EvaluationInit, ReportIInv, Ungraded
<1>2. ReportIInv /\ [EvaluationNext]_evaluationVars => ReportIInv'
  <2> SUFFICES ASSUME ReportIInv, [EvaluationNext]_evaluationVars PROVE ReportIInv'
    OBVIOUS
  <2>1. CASE Running \/ NextCheck \/ UNCHANGED scoreVars
    BY <2>1 DEF Running, NextCheck, Judged, scoreVars, ReportIInv, IsCard
  <2>2. CASE CloseGate
    BY <2>2 DEF CloseGate, Judged, ReportIInv
  <2>3. CASE Verify
    <3>1. stage' = "graded"
      BY <2>3 DEF Verify
    <3>2. \/ UNCHANGED tests
          \/ \E tool, native, suites, killed, cut : GradeRun(tool, native, suites, killed, cut)
      BY <2>3, Zenon DEF Verify
    <3>3. tests'.passed \in BOOLEAN
      BY <3>2, GradeRunTyped DEF ReportIInv
    <3> QED BY <3>1, <3>3 DEF ReportIInv
  <2>4. CASE Report
    <3>1. stage' = "reported" /\ UNCHANGED tests
      BY <2>4 DEF Report
    <3> QED BY <2>4, <3>1, ReportKeeps DEF ReportIInv
  <2>5. CASE Ablate
    BY <2>5 DEF Ablate, ReportIInv
  <2> QED BY <2>1, <2>2, <2>3, <2>4, <2>5 DEF EvaluationNext, Consult, RunUplift, evaluationVars
<1> QED BY <1>1, <1>2, PTL DEF EvaluationSpec

\* rank: it names every card once, best first, no failure before a pass and no card
\* before one that is at least as good in every signal.
THEOREM EvaluationRankIsFair == EvaluationSpec => []RankIsFair
<1>1. ReportIInv => RankIsFair
  <2> SUFFICES ASSUME ReportIInv, stage = "reported"
               PROVE  LET cards == Append(Rivals, card[1])
                          order == Rank(cards)
                      IN  /\ Len(order) = Len(cards)
                          /\ {order[n] : n \in DOMAIN order} = DOMAIN cards
                          /\ \A m, n \in DOMAIN order : m < n =>
                               LET better == cards[order[m]]
                                   worse == cards[order[n]]
                               IN  /\ worse.results.passed => better.results.passed
                                   /\ ~Outranks(worse, better)
                          /\ \A i, j \in DOMAIN cards : Dominates(cards[i], cards[j]) => ~Outranks(cards[j], cards[i])
    BY DEF RankIsFair
  <2> DEFINE cards == Append(Rivals, card[1])
             N == Len(Rivals) + 1
  <2>1. AreCards(cards, N) /\ Len(cards) = N
    <3>1. Rivals \in Seq(ToSet(Rivals)) /\ \A i \in DOMAIN Rivals : IsCard(Rivals[i])
      BY CardsAssumption
    <3>2. IsCard(card[1])
      BY DEF ReportIInv
    <3>3. Len(Rivals) \in Nat /\ DOMAIN Rivals = 1..Len(Rivals)
      BY <3>1
    <3>4. /\ DOMAIN cards = 1..N /\ Len(cards) = N /\ cards[N] = card[1]
          /\ \A i \in 1..Len(Rivals) : cards[i] = Rivals[i]
      BY <3>1
    <3> HIDE DEF cards
    <3>5. \A i \in 1..N : i = N \/ i \in 1..Len(Rivals)
      BY <3>3
    <3>6. \A i \in 1..N : IsCard(cards[i])
      BY <3>1, <3>2, <3>3, <3>4, <3>5
    <3> QED BY <3>3, <3>4, <3>6 DEF AreCards
  <2> HIDE DEF cards, N
  <2>2. /\ DOMAIN cards = 1..N /\ DOMAIN Rank(cards) = 1..N /\ Len(Rank(cards)) = N
        /\ {Rank(cards)[n] : n \in 1..N} = 1..N
    BY <2>1, RankIs DEF AreCards
  <2>3. \A m, n \in 1..N : m < n =>
          /\ cards[Rank(cards)[n]].results.passed => cards[Rank(cards)[m]].results.passed
          /\ ~Outranks(cards[Rank(cards)[n]], cards[Rank(cards)[m]])
    BY <2>1, RankOrders
  <2>4. \A i, j \in 1..N : Dominates(cards[i], cards[j]) => ~Outranks(cards[j], cards[i])
    BY <2>1, DominatingIsNotOutranked DEF AreCards
  <2> QED BY <2>1, <2>2, <2>3, <2>4, Zenon DEF cards
<1> QED BY <1>1, ReportInvariance, PTL

-----------------------------------------------------------------------------
(* The agreement of the judge with a human, for any labels.                    *)

\* SumOver as the equation of a function on the parts of a set.
Terms(f, sum, T) ==
  IF T = {} THEN 0 ELSE LET k == CHOOSE k \in T : TRUE IN f[k] + sum[T \ {k}]
SetSums(sum, f, S) == sum = [T \in SUBSET S |-> Terms(f, sum, T)]

\* What holds of the empty set and of each set of which it holds without a member
\* holds of all parts of a finite set.
LEMMA AllParts ==
  ASSUME NEW S, IsFiniteSet(S), NEW Q, {} \in Q,
         \A T \in SUBSET S : T # {} /\ T \ {CHOOSE k \in T : TRUE} \in Q => T \in Q
  PROVE  SUBSET S \subseteq Q
<1> DEFINE N == Cardinality(S)
           H == {n \in 0..N : \A T \in SUBSET S : Cardinality(T) = n => T \in Q}
<1>1. \A T \in SUBSET S : IsFiniteSet(T) /\ Cardinality(T) \in 0..N /\ (Cardinality(T) = 0 <=> T = {})
  <2>1. N \in Nat
    BY FS_CardinalityType
  <2> SUFFICES ASSUME NEW T \in SUBSET S
               PROVE  IsFiniteSet(T) /\ Cardinality(T) \in 0..N /\ (Cardinality(T) = 0 <=> T = {})
    OBVIOUS
  <2>2. IsFiniteSet(T) /\ Cardinality(T) <= N
    BY FS_Subset
  <2> QED BY <2>1, <2>2, FS_CardinalityType, FS_EmptySet
<1>2. 0 \in H
  BY <1>1, FS_CardinalityType
<1>3. ASSUME NEW n \in 1..N, n - 1 \in H PROVE n \in H
  <2>1. SUFFICES ASSUME NEW T \in SUBSET S, Cardinality(T) = n PROVE T \in Q
    <3>1. n \in 0..N
      OBVIOUS
    <3> QED BY <2>1, <3>1
  <2>2. T # {} /\ IsFiniteSet(T)
    BY <1>1, <2>1
  <2> DEFINE k == CHOOSE k \in T : TRUE
  <2>3. k \in T
    BY <2>2
  <2> HIDE DEF k
  <2>4. Cardinality(T \ {k}) = n - 1
    BY <2>1, <2>2, <2>3, FS_RemoveElement
  <2>5. T \ {k} \in SUBSET S
    OBVIOUS
  <2>6. T \ {k} \in Q
    BY <1>3, <2>4, <2>5
  <2> QED BY <2>2, <2>6 DEF k
<1>4. 0..N \subseteq H
  <2>1. N \in Nat
    BY FS_CardinalityType
  <2> HIDE DEF H, N
  <2> QED BY <1>2, <1>3, <2>1, UpTo
<1> QED BY <1>1, <1>4

LEMMA PartsAre ==
  ASSUME NEW S, IsFiniteSet(S), NEW T \in SUBSET S
  PROVE  /\ IsFiniteSet(T) /\ Cardinality(T) \in 0..Cardinality(S)
         /\ Cardinality(T) = 0 <=> T = {}
         /\ \A k \in T : T \ {k} \in SUBSET S /\ Cardinality(T \ {k}) = Cardinality(T) - 1
<1>1. Cardinality(S) \in Nat
  BY FS_CardinalityType
<1>2. IsFiniteSet(T) /\ Cardinality(T) <= Cardinality(S)
  BY FS_Subset
<1>3. Cardinality(T) \in Nat /\ (Cardinality(T) = 0 <=> T = {})
  BY <1>2, FS_CardinalityType, FS_EmptySet
<1>4. \A k \in T : T \ {k} \in SUBSET S /\ Cardinality(T \ {k}) = Cardinality(T) - 1
  BY <1>2, FS_RemoveElement
<1> QED BY <1>1, <1>2, <1>3, <1>4

LEMMA SetSumsExist ==
  ASSUME NEW S, IsFiniteSet(S), NEW f
  PROVE  \E sum : SetSums(sum, f, S)
<1> DEFINE N == Cardinality(S)
           Small(n) == {T \in SUBSET S : Cardinality(T) <= n}
           Good1(n, sum) == \A T \in Small(n) : sum[T] = Terms(f, sum, T)
           H == {n \in 0..N : \E sum : Good1(n, sum)}
<1>1. N \in Nat
  BY FS_CardinalityType
<1>2. 0 \in H
  <2> DEFINE sum == [T \in SUBSET S |-> 0]
  <2>1. ASSUME NEW T \in Small(0) PROVE sum[T] = Terms(f, sum, T)
    <3>1. T \in SUBSET S /\ Cardinality(T) = 0
      BY PartsAre
    <3>2. T = {}
      BY <3>1, PartsAre
    <3> QED BY <3>1, <3>2 DEF Terms
  <2>2. Good1(0, sum)
    BY <2>1
  <2> QED BY <1>1, <2>2
<1>3. ASSUME NEW n \in 1..N, n - 1 \in H PROVE n \in H
  <2>1. PICK old : Good1(n - 1, old)
    BY <1>3
  <2> DEFINE sum == [T \in SUBSET S |-> IF T \in Small(n - 1) THEN old[T] ELSE Terms(f, old, T)]
  <2>2. ASSUME NEW T \in Small(n) PROVE sum[T] = Terms(f, sum, T)
    <3>1. T \in SUBSET S /\ Cardinality(T) \in 0..N /\ Cardinality(T) <= n
      BY PartsAre
    <3>2. sum[T] = Terms(f, old, T)
      BY <2>1, <3>1
    <3>3. CASE T = {}
      BY <3>2, <3>3 DEF Terms
    <3>4. CASE T # {}
      <4> DEFINE k == CHOOSE k \in T : TRUE
      <4>1. k \in T
        BY <3>4
      <4>2. Terms(f, old, T) = f[k] + old[T \ {k}] /\ Terms(f, sum, T) = f[k] + sum[T \ {k}]
        BY <3>4 DEF Terms
      <4> HIDE DEF k
      <4>3. T \ {k} \in SUBSET S /\ Cardinality(T \ {k}) = Cardinality(T) - 1
        BY <3>1, <4>1, PartsAre
      <4>4. T \ {k} \in Small(n - 1)
        BY <3>1, <4>3
      <4>5. sum[T \ {k}] = old[T \ {k}]
        BY <4>3, <4>4
      <4> QED BY <3>2, <4>2, <4>5
    <3> QED BY <3>3, <3>4
  <2> HIDE DEF sum
  <2>3. Good1(n, sum)
    BY <2>2
  <2> HIDE DEF Good1
  <2>4. n \in 0..N
    OBVIOUS
  <2> QED BY <2>3, <2>4
<1>4. N \in H
  <2> HIDE DEF H, N
  <2>1. 0..N \subseteq H
    BY <1>1, <1>2, <1>3, UpTo
  <2> QED BY <1>1, <2>1
<1>5. PICK old : Good1(N, old)
  BY <1>4
<1> DEFINE sum == [T \in SUBSET S |-> old[T]]
<1>6. ASSUME NEW T \in SUBSET S PROVE sum[T] = Terms(f, sum, T)
  <2>1. old[T] = Terms(f, old, T)
    <3>1. T \in Small(N)
      BY PartsAre
    <3> QED BY <1>5, <3>1
  <2>2. CASE T = {}
    BY <2>1, <2>2 DEF Terms
  <2>3. CASE T # {}
    <3> DEFINE k == CHOOSE k \in T : TRUE
    <3>1. k \in T /\ T \ {k} \in SUBSET S
      BY <2>3
    <3>2. Terms(f, old, T) = f[k] + old[T \ {k}] /\ Terms(f, sum, T) = f[k] + sum[T \ {k}]
      BY <2>3 DEF Terms
    <3> HIDE DEF k
    <3> QED BY <2>1, <3>1, <3>2
  <2> QED BY <2>2, <2>3
<1>7. sum = [T \in SUBSET S |-> sum[T]]
  OBVIOUS
<1> HIDE DEF sum
<1>8. sum = [T \in SUBSET S |-> Terms(f, sum, T)]
  BY <1>6, <1>7
<1> QED BY <1>8 DEF SetSums

SumsUp(sum, f, S) == SumOver(S, f) = sum[S] /\ \A T \in SUBSET S : sum[T] = Terms(f, sum, T)

LEMMA SumOverIs ==
  ASSUME NEW S, IsFiniteSet(S), NEW f
  PROVE  \E sum : SumsUp(sum, f, S)
<1> DEFINE sum == CHOOSE g : SetSums(g, f, S)
<1>1. SumOver(S, f) = sum[S]
  BY Zenon DEF SumOver, SetSums, Terms
<1>2. SetSums(sum, f, S)
  BY SetSumsExist
<1> HIDE DEF sum
<1>3. \A T \in SUBSET S : sum[T] = Terms(f, sum, T)
  BY <1>2 DEF SetSums
<1> QED BY <1>1, <1>3 DEF SumsUp

\* Pairs of a place in a and a place in b with labels that agree and lie in T.
Agreeing(a, b, n, T) == {p \in (1..n) \X (1..n) : a[p[1]] = b[p[2]] /\ a[p[1]] \in T}

LEMMA AgreeingOne ==
  ASSUME NEW n \in Nat, NEW a, NEW b, NEW k
  PROVE  /\ IsFiniteSet(Agreeing(a, b, n, {k}))
         /\ Cardinality(Agreeing(a, b, n, {k})) = Count(a, n, k) * Count(b, n, k)
<1> DEFINE A == {i \in 1..n : a[i] = k}
           B == {i \in 1..n : b[i] = k}
<1>1. IsFiniteSet(1..n)
  BY FS_Interval
<1>2. IsFiniteSet(A) /\ IsFiniteSet(B)
  BY <1>1, FS_Subset
<1>3. Agreeing(a, b, n, {k}) = A \X B
  BY DEF Agreeing
<1>4. Count(a, n, k) = Cardinality(A) /\ Count(b, n, k) = Cardinality(B)
  BY DEF Count
<1> HIDE DEF A, B
<1>5. IsFiniteSet(A \X B) /\ Cardinality(A \X B) = Cardinality(A) * Cardinality(B)
  BY <1>2, FS_Product
<1> QED BY <1>3, <1>4, <1>5

LEMMA AgreeingFinite ==
  ASSUME NEW n \in Nat, NEW a, NEW b, NEW T
  PROVE  /\ IsFiniteSet(Agreeing(a, b, n, T)) /\ Cardinality(Agreeing(a, b, n, T)) \in Nat
         /\ Cardinality(Agreeing(a, b, n, T)) <= n * n
         /\ Cardinality(Agreeing(a, b, n, T)) = n * n => Agreeing(a, b, n, T) = (1..n) \X (1..n)
<1>1. IsFiniteSet(1..n) /\ Cardinality(1..n) = n
  BY FS_Interval
<1>2. IsFiniteSet((1..n) \X (1..n)) /\ Cardinality((1..n) \X (1..n)) = n * n
  BY <1>1, FS_Product
<1>3. Agreeing(a, b, n, T) \in SUBSET ((1..n) \X (1..n))
  BY DEF Agreeing
<1>4. /\ IsFiniteSet(Agreeing(a, b, n, T))
      /\ Cardinality(Agreeing(a, b, n, T)) <= n * n
      /\ Cardinality(Agreeing(a, b, n, T)) = n * n => Agreeing(a, b, n, T) = (1..n) \X (1..n)
  BY <1>2, <1>3, FS_Subset
<1> QED BY <1>4, FS_CardinalityType

\* The sum over the categories of the products of the marginals counts the pairs
\* of items that agree.
LEMMA ExpectedIs ==
  ASSUME NEW n \in Nat, NEW a, NEW b, NEW S, IsFiniteSet(S)
  PROVE  SumOver(S, [k \in S |-> Count(a, n, k) * Count(b, n, k)]) = Cardinality(Agreeing(a, b, n, S))
<1>0. PICK f : f = [k \in S |-> Count(a, n, k) * Count(b, n, k)]
  OBVIOUS
<1>1. ASSUME NEW k \in S PROVE f[k] = Cardinality(Agreeing(a, b, n, {k}))
  <2>1. f[k] = Count(a, n, k) * Count(b, n, k)
    BY <1>0
  <2> QED BY <2>1, AgreeingOne
<1>2. PICK sum : SumsUp(sum, f, S)
  BY SumOverIs
<1> DEFINE Q == {T \in SUBSET S : sum[T] = Cardinality(Agreeing(a, b, n, T))}
<1>3. {} \in Q
  <2>1. Agreeing(a, b, n, {}) = {}
    BY DEF Agreeing
  <2>2. sum[{}] = 0
    BY <1>2 DEF Terms, SumsUp
  <2> QED BY <2>1, <2>2, FS_EmptySet
<1>4. ASSUME NEW T \in SUBSET S, T # {}, T \ {CHOOSE k \in T : TRUE} \in Q
      PROVE  T \in Q
  <2> DEFINE k == CHOOSE k \in T : TRUE
  <2>1. k \in T
    BY <1>4
  <2>2. sum[T] = f[k] + sum[T \ {k}]
    BY <1>2, <1>4 DEF Terms, SumsUp
  <2>3. sum[T \ {k}] = Cardinality(Agreeing(a, b, n, T \ {k}))
    BY <1>4
  <2> HIDE DEF k
  <2> DEFINE X == Agreeing(a, b, n, {k})
             Y == Agreeing(a, b, n, T \ {k})
  <2>4. Agreeing(a, b, n, T) = X \cup Y /\ X \cap Y = {}
    BY <2>1 DEF Agreeing
  <2>5. IsFiniteSet(X) /\ IsFiniteSet(Y) /\ Cardinality(X) \in Nat /\ Cardinality(Y) \in Nat
    BY AgreeingFinite
  <2> HIDE DEF X, Y
  <2>6. Cardinality(X \cup Y) = Cardinality(X) + Cardinality(Y) - Cardinality(X \cap Y)
    BY <2>5, FS_Union
  <2>7. Cardinality(X \cap Y) = 0
    BY <2>4, FS_EmptySet
  <2>8. f[k] = Cardinality(X)
    BY <1>1, <2>1 DEF X
  <2>9. Cardinality(X \cup Y) = Cardinality(X) + Cardinality(Y)
    BY <2>5, <2>6, <2>7
  <2>10. sum[T] = Cardinality(Agreeing(a, b, n, T))
    BY <2>2, <2>3, <2>4, <2>8, <2>9 DEF Y
  <2> QED BY <2>10
<1>5. S \in Q
  <2> HIDE DEF Q
  <2> QED BY <1>3, <1>4, AllParts
<1> QED BY <1>0, <1>2, <1>5 DEF SumsUp

Chance(a, b, n) == Cardinality({p \in (1..n) \X (1..n) : a[p[1]] = b[p[2]]})
Agree(a, b, n) == Cardinality({i \in 1..n : a[i] = b[i]})

\* What kappa is of two raters' labels of the same items.
KappaFits(kappa, chance, agree, n) ==
  /\ chance \in 0..(n * n) /\ agree \in 0..n
  /\ chance = n * n => agree = n
  /\ n = 0 \/ chance = n * n => kappa = [num |-> 1, den |-> 1]
  /\ ~(n = 0 \/ chance = n * n) => kappa = [num |-> n * agree - chance, den |-> n * n - chance]

LEMMA KappaIs ==
  ASSUME NEW n \in Nat, NEW a, NEW b, DOMAIN a = 1..n, DOMAIN b = 1..n, Len(a) = n, Len(b) = n
  PROVE  KappaFits(CohensKappa(a, b), Chance(a, b, n), Agree(a, b, n), n)
<1> DEFINE All == {p \in (1..n) \X (1..n) : a[p[1]] = b[p[2]]}
           chance == Cardinality(All)
           Same == {i \in 1..n : a[i] = b[i]}
           agree == Cardinality(Same)
           categories == {a[i] : i \in 1..n} \cup {b[i] : i \in 1..n}
           byChance == SumOver(categories, [k \in categories |-> Count(a, n, k) * Count(b, n, k)])
<1>1. IsFiniteSet(1..n) /\ Cardinality(1..n) = n
  BY FS_Interval
<1>2. IsFiniteSet(categories)
  <2>1. ASSUME NEW c, DOMAIN c = 1..n PROVE IsFiniteSet({c[i] : i \in 1..n})
    <3> DEFINE f == [i \in 1..n |-> c[i]]
               T == {c[i] : i \in 1..n}
    <3>1. f \in Surjection(1..n, T)
      BY DEF Surjection
    <3> HIDE DEF f, T
    <3>2. IsFiniteSet(T)
      BY <1>1, <3>1, FS_Surjection
    <3> QED BY <3>2 DEF T
  <2>2. IsFiniteSet({a[i] : i \in 1..n}) /\ IsFiniteSet({b[i] : i \in 1..n})
    BY <2>1
  <2> QED BY <2>2, FS_Union
<1>3. All = Agreeing(a, b, n, categories)
  BY DEF Agreeing
<1>4. byChance = chance
  <2> HIDE DEF categories, All
  <2> QED BY <1>2, <1>3, ExpectedIs
<1>5. /\ chance \in Nat /\ chance <= n * n
      /\ chance = n * n => All = (1..n) \X (1..n)
  <2> HIDE DEF categories, All
  <2> QED BY <1>3, AgreeingFinite
<1>6. agree \in Nat /\ agree <= n
  <2>1. IsFiniteSet(Same) /\ Cardinality(Same) <= n
    BY <1>1, FS_Subset
  <2> HIDE DEF Same
  <2> QED BY <2>1, FS_CardinalityType
<1>7. chance = n * n => agree = n
  <2> SUFFICES ASSUME All = (1..n) \X (1..n) PROVE agree = n
    BY <1>5
  <2>1. \A i \in 1..n : <<i, i>> \in All
    OBVIOUS
  <2>2. Same = 1..n
    BY <2>1
  <2> QED BY <1>1, <2>2
<1>8. Min({Len(a), Len(b)}) = n
  <2>1. Min({n}) \in {n}
    BY MinIs
  <2> QED BY <2>1
<1>9. CohensKappa(a, b) = IF n = 0 \/ byChance = n * n THEN [num |-> 1, den |-> 1]
                          ELSE [num |-> n * agree - byChance, den |-> n * n - byChance]
  BY <1>8, Zenon DEF CohensKappa
<1> HIDE DEF All, Same, categories, byChance
<1>10. n * n \in Nat
  OBVIOUS
<1>11. chance \in 0..(n * n) /\ agree \in 0..n
  BY <1>5, <1>6, <1>10
<1>12. /\ n = 0 \/ chance = n * n => CohensKappa(a, b) = [num |-> 1, den |-> 1]
       /\ ~(n = 0 \/ chance = n * n) =>
            CohensKappa(a, b) = [num |-> n * agree - chance, den |-> n * n - chance]
  BY <1>4, <1>9, Zenon
<1> QED BY <1>7, <1>11, <1>12 DEF All, Same, KappaFits, Chance, Agree

LEMMA KappaSymmetric ==
  ASSUME NEW n \in Nat, NEW a, NEW b, DOMAIN a = 1..n, DOMAIN b = 1..n, Len(a) = n, Len(b) = n
  PROVE  CohensKappa(a, b) = CohensKappa(b, a)
<1> DEFINE Categories(x, y) == {x[i] : i \in 1..n} \cup {y[i] : i \in 1..n}
           Products(x, y) == [k \in Categories(x, y) |-> Count(x, n, k) * Count(y, n, k)]
           Same(x, y) == {i \in 1..n : x[i] = y[i]}
           Expected(x, y) == SumOver(Categories(x, y), Products(x, y))
<1>1. Same(a, b) = Same(b, a)
  OBVIOUS
<1>2. Categories(a, b) = Categories(b, a)
  OBVIOUS
<1>3. Products(a, b) = Products(b, a)
  <2>1. ASSUME NEW x, NEW k PROVE Count(x, n, k) \in Nat
    <3>1. IsFiniteSet({i \in 1..n : x[i] = k})
      <4>1. IsFiniteSet(1..n)
        BY FS_Interval
      <4> QED BY <4>1, FS_Subset
    <3> QED BY <3>1, FS_CardinalityType DEF Count
  <2>2. \A k : Count(a, n, k) * Count(b, n, k) = Count(b, n, k) * Count(a, n, k)
    BY <2>1
  <2> HIDE DEF Categories
  <2> QED BY <1>2, <2>2
<1> HIDE DEF Categories, Products
<1>4. Expected(a, b) = Expected(b, a)
  BY <1>2, <1>3, Zenon
<1>5. Min({Len(a), Len(b)}) = n /\ Min({Len(b), Len(a)}) = n
  <2>1. Min({n}) \in {n}
    BY MinIs
  <2> QED BY <2>1
<1>6. ASSUME NEW x, NEW y, Min({Len(x), Len(y)}) = n
      PROVE  CohensKappa(x, y) =
               IF n = 0 \/ Expected(x, y) = n * n THEN [num |-> 1, den |-> 1]
               ELSE [num |-> n * Cardinality(Same(x, y)) - Expected(x, y), den |-> n * n - Expected(x, y)]
  BY <1>6, Zenon DEF CohensKappa, Categories, Products
<1> HIDE DEF Expected, Same
<1> QED BY <1>1, <1>4, <1>5, <1>6, Zenon

LEMMA LabelledIs == Len(SetToSeq(Labelled)) \in Nat
<1>1. IsFiniteSet(Labelled)
  BY JudgingAssumption, FS_Subset DEF Labelled
<1> DEFINE N == Cardinality(Labelled)
<1>2. N \in Nat /\ ExistsBijection(1..N, Labelled)
  BY <1>1, FS_CardinalityType
<1>3. PICK f \in [1..N -> Labelled] : IsInjective(f)
  <2>1. PICK f : f \in Bijection(1..N, Labelled)
    BY <1>2 DEF ExistsBijection
  <2>2. f \in [1..N -> Labelled] /\ \A i, j \in 1..N : f[i] = f[j] => i = j
    BY <2>1 DEF Bijection, Injection, IsInjective
  <2>3. DOMAIN f = 1..N
    BY <2>2
  <2>4. IsInjective(f)
    BY <2>2, <2>3 DEF IsInjective
  <2> QED BY <2>2, <2>4
<1>4. SetToSeq(Labelled) \in [1..N -> Labelled]
  BY <1>3 DEF SetToSeq
<1> HIDE DEF N
<1> QED BY <1>2, <1>4

LEMMA KappaCorrects ==
  ASSUME NEW kappa, NEW chance, NEW agree, NEW n \in Nat, KappaFits(kappa, chance, agree, n)
  PROVE  /\ kappa.den > 0
         /\ agree = n <=> kappa.num = kappa.den
         /\ agree < n => kappa.num * (n * n - chance) = (n * agree - chance) * kappa.den
<1> USE DEF KappaFits
<1>1. n * n \in Nat
  OBVIOUS
<1>2. chance \in Nat /\ agree \in Nat /\ chance <= n * n
  BY <1>1
<1>3. n * agree \in Int
  BY <1>2
<1>4. CASE n = 0 \/ chance = n * n
  <2>1. kappa.num = 1 /\ kappa.den = 1 /\ agree = n
    BY <1>2, <1>4
  <2> QED BY <1>2, <2>1
<1>5. CASE ~(n = 0 \/ chance = n * n)
  <2>1. kappa.num = n * agree - chance /\ kappa.den = n * n - chance
    BY <1>5
  <2>2. kappa.den > 0
    BY <1>1, <1>2, <1>5, <2>1
  <2>3. agree = n <=> kappa.num = kappa.den
    <3>1. n * agree = n * n => agree = n
      BY <1>2, <1>5
    <3> QED BY <1>1, <1>2, <1>3, <2>1, <3>1
  <2>4. kappa.num * (n * n - chance) = (n * agree - chance) * kappa.den
    BY <2>1
  <2> QED BY <2>2, <2>3, <2>4
<1> QED BY <1>4, <1>5

\* cohens_kappa: agreement beyond chance, the same whichever rater comes first.
THEOREM EvaluationKappaIsChanceCorrected == EvaluationSpec => []KappaIsChanceCorrected
<1>1. KappaIsChanceCorrected
  <2>1. PICK n \in Nat : n = Len(SetToSeq(Labelled))
    BY LabelledIs
  <2>2. PICK order : order = SetToSeq(Labelled)
    OBVIOUS
  <2>3. PICK a : a = [i \in 1..n |-> HumanLabel[order[i]]]
    OBVIOUS
  <2>4. PICK b : b = [i \in 1..n |-> JudgeLabel(order[i])]
    OBVIOUS
  <2>5. DOMAIN a = 1..n /\ DOMAIN b = 1..n /\ Len(a) = n /\ Len(b) = n
    BY <2>3, <2>4
  <2>6. KappaFits(CohensKappa(a, b), Chance(a, b, n), Agree(a, b, n), n)
    BY <2>5, KappaIs
  <2>7. CohensKappa(a, b) = CohensKappa(b, a)
    BY <2>5, KappaSymmetric
  <2>8. /\ CohensKappa(a, b).den > 0
        /\ Agree(a, b, n) = n <=> CohensKappa(a, b).num = CohensKappa(a, b).den
        /\ Agree(a, b, n) < n =>
             CohensKappa(a, b).num * (n * n - Chance(a, b, n))
               = (n * Agree(a, b, n) - Chance(a, b, n)) * CohensKappa(a, b).den
    BY <2>6, KappaCorrects
  <2> QED BY <2>1, <2>2, <2>3, <2>4, <2>7, <2>8, Zenon DEF KappaIsChanceCorrected, Chance, Agree
<1> QED BY <1>1, PTL

-----------------------------------------------------------------------------
(* What an uplift run accepts, for all requests, arms and task sets and any    *)
(* number of files.                                                            *)

\* A receipt joins a baseline and a lesson result on disk that name one request
\* and one task set.
Joins(r, b, l) ==
  /\ ~b.arm.is_lesson_arm /\ l.arm.is_lesson_arm
  /\ b.binding = l.binding /\ b.task_set = l.task_set
  /\ r = [binding |-> b.binding, task_set |-> b.task_set, baseline |-> b.arm, lessons |-> l.arm]

ReceiptKnown == \A r \in receipt : \E b, l \in files : Joins(r, b, l)

ReceiptOne == \E r : receipt \subseteq {r}

\* What the comparisons rely on: task sets are records, flags are Booleans.
FilesTyped == \A f \in files : f.task_set \in TaskSets /\ f.arm.is_lesson_arm \in BOOLEAN
ExpectedTyped == expected \in Identities

UpliftIInv == ReceiptKnown /\ ReceiptOne /\ FilesTyped /\ ExpectedTyped /\ AcceptedIsRequested

\* Pair: two results without a problem are joined in their roles.
LEMMA PairJoins ==
  ASSUME NEW f, NEW s, f.arm.is_lesson_arm \in BOOLEAN, s.arm.is_lesson_arm \in BOOLEAN,
         Pair(f, s).problems = {}
  PROVE  \E b, l \in {f, s} : Joins(Pair(f, s).identity, b, l)
<1> DEFINE b == IF f.arm.is_lesson_arm THEN s ELSE f
           l == IF f.arm.is_lesson_arm THEN f ELSE s
           roles == f.arm.is_lesson_arm = s.arm.is_lesson_arm
<1>1. Pair(f, s).problems = IF roles THEN {"not a pair"} ELSE Disagreements(b, l)
  BY DEF Pair
<1>2. ~roles /\ Disagreements(b, l) = {}
  BY <1>1
<1>3. b.binding = l.binding /\ b.task_set = l.task_set
  <2> HIDE DEF b, l
  <2>1. "binding" \notin Disagreements(b, l) /\ "task_set" \notin Disagreements(b, l)
    BY <1>2
  <2> QED BY <2>1 DEF Disagreements
<1>4. ~b.arm.is_lesson_arm /\ l.arm.is_lesson_arm
  BY <1>2
<1>5. Pair(f, s).identity =
        [binding |-> b.binding, task_set |-> b.task_set, baseline |-> b.arm, lessons |-> l.arm]
  BY DEF Pair
<1>6. b \in {f, s} /\ l \in {f, s}
  OBVIOUS
<1> HIDE DEF b, l
<1> QED BY <1>3, <1>4, <1>5, <1>6 DEF Joins

\* Pair: joining the results of a known receipt gives that receipt.
LEMMA JoinsIsPair ==
  ASSUME NEW r, NEW b, NEW l, Joins(r, b, l)
  PROVE  Pair(b, l).identity = r
BY DEF Joins, Pair

\* Mismatches: a receipt without mismatch is made of results of the request.
LEMMA MatchIsRequested ==
  ASSUME NEW r, NEW b, NEW l, NEW wanted, Joins(r, b, l), Mismatches(r, wanted) = {}
  PROVE  IsOf(b, "baseline", wanted) /\ IsOf(l, "lessons", wanted)
<1>1. /\ "binding" \notin Mismatches(r, wanted)
      /\ "digest" \notin Mismatches(r, wanted) /\ "task_count" \notin Mismatches(r, wanted)
      /\ "baseline" \notin Mismatches(r, wanted) /\ "lessons" \notin Mismatches(r, wanted)
  OBVIOUS
<1>2. /\ r.binding = wanted.binding
      /\ r.task_set["digest"] = wanted.task_set["digest"]
      /\ r.task_set["task_count"] = wanted.task_set["task_count"]
      /\ r["baseline"] = wanted["baseline"] /\ r["lessons"] = wanted["lessons"]
  BY <1>1 DEF Mismatches
<1>3. /\ r.binding = b.binding /\ r.task_set = b.task_set
      /\ r["baseline"] = b.arm /\ r["lessons"] = l.arm
      /\ b.binding = l.binding /\ b.task_set = l.task_set
  BY DEF Joins
<1> QED BY <1>2, <1>3 DEF IsOf, SameTasks

LEMMA IdentityTyped ==
  ASSUME NEW identity \in Identities
  PROVE  identity.baseline.is_lesson_arm \in BOOLEAN /\ identity.lessons.is_lesson_arm \in BOOLEAN
BY DEF Identities, Arms

\* Pair: the two results of one request are a pair in either order, and the
\* receipt joins them, once their task sets are one.
LEMMA RequestPairs ==
  ASSUME NEW identity \in Identities, NEW b, NEW l, NEW f, NEW s,
         b.arm = identity.baseline, l.arm = identity.lessons,
         b.binding = l.binding, b.task_set = l.task_set,
         (f = b /\ s = l) \/ (f = l /\ s = b)
  PROVE  Pair(f, s).problems = {} /\ Joins(Pair(f, s).identity, b, l)
<1>1. ~b.arm.is_lesson_arm /\ l.arm.is_lesson_arm
  BY DEF Identities, Arms
<1>2. \A field \in {"model", "trials", "timeout_secs"} : b.arm[field] = l.arm[field]
  BY DEF Identities
<1>3. Disagreements(b, l) = {}
  <2>1. b["binding"] = l["binding"] /\ b["task_set"] = l["task_set"]
    OBVIOUS
  <2> QED BY <1>2, <2>1 DEF Disagreements
<1>4. CASE f = b /\ s = l
  BY <1>1, <1>3, <1>4 DEF Pair, Joins
<1>5. CASE f = l /\ s = b
  BY <1>1, <1>3, <1>5 DEF Pair, Joins
<1> QED BY <1>4, <1>5

\* Mismatches: a receipt of results of the request has no mismatch.
LEMMA RequestedIsMatch ==
  ASSUME NEW r, NEW b, NEW l, NEW wanted, Joins(r, b, l),
         IsOf(b, "baseline", wanted), IsOf(l, "lessons", wanted)
  PROVE  Mismatches(r, wanted) = {}
<1>1. /\ r["binding"] = wanted["binding"]
      /\ r.task_set["digest"] = wanted.task_set["digest"]
      /\ r.task_set["task_count"] = wanted.task_set["task_count"]
      /\ r["baseline"] = wanted["baseline"] /\ r["lessons"] = wanted["lessons"]
  BY DEF Joins, IsOf, SameTasks
<1> QED BY <1>1 DEF Mismatches

LEMMA SameNameSameTasks ==
  ASSUME NEW t \in TaskSets, NEW u \in TaskSets, SameTasks(t, u), t.name = u.name
  PROVE  t = u
BY UpliftAssumption DEF SameTasks

LEMMA UpliftInitIInv == ASSUME UpliftInit PROVE UpliftIInv
BY IdentityTyped DEF UpliftInit, UpliftIInv, ReceiptKnown, ReceiptOne, FilesTyped, ExpectedTyped, AcceptedIsRequested

LEMMA UpliftNextIInv == ASSUME UpliftIInv, [UpliftNext]_upliftVars PROVE UpliftIInv'
<1> USE DEF UpliftIInv
<1>1. ASSUME NEW identity \in Identities, Request(identity) PROVE UpliftIInv'
  BY <1>1, IdentityTyped
     DEF Request, ReceiptKnown, ReceiptOne, FilesTyped, ExpectedTyped, AcceptedIsRequested
<1>2. ASSUME NEW role \in {"baseline", "lessons"}, NEW taskSet \in TaskSets, Produce(role, taskSet)
      PROVE  UpliftIInv'
  <2> DEFINE new == ArmRun(expected.binding, taskSet, expected[role])
  <2>1. /\ files \subseteq files' /\ files' = files \cup {new}
        /\ receipt' = receipt /\ accepted' = accepted /\ expected' = expected
    BY <1>2 DEF Produce
  <2>2. new.task_set \in TaskSets /\ new.arm.is_lesson_arm \in BOOLEAN
    <3>1. new.arm = expected[role] /\ new.task_set = taskSet
      BY DEF ArmRun
    <3> QED BY <3>1, IdentityTyped DEF ExpectedTyped
  <2> HIDE DEF new
  <2>3. ReceiptKnown' /\ ReceiptOne'
    BY <2>1 DEF ReceiptKnown, ReceiptOne
  <2>4. FilesTyped' /\ ExpectedTyped'
    BY <2>1, <2>2 DEF FilesTyped, ExpectedTyped
  <2>5. AcceptedIsRequested'
    BY <2>1 DEF AcceptedIsRequested
  <2> QED BY <2>3, <2>4, <2>5
<1>3. ASSUME NEW first \in files, NEW second \in files, Combine(first, second) PROVE UpliftIInv'
  <2>1. /\ receipt' = IF Pair(first, second).problems = {} THEN {Pair(first, second).identity} ELSE {}
        /\ files' = files /\ accepted' = accepted /\ expected' = expected
    BY <1>3 DEF Combine
  <2>2. Pair(first, second).problems = {} =>
          \E b, l \in files : Joins(Pair(first, second).identity, b, l)
    <3> SUFFICES ASSUME Pair(first, second).problems = {}
                 PROVE  \E b, l \in files : Joins(Pair(first, second).identity, b, l)
      OBVIOUS
    <3>1. \E b, l \in {first, second} : Joins(Pair(first, second).identity, b, l)
      BY PairJoins DEF FilesTyped
    <3> QED BY <3>1
  <2>3. ReceiptKnown' /\ ReceiptOne'
    BY <2>1, <2>2 DEF ReceiptKnown, ReceiptOne
  <2> QED BY <2>1, <2>3 DEF FilesTyped, ExpectedTyped, AcceptedIsRequested
<1>4. CASE Judge
  <2>1. /\ accepted' = {r \in receipt : Mismatches(r, expected) = {}}
        /\ receipt' = receipt /\ files' = files /\ expected' = expected
    BY <1>4 DEF Judge
  <2>2. AcceptedIsRequested'
    <3> SUFFICES ASSUME accepted' # {}
                 PROVE  \E b, l \in files :
                          /\ IsOf(b, "baseline", expected) /\ IsOf(l, "lessons", expected)
                          /\ accepted' = {Pair(b, l).identity}
      BY <2>1 DEF AcceptedIsRequested
    <3>1. PICK r \in receipt : Mismatches(r, expected) = {} /\ accepted' = {r}
      BY <2>1 DEF ReceiptOne
    <3>2. PICK b \in files, l \in files : Joins(r, b, l)
      BY DEF ReceiptKnown
    <3> QED BY <3>1, <3>2, MatchIsRequested, JoinsIsPair
  <2> QED BY <2>1, <2>2 DEF ReceiptKnown, ReceiptOne, FilesTyped, ExpectedTyped
<1>5. CASE UNCHANGED upliftVars
  BY <1>5 DEF upliftVars, ReceiptKnown, ReceiptOne, FilesTyped, ExpectedTyped, AcceptedIsRequested
<1> QED BY <1>1, <1>2, <1>3, <1>4, <1>5 DEF UpliftNext

LEMMA UpliftInvariance == EvaluationSpec => []UpliftIInv
<1>1. EvaluationInit => UpliftIInv
  BY UpliftInitIInv DEF EvaluationInit
<1>2. UpliftIInv /\ [EvaluationNext]_evaluationVars => UpliftIInv'
  <2>1. [EvaluationNext]_evaluationVars => [UpliftNext]_upliftVars
    BY DEF EvaluationNext, Consult, RunUplift, evaluationVars
  <2> QED BY <2>1, UpliftNextIInv
<1> QED BY <1>1, <1>2, PTL DEF EvaluationSpec

\* An accepted receipt joins a baseline and a lesson result of the current
\* request, whatever requests came before and whatever files they left.
THEOREM UpliftAcceptedIsRequested == EvaluationSpec => []AcceptedIsRequested
<1>1. UpliftIInv => AcceptedIsRequested
  BY DEF UpliftIInv
<1> QED BY <1>1, UpliftInvariance, PTL

\* The two results of a request are accepted, in either order and whatever its
\* task set is called by then, if both results call it the same.
THEOREM UpliftRequestedIsAccepted == EvaluationSpec => []RequestedIsAccepted
<1>1. ASSUME UpliftIInv PROVE RequestedIsAccepted
  <2> SUFFICES ASSUME NEW b \in files, NEW l \in files,
                      IsOf(b, "baseline", expected), IsOf(l, "lessons", expected),
                      b.task_set.name = l.task_set.name,
                      NEW f, NEW s, (f = b /\ s = l) \/ (f = l /\ s = b)
               PROVE  Pair(f, s).problems = {} /\ Mismatches(Pair(f, s).identity, expected) = {}
    BY DEF RequestedIsAccepted
  <2>1. b.task_set = l.task_set
    <3>1. b.task_set \in TaskSets /\ l.task_set \in TaskSets
      BY <1>1 DEF UpliftIInv, FilesTyped
    <3>2. SameTasks(b.task_set, l.task_set)
      BY DEF IsOf, SameTasks
    <3> QED BY <3>1, <3>2, SameNameSameTasks
  <2>2. /\ b.arm = expected.baseline /\ l.arm = expected.lessons
        /\ b.binding = l.binding /\ expected \in Identities
    BY <1>1 DEF IsOf, UpliftIInv, ExpectedTyped
  <2>3. Pair(f, s).problems = {} /\ Joins(Pair(f, s).identity, b, l)
    BY <2>1, <2>2, RequestPairs
  <2> QED BY <2>3, RequestedIsMatch
<1> QED BY <1>1, UpliftInvariance, PTL

\* pair and mismatches accept the results of the request and no others.
THEOREM UpliftOnlyTheRequested == EvaluationSpec => []OnlyTheRequested
<1>1. AcceptedIsRequested /\ RequestedIsAccepted => OnlyTheRequested
  BY DEF OnlyTheRequested
<1> QED
  BY <1>1, UpliftAcceptedIsRequested, UpliftRequestedIsAccepted, PTL
=============================================================================
