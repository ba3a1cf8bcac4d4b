------------------------------ MODULE CheckRun ------------------------------
(***************************************************************************)
(* CheckRunner::run, maybe_fix and run_command (localx-eval-core,          *)
(* check.rs): a check, and when it fails and a fixer is supplied the fixer *)
(* and the check once more.  Each command is one call of execute, taken    *)
(* from ExecutePromise; a call leaves behind whatever of its command still *)
(* runs.                                                                   *)
(***************************************************************************)
EXTENDS ExecutePromise, Naturals, Sequences

VARIABLES
  fixer,      \* the CheckSpec has a fixer
  step,       \* "check", "fix", "recheck" or "over"
  outcome,    \* the CheckOutcome: [status, fixed]
  ends,       \* history: [cmd, end, cleanup] of every call that returned
  started,    \* history: the commands that were started, in order
  leftover,   \* something of an earlier command still runs
  overlap,    \* history: a command was started next to a leftover
  unverified  \* history: a call reported its cleanup Unverified

runVars == <<fixer, step, outcome, ends, started, leftover, overlap, unverified>>
vars == <<promiseVars, runVars>>

NoOutcome == [status |-> "none", fixed |-> FALSE]
Command == IF step = "fix" THEN "fix" ELSE "check"

Init ==
  /\ PromiseInit
  /\ fixer \in BOOLEAN
  /\ step = "check"
  /\ outcome = NoOutcome
  /\ ends = <<>>
  /\ started = <<>>
  /\ leftover = FALSE
  /\ overlap = FALSE
  /\ unverified = FALSE

-----------------------------------------------------------------------------
\* run_command: how an execution reads to the fix orchestration.
Fold(end) ==
  CASE end = "Denied" -> "Denied"
    [] end = "ExitedOk" -> "Passed"
    [] end = "ExitedBad" -> "Failed"
    [] OTHER -> "Errored"

\* A step of the call of execute in progress.
Execute ==
  /\ step # "over"
  /\ \/ Start /\ started' = Append(started, Command) /\ overlap' = (overlap \/ leftover)
     \/ /\ \/ CancelCall \/ Clear \/ Quiesce \/ AbandonCall
           \/ \E why \in {"Denied", "NotStarted", "Cancelled"} : Decline(why)
           \/ \E how \in StartedEnds, cleanup \in {"Unverified", "Confirmed"} : Answer(how, cleanup)
        /\ UNCHANGED <<started, overlap>>
  /\ UNCHANGED <<fixer, step, outcome, ends, leftover, unverified>>

\* What an earlier command left running ends by itself.
LeftoverEnds ==
  /\ leftover
  /\ leftover' = FALSE
  /\ UNCHANGED <<promiseVars, fixer, step, outcome, ends, started, overlap, unverified>>

\* The call returned and the next one begins.
Call(next) ==
  /\ step' = next
  /\ phase' = "asking"
  /\ result' = NoResult
  /\ live' = FALSE
  /\ leftover' = (leftover \/ live)
  /\ UNCHANGED <<cancelled, outcome>>

\* The call returned and decides the outcome.
Conclude(fixed) ==
  /\ step' = "over"
  /\ outcome' = [status |-> Fold(result.end), fixed |-> fixed]
  /\ UNCHANGED <<promiseVars, leftover>>

\* Mutant of AfterFix: a fixer that succeeded is taken for a passing check.
TrustFixer == IF result.end = "ExitedOk" THEN Conclude(TRUE) ELSE Call("recheck")

\* maybe_fix: "its own result does not decide the outcome".
AfterFix == Call("recheck")

\* run: only a check that ran and failed is offered to the fixer.
AfterCheck ==
  IF fixer /\ Fold(result.end) = "Failed" THEN Call("fix") ELSE Conclude(FALSE)

Returned ==
  /\ phase = "returned"
  /\ \/ step = "check" /\ AfterCheck
     \/ step = "fix" /\ AfterFix
     \/ step = "recheck" /\ Conclude(TRUE)
  /\ ends' = Append(ends, [cmd |-> Command, end |-> result.end, cleanup |-> result.cleanup])
  /\ unverified' = (unverified \/ result.cleanup = "Unverified")
  /\ UNCHANGED <<fixer, started, overlap>>

Next == Execute \/ LeftoverEnds \/ Returned

Spec == Init /\ [][Next]_vars

-----------------------------------------------------------------------------
\* The outcome is what the last run of the check itself said, and a fixer ran
\* only after a check that ran and failed.
VerdictIsLastCheck ==
  /\ step = "over" =>
       LET last == ends[Len(ends)]
       IN  last.cmd = "check" /\ outcome.status = Fold(last.end)
  /\ \A i \in DOMAIN ends : ends[i].cmd = "fix" => ends[i - 1].end = "ExitedBad"

\* CancelSignal: "refuse to start one, once cancel fires".  From the moment the
\* signal is up nothing is started any more, neither the fixer nor the re-run;
\* only a command that was already past its look at the signal still is.
NothingStartsOnceCancelled ==
  [][cancelled /\ phase # "cleared" => Len(started') <= Len(started) /\ phase' # "cleared"]_vars

\* run ignores CommandRun.cleanup: a fixer or a re-run shares the directory
\* with what an earlier command left running, but only if that command's
\* cleanup was reported Unverified.
OverlapIsUnverified == overlap => unverified
=============================================================================
