------------------------------- MODULE Uplift -------------------------------
(***************************************************************************)
(* An uplift run from the request to its acceptance (uplift.rs of          *)
(* localx-eval-core).  The requester expects an identity; the producer     *)
(* runs a baseline arm and a lesson arm, each leaving a result file that   *)
(* attests what was run; two files are joined into a receipt, and the      *)
(* requester accepts the receipt when it has no mismatch.                  *)
(*                                                                         *)
(* The types and the comparisons are the code's.  Files of earlier         *)
(* requests stay on disk, a request may be replaced by another at any      *)
(* time, and any two files may be joined, in either order.  Digests do not *)
(* collide: a value stands for its digest.                                 *)
(***************************************************************************)
EXTENDS Naturals, FiniteSets

CONSTANTS
  Bindings,    \* what requests bind their runs to
  TaskSets,    \* [name, digest, task_count]
  Configs,     \* digests of memory configurations
  Models,
  Trials,
  Timeouts,
  Injections,  \* of lesson arms; a baseline arm has NoInjection
  NoInjection,
  MaxRequests,
  MaxFiles

ASSUME UpliftAssumption ==
  /\ NoInjection \notin Injections
  /\ \A t \in TaskSets : t = [name |-> t.name, digest |-> t.digest, task_count |-> t.task_count]

VARIABLES
  expected,  \* the identity the requester waits for
  requests,  \* how many requests were made
  files,     \* the result files on disk
  receipt,   \* {} or {the identity of the last pair}
  rejected,  \* why the last two files were not a pair
  accepted   \* {} or {the receipt that was accepted for the current request}
upliftVars == <<expected, requests, files, receipt, rejected, accepted>>

-----------------------------------------------------------------------------

Arms(lesson, injections) ==
  [is_lesson_arm : {lesson}, config_digest : Configs, model : Models, trials : Trials,
   timeout_secs : Timeouts, injection : injections]

\* Requests: two arms with the same model, trials and timeout.
Identities ==
  {identity \in [binding : Bindings, task_set : TaskSets,
                 baseline : Arms(FALSE, {NoInjection}), lessons : Arms(TRUE, Injections)] :
     \A field \in {"model", "trials", "timeout_secs"} :
       identity.baseline[field] = identity.lessons[field]}

\* What a result file attests.
ArmRun(binding, taskSet, arm) == [binding |-> binding, task_set |-> taskSet, arm |-> arm]

\* Mutant of Disagreements: the binding of the lesson arm is not looked at.
DisagreementsBoundOnce(baseline, lessons) ==
  {field \in {"model", "trials", "timeout_secs"} : baseline.arm[field] # lessons.arm[field]}
    \cup {field \in {"task_set"} : baseline[field] # lessons[field]}

Disagreements(baseline, lessons) ==
  {field \in {"model", "trials", "timeout_secs"} : baseline.arm[field] # lessons.arm[field]}
    \cup {field \in {"binding", "task_set"} : baseline[field] # lessons[field]}

\* Join two files into the identity of their pair, whichever comes first.
Pair(first, second) ==
  LET baseline == IF first.arm.is_lesson_arm THEN second ELSE first
      lessons == IF first.arm.is_lesson_arm THEN first ELSE second
      problems == IF first.arm.is_lesson_arm = second.arm.is_lesson_arm THEN {"not a pair"}
                  ELSE Disagreements(baseline, lessons)
  IN [problems |-> problems,
      identity |-> [binding |-> baseline.binding, task_set |-> baseline.task_set,
                    baseline |-> baseline.arm, lessons |-> lessons.arm]]

\* Names of task sets and of arms are not compared.
Mismatches(actual, wanted) ==
  {field \in {"binding"} : actual[field] # wanted[field]}
    \cup {field \in {"digest", "task_count"} : actual.task_set[field] # wanted.task_set[field]}
    \cup {role \in {"baseline", "lessons"} : actual[role] # wanted[role]}

-----------------------------------------------------------------------------

UpliftInit ==
  /\ expected \in Identities /\ requests = 1
  /\ files = {} /\ receipt = {} /\ rejected = {} /\ accepted = {}

\* Another request replaces the current one; what is on disk stays.
Request(identity) ==
  /\ requests < MaxRequests
  /\ requests' = requests + 1
  /\ expected' = identity /\ accepted' = {}
  /\ UNCHANGED <<files, receipt, rejected>>

\* The producer runs one arm of the current request. Its task set may have
\* been renamed since the request was made.
Produce(role, taskSet) ==
  /\ Cardinality(files) < MaxFiles
  /\ taskSet.digest = expected.task_set.digest /\ taskSet.task_count = expected.task_set.task_count
  /\ files' = files \cup {ArmRun(expected.binding, taskSet, expected[role])}
  /\ UNCHANGED <<expected, requests, receipt, rejected, accepted>>

Combine(first, second) ==
  /\ \E pair \in {Pair(first, second)} :
       /\ rejected' = pair.problems
       /\ receipt' = IF pair.problems = {} THEN {pair.identity} ELSE {}
  /\ UNCHANGED <<expected, requests, files, accepted>>

Judge ==
  /\ receipt # {}
  /\ accepted' = {r \in receipt : Mismatches(r, expected) = {}}
  /\ UNCHANGED <<expected, requests, files, receipt, rejected>>

UpliftNext ==
  \/ \E identity \in Identities : Request(identity)
  \/ \E role \in {"baseline", "lessons"}, taskSet \in TaskSets : Produce(role, taskSet)
  \/ \E first, second \in files : Combine(first, second)
  \/ Judge

-----------------------------------------------------------------------------
(* Properties. *)

SameTasks(t, u) == t.digest = u.digest /\ t.task_count = u.task_count

\* The result of arm `role` of the request, whatever its task set is called.
IsOf(file, role, identity) ==
  /\ file.binding = identity.binding /\ SameTasks(file.task_set, identity.task_set)
  /\ file.arm = identity[role]

\* An accepted receipt is evidence of the request: a result of its baseline and a
\* result of its lesson arm are on disk, both bound to it and both over its
\* tasks, and the receipt joins them. No file of another request got in, in
\* either role and in either order.
AcceptedIsRequested ==
  accepted # {} =>
    \E b, l \in files :
      /\ IsOf(b, "baseline", expected) /\ IsOf(l, "lessons", expected)
      /\ accepted = {Pair(b, l).identity}

\* A run that was requested and done is not refused: joining the results of the
\* two arms of one request, in either order, gives a receipt without mismatch,
\* also when the task set was renamed since it was requested.
RequestedIsAccepted ==
  \A b, l \in files :
    /\ IsOf(b, "baseline", expected) /\ IsOf(l, "lessons", expected)
    /\ b.task_set.name = l.task_set.name
    => \A pair \in {Pair(b, l), Pair(l, b)} :
         pair.problems = {} /\ Mismatches(pair.identity, expected) = {}

\* A receipt is accepted if and only if it is the request's.
OnlyTheRequested == AcceptedIsRequested /\ RequestedIsAccepted
=============================================================================
