---------------------------- MODULE CheckExecute ----------------------------
(***************************************************************************)
(* CheckRunner::execute (localx-eval-core, check.rs): one command through  *)
(* the gate, its process tree, its stop, its cleanup and its capture.      *)
(* The future may be abandoned at any of its awaits.                       *)
(*                                                                         *)
(* The host is the environment: its gate answers, spawns (with or without  *)
(* a CommandProcessGuard), reaps and confirms as the traits' contracts     *)
(* allow.  So are the processes: they fork, write, close pipes and exit    *)
(* when they like.  Timeouts may fire at any moment at which they are      *)
(* armed.                                                                  *)
(***************************************************************************)
EXTENDS Captured, Sequences

CONSTANTS
  Child,        \* the spawned command
  Descendants   \* the processes it may start

ASSUME TreeAssumption ==
  /\ Procs = {Child} \cup Descendants
  /\ Child \notin Descendants
  /\ Streams = {"stdout", "stderr"}

VARIABLES
  pc,           \* where the future is
  cancelled,    \* the CancelSignal's flag
  end,          \* CommandRun.end, "none" until it is known
  cleanup,      \* CommandRun.cleanup, "none" until it is known
  guard,        \* the CommandProcessGuard: "none", "held" or "dropped"
  handle,       \* the Child handle: "none", "held" or "dropped"
  waited,       \* child.wait() returned: the operating system forgot the pid
  reaps,        \* history: the calls of gate.reap, in order
  alive,        \* the processes of the command that run
  unborn,       \* descendants not started yet
  exit,         \* how the child ended: "none", "success" or "failure"
  killSent,     \* the child was sent a kill
  terminating   \* the host was asked to terminate the owned tree

processVars == <<alive, unborn, exit, killSent, terminating>>
runnerVars == <<pc, cancelled, end, cleanup, guard, handle, waited, reaps>>
vars == <<captureVars, runnerVars, processVars>>

Owned == guard # "none"
Stopped == end \in {"TimedOut", "Cancelled"}
PipesClosed == handle = "none" \/ \A s \in Streams : finish[s] = "closed"

\* The awaits of execute, and the points where the future has ended.
Awaits == {"allow", "select", "stop", "reap", "wait", "confirm", "finish_out", "finish_err",
           "late_reap"}
Over == {"done", "abandoned"}

Init ==
  /\ NothingCaptured
  /\ writers = [s \in Streams |-> {}]
  /\ task = [s \in Streams |-> "none"]
  /\ pc = "allow"
  /\ cancelled = FALSE
  /\ end = "none"
  /\ cleanup = "none"
  /\ guard = "none"
  /\ handle = "none"
  /\ waited = FALSE
  /\ reaps = <<>>
  /\ alive = {}
  /\ unborn = Descendants
  /\ exit = "none"
  /\ killSent = FALSE
  /\ terminating = FALSE

-----------------------------------------------------------------------------
(* The processes. *)

\* Processes of gone end: they release their pipe ends.
Die(gone) ==
  /\ alive' = alive \ gone
  /\ writers' = [s \in Streams |-> writers[s] \ gone]

\* A process ends by itself.
Exit(p) ==
  /\ p \in alive
  /\ Die({p})
  /\ IF p = Child THEN exit' \in {"success", "failure"} ELSE UNCHANGED exit
  /\ UNCHANGED <<sent, got, buffer, task, finish, taken, runnerVars, unborn, killSent, terminating>>

\* Processes of gone are killed.
Kill(gone) ==
  /\ Die(gone)
  /\ exit' = IF Child \in gone \cap alive THEN "failure" ELSE exit

\* A live process starts a descendant, which inherits some of its pipe ends.
Fork(p, d) ==
  /\ p \in alive
  /\ d \in unborn
  /\ alive' = alive \cup {d}
  /\ unborn' = unborn \ {d}
  /\ \E inherited \in SUBSET {s \in Streams : p \in writers[s]} :
       writers' = [s \in Streams |-> IF s \in inherited THEN writers[s] \cup {d} ELSE writers[s]]
  /\ UNCHANGED <<sent, got, buffer, task, finish, taken, runnerVars, exit, killSent, terminating>>

\* A kill sent to the child takes effect.
KillLands ==
  /\ killSent
  /\ Child \in alive
  /\ Kill({Child})
  /\ UNCHANGED <<sent, got, buffer, task, finish, taken, runnerVars, unborn, killSent, terminating>>

\* The host terminates a process of an owned tree it was asked to terminate.
HostTerminates(p) ==
  /\ terminating
  /\ p \in alive
  /\ Kill({p})
  /\ UNCHANGED <<sent, got, buffer, task, finish, taken, runnerVars, unborn, killSent, terminating>>

ProcessStep ==
  \/ \E p \in alive : Exit(p) \/ HostTerminates(p) \/ \E d \in unborn : Fork(p, d)
  \/ KillLands
  \/ \E s \in Streams :
       \E p \in writers[s] :
         /\ CloseEnd(p, s) \/ \E n \in 1..MaxSent[s] : Write(p, s, n)
         /\ UNCHANGED <<runnerVars, processVars>>

-----------------------------------------------------------------------------
(* Before the command runs. *)

\* CancelSignal::cancel, from outside, at any time.
Cancel ==
  /\ ~cancelled
  /\ cancelled' = TRUE
  /\ UNCHANGED <<captureVars, processVars, pc, end, cleanup, guard, handle, waited, reaps>>

\* CommandRun::without_process: the run is over and nothing was started.
WithoutProcess(why) ==
  /\ pc' = "done"
  /\ end' = why
  /\ cleanup' = "NotStarted"
  /\ UNCHANGED <<captureVars, processVars, cancelled, guard, handle, waited, reaps>>

\* gate.allow(command).await; nothing races with it.
Allow ==
  /\ pc = "allow"
  /\ \/ WithoutProcess("Denied")
     \/ /\ pc' = "check"
        /\ UNCHANGED <<captureVars, processVars, cancelled, end, cleanup, guard, handle, waited, reaps>>

\* Mutant of CheckCancelled: the signal is not looked at before the spawn.
CheckNothing ==
  /\ pc = "check"
  /\ pc' = "spawn"
  /\ UNCHANGED <<captureVars, processVars, cancelled, end, cleanup, guard, handle, waited, reaps>>

\* A signal that fired while the gate was deciding starts nothing.
CheckCancelled ==
  /\ pc = "check"
  /\ IF cancelled
       THEN WithoutProcess("Cancelled")
       ELSE /\ pc' = "spawn"
            /\ UNCHANGED <<captureVars, processVars, cancelled, end, cleanup, guard, handle, waited, reaps>>

\* gate.spawn(&mut process) fails ...
SpawnFails ==
  /\ pc = "spawn"
  /\ WithoutProcess("NotStarted")

\* ... or answers a child, owned by a guard or not; both streams get a reader.
Spawn(ownership) ==
  /\ pc = "spawn"
  /\ pc' = "select"
  /\ guard' = ownership
  /\ handle' = "held"
  /\ alive' = {Child}
  /\ writers' = [s \in Streams |-> {Child}]
  /\ task' = [s \in Streams |-> "reading"]
  /\ UNCHANGED <<sent, got, buffer, finish, taken, cancelled, end, cleanup, waited, reaps,
                 unborn, exit, killSent, terminating>>

-----------------------------------------------------------------------------
(* While it runs, and its stop. *)

\* What follows the select!: a guard is always asked to stop, the legacy reap
\* is for stopped commands only.
AfterEnd(how) ==
  CASE Owned -> "stop"
    [] ~Owned /\ how \in {"TimedOut", "Cancelled"} -> "reap"
    [] OTHER -> "drop"

Ends(how) ==
  /\ pc = "select"
  /\ end' = how
  /\ pc' = AfterEnd(how)
  /\ UNCHANGED <<captureVars, processVars, cancelled, cleanup, guard, handle, reaps>>

\* The three branches of the select!; any that is ready may win.
ChildExits ==
  /\ Child \notin alive
  /\ Ends(IF exit = "success" THEN "ExitedOk" ELSE "ExitedBad")
  /\ waited' = TRUE

WaitFails == Ends("Failed") /\ UNCHANGED waited
TimeoutFires == Ends("TimedOut") /\ UNCHANGED waited
CancelSeen == cancelled /\ Ends("Cancelled") /\ UNCHANGED waited

\* timeout(CLEANUP_GRACE, guard.request_stop()): a hook that did not finish in
\* time may or may not have reached the tree.
RequestStop ==
  /\ pc = "stop"
  /\ terminating' \in {terminating, TRUE}
  /\ pc' = IF Stopped THEN "kill" ELSE "drop"
  /\ UNCHANGED <<captureVars, cancelled, end, cleanup, guard, handle, waited, reaps,
                 alive, unborn, exit, killSent>>

\* gate.reap(pid).await, whatever the host manages to kill; recorded with what
\* the runner knew of the child.
HostReap ==
  /\ \E gone \in SUBSET alive : Kill(gone)
  /\ reaps' = Append(reaps, [stopped |-> Stopped, waited |-> waited, killed |-> killSent])
  /\ UNCHANGED <<sent, got, buffer, task, finish, taken, cancelled, end, cleanup, guard, handle,
                 waited, unborn, killSent, terminating>>

\* The tree first, while the child still exists to be walked from.
Reap == pc = "reap" /\ HostReap /\ pc' = "kill"

StartKill ==
  /\ pc = "kill"
  /\ killSent' = TRUE
  /\ pc' = "wait"
  /\ UNCHANGED <<captureVars, cancelled, end, cleanup, guard, handle, waited, reaps,
                 alive, unborn, exit, terminating>>

\* timeout(PIPE_GRACE, child.wait())
WaitKilled ==
  /\ pc = "wait"
  /\ waited' \in {FALSE, Child \notin alive}
  /\ pc' = "drop"
  /\ UNCHANGED <<captureVars, processVars, cancelled, end, cleanup, guard, handle, reaps>>

-----------------------------------------------------------------------------
(* Cleanup and capture. *)

\* Mutant of Unasked: the outcome of an unowned run is read off its exit.
ExitImpliesClean == IF end = "ExitedOk" THEN "Confirmed" ELSE "Unverified"

\* Dropping a Child nobody waited for kills it (kill_on_drop).
KillOnDrop == killSent' = (killSent \/ ~waited)

\* cleanup when there is no guard to ask.
Unasked == "Unverified"

\* cleanup when confirm_stopped does not answer within CLEANUP_GRACE.
ConfirmExpired == "Unverified"

\* drop(child)
DropChild ==
  /\ pc = "drop"
  /\ handle' = "dropped"
  /\ KillOnDrop
  /\ IF Owned
       THEN pc' = "confirm" /\ UNCHANGED cleanup
       ELSE pc' = "finish_out" /\ cleanup' = Unasked
  /\ UNCHANGED <<captureVars, cancelled, end, guard, waited, reaps, alive, unborn, exit, terminating>>

\* timeout(CLEANUP_GRACE, guard.confirm_stopped()): by the trait's contract
\* Confirmed is only answered for an empty tree.
Confirm ==
  /\ pc = "confirm"
  /\ \/ cleanup' = "Confirmed" /\ alive = {}
     \/ cleanup' = "Unverified"
     \/ cleanup' = ConfirmExpired
  /\ pc' = "finish_out"
  /\ UNCHANGED <<captureVars, processVars, cancelled, end, guard, handle, waited, reaps>>

\* stdout.finish(PIPE_GRACE), then stderr.finish(PIPE_GRACE).
FinishStream(at, s, next) ==
  /\ pc = at
  /\ FinishStep(s)
  /\ pc' = IF finish'[s] \in {"closed", "open"} THEN next ELSE at
  /\ UNCHANGED <<processVars, cancelled, end, cleanup, guard, handle, waited, reaps>>

Finish ==
  \/ FinishStream("finish_out", "stdout", "finish_err")
  \/ FinishStream("finish_err", "stderr", "judge")

\* Mutant of LateReapDue: a stopped command is reaped a second time.
OpenPipeReapDue == ~PipesClosed /\ ~Owned

\* The command exited but something it started is still writing.
LateReapDue == ~PipesClosed /\ ~Stopped /\ ~Owned

FinishOver ==
  /\ pc = "judge"
  /\ pc' = IF LateReapDue THEN "late_reap" ELSE "take"
  /\ UNCHANGED <<captureVars, processVars, cancelled, end, cleanup, guard, handle, waited, reaps>>

LateReap == pc = "late_reap" /\ HostReap /\ pc' = "take"

\* Mutant of DropGuard: the guard is leaked (moved out and forgotten).
LeakGuard ==
  /\ guard' = IF guard = "held" THEN "dropped" ELSE guard
  /\ UNCHANGED terminating

\* The guard goes out of scope: its Drop requests the tree's termination.
DropGuard ==
  /\ guard' = IF guard = "held" THEN "dropped" ELSE guard
  /\ terminating' = (terminating \/ guard = "held")

\* Both texts are taken and the run is returned.
TakeText ==
  /\ pc = "take"
  /\ \E s \in Streams : Take(s)
  /\ UNCHANGED <<runnerVars, processVars>>

Return ==
  /\ pc = "take"
  /\ \A s \in Streams : taken[s] # NoText
  /\ pc' = "done"
  /\ DropGuard
  /\ UNCHANGED <<captureVars, cancelled, end, cleanup, handle, waited, reaps,
                 alive, unborn, exit, killSent>>

\* The caller drops the future at an await: the guard first, then the Child;
\* the reading tasks are detached and run on.
Abandon ==
  /\ pc \in Awaits
  /\ pc' = "abandoned"
  /\ DropGuard
  /\ IF handle = "held" THEN handle' = "dropped" /\ KillOnDrop ELSE UNCHANGED <<handle, killSent>>
  /\ UNCHANGED <<captureVars, cancelled, end, cleanup, waited, reaps, alive, unborn, exit>>

-----------------------------------------------------------------------------
Step ==
  \/ CheckCancelled \/ SpawnFails \/ \E ownership \in {"none", "held"} : Spawn(ownership)
  \/ ChildExits \/ WaitFails \/ TimeoutFires \/ CancelSeen
  \/ RequestStop \/ StartKill \/ WaitKilled
  \/ DropChild \/ Confirm
  \/ Finish \/ FinishOver \/ TakeText \/ Return

Reader(s) == ReaderStep(s) /\ UNCHANGED <<runnerVars, processVars>>

Next ==
  \/ Cancel \/ Allow \/ Step \/ Reap \/ LateReap \/ Abandon
  \/ ProcessStep
  \/ \E s \in Streams : Reader(s)

\* The runner's own steps are scheduled and every timer it armed fires.  Of the
\* host: a reap that was called returns (the code sets it no deadline), a kill
\* lands, a tree asked to terminate does.  Neither an answer of the gate nor an
\* exit of any process is assumed.
Fairness ==
  /\ WF_vars(Step)
  /\ WF_vars(Reap \/ LateReap)
  /\ WF_vars(KillLands)
  /\ \A p \in Procs : WF_vars(HostTerminates(p))

Spec == Init /\ [][Next]_vars /\ Fairness

-----------------------------------------------------------------------------
PreStart == {"allow", "check", "spawn"}
Pcs == PreStart \cup Awaits \cup Over \cup {"kill", "drop", "judge", "take"}
Reaped == [stopped : BOOLEAN, waited : BOOLEAN, killed : BOOLEAN]

TypeOK ==
  /\ CaptureTypeOK
  /\ pc \in Pcs
  /\ cancelled \in BOOLEAN
  /\ end \in {"none", "ExitedOk", "ExitedBad", "Denied", "NotStarted", "TimedOut", "Cancelled", "Failed"}
  /\ cleanup \in {"none", "NotStarted", "Unverified", "Confirmed"}
  /\ guard \in {"none", "held", "dropped"}
  /\ handle \in {"none", "held", "dropped"}
  /\ waited \in BOOLEAN
  /\ reaps \in Seq(Reaped)
  /\ alive \in SUBSET Procs
  /\ unborn \in SUBSET Descendants
  /\ exit \in {"none", "success", "failure"}
  /\ killSent \in BOOLEAN
  /\ terminating \in BOOLEAN

\* CleanupOutcome: Confirmed means that no process of the command runs, now or
\* ever again, and is only answered to a run that owns its tree and has let go
\* of the Child; exit 0 and closed pipes never make it.
ConfirmedMeansGone ==
  cleanup = "Confirmed" => alive = {} /\ Owned /\ handle = "dropped"

\* NotStarted means that no process ever ran, and every other result has one.
NotStartedMeansNothingRan ==
  pc = "done" =>
    /\ cleanup = "NotStarted" <=> unborn = Descendants /\ alive = {} /\ handle = "none"
    /\ end \in {"Denied", "NotStarted"} => cleanup = "NotStarted"

\* CommandRun.cleanup is true, whichever of the three it says.
CleanupIsTrue == ConfirmedMeansGone /\ NotStartedMeansNothingRan

\* The legacy reap: at most once, never next to a guard; for a stopped command
\* before the child is killed or waited for, so that its pid still names it;
\* and always when a run without a guard was stopped or left a pipe open.
ReapDiscipline ==
  /\ Len(reaps) <= 1
  /\ Owned => reaps = <<>>
  /\ \A i \in DOMAIN reaps : reaps[i].stopped => ~reaps[i].waited /\ ~reaps[i].killed
  /\ pc = "done" /\ handle # "none" /\ ~Owned /\ (Stopped \/ ~PipesClosed) => Len(reaps) = 1

\* A result reported with closed pipes and no mark of a cut holds all output.
CompleteOrMarked == pc = "done" => NothingLostSilently

\* What a CommandRun reports, of the cleanup and of the output, is true.
ReportIsTrue == CleanupIsTrue /\ CompleteOrMarked

-----------------------------------------------------------------------------
\* What CheckExecuteProofs shows to be inductive: what is known at each place of
\* the future.
Holding == {"select", "stop", "reap", "kill", "wait", "drop"}
Released == {"confirm", "finish_out", "finish_err", "judge", "late_reap", "take"}

HandleByStage ==
  /\ pc \in PreStart => handle = "none"
  /\ pc \in Holding => handle = "held"
  /\ pc \in Released => handle = "dropped"
  /\ handle = "held" => pc \in Holding
  /\ handle = "none" =>
       /\ alive = {} /\ unborn = Descendants /\ guard = "none" /\ reaps = <<>>
       /\ ~waited /\ ~killSent
       /\ NothingCaptured
       /\ \A s \in Streams : writers[s] = {} /\ task[s] = "none"

EndByStage ==
  /\ pc \in PreStart \cup {"select"} => end = "none"
  /\ pc \in {"reap", "kill", "wait"} => Stopped
  /\ pc = "stop" => Owned
  /\ handle # "none" => end \notin {"Denied", "NotStarted"}

CleanupByStage ==
  /\ pc \in PreStart \cup Holding \cup {"confirm"} => cleanup = "none"
  /\ pc \in Released \ {"confirm"} => cleanup \in {"Unverified", "Confirmed"}
  /\ pc = "confirm" => Owned
  /\ pc = "done" => (cleanup = "NotStarted" <=> handle = "none")

\* Where a run without a guard has made its one reap, and where not yet.
ReapsByStage ==
  /\ pc \in {"reap", "late_reap"} => ~Owned /\ reaps = <<>>
  /\ pc \in {"select", "reap"} => ~waited /\ ~killSent
  /\ pc \in {"select", "stop"} => reaps = <<>>
  /\ pc = "late_reap" => ~Stopped
  /\ ~Owned /\ Stopped /\ pc \in {"kill", "wait", "drop", "done"} \cup Released
       => handle = "none" \/ Len(reaps) = 1
  /\ ~Owned /\ ~Stopped /\ pc \in {"drop", "finish_out", "finish_err", "judge"}
       => reaps = <<>>
  /\ ~Owned /\ ~Stopped /\ pc \in {"take", "done"} => PipesClosed \/ Len(reaps) = 1

IInv ==
  /\ TypeOK
  /\ CaptureIInv
  /\ HandleByStage
  /\ EndByStage
  /\ CleanupByStage
  /\ ReapsByStage
  /\ ConfirmedMeansGone
  /\ ReapDiscipline

-----------------------------------------------------------------------------
\* Once the gate has allowed a command its run ends, whatever the command and
\* its descendants do, and however long the guard's hooks take.
ExecuteEnds == pc = "check" ~> pc \in Over

\* The direct child does not outlive its run, not even an abandoned one.
ChildEnds == pc \in Over ~> Child \notin alive

\* "A guard must terminate its owned tree on drop, including an abandoned
\* execution future": nothing of an owned command runs on for ever.
OwnedTreeEnds == guard = "dropped" ~> alive = {}

\* No process that the run answers for outlives it for ever.
NothingOutlives == ChildEnds /\ OwnedTreeEnds
=============================================================================
