--------------------------- MODULE ExecutePromise ---------------------------
(***************************************************************************)
(* What CheckRunner::execute promises to its caller, with the streams, the *)
(* timers, the hooks and the processes of the tree left out: a call asks   *)
(* the gate, perhaps runs something, and answers how it ended and what is  *)
(* known of the cleanup.  CheckExecute implements it (ExecuteRefinement);  *)
(* CheckRun is built on it.                                                *)
(***************************************************************************)
VARIABLES
  phase,      \* "asking" the gate, "cleared" to spawn, "running", "returned"
              \* or "abandoned"
  cancelled,  \* the CancelSignal's flag
  live,       \* something of the command runs
  result      \* the caller's answer: [end, cleanup]

promiseVars == <<phase, cancelled, live, result>>

NoResult == [end |-> "none", cleanup |-> "none"]
StartedEnds == {"ExitedOk", "ExitedBad", "Failed", "TimedOut", "Cancelled"}

PromiseInit ==
  /\ phase = "asking"
  /\ cancelled = FALSE
  /\ live = FALSE
  /\ result = NoResult

CancelCall ==
  /\ ~cancelled
  /\ cancelled' = TRUE
  /\ UNCHANGED <<phase, live, result>>

\* Mutant of Clear: the signal is not looked at before the spawn.
ClearUnchecked ==
  /\ phase = "asking"
  /\ phase' = "cleared"
  /\ UNCHANGED <<cancelled, live, result>>

\* The gate allowed the command and the signal had not fired.
Clear ==
  /\ phase = "asking"
  /\ ~cancelled
  /\ phase' = "cleared"
  /\ UNCHANGED <<cancelled, live, result>>

\* Nothing ran: the gate refused or the signal had fired, or the spawn of a
\* cleared command failed.
Decline(why) ==
  /\ \/ phase = "asking" /\ why = "Denied"
     \/ phase = "asking" /\ why = "Cancelled" /\ cancelled
     \/ phase = "cleared" /\ why = "NotStarted"
  /\ phase' = "returned"
  /\ result' = [end |-> why, cleanup |-> "NotStarted"]
  /\ UNCHANGED <<cancelled, live>>

Start ==
  /\ phase = "cleared"
  /\ phase' = "running"
  /\ live' = TRUE
  /\ UNCHANGED <<cancelled, result>>

\* The last process of the command ends; nothing brings it back.
Quiesce ==
  /\ live
  /\ live' = FALSE
  /\ UNCHANGED <<phase, cancelled, result>>

\* Mutant of Answer: Confirmed is answered for whatever exited.
AnswerUnproven(how, cleanup) ==
  /\ phase = "running"
  /\ how = "Cancelled" => cancelled
  /\ phase' = "returned"
  /\ result' = [end |-> how, cleanup |-> cleanup]
  /\ UNCHANGED <<cancelled, live>>

\* Cancelled is only answered to a cancelled caller, and Confirmed only when
\* nothing of the command runs.
Answer(how, cleanup) ==
  /\ phase = "running"
  /\ how = "Cancelled" => cancelled
  /\ cleanup = "Confirmed" => ~live
  /\ phase' = "returned"
  /\ result' = [end |-> how, cleanup |-> cleanup]
  /\ UNCHANGED <<cancelled, live>>

AbandonCall ==
  /\ phase \in {"asking", "running"}
  /\ phase' = "abandoned"
  /\ UNCHANGED <<cancelled, live, result>>

PromiseNext ==
  \/ CancelCall
  \/ Clear
  \/ \E why \in {"Denied", "NotStarted", "Cancelled"} : Decline(why)
  \/ Start
  \/ Quiesce
  \/ \E how \in StartedEnds, cleanup \in {"Unverified", "Confirmed"} : Answer(how, cleanup)
  \/ AbandonCall

\* A command that was started is answered for, or abandoned by the caller.
PromiseSpec ==
  PromiseInit /\ [][PromiseNext]_promiseVars /\ (phase = "running" ~> phase # "running")
=============================================================================
