-------------------------- MODULE ExecuteRefinement -------------------------
(***************************************************************************)
(* CheckExecute implements ExecutePromise.  The caller sees the end and    *)
(* the cleanup only when the future returns, and of the processes only     *)
(* whether one of them is alive.                                           *)
(***************************************************************************)
EXTENDS CheckExecute

Phase ==
  CASE pc \in {"allow", "check"} -> "asking"
    [] pc = "spawn" -> "cleared"
    [] pc = "done" -> "returned"
    [] pc = "abandoned" -> "abandoned"
    [] OTHER -> "running"

Answered ==
  [end |-> IF pc = "done" THEN end ELSE "none",
   cleanup |-> IF pc = "done" THEN cleanup ELSE "none"]

Promise == INSTANCE ExecutePromise
             WITH phase <- Phase, live <- alive # {}, result <- Answered

\* execute keeps its promise, with its liveness.
Implements == Promise!PromiseSpec
=============================================================================
