---------------------------- MODULE CancelSignal ----------------------------
(***************************************************************************)
(* CancelSignal (localx-eval-core, check.rs): an AtomicBool and a          *)
(* tokio::sync::Notify shared by every clone.  cancel() stores the flag    *)
(* and then notifies; cancelled() creates a Notified future, reads the     *)
(* flag and only then awaits the future, in a loop.  Several threads may   *)
(* cancel and several runs may wait.                                       *)
(*                                                                         *)
(* Notify is external: notify_waiters keeps no permit, it wakes exactly    *)
(* the Notified futures created before the call.  A future is therefore    *)
(* the number of calls it had seen when it was created, and it is ready    *)
(* once that number has moved.                                             *)
(***************************************************************************)
EXTENDS Naturals

CONSTANTS
  Cancellers,   \* threads that may call cancel(), each at most once
  Waiters       \* tasks that await cancelled()

VARIABLES
  cancelled,    \* CancelInner.cancelled
  calls,        \* notify_waiters calls made on CancelInner.notify
  canceller,    \* [Cancellers -> next step of cancel(), an index of CancelOrder]
  waiter,       \* [Waiters -> where the task is in cancelled()]
  seen          \* [Waiters -> calls when its Notified future was created]

vars == <<cancelled, calls, canceller, waiter, seen>>

Init ==
  /\ cancelled = FALSE
  /\ calls = 0
  /\ canceller = [c \in Cancellers |-> 1]
  /\ waiter = [w \in Waiters |-> "register"]
  /\ seen = [w \in Waiters |-> 0]

-----------------------------------------------------------------------------
(* cancel() *)

NotifyFirst == <<"notify", "store">>          \* mutant of CancelOrder

\* The two statements of cancel(), in program order.
CancelOrder == <<"store", "notify">>

Store(c) ==
  /\ canceller[c] \in 1..2
  /\ CancelOrder[canceller[c]] = "store"
  /\ cancelled' = TRUE
  /\ canceller' = [canceller EXCEPT ![c] = @ + 1]
  /\ UNCHANGED <<calls, waiter, seen>>

NotifyWaiters(c) ==
  /\ canceller[c] \in 1..2
  /\ CancelOrder[canceller[c]] = "notify"
  /\ calls' = calls + 1
  /\ canceller' = [canceller EXCEPT ![c] = @ + 1]
  /\ UNCHANGED <<cancelled, waiter, seen>>

-----------------------------------------------------------------------------
(* cancelled() *)

\* let notified = notify.notified();
Register(w) ==
  /\ waiter[w] = "register"
  /\ seen' = [seen EXCEPT ![w] = calls]
  /\ waiter' = [waiter EXCEPT ![w] = "check"]
  /\ UNCHANGED <<cancelled, calls, canceller>>

\* if self.is_cancelled() { return; }
Check(w) ==
  /\ waiter[w] = "check"
  /\ waiter' = [waiter EXCEPT ![w] = IF cancelled THEN "returned" ELSE "await"]
  /\ UNCHANGED <<cancelled, calls, canceller, seen>>

\* Mutant of Await: the future is created where it is awaited, after the check.
AwaitUnregistered(w) ==
  /\ waiter[w] = "await"
  /\ seen' = [seen EXCEPT ![w] = calls]
  /\ waiter' = [waiter EXCEPT ![w] = "parked"]
  /\ UNCHANGED <<cancelled, calls, canceller>>

\* notified.await: ready at once if a call came after the registration.
Await(w) ==
  /\ waiter[w] = "await"
  /\ waiter' = [waiter EXCEPT ![w] = IF calls = seen[w] THEN "parked" ELSE "register"]
  /\ UNCHANGED <<cancelled, calls, canceller, seen>>

\* The parked task is woken and goes round the loop.
Wake(w) ==
  /\ waiter[w] = "parked"
  /\ calls # seen[w]
  /\ waiter' = [waiter EXCEPT ![w] = "register"]
  /\ UNCHANGED <<cancelled, calls, canceller, seen>>

-----------------------------------------------------------------------------
Cancel(c) == Store(c) \/ NotifyWaiters(c)
Wait(w) == Register(w) \/ Check(w) \/ Await(w) \/ Wake(w)

Next ==
  \/ \E c \in Cancellers : Cancel(c)
  \/ \E w \in Waiters : Wait(w)

\* A cancel() that began runs on (it never blocks) and tasks are scheduled;
\* nobody is obliged to call cancel().
Fairness ==
  /\ \A c \in Cancellers : WF_vars(canceller[c] = 2 /\ Cancel(c))
  /\ \A w \in Waiters : WF_vars(Wait(w))

Spec == Init /\ [][Next]_vars /\ Fairness

-----------------------------------------------------------------------------
TypeOK ==
  /\ cancelled \in BOOLEAN
  /\ calls \in Nat
  /\ canceller \in [Cancellers -> 1..3]
  /\ waiter \in [Waiters -> {"register", "check", "await", "parked", "returned"}]
  /\ seen \in [Waiters -> Nat]

\* A cancel landing anywhere in cancelled() is not missed: a task that went
\* past its check and finds the flag up has a ready future, or a canceller is
\* still on its way to notify.
NoLostWakeup ==
  \A w \in Waiters :
    waiter[w] \in {"await", "parked"} /\ cancelled =>
      calls # seen[w] \/ \E c \in Cancellers : canceller[c] = 2

\* cancelled() "resolves once the signal is cancelled; at once if it already
\* is": no task stays parked behind a raised flag.
CancelledResolves ==
  \A w \in Waiters : cancelled ~> waiter[w] = "returned"

\* What CancelSignalProofs shows to be inductive: a future has not seen calls
\* that were not made.
SeenIsPast == \A w \in Waiters : seen[w] <= calls

IInv == TypeOK /\ SeenIsPast /\ NoLostWakeup
=============================================================================
