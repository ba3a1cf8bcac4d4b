------------------------- MODULE CancelSignalProofs -------------------------
(***************************************************************************)
(* No wake-up of CancelSignal is lost, for any number of cancelling        *)
(* threads and waiting tasks.  The invariant needs one strengthening: a    *)
(* Notified future never remembers calls that were not made yet, so a call *)
(* to notify_waiters moves the count of every registered future.           *)
(***************************************************************************)
EXTENDS CancelSignal, TLAPS

\* cancel() raises the flag before it notifies, one step per statement.
LEMMA StoreIsFirst ==
  ASSUME NEW c \in Cancellers, TypeOK
  PROVE  /\ Store(c) => canceller[c] = 1
         /\ NotifyWaiters(c) => canceller[c] = 2
BY DEF TypeOK, Store, NotifyWaiters, CancelOrder

\* The invariant holds before anybody cancels or waits.
LEMMA InitIInv == Init => IInv
<1> SUFFICES ASSUME Init PROVE IInv
  OBVIOUS
<1>1. TypeOK
  <2>1. cancelled \in BOOLEAN
    BY DEF Init
  <2>2. calls \in Nat /\ canceller \in [Cancellers -> 1..3]
    BY DEF Init
  <2>3. /\ waiter \in [Waiters -> {"register", "check", "await", "parked", "returned"}]
        /\ seen \in [Waiters -> Nat]
    BY DEF Init
  <2> QED
    BY <2>1, <2>2, <2>3 DEF TypeOK
<1>2. SeenIsPast
  BY DEF Init, SeenIsPast
<1>3. NoLostWakeup
  BY Zenon DEF Init, NoLostWakeup
<1> QED
  BY <1>1, <1>2, <1>3 DEF IInv

\* Every step of a canceller or a waiter keeps the invariant.
LEMMA NextIInv == IInv /\ [Next]_vars => IInv'
<1> SUFFICES ASSUME IInv, [Next]_vars PROVE IInv'
  OBVIOUS
<1> USE DEF IInv, TypeOK, SeenIsPast, NoLostWakeup
<1>1. ASSUME NEW c \in Cancellers, Store(c) PROVE IInv'
  <2>1. canceller[c] = 1
    BY <1>1, StoreIsFirst
  <2>2. TypeOK' /\ SeenIsPast'
    BY <1>1, <2>1 DEF Store
  <2>3. NoLostWakeup'
    BY <1>1, <2>1 DEF Store
  <2> QED
    BY <2>2, <2>3
<1>2. ASSUME NEW c \in Cancellers, NotifyWaiters(c) PROVE IInv'
  <2>1. canceller[c] = 2
    BY <1>2, StoreIsFirst
  <2>2. TypeOK' /\ SeenIsPast'
    BY <1>2, <2>1 DEF NotifyWaiters
  <2>3. \A w \in Waiters : calls' # seen'[w]
    BY <1>2 DEF NotifyWaiters
  <2> QED
    BY <2>2, <2>3
<1>3. ASSUME NEW w \in Waiters, Register(w) PROVE IInv'
  BY <1>3 DEF Register
<1>4. ASSUME NEW w \in Waiters, Check(w) PROVE IInv'
  BY <1>4 DEF Check
<1>5. ASSUME NEW w \in Waiters, Await(w) PROVE IInv'
  BY <1>5 DEF Await
<1>6. ASSUME NEW w \in Waiters, Wake(w) PROVE IInv'
  BY <1>6 DEF Wake
<1>7. CASE UNCHANGED vars
  BY <1>7 DEF vars
<1> QED
  BY <1>1, <1>2, <1>3, <1>4, <1>5, <1>6, <1>7 DEF Next, Cancel, Wait

\* A cancel that lands anywhere between the registration, the check and the
\* await of cancelled() leaves the task a wake-up.
THEOREM CancelNoLostWakeup == Spec => []NoLostWakeup
<1>1. IInv => NoLostWakeup
  BY DEF IInv
<1> QED
  BY <1>1, InitIInv, NextIInv, PTL DEF Spec
=============================================================================
