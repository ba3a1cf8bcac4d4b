SPECIFICATION Spec
CONSTANTS
  Cancellers = {c1, c2}
  Waiters = {w1, w2}
INVARIANTS
  NoLostWakeup
PROPERTIES
  CancelledResolves
CHECK_DEADLOCK FALSE
