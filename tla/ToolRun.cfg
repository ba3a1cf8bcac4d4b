SPECIFICATION Spec
CONSTANTS
  TIMEOUT = 5
  POLL = 2
INVARIANTS
  RunIsContained
  LostOnlyToHelper
PROPERTIES
  RunEnds
CHECK_DEADLOCK FALSE
