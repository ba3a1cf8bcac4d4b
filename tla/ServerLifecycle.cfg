SPECIFICATION Spec
CONSTANTS
  Targets = {t1, t2}
  Wanted = t1
  TIMEOUT = 4
  CONNECT = 1
  READ = 2
  NAP = 1
  MaxMoves = 3
INVARIANTS
  RoutedIsServed
  ReadyBeforeLastLookIsSeen
PROPERTIES
  ForeignSurvives
  SessionSettles
CHECK_DEADLOCK FALSE
