SPECIFICATION EvaluationSpec
CONSTANTS
  Gate <- MCGate
  Words <- MCWords
  Role <- MCRole
  Roots <- MCRoots
  Overrides <- MCOverrides
  Suites <- MCSuites
  Sessions <- MCSessions
  Gold <- MCGold
  Rivals <- MCRivals
  RANKING_FIXTURES <- MCFixtures
  Inputs <- MCInputs
  Solutions = {"p", "q"}
  Seeds = {0, 1}
  OddSeeds = {1}
  Json <- MCJson
  Scorings <- MCScorings
  Preferences <- MCPreferences
  HumanLabel <- MCHumanLabel
  Bindings = {b1, b2}
  TaskSets <- MCTaskSets
  Configs = {c1, c2}
  Models = {m1, m2}
  Trials = {1}
  Timeouts = {60}
  Injections = {i1}
  NoInjection = none
  MaxRequests = 2
  MaxFiles = 3
INVARIANTS
  VerdictIsLastCheck
  OverlapIsUnverified
  GradeIsTrue
  CleanMeansRan
  RankIsFair
  AttributionIsSound
  GatedScoreIsEarned
  VerdictIsOfContent
  KappaIsChanceCorrected
  OnlyTheRequested
PROPERTIES
  NothingStartsOnceCancelled
CHECK_DEADLOCK FALSE
