SPECIFICATION ProxySpec
CONSTANTS
  Chars <- MCChars
  Wide <- MCWide
  OPEN <- MCOpen
  CLOSE <- MCClose
  HOLDBACK = 2
  THINK_BAILOUT = 8
  Blocks = {0, 1}
  Texts <- MCTexts
  MaxEvents = 5
  MaxWire = 2
  NEWLINE = "nl"
  EMPTY_AFTER_THINK <- MCEmpty
  Configs <- MCConfigs
  Requests <- MCRequests
  SKIP_HEADERS = {"host", "connection"}
  Statuses = {200, 500}
  Answers <- MCAnswers
INVARIANTS
  BlockShowsItsText
  LifecycleHolds
  DropIsNoEnd
  RequestKeepsItsMeaning
  BufferedAnswerIsTrue
PROPERTIES
  ClientLearns
CHECK_DEADLOCK FALSE
