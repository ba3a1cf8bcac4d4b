SPECIFICATION Spec
CONSTANTS
  MAX_SHARD_COUNT = 3
  QUANT_TOKENS <- MCTokens
  KEYS_IN_ORDER <- MCKeys
  Flags <- MCFlags
  Numbers <- MCNumbers
  Decimal <- MCDecimal
  Lower <- MCLower
  Requests <- MCRequests
  Builds <- MCBuilds
  Answers <- MCAnswers
INVARIANTS
  LaunchIsTheRequest
  VectorIsCoherent
  FitIsUsed
  ReplayIsFaithful
CHECK_DEADLOCK FALSE
