SPECIFICATION FeedSpec
CONSTANTS
  Chars <- MCChars
  Wide <- MCWide
  OPEN <- MCOpen
  CLOSE <- MCClose
  HOLDBACK = 2
  THINK_BAILOUT = 4
  Chunks <- MCChunks
  MaxFed = 8
INVARIANTS
  StreamIsStrip
  HeldIsBounded
CHECK_DEADLOCK FALSE
