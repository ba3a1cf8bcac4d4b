SPECIFICATION CaptureSpec
CONSTANTS
  Streams <- MCStreams
  Procs = {p1, p2}
  CAPTURE_LIMIT = 3
  MAX_OUTPUT_BYTES = 2
  MaxSent <- MCMaxSent
  PipeCapacity = 3
INVARIANTS
  CaptureIsTrue
PROPERTIES
  FloodDrains
CHECK_DEADLOCK FALSE
