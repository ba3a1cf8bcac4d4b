SPECIFICATION Spec
CONSTANTS
  Streams <- MCStreams
  Child = child
  Descendants = {d1}
  Procs = {child, d1}
  CAPTURE_LIMIT = 1
  MAX_OUTPUT_BYTES = 1
  MaxSent <- MCQuiet
  PipeCapacity = 1
PROPERTIES
  Implements
  ExecuteEnds
  NothingOutlives
CHECK_DEADLOCK FALSE
