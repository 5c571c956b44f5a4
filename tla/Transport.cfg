SPECIFICATION LiveSpec
CONSTANTS
  Reads = {a1}
  Writes = {w1, w2}
  Procs = {p1, p2}
  None = None
  StdioFallback = TRUE
CHECK_DEADLOCK FALSE
INVARIANT ClientSound
PROPERTY ImplementsContract
PROPERTY EveryRequestEnds
