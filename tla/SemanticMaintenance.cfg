SPECIFICATION IndexSpec
CONSTANTS
  MaxWritten = 2
  Chunks = {d1,d2}
  c = c
  Models = {a,b,c}
  Dims <- MCDims
  TokenModels = {t1, t2}
  Jobs = {j1, j2}
  None = None
SYMMETRY Symmetry
CHECK_DEADLOCK FALSE
INVARIANT ModelsKept
INVARIANT IndexesSound
PROPERTY DocumentsSplitByReembed
PROPERTY ReembedMissesNewcomersOnly
