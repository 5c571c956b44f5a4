SPECIFICATION Spec
CONSTANTS
  docs = docs
  notes = notes
  x = x
  y = y
  asked = asked
  Spaces = {docs, notes}
  Paths = {1}
  Texts = {x, y}
  Metas = {1, 2}
  Queries = {asked}
  Matching <- MCMatching
  Ingests <- MCIngests
  Searchers = {s}
  RrfK = 60
  Limit = 2
  Pool = 3
  MinHits = 1
  MinQueries = 1
  MaxChunks = 3
  MaxLog = 1
CHECK_DEADLOCK FALSE
INVARIANT ChunksSound
INVARIANT FusionRespectsArms
PROPERTY IngestsSound
