SPECIFICATION ArchiveSpec
CONSTANTS
  MaxMemories = 2
  MaxTime = 0
  Spaces = {w, s}
  DefaultSpace = w
  Keys = {k1}
  NoKey = NoKey
  Kinds = {"fact"}
  Pins = {FALSE}
  Silos = {"short-term", "durable", "long-term"}
  ObservedTimes = {0}
  ExpiryTimes = {0, 1}
  Modes = {"conflict"}
  MaxSupersedes = 0
  MaxContradicts = 0
  ClaimCap = 2
  DreamBudget = 2
  Sessions = {}
  PromoteThreshold = 1
  DreamTaskSets = {{"expire", "reindex"}}
  Cards = {"card"}
  NewSpaces <- MCNewSpaces
  Writes <- MCWrites
  s = s
  Ingests <- MCIngests
  Stamps = {TRUE, FALSE}
  MaxChunks = 1
CHECK_DEADLOCK FALSE
INVARIANT ImportsWhatItShould
INVARIANT RoundTripKeepsAll
INVARIANT BadArchivesRefused
