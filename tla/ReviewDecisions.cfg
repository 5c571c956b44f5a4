SPECIFICATION QueueSpec
CONSTANTS
  MaxMemories = 2
  MaxTime = 0
  Spaces = {s1}
  Keys = {k1}
  NoKey = NoKey
  Kinds = {"fact"}
  Pins = {FALSE}
  Silos = {"durable"}
  ObservedTimes = {0, 1}
  ExpiryTimes = {1}
  Modes = {"auto"}
  MaxSupersedes = 1
  MaxContradicts = 0
  ClaimCap = 5
  DreamBudget = 2
  Sessions = {}
  PromoteThreshold = 1
  DreamTaskSets = {{"expire", "reindex"}}
  MaxCandidates = 2
  CandidateKinds = {"fact", "rumour"}
  RequireAdjudication = {TRUE}
CHECK_DEADLOCK FALSE
INVARIANT ApprovalsSound
INVARIANT ClaimOrder
PROPERTY DecisionsAreFinal
PROPERTY ImplementsStore
