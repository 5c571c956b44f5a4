SPECIFICATION MCSpec
CONSTANTS
  s1 = s1
  MaxMemories = 3
  MaxTime = 1
  Spaces = {s1, s2}
  Keys = {k1}
  NoKey = NoKey
  Kinds = {"fact", "continuity"}
  Pins = {TRUE, FALSE}
  Silos = {"durable", "short-term"}
  ObservedTimes = {0, 1}
  ExpiryTimes = {0, 1}
  Modes = {"append", "auto", "supersede", "conflict"}
  MaxSupersedes = 1
  MaxContradicts = 1
  ClaimCap = 2
  DreamBudget = 1
  Sessions = {x1, x2}
  PromoteThreshold = 2
  DreamTaskSets = {{"promote", "expire"}, {"promote", "expire", "reindex"}}
CHECK_DEADLOCK FALSE
INVARIANT RowsSound
INVARIANT SupersessionTree
INVARIANT AuditTrail
INVARIANT FtsMirrorsMemory
PROPERTY RecalledNeverExpires
PROPERTY ImplementsLifecycle
PROPERTY LapsedEventuallyLeave
