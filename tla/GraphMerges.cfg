SPECIFICATION LiveSpec
CONSTANTS
  Keys = {1, 2, 3}
  a = a
  t = t
  derived = derived
  NoCapture = NoCapture
  Names = {a, derived}
  DerivedName <- MCDerivedName
  Types = {1}
  Tags = {t}
  TagSets = {{t}}
  MinSharedTags = 1
  MaxTagMemories = 2
  Budget = 1
  Captures <- MCCaptures
  EntityRequests <- MCEntityRequests
  EdgeRequests <- MCEdgeRequests
  Subjects = {1, 2}
  MaxRels = 2
  MaxMemories = 2
CHECK_DEADLOCK FALSE
INVARIANT ReadersSound
PROPERTY MergesKeepGraph
PROPERTY CapturesKeepNamesUnique
PROPERTY DriftIsReconciled
