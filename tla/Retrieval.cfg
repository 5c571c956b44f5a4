SPECIFICATION Spec
CONSTANTS
  work = work
  home = home
  plain = plain
  dense = dense
  long = long
  q = q
  Spaces = {work, home}
  Keys = {1, 2}
  Texts = {plain, dense, long}
  Queries = {q}
  Entities <- MCEntities
  Mentions <- MCMentions
  Of <- MCOf
  Terms <- MCTerms
  Stopwords = {"the"}
  Variants <- MCVariants
  Words <- MCWords
  Starts <- MCStarts
  Size <- MCSize
  Heading = 2
  Overhead = 3
  PoolFactor = 4
  PoolFloor = 2
  MaxQueryLimit = 2
  MaxLimit = 2
  Decay = 2
  Writes <- MCWrites
  Searches <- MCSearches
  Packs <- MCPacks
  MaxMemories = 4
CHECK_DEADLOCK FALSE
INVARIANT PoolsSound
INVARIANT SearchesSound
INVARIANT PacksSound
PROPERTY RetiredEvidenceUnblocks
