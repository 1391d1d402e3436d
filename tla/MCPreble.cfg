SPECIFICATION Spec
CONSTANTS
  NumGpus = 2
  NumRequests = 4
  Token = {1, 2}
  Prompts <- MCPrompts
  MaxTokens = 1
  Fallible = {3}
  StealAfter = 4
INVARIANTS
  HistogramIsExact
  TreeIsExact
  InUseStaysCached
PROPERTIES
  Tree
  EvictsAllItNeeds
  EvictionEnds
CHECK_DEADLOCK FALSE
