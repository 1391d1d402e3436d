SPECIFICATION FairSpec
CONSTANTS
  NumReplicas = 2
  NumRequests = 3
  Sessions = {"a", "b"}
  SessionOf <- MCSessionOf
  Prefill <- MCPrefill
  Shared <- MCShared
  Blocks <- MCBlocks
  Hash1 <- MCHash
  Hash2 <- MCHash
  SloBudget = 4
  Evicts = FALSE
  Types <- Baselines
  Syncs <- MCSyncs
  Fallible <- MCFallible
  EmptyAnswers = FALSE
  Timeout = 2
  MaxAnswer = 1
INVARIANTS
  EvenlySpread
  NoAnswerIsMissed
  UnloadedAtRest
PROPERTIES
  ServiceSpec
  ClientEnds
CHECK_DEADLOCK FALSE
