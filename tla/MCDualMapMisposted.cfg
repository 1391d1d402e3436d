SPECIFICATION Spec
CONSTANTS
  NumReplicas = 3
  NumRequests = 4
  Sessions = {"a", "b"}
  SessionOf <- MCByParity
  Prefill <- MCNeighbour
  Shared <- MCShared
  Blocks <- MCBlocks
  Hash1 <- MCHashA
  Hash2 <- MCHashB
  SloBudget = 4
  Evicts = FALSE
  BalanceType = "dualmap"
  FirstThreshold = 4
  RebalanceThreshold = 4
  PendingThreshold = 1
  EmptyAnswers = FALSE
  Fallible <- MCSecond
INVARIANTS
  PostedWhereQueued
CHECK_DEADLOCK FALSE
