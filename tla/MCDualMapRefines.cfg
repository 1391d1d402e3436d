SPECIFICATION FairSpec
CONSTANTS
  NumReplicas = 2
  NumRequests = 3
  Sessions = {"a", "b"}
  SessionOf <- MCByParity
  Prefill <- MCFew
  Shared <- MCShared
  Blocks <- MCBlocks
  Hash1 <- MCHashA
  Hash2 <- MCHashB
  SloBudget = 4
  Evicts = TRUE
  BalanceType = "dualmap"
  FirstThreshold = 4
  RebalanceThreshold = 4
  PendingThreshold = 2
  EmptyAnswers = FALSE
  Fallible <- MCAll
INVARIANTS
  BudgetAccounting
  OneOwner
PROPERTIES
  RepSpec
  ServiceSpec
  EveryRequestFinishes
CHECK_DEADLOCK FALSE
