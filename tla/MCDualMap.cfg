SPECIFICATION Spec
CONSTANTS
  NumReplicas = 2
  NumRequests = 4
  Sessions = {"a", "b"}
  SessionOf <- MCMostlyA
  Prefill <- MCDrain
  Shared <- MCShared
  Blocks <- MCBlocks
  Hash1 <- MCHashA
  Hash2 <- MCHashB
  SloBudget = 4
  Evicts = FALSE
  BalanceType = "dualmap"
  FirstThreshold = 4
  RebalanceThreshold = 4
  PendingThreshold = 1
  EmptyAnswers = FALSE
  Fallible <- MCSecond
INVARIANTS
  TypeOK
  NoLostWakeup
  HeldWhileServed
  QuiescentIsUnloaded
  QueuedIsWaiting
  CountersMatchQueues
PROPERTIES
  QueueSpec
CHECK_DEADLOCK FALSE
