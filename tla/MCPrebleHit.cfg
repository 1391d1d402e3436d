SPECIFICATION Spec
CONSTANTS
  NumGpus = 3
  NumRequests = 3
  Token = {1, 2, 3, 4}
  Prompts <- MCSharing
  MaxTokens = 9
  Fallible = {2}
  StealAfter = 4
CHECK_DEADLOCK FALSE
PROPERTIES
  HitsGoToTheirReplica
