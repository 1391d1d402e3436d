SPECIFICATION FairSpec
CONSTANTS
  Files <- MCFiles
  RequestNum = 2
  DatasetStart = 1
  MaxModelLen = 3
INVARIANTS
  GeneratorInv
  SentEnough
PROPERTIES
  GenerationEnds
CHECK_DEADLOCK FALSE
