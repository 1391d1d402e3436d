SPECIFICATION Spec
CONSTANTS
  NumRequests = 3
  Saves = {1, 3}
  MayFail = {1, 3}
  Unreliable = {0, 1}
CHECK_DEADLOCK FALSE
INVARIANTS
  AnswersAreRecorded
  MetricsInv
