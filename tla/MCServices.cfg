CONSTANTS
  NumPorts = 2
  MaxRetries = 2
  Experiments = 2
SPECIFICATION Spec
INVARIANTS
  OnlyOrphansSurviveAStop
PROPERTIES
  EveryPortIsServed
  EveryStartEnds
  DeadServiceEndsRun
