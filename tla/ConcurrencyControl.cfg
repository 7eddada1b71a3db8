SPECIFICATION FairControlSpec
CONSTANTS
  c1 = c1
  c2 = c2
  c3 = c3
  c4 = c4
  e1 = e1
  e2 = e2
  e3 = e3
  None = None
  Call = {c1, c2, c3, c4}
  Execution = {e1, e2, e3}
  ModeOf <- MCModeOf
  ProductionLimit = 2
  EvaluationLimit = 1
  ExecutionsMode = "regular"
INVARIANTS
  QueueIsThrottled
  CapacityAccounted
  NoIdleCapacity
PROPERTIES
  AdmissionInOrder
  OverLimitOnlyByRemoval
  ThrottledLeaves
