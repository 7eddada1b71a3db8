SPECIFICATION Spec
CONSTANTS
  w1 = w1
  w2 = w2
  e1 = e1
  e2 = e2
  None = None
  Worker = {w1}
  Execution = {e1}
  Local = {}
  Stoppable = {}
  MayStall = FALSE
  MayReject = {}
  MaxCrashes = 0
CHECK_DEADLOCK FALSE
PROPERTY
  RecoveredIsDangling
