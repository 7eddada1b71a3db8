SPECIFICATION FairSpec
CONSTANTS
  w1 = w1
  w2 = w2
  e1 = e1
  e2 = e2
  None = None
  Worker = {w1, w2}
  Execution = {e1, e2}
  Local = {e2}
  Stoppable = {e1}
  MayStall = TRUE
  MayReject = {e1}
  MaxCrashes = 1
CHECK_DEADLOCK FALSE
INVARIANTS
  TypeOK
  OneWorker
  CompletedIsSaved
PROPERTIES
  EveryExecutionEnds
  EntrySettles
