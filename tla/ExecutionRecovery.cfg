SPECIFICATION FairSpec
CONSTANTS
  e1 = e1
  e2 = e2
  None = None
  Execution = {e1, e2}
  Waiter = {e2}
  Poison = {e1}
  Stoppable = {e2}
  RecoveryModes = {"simple", "extensive"}
  Resends = {TRUE}
  MaxInbox = 1
  MaxCrashes = 2
CHECK_DEADLOCK FALSE
INVARIANTS
  TypeOK
  NothingLeftRunning
  WaitSurvives
PROPERTIES
  FinishedIsFinal
  StartsEnd
