SPECIFICATION Spec
CONSTANTS
  c1 = c1
  c2 = c2
  c3 = c3
  e1 = e1
  e2 = e2
  e3 = e3
  None = None
  Call = {c1, c2, c3}
  Execution = {e1}
  ModeOf <- MCModeOf
  ProductionLimit = 1
  EvaluationLimit <- MCUnlimited
  ExecutionsMode = "regular"
  MayWait = TRUE
  Stoppable = {e1}
  MaxRestarts = 1
CHECK_DEADLOCK FALSE
SYMMETRY CallSymmetry
INVARIANTS
  TypeOK
  OneRunPerExecution
  EntryCanLeave
PROPERTIES
  FinishedStaysFinished
  UsesCapacityProperly
