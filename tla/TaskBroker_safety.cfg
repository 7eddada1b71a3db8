SPECIFICATION Spec
CONSTANTS
  r1 = r1
  r2 = r2
  l1 = l1
  q1 = q1
  q2 = q2
  None = None
  Runner = {r1, l1}
  Launcher = {l1}
  Request = {q1, q2}
  Slots = 1
  Mode = "external"
  MaxOffers = 2
  Mortal = {r1}
CHECK_DEADLOCK FALSE
SYMMETRY RequestSymmetry
INVARIANTS
  AnswerDue
  WorkIsWatched
  PendingCanSettle
PROPERTIES
  ImplementsTaskService
