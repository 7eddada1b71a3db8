SPECIFICATION FairSpec
CONSTANTS
  r1 = r1
  r2 = r2
  l1 = l1
  q1 = q1
  q2 = q2
  None = None
  Runner = {r1}
  Launcher = {}
  Request = {q1, q2}
  Slots = 1
  Mode = "internal"
  MaxOffers = 2
  Mortal = {r1}
CHECK_DEADLOCK FALSE
INVARIANTS
  BookedWithinSlots
PROPERTIES
  EveryRequestAnswered
  TasksEnd
