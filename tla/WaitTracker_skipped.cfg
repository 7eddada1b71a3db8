SPECIFICATION Spec
CONSTANTS
  m1 = m1
  m2 = m2
  p = p
  c1 = c1
  None = None
  Main = {m1}
  Execution = {p, c1}
  Parent <- MCOneChild
  Timed = {c1}
  Webhooked = {}
  Stoppable = {}
  Server = {m1}
  MaxWaits <- MCOnce
  MaxTerms = 1
  Mortal = {}
  Docker = {}
  MaxUpsets = 0
CHECK_DEADLOCK FALSE
INVARIANTS
  SkippedIsResumed
