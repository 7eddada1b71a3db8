SPECIFICATION FairSpec
CONSTANTS
  m1 = m1
  m2 = m2
  p = p
  c1 = c1
  None = None
  Main = {m1, m2}
  Execution = {p, c1}
  Parent <- MCOneChild
  Timed = {p, c1}
  Webhooked = {p}
  Stoppable = {p}
  Server = {m2}
  MaxWaits <- MCChildTwice
  MaxTerms = 2
  Mortal = {m1}
  Docker = {m1}
  MaxUpsets = 2
CHECK_DEADLOCK FALSE
INVARIANTS
  TypeOK
  EntryHasTimer
PROPERTIES
  EndsOnce
  DueIsResumed
  ParentFollowsChild
