SPECIFICATION FairSpec
CONSTANTS
  h1 = h1
  h2 = h2
  None = None
  Gone = Gone
  Host = {h1, h2}
  Docker = TRUE
  MaxInFlight = 1
  MaxBoots = 3
  MaxLapses = 1
CHECK_DEADLOCK FALSE
PROPERTIES
  DualLeadershipEnds
  LeadershipSettles
INVARIANTS
  TypeOK
  AtMostOneLeader
  AtMostOnePoller
