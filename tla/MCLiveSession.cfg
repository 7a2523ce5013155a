CONSTANTS
  c1 = c1  c2 = c2  c3 = c3
  None = None
  Conns = {c1, c2, c3}
  MaxLive = 1
  DbFails = TRUE
SPECIFICATION FairSpec
INVARIANTS TypeOK ActiveKept BilledOnce AbandonedWatched
PROPERTY IdleRemoved
CHECK_DEADLOCK FALSE
