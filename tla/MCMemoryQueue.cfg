CONSTANTS
  j1 = j1  j2 = j2  j3 = j3
  w1 = w1  w2 = w2
  Sentinel = Sentinel
  Jobs = {j1, j2, j3}
  Workers = {w1, w2}
  MaxDepth = 2
SPECIFICATION FairSpec
INVARIANTS BacklogSound StopDrains
PROPERTIES ImplementsLifecycle StopEnds AcceptedIsServed
CHECK_DEADLOCK FALSE
