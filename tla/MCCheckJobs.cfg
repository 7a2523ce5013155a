CONSTANTS
  j1 = j1  j2 = j2  j3 = j3
  w1 = w1  w2 = w2
  p1 = p1  p2 = p2
  NoJob = NoJob
  Jobs <- ThreeJobs
  StoredJobs = {j2}
  Procs = {p1, p2}
  Workers = {w1, w2}
  Front <- FrontOf
  Home <- HomeOf
  MaxDepth = 1
  MaxFaults = 1
  MaxEnds = 1
SPECIFICATION Spec
INVARIANTS OnePlace InputsPresent SettledIsOver
PROPERTY ImplementsLifecycle
CHECK_DEADLOCK FALSE
