CONSTANTS
  j1 = j1  j2 = j2  k1 = k1  k2 = k2  p1 = p1 
  NoKey = NoKey
  Jobs = {j1, j2}
  Keys = {k1, k2}
  Home <- HomeOf
  Places = 1
  MaxFaults = 1
  MaxCrashes = 1
SPECIFICATION FairSpec
INVARIANTS TypeOK UploadReleased
PROPERTIES ImplementsLifecycle Settles
CHECK_DEADLOCK FALSE
