SPECIFICATION Spec
CONSTANTS
  Requests = {q1, q2}
  Devices = {d1}
  None = None
  Cycle = 2
  MaxTime = 3
  MaxRequests = 2
  MaxUsage = 0
PROPERTY PromotedInstead
CHECK_DEADLOCK FALSE
