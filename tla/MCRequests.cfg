SPECIFICATION RequestsSpec
CONSTANTS
  Requests = {q1, q2}
  Devices = {d1, d2}
  None = None
  Cycle = 2
  MaxTime = 5
  MaxRequests = 3
  MaxUsage = 1
  Tickets = {t1}
  Uploads = {u1, u2}
  Procs = {p1, p2}
  PruneAt = 2
  MaxLosses = 2
  PlateTexts = {a, b}
  TempRequests = {r1, r2}
  Nobody = Nobody
  Ttl = 1
  MaxClock = 2
  MaxBegun = 3
  LargeRows <- TwoRows
  SmallRows <- FourRows
  Headers <- HeaderRows
  AskedColumns = {"", "code"}
  SampleSize = 3
  BatchSize = 2
  PreviewSize = 2
  MaxLarge = 3
  MaxSmall = 4
SYMMETRY Symmetry
INVARIANTS
  RequestsTypeOK
  PaidKept
  NoFreeTime
  TokensSound
  TakenOnce
  TempSound
  MatchSound
  KeysStable
PROPERTY UsageKept
CHECK_DEADLOCK FALSE
