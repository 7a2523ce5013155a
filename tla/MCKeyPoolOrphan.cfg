CONSTANTS
  k1 = k1  k2 = k2  k3 = k3  k4 = k4
  c1 = c1  c2 = c2  adm = adm  adm2 = adm2
  NoKey = NoKey
  Keys = {k1, k2}
  StartOrder <- TwoKeys
  Clients = {c1}
  Admins = {}
  MidnightRaises = TRUE
SPECIFICATION Spec
INVARIANTS KeyKept

