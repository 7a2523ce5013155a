CONSTANTS
  k1 = k1  k2 = k2  k3 = k3  k4 = k4
  c1 = c1  c2 = c2  adm = adm  adm2 = adm2
  NoKey = NoKey
  Keys = {k1, k2}
  StartOrder <- OneKey
  Clients = {c1, c2}
  Admins = {adm, adm2}
  MidnightRaises = TRUE
SPECIFICATION Spec
INVARIANTS TypeOK RotationSound

SYMMETRY ActorSymmetry
