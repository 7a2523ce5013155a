SPECIFICATION Spec
CONSTANTS
  Users = {u1, u2}
  AdminUsers = {u1}
  Groups = {g1}
  None = None
  Plates = {p1}
  Names = {n1}
  Limits = {1, 2}
  Importers = {i1, i2}
  Checkers = {c1}
  Admins = {a1, a2}
  MaxRequests = 3
  MaxFailures = 1
SYMMETRY Symmetry
INVARIANTS
  TypeOK
  MirrorAgrees
  GroupQuota
  ImportsSound
  CheckSound
CHECK_DEADLOCK FALSE
