CONSTANTS
  p = p  q = q  c = c  d = d
  NoColumn = NoColumn  NoBook = NoBook  Nothing = Nothing
  Plates = {p, q}
  Columns = {c, d}
  MaxWords = 3
  MaxBuffer = 2
  Quirks = {"column", "interrupt", "silent", "repeat", "restart"}
SPECIFICATION Spec
SYMMETRY Symmetry
INVARIANTS TypeOK SyncAgrees MatchOfTurn
CHECK_DEADLOCK FALSE
