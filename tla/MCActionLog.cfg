SPECIFICATION LogSpec
CONSTANTS
  p1 = p1
  p2 = p2
  k1 = k1
  k2 = k2
  r1 = r1
  r2 = r2
  Appenders = {p1, p2, p3}
  p3 = p3
  Keys = {k1, k2}
  Reqs = {r1, r2}
  None = None
  MaxLog = 2
  MaxOrphans = 1
SYMMETRY Symmetry
INVARIANTS NoGaps OneRowPerRequest OkIsDurable ConflictIsReal
PROPERTIES RowsAreFinal
