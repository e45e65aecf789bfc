SPECIFICATION PipelineSpec
CONSTANTS
  Rooms = {r1}
  Numbers = {1, 2}
  one = one
  two = two
  unwinnable = unwinnable
  leaking = leaking
  Contents = {one, two}
  Holds <- MCHolds
  Torn = Torn
  None = None
  Trim <- MCTrim
  Tools = {t1, t2}
  Runs = {n1}
  MaxBegun = 3
  MaxEdits = 1
  MaxFaults = 0
PROPERTIES PublishedContentIsFixed
SYMMETRY PipelineSymmetry
CHECK_DEADLOCK FALSE
