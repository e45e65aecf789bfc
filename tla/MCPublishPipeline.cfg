SPECIFICATION PipelineSpec
CONSTANTS
  Rooms = {r1}
  Numbers = {1, 2}
  one = one
  two = two
  unwinnable = unwinnable
  leaking = leaking
  Contents = {one, two, unwinnable, leaking}
  Holds <- MCHolds
  Torn = Torn
  None = None
  Trim <- MCTrim
  Tools = {t1, t2}
  Runs = {n1}
  MaxBegun = 2
  MaxEdits = 1
  MaxFaults = 1
INVARIANTS PublishedIsStored StoredUnderItsHash SuccessIsPublished RunKeepsItsBundle RefusedForCause
SYMMETRY PipelineSymmetry
CHECK_DEADLOCK FALSE
