SPECIFICATION MutSpec
CONSTANTS
  c1 = c1
  c2 = c2
  c3 = c3
  Calls = {c1, c2, c3}
  ann = ann
  bob = bob
  i = i
  padded = padded
  malformed = malformed
  UUIDs = {i}
  Trim <- MCTrim
  h = h
  A = A
  B = B
  C = C
  Rooms = {A, B, C, Blank}
  Published <- MCPublished
  Requests <- MCRequests
  NoVersion = 0
  Null = Null
  Blank = Blank
  MaxFaults = 1
  MaxCrashes = 1
  MaxOrphans = 1
SYMMETRY Symmetry
INVARIANTS OneAnswer OneRun ReservationHasOwner AnsweredRunIsRight PublishActivates
CHECK_DEADLOCK FALSE
