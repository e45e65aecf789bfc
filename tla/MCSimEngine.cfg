SPECIFICATION LiveSpec
CONSTANTS
  r1 = r1
  None = None
  Sims <- MCSims
  Reqs <- MCReqs
  OtherKeys <- MCOtherKeys
  MaxEntries = 6
INVARIANTS ReplayReproduces DriftIsClamped
PROPERTIES LatestActionDrives
CHECK_DEADLOCK FALSE
