SPECIFICATION FairSpec
CONSTANTS
  c1 = c1
  c2 = c2

  Calls = {c1, c2}
  Keys = {"fix", "bogus"}
  r1 = r1
  Reqs = {r1}
  None = None
  Sim <- MCSim
  DurationTicks = 3
  DeltaCap = 2
  Ops = {"connect", "apply", "deltas", "wins"}
  MaxStates = 1
  MaxFaults = 1
  MaxCrashes = 0
  MaxRaces = 0
  MaxLog = 6
  MaxOrphans = 1
PROPERTIES RunsEnd CallsReturn WinIsTold
CHECK_DEADLOCK FALSE
