SPECIFICATION Spec
CONSTANTS
  c1 = c1
  c2 = c2

  Calls = {c1, c2}
  Keys = {"fix"}
  r1 = r1
  Reqs = {r1}
  None = None
  Sim <- MCSim
  DurationTicks = 3
  DeltaCap = 1
  Ops = {"connect", "apply", "deltas", "wins"}
  MaxStates = 2
  MaxFaults = 0
  MaxCrashes = 0
  MaxRaces = 1
  MaxLog = 6
  MaxOrphans = 1
INVARIANTS SerializedPerRun
CHECK_DEADLOCK FALSE
