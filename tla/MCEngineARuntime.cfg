SPECIFICATION Spec
CONSTANTS
  c1 = c1
  c2 = c2

  Calls = {c1, c2}
  Keys = {"fix", "bogus"}
  r1 = r1
  Reqs = {r1}
  None = None
  Sim <- MCSim
  DurationTicks = 4
  DeltaCap = 1
  Ops = {"connect", "apply", "deltas", "wins"}
  MaxStates = 2
  MaxFaults = 1
  MaxCrashes = 1
  MaxRaces = 1
  MaxLog = 5
  MaxOrphans = 1
SYMMETRY Symmetry
INVARIANTS OneTickLoop EngineIsReplayOfApplied RebuildsFromLog AcceptedIsLogged DeltasIncrease SubscribersAreOpen
PROPERTIES CallsAreAtomic
CHECK_DEADLOCK FALSE
