SPECIFICATION AccessSpec
CONSTANTS
  Accounts = {alice, bob}
  System = System
  Nobody = Nobody
  None = None
  Admins = {System}
  Requests = {q1, q2}
  Sessions = {i1, i2}
  runA = runA
  runB = runB
  Runs = {runA, runB}
  EngineOf <- MCEngineOf
  PerSec = 2
  SessionTTL = 2
  RunTokenTTL = 2
  MaxNow = 3
  MaxSent = 4
  MaxFaults = 1
INVARIANTS AuthIsExact TokenLife LoggedOutIsShown
SYMMETRY AccessSymmetry
CHECK_DEADLOCK FALSE
