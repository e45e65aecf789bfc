SPECIFICATION WSFairSpec
CONSTANTS
  c1 = c1
  Conns = {c1}
  NoConn = NoConn
  Slow = {}
  Mute = {c1}
  Messages <- MCMessages
  DeltaCap = 1
  MaxSeq = 5
  MaxActs = 2
INVARIANTS NoDeltaLost AcceptedBeforeDelta
PROPERTIES SilentIsClosed
CHECK_DEADLOCK FALSE
