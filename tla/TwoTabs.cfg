SPECIFICATION WSFairSpec
CONSTANTS
  c1 = c1
  c2 = c2
  Conns = {c1, c2}
  NoConn = NoConn
  Slow = {c1}
  Mute = {}
  Messages <- FewMessages
  DeltaCap = 1
  MaxSeq = 2
  MaxActs = 1
INVARIANTS OneConnection
PROPERTIES ClosedIsReleased
CHECK_DEADLOCK FALSE
