SPECIFICATION ClientFairSpec
CONSTANTS
  Socks = {s1, s2}
  NoSock = NoSock
  MaxSeq = 4
  MaxFaults = 1
INVARIANTS OnePathToServer
PROPERTIES ViewNeverGoesBack Reconnects WinIsShown
CHECK_DEADLOCK FALSE
