SPECIFICATION Spec
CONSTANTS
  p1 = p1
  p2 = p2
  Peers <- MCPeers
  MaxValue = 2
  Reverts = TRUE
  MaxBreaks = 0
INVARIANT PeersUpToDate
CHECK_DEADLOCK FALSE
