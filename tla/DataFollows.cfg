SPECIFICATION FairSpec
CONSTANTS
  p1 = p1
  p2 = p2
  Peers <- MCPeers
  MaxValue = 2
  Reverts = FALSE
  MaxBreaks = 1
INVARIANT TypeOK
INVARIANT PeersUpToDate
INVARIANT ServerUpToDate
INVARIANT UnsetIsPassing
PROPERTY ImplementsShared
PROPERTY Converges
CHECK_DEADLOCK FALSE
