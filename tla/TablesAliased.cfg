CONSTANTS
  p1 = p1
  p2 = p2
  i1 = i1
  i2 = i2
  i3 = i3
  Peers <- OnePeer
  Ids <- ThreeIds
  Types <- TwoTypes
  PerNode <- OnePerNode
  FreshIds = FALSE
  MaxMade = 3
  MaxOutages = 0
SPECIFICATION Spec
INVARIANT EntriesHeld
CHECK_DEADLOCK FALSE
