CONSTANTS
  p1 = p1
  p2 = p2
  i1 = i1
  i2 = i2
  i3 = i3
  Peers <- OnePeer
  Ids <- ThreeIds
  Types <- MCTypes
  PerNode <- MCPerNode
  FreshIds = TRUE
  MaxMade = 3
  MaxOutages = 1
SPECIFICATION Spec
INVARIANTS TypeOK EntriesHeld NoEmptyEntry ListedExactly ReportedIsHeld ListedIsFound
SYMMETRY Swaps
CHECK_DEADLOCK FALSE
