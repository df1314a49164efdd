SPECIFICATION FairSpec
CONSTANTS
  c1 = c1
  c2 = c2
  n1 = n1
  n2 = n2
  Clients <- MCClients
  Nodes <- MCNodes
  Owner <- MCOwnerBatch
  Ordered = TRUE
  Prompt = TRUE
  MaxBreaks = 1
  MaxCrashes = 0
  MaxQuits = 0
INVARIANT NoStaleCopy
PROPERTY Converges
CHECK_DEADLOCK FALSE
