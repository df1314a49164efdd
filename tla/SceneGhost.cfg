SPECIFICATION Spec
CONSTANTS
  c1 = c1
  c2 = c2
  n1 = n1
  n2 = n2
  Clients <- MCClients
  Nodes <- MCNodes
  Owner <- MCOwner
  Ordered = TRUE
  Prompt = TRUE
  MaxBreaks = 0
  MaxCrashes = 0
  MaxQuits = 0
INVARIANT NoGhost
CHECK_DEADLOCK FALSE
