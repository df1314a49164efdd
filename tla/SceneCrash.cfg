SPECIFICATION Spec
CONSTANTS
  c1 = c1
  c2 = c2
  n1 = n1
  n2 = n2
  Clients <- MCClients
  Nodes <- MCNodes
  Owner <- MCOwner
  Ordered = FALSE
  Prompt = TRUE
  MaxBreaks = 0
  MaxCrashes = 1
  MaxQuits = 1
INVARIANT TypeOK
INVARIANT ServerBeliefSound
INVARIANT ConstructionHasConnection
PROPERTY ServerDropsForCause
CHECK_DEADLOCK FALSE
