SPECIFICATION Spec
CONSTANTS
  c1 = c1
  c2 = c2
  n1 = n1
  n2 = n2
  Clients <- MCClients
  Nodes <- MCNodes
  Owner <- MCOwner
  Ordered = TRUE
  Prompt = FALSE
  MaxBreaks = 1
  MaxCrashes = 0
  MaxQuits = 1
INVARIANT NoEcho
INVARIANT OneReplicaPerNode
INVARIANT AssignedIdHolds
INVARIANT GhostsOnlyFromEarlyRemovals
PROPERTY CopyDropsForCause
PROPERTY OwnNodesDoomedForCause
CHECK_DEADLOCK FALSE
