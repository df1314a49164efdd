SPECIFICATION Spec
CONSTANTS
  Slots = 1
  MaxFaults = 2
  MaxMishaps = 1
  Rate = 3
  Buffer = 2
  NumSeconds = 4
  Extra = 3
  Width = 64
  Startups <- MCStartups
INVARIANT TypeOK
INVARIANT TakeFits
INVARIANT BeliefSound
PROPERTY Reconnects
CHECK_DEADLOCK FALSE
