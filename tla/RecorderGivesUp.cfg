SPECIFICATION Spec
CONSTANTS
  Slots = 1
  MaxFaults = 0
  MaxMishaps = 0
  Rate = 3
  Buffer = 2
  NumSeconds = 4
  Extra = 3
  Width = 64
  Startups <- MCStartups
PROPERTY FailedIsRetried
CHECK_DEADLOCK FALSE
