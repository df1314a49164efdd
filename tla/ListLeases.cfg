SPECIFICATION Spec
CONSTANTS
  c = c
  v = v
  w1 = w1
  w2 = w2
  Posters <- MCPosters
  Clients <- MCClients
  Workers <- MCWorkers
  Timeout = 2
  MaxSpan = 1
  Repost = 0
  Grace = 1
  MaxPosts = 1
  Calls <- MCCalls
  Asked <- MCAsked
SYMMETRY MCSymmetry
CONSTRAINT MCBound
INVARIANT TypeOK
INVARIANT NoneLongExpired
INVARIANT FileWhole
INVARIANT KeptAlive
PROPERTY ServesLeases
PROPERTY BrokenForGood
CHECK_DEADLOCK FALSE
