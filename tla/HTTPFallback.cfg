SPECIFICATION FairSpec
CONSTANTS
  a = a
  b = b
  c = c
  Hole = Hole
  Workers = {w1, w2, w3}
  MaxRetries = 3
  Origins <- MCOrigins
  Announced <- MCAnnounced
  Leftovers <- MCLeftovers
CHECK_DEADLOCK FALSE
INVARIANTS
  PoolInv
  NilMeansEveryChunk
  KeepsToBodies
PROPERTIES
  Returns
