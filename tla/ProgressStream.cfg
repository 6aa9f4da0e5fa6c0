SPECIFICATION FairSpec
CONSTANTS
  Watchers = {w1, w2}
  ChanCap = 1
  ConnCap = 1
  ProgCap = 1
  Nobody = Nobody
INVARIANTS
  StreamInv
  VerdictHasCause
PROPERTIES
  StreamCloses
CHECK_DEADLOCK FALSE
