SPECIFICATION Spec
CONSTANTS
  Watchers = {w1}
  ChanCap = 2
  ConnCap = 2
  ProgCap = 1
  Nobody = Nobody
INVARIANTS
  CompletionTold
CHECK_DEADLOCK FALSE
