SPECIFICATION FairSpec
CONSTANTS
  Users = {u1, u2}
  MaxProcs = 2
  Empty = Empty
  None = None
INVARIANTS
  ProcessInv
  StoppedIsGone
PROPERTIES
  CommandsReturn
