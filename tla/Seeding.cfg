SPECIFICATION FairSpec
CONSTANTS
  a = a
  k1 = k1
  Paths = {p1}
  Contents = {a}
  Chunks = {k1}
  ChunksOf <- MCChunksOf
  None = None
  Seeds = {s1, s2}
  Users = {u1}
  Watcher = Watcher
  MaxChanges = 1
  MaxCrashes = 1
INVARIANTS
  SeedingInv
  StoredBeforeSeeded
  UnseedHolds
  SeedSurvives
PROPERTIES
  DeletedFilesLeave
  SeedsEnd
