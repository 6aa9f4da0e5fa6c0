SPECIFICATION FairSpec
CONSTANTS
  a = a
  b = b
  Damaged = Damaged
  Chunks = {a, b}
  Files <- MCFiles
  Records <- MCRecords
  Peers = {p1, p2}
CHECK_DEADLOCK FALSE
INVARIANTS
  RepeatedChunksForceHTTP
  EntryMatchesTransfer
  DownloadInv
PROPERTIES
  DeliversVerified
  Termination
