SPECIFICATION FairSpec
CONSTANTS
  Hashes = {h1}
  PeerIDs = {p1}
  Records = {old, new}
  Absent = Absent
  Requests = {r1, r2}
  LiveWindow = 1
  CleanupAfter = 2
  PeerTTL = 1
  RequestTTL = 1
CHECK_DEADLOCK FALSE
INVARIANTS
  StoreInv
  NoGhostPeers
PROPERTIES
  StaleRecordExpires
  StalePeersExpire
