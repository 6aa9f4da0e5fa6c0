SPECIFICATION AllSpec
CONSTANTS
  Hashes = {h1, h2}
  PeerIDs = {self}
  Records = {new}
  Absent = Absent
  Requests = {r1}
  LiveWindow = 7
  CleanupAfter = 8
  PeerTTL = 1
  RequestTTL = 1
  Self = self
  AnnounceEvery = 2
INVARIANT SeededAreListed
