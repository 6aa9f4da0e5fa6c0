----------------------------- MODULE TrackerStore -----------------------------
(* The tracker's store: pkg/tracker/store.go under the HTTP handlers of        *)
(* pkg/tracker/handler.go and the cleanup loop of pkg/tracker/server.go.       *)
(*                                                                             *)
(* MySQL holds the files, the peers and which peer announced which file; Redis *)
(* caches, for each file hash, the file's record and the list of its peers.    *)
(* Every request has a goroutine of its own. It is one step up to each call of *)
(* MySQL or Redis, a MySQL transaction being one call; between two calls any   *)
(* other request may run. A write commits first and deletes the cache entry    *)
(* afterwards; a read that misses selects first and fills the entry            *)
(* afterwards. The result of a Redis call is not looked at: when Redis fails,  *)
(* a read misses, a deletion or a fill is lost. A request may end at any call: *)
(* its client has gone, MySQL fails, or the tracker is restarted. The tables   *)
(* and the cache survive that.                                                 *)
(*                                                                             *)
(* Time passes in ticks. A cached list of peers is gone after PeerTTL of them, *)
(* a request after RequestTTL: its client gives up, its context is cancelled   *)
(* and every further call fails.                                               *)
EXTENDS Naturals

CONSTANTS
  Hashes,
  PeerIDs,
  Records,       \* what may be registered for a hash
  Absent,        \* no record
  Requests,      \* requests served at a time
  LiveWindow,    \* GetPeers lists peers seen less than this long ago
  CleanupAfter,  \* CleanupStalePeers deletes peers not seen for longer
  PeerTTL,       \* life of a cached list of peers
  RequestTTL     \* life of a request

ASSUME AbsentAssumption == Absent \notin Records

\* Minutes in the code: 5, 10 and 1, and half a minute for a request.
ASSUME TimesAssumption ==
  /\ LiveWindow \in Nat \ {0}
  /\ CleanupAfter \in Nat
  /\ PeerTTL \in Nat
  /\ RequestTTL \in Nat
  /\ LiveWindow + RequestTTL + PeerTTL <= CleanupAfter + 1

VARIABLES
  files,      \* table files: the record of each hash, or Absent
  peers,      \* table peers: the peers that have a row
  lastSeen,   \* their age, in ticks since last_seen
  peerFiles,  \* table peer_files
  fileCache,  \* Redis file:<hash>
  listed,     \* the hashes whose list of peers is in Redis
  peerCache,  \* Redis peers:<hash>
  cacheAge,   \* ticks since peers:<hash> was set
  at,         \* at[r]: the call request r makes next
  hash,       \* hash[r]: the file it is about
  record,     \* record[r]: the record it has read
  found,      \* found[r]: the peers it has selected
  stale,      \* stale[r]: the lists of peers it has yet to delete
  age         \* age[r]: ticks since it began

tables == <<files, peers, lastSeen, peerFiles>>
peerLists == <<listed, peerCache, cacheAge>>
cache == <<fileCache, peerLists>>
request == <<at, hash, record, found, stale, age>>
vars == <<tables, cache, request>>

\* InitSchema makes empty tables; the cache is empty.
Init ==
  /\ files = [h \in Hashes |-> Absent]
  /\ peers = {}
  /\ lastSeen = [p \in PeerIDs |-> 0]
  /\ peerFiles = {}
  /\ fileCache = [h \in Hashes |-> Absent]
  /\ listed = {}
  /\ peerCache = [h \in Hashes |-> {}]
  /\ cacheAge = [h \in Hashes |-> 0]
  /\ at = [r \in Requests |-> "idle"]
  /\ hash \in [Requests -> Hashes]
  /\ record = [r \in Requests |-> Absent]
  /\ found = [r \in Requests |-> {}]
  /\ stale = [r \in Requests |-> {}]
  /\ age = [r \in Requests |-> 0]

\* Request r goes on to call c; a request that ends leaves nothing behind.
GoTo(r, c) == at' = [at EXCEPT ![r] = c]

End(r) ==
  /\ GoTo(r, "idle")
  /\ record' = [record EXCEPT ![r] = Absent]
  /\ found' = [found EXCEPT ![r] = {}]
  /\ stale' = [stale EXCEPT ![r] = {}]
  /\ age' = [age EXCEPT ![r] = 0]
-------------------------------------------------------------------------------
\* RegisterFile.

\* Insert the record or replace the one there is.
UpsertFile(r, h, new) ==
  /\ at[r] = "idle"
  /\ files' = [files EXCEPT ![h] = new]
  /\ GoTo(r, "forget file")
  /\ hash' = [hash EXCEPT ![r] = h]
  /\ UNCHANGED <<peers, lastSeen, peerFiles, cache, record, found, stale, age>>

ForgetFile(r) ==
  /\ at[r] = "forget file"
  /\ \/ fileCache' = [fileCache EXCEPT ![hash[r]] = Absent]
     \/ UNCHANGED fileCache
  /\ End(r)
  /\ UNCHANGED <<tables, peerLists, hash>>
-------------------------------------------------------------------------------
\* AnnouncePeer, which UpdateStatus calls too: peer p has exactly the files hs.
\* The foreign key of peer_files refuses a hash that is not registered, and the
\* transaction is rolled back; a refused request changes nothing.
Announce(r, p, hs) ==
  /\ at[r] = "idle"
  /\ \A h \in hs : files[h] # Absent
  /\ peers' = peers \cup {p}
  /\ lastSeen' = [lastSeen EXCEPT ![p] = 0]
  /\ peerFiles' = {pf \in peerFiles : pf[1] # p} \cup ({p} \X hs)
  /\ GoTo(r, "forget peers")
  /\ stale' = [stale EXCEPT ![r] = hs]
  /\ UNCHANGED <<files, cache, hash, record, found, age>>

\* Redis forgets the list of h.
DropList(h) ==
  /\ listed' = listed \ {h}
  /\ peerCache' = [peerCache EXCEPT ![h] = {}]
  /\ cacheAge' = [cacheAge EXCEPT ![h] = 0]

\* The lists of the announced files are deleted one by one.
ForgetPeers(r, h) ==
  /\ at[r] = "forget peers"
  /\ h \in stale[r]
  /\ stale' = [stale EXCEPT ![r] = @ \ {h}]
  /\ DropList(h) \/ UNCHANGED peerLists
  /\ UNCHANGED <<tables, fileCache, at, hash, record, found, age>>

Announced(r) ==
  /\ at[r] = "forget peers"
  /\ stale[r] = {}
  /\ End(r)
  /\ UNCHANGED <<tables, cache, hash>>
-------------------------------------------------------------------------------
\* Handler.GetPeers: GetFile, then GetPeers.

\* GetFile looks into the cache: a hit goes on to the peers.
ReadFileCache(r, h) ==
  /\ at[r] = "idle"
  /\ hash' = [hash EXCEPT ![r] = h]
  /\ \/ fileCache[h] # Absent /\ GoTo(r, "read peers")
     \/ GoTo(r, "select file")
  /\ UNCHANGED <<tables, cache, record, found, stale, age>>

\* A hash that is not registered is answered with 404.
SelectFile(r) ==
  /\ at[r] = "select file"
  /\ IF files[hash[r]] = Absent
     THEN End(r)
     ELSE /\ record' = [record EXCEPT ![r] = files[hash[r]]]
          /\ GoTo(r, "cache file")
          /\ UNCHANGED <<found, stale, age>>
  /\ UNCHANGED <<tables, cache, hash>>

CacheFile(r) ==
  /\ at[r] = "cache file"
  /\ \/ fileCache' = [fileCache EXCEPT ![hash[r]] = record[r]]
     \/ UNCHANGED fileCache
  /\ record' = [record EXCEPT ![r] = Absent]
  /\ GoTo(r, "read peers")
  /\ UNCHANGED <<tables, peerLists, hash, found, stale, age>>

\* GetPeers looks into the cache: a hit is answered.
ReadPeerCache(r) ==
  /\ at[r] = "read peers"
  /\ \/ hash[r] \in listed /\ End(r)
     \/ GoTo(r, "select peers") /\ UNCHANGED <<record, found, stale, age>>
  /\ UNCHANGED <<tables, cache, hash>>

\* The peers that announced h and have been seen lately.
Live(h) == {p \in peers : <<p, h>> \in peerFiles /\ lastSeen[p] < LiveWindow}

SelectPeers(r) ==
  /\ at[r] = "select peers"
  /\ found' = [found EXCEPT ![r] = Live(hash[r])]
  /\ GoTo(r, "cache peers")
  /\ UNCHANGED <<tables, cache, hash, record, stale, age>>

CachePeers(r) ==
  /\ at[r] = "cache peers"
  /\ \/ /\ listed' = listed \cup {hash[r]}
        /\ peerCache' = [peerCache EXCEPT ![hash[r]] = found[r]]
        /\ cacheAge' = [cacheAge EXCEPT ![hash[r]] = 0]
     \/ UNCHANGED peerLists
  /\ End(r)
  /\ UNCHANGED <<tables, fileCache, hash>>
-------------------------------------------------------------------------------
\* The request ends before its next call.
Abort(r) ==
  /\ at[r] # "idle"
  /\ End(r)
  /\ UNCHANGED <<tables, cache, hash>>

\* Fault: what GetPeers no longer lists is deleted at once.
OutOfWindow(p) == lastSeen[p] >= LiveWindow

Forgotten(p) == lastSeen[p] > CleanupAfter

\* Fault: peer_files has no cascade.
CleanupPeersOnly ==
  LET gone == {p \in peers : Forgotten(p)} IN
    /\ gone # {}
    /\ peers' = peers \ gone
    /\ UNCHANGED <<files, lastSeen, peerFiles, cache, request>>

\* CleanupStalePeers: the rows of peer_files go with those of peers. The cached
\* lists stay.
CleanupStalePeers ==
  LET gone == {p \in peers : Forgotten(p)} IN
    /\ gone # {}
    /\ peers' = peers \ gone
    /\ peerFiles' = {pf \in peerFiles : pf[1] \notin gone}
    /\ UNCHANGED <<files, lastSeen, cache, request>>

\* Fault: the file's entry is set without an expiry.
KeepFile(h) == FALSE /\ UNCHANGED vars

\* Fault: the list's entry is set without an expiry.
KeepPeers(h) == FALSE /\ UNCHANGED vars

\* A cache entry reaches the end of its life, or is evicted before.
ExpireFile(h) ==
  /\ fileCache[h] # Absent
  /\ fileCache' = [fileCache EXCEPT ![h] = Absent]
  /\ UNCHANGED <<tables, peerLists, request>>

ExpirePeers(h) ==
  /\ h \in listed
  /\ DropList(h)
  /\ UNCHANGED <<tables, fileCache, request>>

\* Time passes. The age of a peer is not counted beyond CleanupAfter + 1.
Tick ==
  /\ \A h \in listed : cacheAge[h] < PeerTTL
  /\ \A r \in Requests : at[r] # "idle" => age[r] < RequestTTL
  /\ lastSeen' = [p \in PeerIDs |->
       IF p \in peers /\ ~Forgotten(p) THEN lastSeen[p] + 1 ELSE lastSeen[p]]
  /\ cacheAge' = [h \in Hashes |->
       IF h \in listed THEN cacheAge[h] + 1 ELSE 0]
  /\ age' = [r \in Requests |-> IF at[r] # "idle" THEN age[r] + 1 ELSE 0]
  /\ UNCHANGED <<files, peers, peerFiles, fileCache, listed, peerCache, at,
                 hash, record, found, stale>>

\* What request r does once it has begun.
Continue(r) ==
  \/ ForgetFile(r)
  \/ Announced(r)
  \/ SelectFile(r)
  \/ CacheFile(r)
  \/ ReadPeerCache(r)
  \/ SelectPeers(r)
  \/ CachePeers(r)
  \/ \E h \in Hashes : ForgetPeers(r, h)

Begin(r) ==
  \/ \E h \in Hashes : ReadFileCache(r, h)
  \/ \E h \in Hashes, new \in Records : UpsertFile(r, h, new)
  \/ \E p \in PeerIDs, hs \in SUBSET Hashes : Announce(r, p, hs)

Next ==
  \/ \E r \in Requests : Begin(r) \/ Continue(r) \/ Abort(r)
  \/ \E h \in Hashes : ExpireFile(h) \/ ExpirePeers(h)
  \/ CleanupStalePeers
  \/ Tick

Spec == Init /\ [][Next]_vars

\* A request that has begun goes on, and a cache entry reaches the end of its
\* life. No client need come.
Fairness ==
  /\ \A r \in Requests : WF_vars(Continue(r))
  /\ \A h \in Hashes : WF_vars(ExpireFile(h)) /\ WF_vars(ExpirePeers(h))

FairSpec == Spec /\ Fairness
-------------------------------------------------------------------------------
\* The tables keep their foreign keys, and requests hold what their next call
\* needs.
TypeOK ==
  /\ files \in [Hashes -> Records \cup {Absent}]
  /\ peers \subseteq PeerIDs
  /\ lastSeen \in [PeerIDs -> 0..(CleanupAfter + 1)]
  /\ peerFiles \subseteq {pf \in peers \X Hashes : files[pf[2]] # Absent}
  /\ fileCache \in [Hashes -> Records \cup {Absent}]
  /\ listed \subseteq Hashes
  /\ peerCache \in [Hashes -> SUBSET PeerIDs]
  /\ cacheAge \in [Hashes -> 0..PeerTTL]
  /\ at \in [Requests -> {"idle", "forget file", "forget peers", "select file",
                          "cache file", "read peers", "select peers",
                          "cache peers"}]
  /\ hash \in [Requests -> Hashes]
  /\ record \in [Requests -> Records \cup {Absent}]
  /\ found \in [Requests -> SUBSET PeerIDs]
  /\ stale \in [Requests -> SUBSET Hashes]
  /\ age \in [Requests -> 0..RequestTTL]

\* What a request has selected, and what Redis lists, were live a known time ago.
SelectedInv ==
  \A r \in Requests : at[r] = "cache peers" =>
    \A p \in found[r] : p \in peers /\ lastSeen[p] < LiveWindow + age[r]

ListedInv ==
  \A h \in listed : \A p \in peerCache[h] :
    p \in peers /\ lastSeen[p] < LiveWindow + RequestTTL + cacheAge[h]

StoreInv == TypeOK /\ SelectedInv /\ ListedInv

\* The list of peers of h is answered from the cache without a look at the
\* tables, and CleanupStalePeers leaves the cache alone: still no answer ever
\* names a peer whose row is gone, nor one that has been silent for longer than
\* the times of the code add up to.
NoGhostPeers ==
  \A h \in listed : \A p \in peerCache[h] :
    p \in peers /\ lastSeen[p] < LiveWindow + RequestTTL + PeerTTL

\* A request may fill the cache with a record that was replaced after it had
\* selected it, and after the entry was deleted. Such an entry does not stay:
\* when a file is no longer registered anew, its cached record is right from
\* some time on.
StaleRecordExpires ==
  \A h \in Hashes, new \in Records :
    <>[](files[h] = new) => <>[](fileCache[h] \in {Absent, new})

\* The same of the peers of a file: once the peers that are live for it no
\* longer change, only these are answered. (An empty list cached just before
\* the first seeder announces itself hides it for the entry's life, no longer;
\* so does a deletion that Redis lost.)
StalePeersExpire ==
  \A h \in Hashes, live \in SUBSET PeerIDs :
    <>[](Live(h) = live) => <>[](h \in listed => peerCache[h] = live)
===============================================================================
