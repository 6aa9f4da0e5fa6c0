-------------------------- MODULE TrackerProofs --------------------------
(* What the tracker holds and what it tells: the requests it answers, the      *)
(* announcements of its seeders and the settings of its operator.              *)
(*                                                                             *)
(* Whatever the number of hashes, peers and requests, and whatever the times   *)
(* are as long as they add up as TimesAssumption and AnnounceAssumption say,   *)
(* the tracker never answers with a peer that it has forgotten, lists a seeder *)
(* it keeps hearing and stops listing what the seeder has given up. Whatever   *)
(* the daemons, settings and limits, a daemon that has been told everything    *)
(* holds back what the operator restricts.                                     *)
EXTENDS SeederAnnouncements, ControlPlane, SequenceTheorems, FiniteSetTheorems,
        TLAPS

\* The times are natural numbers, and the window is not empty.
LEMMA Times ==
  /\ LiveWindow \in Nat /\ CleanupAfter \in Nat
  /\ PeerTTL \in Nat /\ RequestTTL \in Nat
  /\ 0 < LiveWindow
  BY TimesAssumption

LEMMA ZeroAges ==
  0 \in 0..PeerTTL /\ 0 \in 0..RequestTTL /\ 0 \in 0..(CleanupAfter + 1)
  BY Times

\* Ages are natural numbers.
LEMMA Ages ==
  ASSUME TypeOK
  PROVE  /\ \A p \in PeerIDs : lastSeen[p] \in Nat
         /\ \A r \in Requests : age[r] \in Nat /\ age[r] <= RequestTTL
         /\ \A h \in Hashes : cacheAge[h] \in Nat /\ cacheAge[h] <= PeerTTL
<1>1. /\ lastSeen \in [PeerIDs -> 0..(CleanupAfter + 1)]
      /\ age \in [Requests -> 0..RequestTTL]
      /\ cacheAge \in [Hashes -> 0..PeerTTL]
  BY DEF TypeOK
<1>2. \A p \in PeerIDs : lastSeen[p] \in 0..(CleanupAfter + 1)
  BY <1>1
<1>3. \A r \in Requests : age[r] \in 0..RequestTTL
  BY <1>1
<1>4. \A h \in Hashes : cacheAge[h] \in 0..PeerTTL
  BY <1>1
<1>5. QED
  BY <1>2, <1>3, <1>4, Times

\* Empty tables and an empty cache.
LEMMA InitStoreInv == Init => StoreInv
  BY TimesAssumption
  DEF Init, StoreInv, TypeOK, SelectedInv, ListedInv

\* A request that ends keeps the types and holds nothing.
LEMMA EndTyped ==
  ASSUME TypeOK, NEW r \in Requests, End(r)
  PROVE  /\ at' \in [Requests -> {"idle", "forget file", "forget peers",
                                  "select file", "cache file", "read peers",
                                  "select peers", "cache peers"}]
         /\ record' \in [Requests -> Records \cup {Absent}]
         /\ found' \in [Requests -> SUBSET PeerIDs]
         /\ stale' \in [Requests -> SUBSET Hashes]
         /\ age' \in [Requests -> 0..RequestTTL]
<1>0. 0 \in 0..RequestTTL
  BY TimesAssumption
<1> USE DEF TypeOK, End, GoTo
<1>1. at' \in [Requests -> {"idle", "forget file", "forget peers",
                           "select file", "cache file", "read peers",
                           "select peers", "cache peers"}]
  OBVIOUS
<1>2. record' \in [Requests -> Records \cup {Absent}]
  OBVIOUS
<1>3. found' \in [Requests -> SUBSET PeerIDs]
  OBVIOUS
<1>4. stale' \in [Requests -> SUBSET Hashes]
  OBVIOUS
<1>5. age' \in [Requests -> 0..RequestTTL]
  BY <1>0, Zenon
<1>6. QED
  BY <1>1, <1>2, <1>3, <1>4, <1>5

\* Ending a request disturbs no other one.
LEMMA EndSelected ==
  ASSUME TypeOK, SelectedInv, NEW r \in Requests, End(r),
         UNCHANGED <<peers, lastSeen>>
  PROVE  SelectedInv'
  BY DEF TypeOK, SelectedInv, End, GoTo

\* Redis may forget a list.
LEMMA DropListKeeps ==
  ASSUME TypeOK, ListedInv, NEW h \in Hashes,
         DropList(h) \/ UNCHANGED peerLists, UNCHANGED <<peers, lastSeen>>
  PROVE  /\ listed' \subseteq Hashes
         /\ peerCache' \in [Hashes -> SUBSET PeerIDs]
         /\ cacheAge' \in [Hashes -> 0..PeerTTL]
         /\ ListedInv'
<1>1. CASE DropList(h)
  <2>1. listed' \subseteq Hashes
    BY <1>1 DEF TypeOK, DropList
  <2>2. peerCache' \in [Hashes -> SUBSET PeerIDs]
    BY <1>1 DEF TypeOK, DropList
  <2>3. cacheAge' \in [Hashes -> 0..PeerTTL]
    <3>1. 0 \in 0..PeerTTL
      BY TimesAssumption
    <3>2. QED
      BY <1>1, <3>1, Zenon DEF TypeOK, DropList
  <2>4. \A g \in listed' : g \in listed /\ peerCache'[g] = peerCache[g]
                              /\ cacheAge'[g] = cacheAge[g]
    BY <1>1 DEF TypeOK, DropList
  <2>5. ListedInv'
    BY <2>4 DEF ListedInv
  <2>6. QED
    BY <2>1, <2>2, <2>3, <2>5
<1>2. CASE UNCHANGED peerLists
  BY <1>2 DEF TypeOK, ListedInv, peerLists
<1>3. QED
  BY <1>1, <1>2

\* A request that ends; Redis may have lost or gained a file's record.
LEMMA EndKeeps ==
  ASSUME StoreInv, NEW r \in Requests, End(r),
         UNCHANGED <<tables, peerLists, hash>>,
         fileCache' \in [Hashes -> Records \cup {Absent}]
  PROVE  StoreInv'
<1> USE DEF StoreInv
<1>1. TypeOK'
  <2>1. UNCHANGED <<files, peers, lastSeen, peerFiles, listed, peerCache,
                    cacheAge, hash>>
    BY DEF tables, peerLists
  <2>2. QED
    BY <2>1, EndTyped DEF TypeOK
<1>2. SelectedInv'
  BY EndSelected DEF tables
<1>3. ListedInv'
  BY DEF ListedInv, tables, peerLists
<1>4. QED
  BY <1>1, <1>2, <1>3

\* Steps that neither select peers nor touch a list need only keep the types.
LEMMA MoveKeeps ==
  ASSUME StoreInv, TypeOK',
         UNCHANGED <<peers, lastSeen, listed, peerCache, cacheAge, found, age>>,
         \A r \in Requests : at'[r] = "cache peers" => at[r] = "cache peers"
  PROVE  StoreInv'
  BY DEF StoreInv, SelectedInv, ListedInv

\* A file is registered, anew or for the first time.
LEMMA UpsertFileKeeps ==
  ASSUME StoreInv, NEW r \in Requests, NEW h \in Hashes, NEW new \in Records,
         UpsertFile(r, h, new)
  PROVE  StoreInv'
<1> USE DEF StoreInv, UpsertFile, GoTo, cache, peerLists
<1>1. TypeOK'
  <2>1. peerFiles' \subseteq {pf \in peers' \X Hashes : files'[pf[2]] # Absent}
    BY AbsentAssumption DEF TypeOK
  <2>2. files' \in [Hashes -> Records \cup {Absent}]
    BY DEF TypeOK
  <2>3. /\ hash' \in [Requests -> Hashes]
        /\ at' \in [Requests -> {"idle", "forget file", "forget peers",
                                "select file", "cache file", "read peers",
                                "select peers", "cache peers"}]
    BY DEF TypeOK
  <2>4. QED
    BY <2>1, <2>2, <2>3 DEF TypeOK
<1>2. SelectedInv'
  BY DEF TypeOK, SelectedInv
<1>3. ListedInv'
  BY DEF ListedInv
<1>4. QED
  BY <1>1, <1>2, <1>3

\* An announcement makes peers younger and forgets none.
LEMMA AnnounceKeeps ==
  ASSUME StoreInv, NEW r \in Requests, NEW p \in PeerIDs,
         NEW hs \in SUBSET Hashes, Announce(r, p, hs)
  PROVE  StoreInv'
<1> USE DEF StoreInv, Announce, GoTo, cache, peerLists
<1>1. TypeOK'
  <2>1. peerFiles' \subseteq {pf \in peers' \X Hashes : files'[pf[2]] # Absent}
    BY DEF TypeOK
  <2>2. lastSeen' \in [PeerIDs -> 0..(CleanupAfter + 1)]
    BY ZeroAges, Zenon DEF TypeOK
  <2>3. stale' \in [Requests -> SUBSET Hashes] /\ peers' \subseteq PeerIDs
    BY DEF TypeOK
  <2>4. at' \in [Requests -> {"idle", "forget file", "forget peers",
                             "select file", "cache file", "read peers",
                             "select peers", "cache peers"}]
    BY DEF TypeOK
  <2>5. QED
    BY <2>1, <2>2, <2>3, <2>4 DEF TypeOK
<1>2. /\ \A q \in PeerIDs : lastSeen'[q] = IF q = p THEN 0 ELSE lastSeen[q]
      /\ peers \subseteq peers'
      /\ \A s \in Requests : at'[s] = "cache peers" => at[s] = "cache peers"
      /\ UNCHANGED <<found, age, listed, peerCache, cacheAge>>
  BY DEF TypeOK
<1> HIDE DEF Announce, GoTo, cache, peerLists, StoreInv
<1>3. SelectedInv'
  <2>1. SUFFICES ASSUME NEW s \in Requests, at'[s] = "cache peers",
                        NEW q \in found'[s]
                 PROVE  q \in peers' /\ lastSeen'[q] < LiveWindow + age'[s]
    BY DEF SelectedInv
  <2>2. q \in peers /\ q \in PeerIDs /\ q \in peers'
    BY <1>2, <2>1 DEF StoreInv, SelectedInv, TypeOK
  <2>3. lastSeen[q] < LiveWindow + age[s]
    BY <1>2, <2>1 DEF StoreInv, SelectedInv
  <2>4. age[s] \in Nat /\ age'[s] = age[s] /\ lastSeen[q] \in Nat
    BY <1>2, <2>2, Ages DEF StoreInv
  <2>5. lastSeen'[q] = 0 \/ lastSeen'[q] = lastSeen[q]
    BY <1>2, <2>2
  <2>6. lastSeen'[q] < LiveWindow + age'[s]
    BY <2>3, <2>4, <2>5, Times
  <2>7. QED
    BY <2>2, <2>6
<1>4. ListedInv'
  <2>1. SUFFICES ASSUME NEW h \in listed', NEW q \in peerCache'[h]
                 PROVE  /\ q \in peers'
                        /\ lastSeen'[q] < LiveWindow + RequestTTL + cacheAge'[h]
    BY DEF ListedInv
  <2>2. q \in peers /\ q \in PeerIDs /\ h \in Hashes /\ q \in peers'
    BY <1>2, <2>1 DEF StoreInv, ListedInv, TypeOK
  <2>3. lastSeen[q] < LiveWindow + RequestTTL + cacheAge[h]
    BY <1>2, <2>1 DEF StoreInv, ListedInv
  <2>4. cacheAge[h] \in Nat /\ cacheAge'[h] = cacheAge[h] /\ lastSeen[q] \in Nat
    BY <1>2, <2>2, Ages DEF StoreInv
  <2>5. lastSeen'[q] = 0 \/ lastSeen'[q] = lastSeen[q]
    BY <1>2, <2>2
  <2>6. lastSeen'[q] < LiveWindow + RequestTTL + cacheAge'[h]
    BY <2>3, <2>4, <2>5, Times
  <2>7. QED
    BY <2>2, <2>6
<1>5. QED
  BY <1>1, <1>3, <1>4 DEF StoreInv

\* A request fills the list of a file with what it has selected.
LEMMA CachePeersKeeps ==
  ASSUME StoreInv, NEW r \in Requests, CachePeers(r)
  PROVE  StoreInv'
<1> USE DEF StoreInv
<1>0. UNCHANGED <<files, peers, lastSeen, peerFiles, fileCache, hash>> /\ End(r)
  BY DEF CachePeers, tables
<1>1. CASE UNCHANGED peerLists
  BY <1>0, <1>1, EndKeeps DEF tables, TypeOK
<1>2. CASE /\ listed' = listed \cup {hash[r]}
           /\ peerCache' = [peerCache EXCEPT ![hash[r]] = found[r]]
           /\ cacheAge' = [cacheAge EXCEPT ![hash[r]] = 0]
  <2>0. 0 \in 0..PeerTTL /\ hash[r] \in Hashes /\ found[r] \in SUBSET PeerIDs
    BY ZeroAges DEF TypeOK
  <2>1. cacheAge' \in [Hashes -> 0..PeerTTL]
    BY <1>2, <2>0, Zenon DEF TypeOK
  <2>2. peerCache' \in [Hashes -> SUBSET PeerIDs] /\ listed' \subseteq Hashes
    BY <1>2, <2>0 DEF TypeOK
  <2>3. TypeOK'
    BY <1>0, <2>1, <2>2, EndTyped DEF TypeOK
  <2>4. SelectedInv'
    BY <1>0, EndSelected
  <2>5. ListedInv'
    <3>1. SUFFICES ASSUME NEW h \in listed', NEW q \in peerCache'[h]
                   PROVE  /\ q \in peers
                          /\ lastSeen[q] < LiveWindow + RequestTTL + cacheAge'[h]
      BY <1>0 DEF ListedInv
    <3>2. CASE h = hash[r]
      <4>1. q \in found[r]
        BY <1>2, <2>0, <3>1, <3>2 DEF TypeOK
      <4>2. cacheAge'[h] = 0
        BY <1>2, <2>0, <3>2 DEF TypeOK
      <4>3. age[r] \in Nat /\ age[r] <= RequestTTL
        BY Ages
      <4>4. lastSeen[q] < LiveWindow + age[r]
        BY <4>1 DEF SelectedInv, CachePeers
      <4>5. q \in peers
        BY <4>1 DEF SelectedInv, CachePeers
      <4>6. lastSeen[q] \in Nat
        BY <4>5, Ages DEF TypeOK
      <4>7. lastSeen[q] < LiveWindow + RequestTTL + cacheAge'[h]
        BY <4>2, <4>3, <4>4, <4>6, Times
      <4>8. QED
        BY <4>5, <4>7
    <3>3. CASE h # hash[r]
      BY <1>2, <3>1, <3>3 DEF ListedInv, TypeOK
    <3>4. QED
      BY <3>2, <3>3
  <2>6. QED
    BY <2>3, <2>4, <2>5
<1>3. QED
  BY <1>1, <1>2 DEF CachePeers

\* No peer that a request has selected or that Redis lists is old enough to be
\* cleaned up: TimesAssumption leaves room for the window, the life of a request
\* and the life of a list.
LEMMA CleanupKeeps ==
  ASSUME StoreInv, CleanupStalePeers
  PROVE  StoreInv'
<1> DEFINE gone == {p \in peers : Forgotten(p)}
<1>1. /\ peers' = peers \ gone
      /\ peerFiles' = {pf \in peerFiles : pf[1] \notin gone}
      /\ UNCHANGED <<files, lastSeen, fileCache, listed, peerCache, cacheAge,
                     at, hash, record, found, stale, age>>
  BY DEF CleanupStalePeers, cache, peerLists, request
<1>2. TypeOK'
  <2>1. peerFiles' \subseteq {pf \in peers' \X Hashes : files'[pf[2]] # Absent}
    BY <1>1 DEF StoreInv, TypeOK
  <2>2. peers' \subseteq PeerIDs
    BY <1>1 DEF StoreInv, TypeOK
  <2>3. QED
    BY <1>1, <2>1, <2>2 DEF StoreInv, TypeOK
<1>3. ASSUME NEW p \in peers, lastSeen[p] < LiveWindow + RequestTTL + PeerTTL
      PROVE  p \in peers'
  <2>1. LiveWindow + RequestTTL + PeerTTL <= CleanupAfter + 1
    BY TimesAssumption
  <2>2. lastSeen[p] \in Nat
    BY Ages DEF StoreInv, TypeOK
  <2>3. ~ (lastSeen[p] > CleanupAfter)
    BY <1>3, <2>1, <2>2, Times
  <2>4. QED
    BY <1>1, <2>3 DEF Forgotten
<1>4. SelectedInv'
  <2>1. SUFFICES ASSUME NEW s \in Requests, at[s] = "cache peers",
                        NEW q \in found[s]
                 PROVE  q \in peers' /\ lastSeen[q] < LiveWindow + age[s]
    BY <1>1 DEF SelectedInv
  <2>2. q \in peers
    BY <2>1 DEF StoreInv, SelectedInv
  <2>3. lastSeen[q] < LiveWindow + age[s]
    BY <2>1 DEF StoreInv, SelectedInv
  <2>4. lastSeen[q] \in Nat /\ age[s] \in Nat /\ age[s] <= RequestTTL
    BY <2>2, Ages DEF StoreInv, TypeOK
  <2>5. lastSeen[q] < LiveWindow + RequestTTL + PeerTTL
    BY <2>3, <2>4, Times
  <2>6. QED
    BY <1>3, <2>2, <2>3, <2>5
<1>5. ListedInv'
  <2>1. SUFFICES ASSUME NEW h \in listed, NEW q \in peerCache[h]
                 PROVE  /\ q \in peers'
                        /\ lastSeen[q] < LiveWindow + RequestTTL + cacheAge[h]
    BY <1>1 DEF ListedInv
  <2>2. q \in peers
    BY <2>1 DEF StoreInv, ListedInv
  <2>3. lastSeen[q] < LiveWindow + RequestTTL + cacheAge[h]
    BY <2>1 DEF StoreInv, ListedInv
  <2>4. lastSeen[q] \in Nat /\ cacheAge[h] \in Nat /\ cacheAge[h] <= PeerTTL
    BY <2>2, Ages DEF StoreInv, TypeOK
  <2>5. lastSeen[q] < LiveWindow + RequestTTL + PeerTTL
    BY <2>3, <2>4, Times
  <2>6. QED
    BY <1>3, <2>2, <2>3, <2>5
<1>6. QED
  BY <1>2, <1>4, <1>5 DEF StoreInv

\* Peers, lists and requests grow old together.
LEMMA TickKeeps ==
  ASSUME StoreInv, Tick
  PROVE  StoreInv'
<1>0. TypeOK /\ UNCHANGED <<files, peers, peerFiles, fileCache, listed,
                            peerCache, at, hash, record, found, stale>>
  BY DEF StoreInv, Tick
<1>1. /\ lastSeen' \in [PeerIDs -> 0..(CleanupAfter + 1)]
      /\ \A p \in PeerIDs : lastSeen'[p] \in Nat /\ lastSeen'[p] <= lastSeen[p] + 1
  <2>1. ASSUME NEW p \in PeerIDs
        PROVE  /\ lastSeen'[p] \in 0..(CleanupAfter + 1)
               /\ lastSeen'[p] \in Nat
               /\ lastSeen'[p] <= lastSeen[p] + 1
    <3>1. lastSeen[p] \in 0..(CleanupAfter + 1)
      BY <1>0 DEF TypeOK
    <3>2. \/ lastSeen'[p] = lastSeen[p]
          \/ lastSeen'[p] = lastSeen[p] + 1 /\ ~ (lastSeen[p] > CleanupAfter)
      BY DEF Tick, Forgotten
    <3>3. QED
      BY <3>1, <3>2, Times
  <2>2. lastSeen' = [p \in PeerIDs |-> lastSeen'[p]]
    BY DEF Tick
  <2>3. QED
    BY <2>1, <2>2
<1>2. /\ age' \in [Requests -> 0..RequestTTL]
      /\ \A r \in Requests : at[r] # "idle" => age'[r] = age[r] + 1
  <2>1. ASSUME NEW r \in Requests
        PROVE  age'[r] \in 0..RequestTTL
    <3>1. age[r] \in Nat
      BY <1>0, Ages
    <3>2. age'[r] = 0 \/ (age'[r] = age[r] + 1 /\ age[r] < RequestTTL)
      BY DEF Tick
    <3>3. QED
      BY <3>1, <3>2, Times
  <2>2. age' = [r \in Requests |-> age'[r]]
    BY DEF Tick
  <2>3. QED
    BY <2>1, <2>2 DEF Tick
<1>3. /\ cacheAge' \in [Hashes -> 0..PeerTTL]
      /\ \A h \in listed : cacheAge'[h] = cacheAge[h] + 1
  <2>1. ASSUME NEW h \in Hashes
        PROVE  cacheAge'[h] \in 0..PeerTTL
    <3>1. cacheAge[h] \in Nat
      BY <1>0, Ages
    <3>2. cacheAge'[h] = 0 \/ (cacheAge'[h] = cacheAge[h] + 1 /\ cacheAge[h] < PeerTTL)
      BY DEF Tick
    <3>3. QED
      BY <3>1, <3>2, Times
  <2>2. cacheAge' = [h \in Hashes |-> cacheAge'[h]]
    BY DEF Tick
  <2>3. QED
    BY <1>0, <2>1, <2>2 DEF Tick, TypeOK
<1>4. TypeOK'
  BY <1>0, <1>1, <1>2, <1>3 DEF TypeOK
<1>5. SelectedInv'
  <2>1. SUFFICES ASSUME NEW s \in Requests, at[s] = "cache peers",
                        NEW q \in found[s]
                 PROVE  q \in peers /\ lastSeen'[q] < LiveWindow + age'[s]
    BY <1>0 DEF SelectedInv
  <2>2. q \in peers /\ q \in PeerIDs
    BY <1>0, <2>1 DEF StoreInv, SelectedInv, TypeOK
  <2>3. lastSeen[q] < LiveWindow + age[s]
    BY <2>1 DEF StoreInv, SelectedInv
  <2>4. /\ lastSeen[q] \in Nat /\ age[s] \in Nat /\ age'[s] = age[s] + 1
        /\ lastSeen'[q] \in Nat /\ lastSeen'[q] <= lastSeen[q] + 1
    BY <1>0, <1>1, <1>2, <2>1, <2>2, Ages
  <2>5. lastSeen'[q] < LiveWindow + age'[s]
    BY <2>3, <2>4, Times
  <2>6. QED
    BY <2>2, <2>5
<1>6. ListedInv'
  <2>1. SUFFICES ASSUME NEW h \in listed, NEW q \in peerCache[h]
                 PROVE  /\ q \in peers
                        /\ lastSeen'[q] < LiveWindow + RequestTTL + cacheAge'[h]
    BY <1>0 DEF ListedInv
  <2>2. q \in peers /\ q \in PeerIDs /\ h \in Hashes
    BY <1>0, <2>1 DEF StoreInv, ListedInv, TypeOK
  <2>3. lastSeen[q] < LiveWindow + RequestTTL + cacheAge[h]
    BY <2>1 DEF StoreInv, ListedInv
  <2>4. /\ lastSeen[q] \in Nat /\ cacheAge[h] \in Nat
        /\ cacheAge'[h] = cacheAge[h] + 1
        /\ lastSeen'[q] \in Nat /\ lastSeen'[q] <= lastSeen[q] + 1
    BY <1>0, <1>1, <1>3, <2>1, <2>2, Ages
  <2>5. lastSeen'[q] < LiveWindow + RequestTTL + cacheAge'[h]
    BY <2>3, <2>4, Times
  <2>6. QED
    BY <2>2, <2>5
<1>7. QED
  BY <1>4, <1>5, <1>6 DEF StoreInv

\* A request that looks into the cache for a file's record, reads the table,
\* or fills the cache.
LEMMA FileStepKeeps ==
  ASSUME StoreInv, NEW r \in Requests
  PROVE  /\ \A h \in Hashes : ReadFileCache(r, h) => StoreInv'
         /\ SelectFile(r) => StoreInv'
         /\ CacheFile(r) => StoreInv'
<1>1. ASSUME NEW h \in Hashes, ReadFileCache(r, h) PROVE StoreInv'
  <2>1. TypeOK'
    BY <1>1 DEF StoreInv, TypeOK, ReadFileCache, GoTo, tables, cache, peerLists
  <2>2. /\ UNCHANGED <<peers, lastSeen, listed, peerCache, cacheAge, found, age>>
        /\ \A s \in Requests : at'[s] = "cache peers" => at[s] = "cache peers"
    BY <1>1 DEF StoreInv, TypeOK, ReadFileCache, GoTo, tables, cache, peerLists
  <2>3. QED
    BY <2>1, <2>2, MoveKeeps
<1>2. ASSUME SelectFile(r) PROVE StoreInv'
  <2>1. CASE End(r)
    BY <1>2, <2>1, EndKeeps DEF SelectFile, StoreInv, TypeOK, cache, peerLists
  <2>2. CASE /\ record' = [record EXCEPT ![r] = files[hash[r]]]
             /\ GoTo(r, "cache file")
             /\ UNCHANGED <<found, stale, age>>
    <3>1. files[hash[r]] \in Records \cup {Absent}
      BY DEF StoreInv, TypeOK
    <3>2. TypeOK'
      BY <1>2, <2>2, <3>1
      DEF StoreInv, TypeOK, SelectFile, GoTo, tables, cache, peerLists
    <3>3. /\ UNCHANGED <<peers, lastSeen, listed, peerCache, cacheAge, found, age>>
          /\ \A s \in Requests : at'[s] = "cache peers" => at[s] = "cache peers"
      BY <1>2, <2>2
      DEF StoreInv, TypeOK, SelectFile, GoTo, tables, cache, peerLists
    <3>4. QED
      BY <3>2, <3>3, MoveKeeps
  <2>3. QED
    BY <1>2, <2>1, <2>2 DEF SelectFile
<1>3. ASSUME CacheFile(r) PROVE StoreInv'
  <2>1. fileCache' \in [Hashes -> Records \cup {Absent}]
    BY <1>3 DEF CacheFile, StoreInv, TypeOK
  <2>2. record' \in [Requests -> Records \cup {Absent}]
    BY <1>3 DEF CacheFile, StoreInv, TypeOK
  <2>3. TypeOK'
    BY <1>3, <2>1, <2>2
    DEF StoreInv, TypeOK, CacheFile, GoTo, tables, peerLists
  <2>4. /\ UNCHANGED <<peers, lastSeen, listed, peerCache, cacheAge, found, age>>
        /\ \A s \in Requests : at'[s] = "cache peers" => at[s] = "cache peers"
    BY <1>3 DEF StoreInv, TypeOK, CacheFile, GoTo, tables, peerLists
  <2>5. QED
    BY <2>3, <2>4, MoveKeeps
<1>4. QED
  BY <1>1, <1>2, <1>3

\* A request that looks into the cache for a list of peers, or reads the tables.
LEMMA PeerStepKeeps ==
  ASSUME StoreInv, NEW r \in Requests
  PROVE  /\ ReadPeerCache(r) => StoreInv'
         /\ SelectPeers(r) => StoreInv'
<1>1. ASSUME ReadPeerCache(r) PROVE StoreInv'
  <2>1. CASE End(r)
    BY <1>1, <2>1, EndKeeps DEF ReadPeerCache, StoreInv, TypeOK, cache, peerLists
  <2>2. CASE GoTo(r, "select peers") /\ UNCHANGED <<record, found, stale, age>>
    <3>1. TypeOK'
      BY <1>1, <2>2
      DEF StoreInv, TypeOK, ReadPeerCache, GoTo, tables, cache, peerLists
    <3>2. /\ UNCHANGED <<peers, lastSeen, listed, peerCache, cacheAge, found, age>>
          /\ \A s \in Requests : at'[s] = "cache peers" => at[s] = "cache peers"
      BY <1>1, <2>2
      DEF StoreInv, TypeOK, ReadPeerCache, GoTo, tables, cache, peerLists
    <3>3. QED
      BY <3>1, <3>2, MoveKeeps
  <2>3. QED
    BY <1>1, <2>1, <2>2 DEF ReadPeerCache
<1>2. ASSUME SelectPeers(r) PROVE StoreInv'
  <2>1. Live(hash[r]) \subseteq peers /\ Live(hash[r]) \in SUBSET PeerIDs
    BY DEF Live, StoreInv, TypeOK
  <2>2. TypeOK'
    BY <1>2, <2>1
    DEF StoreInv, TypeOK, SelectPeers, GoTo, tables, cache, peerLists
  <2>3. /\ UNCHANGED <<peers, lastSeen, listed, peerCache, cacheAge, age>>
        /\ \A s \in Requests : \/ s = r /\ found'[s] = Live(hash[r])
                               \/ at'[s] = at[s] /\ found'[s] = found[s]
    BY <1>2 DEF StoreInv, TypeOK, SelectPeers, GoTo, tables, cache, peerLists
  <2>4. \A p \in Live(hash[r]) : lastSeen[p] < LiveWindow + age[r]
    <3>1. ASSUME NEW p \in Live(hash[r]) PROVE lastSeen[p] < LiveWindow + age[r]
      <4>1. lastSeen[p] < LiveWindow
        BY DEF Live
      <4>2. lastSeen[p] \in Nat
        BY <2>1, Ages DEF StoreInv
      <4>3. age[r] \in Nat
        BY Ages DEF StoreInv
      <4>4. QED
        BY <4>1, <4>2, <4>3, Times
    <3>2. QED
      BY <3>1
  <2>5. SelectedInv'
    BY <2>1, <2>3, <2>4 DEF StoreInv, SelectedInv
  <2>6. ListedInv'
    BY <2>3 DEF StoreInv, ListedInv
  <2>7. QED
    BY <2>2, <2>5, <2>6 DEF StoreInv
<1>3. QED
  BY <1>1, <1>2

\* A cache entry is deleted by an announcement, or lives no longer.
LEMMA ForgetKeeps ==
  ASSUME StoreInv, NEW h \in Hashes
  PROVE  /\ \A r \in Requests : ForgetPeers(r, h) => StoreInv'
         /\ ExpireFile(h) => StoreInv'
         /\ ExpirePeers(h) => StoreInv'
<1>1. ASSUME NEW r \in Requests, ForgetPeers(r, h) PROVE StoreInv'
  <2>1. /\ listed' \subseteq Hashes
        /\ peerCache' \in [Hashes -> SUBSET PeerIDs]
        /\ cacheAge' \in [Hashes -> 0..PeerTTL]
        /\ ListedInv'
    BY <1>1, DropListKeeps DEF ForgetPeers, StoreInv, tables
  <2>2. stale' \in [Requests -> SUBSET Hashes]
    BY <1>1 DEF ForgetPeers, StoreInv, TypeOK
  <2>3. TypeOK'
    BY <1>1, <2>1, <2>2 DEF StoreInv, TypeOK, ForgetPeers, tables
  <2>4. SelectedInv'
    BY <1>1 DEF StoreInv, SelectedInv, ForgetPeers, tables
  <2>5. QED
    BY <2>1, <2>3, <2>4 DEF StoreInv
<1>2. ASSUME ExpireFile(h) PROVE StoreInv'
  <2>1. TypeOK'
    BY <1>2 DEF StoreInv, TypeOK, ExpireFile, tables, peerLists, request
  <2>2. UNCHANGED <<peers, lastSeen, listed, peerCache, cacheAge, found, age, at>>
    BY <1>2 DEF ExpireFile, tables, peerLists, request
  <2>3. QED
    BY <2>1, <2>2, MoveKeeps
<1>3. ASSUME ExpirePeers(h) PROVE StoreInv'
  <2>1. /\ listed' \subseteq Hashes
        /\ peerCache' \in [Hashes -> SUBSET PeerIDs]
        /\ cacheAge' \in [Hashes -> 0..PeerTTL]
        /\ ListedInv'
    BY <1>3, DropListKeeps DEF ExpirePeers, StoreInv, tables
  <2>2. TypeOK'
    BY <1>3, <2>1 DEF StoreInv, TypeOK, ExpirePeers, tables, request
  <2>3. SelectedInv'
    BY <1>3 DEF StoreInv, SelectedInv, ExpirePeers, tables, request
  <2>4. QED
    BY <2>1, <2>2, <2>3 DEF StoreInv
<1>4. QED
  BY <1>1, <1>2, <1>3

\* Every call of every request, the cleanup loop and the clock keep StoreInv.
LEMMA NextStoreInv == StoreInv /\ [Next]_vars => StoreInv'
<1> SUFFICES ASSUME StoreInv, [Next]_vars PROVE StoreInv'
  OBVIOUS
<1>1. ASSUME NEW r \in Requests, Begin(r) PROVE StoreInv'
  BY <1>1, FileStepKeeps, UpsertFileKeeps, AnnounceKeeps DEF Begin
<1>2. ASSUME NEW r \in Requests, Continue(r) PROVE StoreInv'
  <2>1. CASE ForgetFile(r)
    <3>1. fileCache' \in [Hashes -> Records \cup {Absent}]
      BY <2>1 DEF ForgetFile, StoreInv, TypeOK
    <3>2. End(r) /\ UNCHANGED <<tables, peerLists, hash>>
      BY <2>1 DEF ForgetFile
    <3>3. QED
      BY <3>1, <3>2, EndKeeps
  <2>2. CASE Announced(r)
    BY <2>2, EndKeeps DEF Announced, StoreInv, TypeOK, cache, peerLists
  <2>3. QED
    BY <1>2, <2>1, <2>2, FileStepKeeps, PeerStepKeeps, CachePeersKeeps,
       ForgetKeeps DEF Continue
<1>3. ASSUME NEW r \in Requests, Abort(r) PROVE StoreInv'
  BY <1>3, EndKeeps DEF Abort, StoreInv, TypeOK, cache, peerLists
<1>4. ASSUME NEW h \in Hashes, ExpireFile(h) \/ ExpirePeers(h) PROVE StoreInv'
  BY <1>4, ForgetKeeps
<1>5. CASE UNCHANGED vars
  BY <1>5 DEF StoreInv, TypeOK, SelectedInv, ListedInv, vars, tables, cache,
              peerLists, request
<1>6. QED
  BY <1>1, <1>2, <1>3, <1>4, <1>5, CleanupKeeps, TickKeeps DEF Next

\* Every peer a request has selected, or Redis lists, has a row and was seen
\* a known time ago, whatever the order of requests, losses and cleanups.
THEOREM StoreInvariant == Spec => []StoreInv
  BY InitStoreInv, NextStoreInv, PTL DEF Spec

\* The tracker never answers from the cache with a peer it has deleted, nor with
\* one silent for longer than window, request and list entry last together.
THEOREM NoGhosts == Spec => []NoGhostPeers
<1>1. StoreInv => NoGhostPeers
  <2>1. SUFFICES ASSUME StoreInv, NEW h \in listed, NEW p \in peerCache[h]
                 PROVE  /\ p \in peers
                        /\ lastSeen[p] < LiveWindow + RequestTTL + PeerTTL
    BY DEF NoGhostPeers
  <2>2. p \in peers /\ p \in PeerIDs /\ h \in Hashes
    BY <2>1 DEF StoreInv, ListedInv, TypeOK
  <2>3. lastSeen[p] < LiveWindow + RequestTTL + cacheAge[h]
    BY <2>1 DEF StoreInv, ListedInv
  <2>4. lastSeen[p] \in Nat /\ cacheAge[h] \in Nat /\ cacheAge[h] <= PeerTTL
    BY <2>1, <2>2, Ages DEF StoreInv
  <2>5. lastSeen[p] < LiveWindow + RequestTTL + PeerTTL
    BY <2>3, <2>4, Times
  <2>6. QED
    BY <2>2, <2>5
<1>2. QED
  BY <1>1, StoreInvariant, PTL
-------------------------------------------------------------------------------
\* The announcements of a seeder (SeederAnnouncements).

\* What the announcements do to the store, the store may do.
LEMMA AnnouncementsAreRequests == AllNext => [Next]_vars
<1> SUFFICES ASSUME AllNext PROVE [Next]_vars
  OBVIOUS
<1>1. ASSUME NEW h \in Hashes, AnnounceToTracker(h) PROVE [Next]_vars
  <2>1. CASE UNCHANGED vars
    BY <2>1
  <2>2. ASSUME NEW r \in Requests, AnnounceOne(r, h) PROVE [Next]_vars
    <3>1. Self \in PeerIDs /\ {h} \in SUBSET Hashes
      BY AnnounceAssumption
    <3>2. Begin(r)
      BY <2>2, <3>1 DEF Begin, AnnounceOne
    <3>3. QED
      BY <3>2 DEF Next
  <2>3. QED
    BY <1>1, <2>1, <2>2 DEF AnnounceToTracker
<1>2. ASSUME NEW h \in Hashes, AddFile(h) \/ RemoveFile(h) PROVE [Next]_vars
  BY <1>2 DEF AddFile, RemoveFile
<1>3. CASE StartRound \/ EndRound
  BY <1>3 DEF StartRound, EndRound
<1>4. CASE TrackerStep
  BY <1>4 DEF TrackerStep, Next, Begin
<1>5. CASE Time
  BY <1>5 DEF Time, Next
<1>6. QED
  BY <1>1, <1>2, <1>3, <1>4, <1>5 DEF AllNext, AnnounceInRound, AnnounceAdded

\* With a seeder the store is the store: what is proved of it still holds.
THEOREM AnnouncementsImplementStore == AllSpec => Spec
<1>1. AllInit => Init
  BY DEF AllInit
<1>2. [AllNext]_allVars => [Next]_vars
  BY AnnouncementsAreRequests DEF allVars
<1>3. QED
  BY <1>1, <1>2, PTL DEF AllSpec, Spec

\* A round takes a tick for each file at most, and the ticker does not wait. The
\* row of the daemon is as old as the rounds that have passed since its last
\* announcement was accepted, at most.
FreshInv ==
  /\ sinceRound <= AnnounceEvery
  /\ ~walking => round = {}
  /\ walking => sinceRound + left <= Cardinality(Hashes)
  /\ last # Absent =>
       /\ missed = 0 => /\ <<Self, last>> \in peerFiles
                        /\ lastSeen[Self] <= sinceRound
       /\ missed = 1 => /\ <<Self, last>> \in peerFiles
                        /\ lastSeen[Self] <= sinceRound + AnnounceEvery
       /\ missed = 2 /\ walking =>
            /\ <<Self, last>> \in peerFiles
            /\ lastSeen[Self] <= sinceRound + 2 * AnnounceEvery

\* A file the daemon is still recorded for was announced last, so the row is as
\* old as the time since the daemon gave up the file, at least, but for the tick
\* that the announcement of an added file may take.
LeftInv ==
  \A h \in Hashes :
    /\ h \in seeding \/ h \in added \ late => removedFor[h] = 0
    /\ h \in added => removedFor[h] <= 1
    /\ <<Self, h>> \in peerFiles => removedFor[h] <= lastSeen[Self] + 1

SeederInv == StoreInv /\ AnnouncementsOK /\ FreshInv /\ LeftInv

LEMMA AnnounceTimes ==
  /\ AnnounceEvery \in Nat /\ 0 < AnnounceEvery
  /\ Cardinality(Hashes) \in Nat
  /\ Cardinality(Hashes) <= AnnounceEvery
  /\ 2 * AnnounceEvery + Cardinality(Hashes) < LiveWindow
  /\ Self \in PeerIDs
  BY AnnounceAssumption, FS_CardinalityType

\* The ages a seeder's properties compare.
LEMMA SeederAges ==
  ASSUME TypeOK, AnnouncementsOK
  PROVE  /\ lastSeen[Self] \in Nat
         /\ sinceRound \in Nat /\ left \in Nat
         /\ missed \in 0..3
         /\ \A h \in Hashes : removedFor[h] \in Nat /\ removedFor[h] <= LiveWindow + 1
<1>1. lastSeen[Self] \in Nat
  BY Ages, AnnounceTimes
<1>2. sinceRound \in Nat /\ left \in Nat /\ missed \in 0..3
  BY DEF AnnouncementsOK
<1>3. \A h \in Hashes : removedFor[h] \in 0..(LiveWindow + 1)
  BY DEF AnnouncementsOK
<1>4. QED
  BY <1>1, <1>2, <1>3, Times, AnnounceTimes

LEMMA InitSeederInv == AllInit => SeederInv
<1> SUFFICES ASSUME AllInit PROVE SeederInv
  OBVIOUS
<1>1. StoreInv
  BY InitStoreInv DEF AllInit
<1>2. AnnouncementsOK
  <2>1. LiveWindow + 1 \in 0..(LiveWindow + 1)
    BY Times
  <2>2. removedFor \in [Hashes -> 0..(LiveWindow + 1)]
    BY <2>1 DEF AllInit, SeederInit
  <2>3. TypeOK /\ 0 \in 0..3 /\ 0 \in Nat
    BY <1>1 DEF StoreInv
  <2>4. QED
    BY <2>2, <2>3 DEF AllInit, SeederInit, AnnouncementsOK
<1>3. FreshInv
  BY AnnounceTimes DEF AllInit, SeederInit, FreshInv
<1>4. LeftInv
  BY DEF AllInit, SeederInit, Init, LeftInv
<1>5. QED
  BY <1>1, <1>2, <1>3, <1>4 DEF SeederInv

\* A file is added or removed: the tracker hears nothing.
LEMMA AddRemoveKeeps ==
  ASSUME SeederInv, StoreInv', NEW h \in Hashes, AddFile(h) \/ RemoveFile(h)
  PROVE  SeederInv'
<1>1. /\ UNCHANGED <<files, peerFiles, lastSeen, walking, round, left, sinceRound,
                     accepted, last, missed>>
      /\ round = {}
      /\ seeding' \subseteq Hashes /\ added' \subseteq Hashes
      /\ late' \subseteq added'
  BY DEF AddFile, RemoveFile, vars, tables, history, walk, SeederInv,
         AnnouncementsOK, FreshInv
<1>2. /\ removedFor' \in [Hashes -> 0..(LiveWindow + 1)]
      /\ \A g \in Hashes :
           /\ removedFor'[g] = removedFor[g] \/ removedFor'[g] = 0
           /\ g \in seeding' \/ g \in added' \ late' => removedFor'[g] = 0
           /\ g \in added' => removedFor'[g] <= 1
  <2>1. /\ 0 \in 0..(LiveWindow + 1)
        /\ removedFor \in [Hashes -> 0..(LiveWindow + 1)]
    BY Times DEF SeederInv, AnnouncementsOK
  <2>2. CASE AddFile(h)
    <3>1. removedFor' = [removedFor EXCEPT ![h] = 0]
      BY <2>2 DEF AddFile
    <3>2. removedFor' \in [Hashes -> 0..(LiveWindow + 1)]
      BY <2>1, <3>1, Zenon
    <3>3. \A g \in Hashes : removedFor'[g] = IF g = h THEN 0 ELSE removedFor[g]
      BY <2>1, <3>1
    <3>4. \A g \in Hashes : g # h =>
            /\ g \in seeding' <=> g \in seeding
            /\ g \in added' <=> g \in added
            /\ g \in late' <=> g \in late
      BY <2>2 DEF AddFile
    <3>5. removedFor'[h] = 0 /\ removedFor'[h] <= 1
      BY <3>3
    <3>6. ASSUME NEW g \in Hashes, g # h
          PROVE  /\ removedFor'[g] = removedFor[g]
                 /\ g \in seeding' \/ g \in added' \ late' => removedFor'[g] = 0
                 /\ g \in added' => removedFor'[g] <= 1
      <4>1. removedFor'[g] = removedFor[g]
        BY <3>3, <3>6
      <4>2. QED
        BY <4>1, <3>4, <3>6 DEF SeederInv, LeftInv
    <3>7. QED
      BY <3>2, <3>5, <3>6
  <2>3. CASE RemoveFile(h)
    BY <2>1, <2>3 DEF RemoveFile, SeederInv, LeftInv
  <2>4. QED
    BY <2>2, <2>3
<1>3. AnnouncementsOK'
  BY <1>1, <1>2 DEF SeederInv, AnnouncementsOK, StoreInv
<1>4. FreshInv'
  BY <1>1 DEF SeederInv, FreshInv
<1>5. LeftInv'
  <2>1. SUFFICES ASSUME NEW g \in Hashes, <<Self, g>> \in peerFiles
                 PROVE  removedFor'[g] <= lastSeen[Self] + 1
    <3>1. peerFiles' = peerFiles /\ lastSeen' = lastSeen
      BY <1>1
    <3>2. QED
      BY <1>2, <3>1 DEF LeftInv
  <2>2. removedFor[g] <= lastSeen[Self] + 1 /\ lastSeen[Self] \in Nat
    BY <2>1, SeederAges DEF SeederInv, LeftInv, StoreInv
  <2>3. removedFor'[g] = removedFor[g] \/ removedFor'[g] = 0
    BY <1>2, <2>1
  <2>4. QED
    BY <2>2, <2>3
<1>6. QED
  BY <1>3, <1>4, <1>5 DEF SeederInv

\* The tracker accepts an announcement: the daemon has this file, seen just now,
\* and no other one.
LEMMA AcceptedTables ==
  ASSUME StoreInv, NEW r \in Requests, NEW h \in Hashes, AnnounceOne(r, h)
  PROVE  /\ files' = files /\ files[h] # Absent
         /\ lastSeen'[Self] = 0
         /\ <<Self, h>> \in peerFiles'
         /\ \A g \in Hashes : <<Self, g>> \in peerFiles' => g = h
  BY AnnounceTimes DEF AnnounceOne, Announce, StoreInv, TypeOK

\* An announcement, accepted or not, of a file that is seeded or was just added.
LEMMA AnnouncementKeeps ==
  ASSUME SeederInv, StoreInv', NEW h \in Hashes,
         AnnounceInRound(h) \/ AnnounceAdded(h)
  PROVE  SeederInv'
<1>1. /\ h \in seeding \cup added
      /\ AnnounceToTracker(h)
      /\ UNCHANGED <<seeding, walking, left, sinceRound>>
      /\ added' \subseteq added /\ round' \subseteq round
      /\ late' \subseteq added' /\ added' \ late' \subseteq added \ late
  BY DEF AnnounceInRound, AnnounceAdded, walk, SeederInv, AnnouncementsOK
<1>2. /\ accepted' \subseteq Hashes
      /\ last' \in Hashes \cup {Absent}
      /\ missed' \in 0..3
      /\ removedFor' = removedFor
  BY <1>1 DEF AnnounceToTracker, SeederInv, AnnouncementsOK
<1>3. CASE UNCHANGED <<vars, last, missed, removedFor>>
  <2>1. UNCHANGED <<files, peerFiles, lastSeen>>
    BY <1>3 DEF vars, tables
  <2>2. AnnouncementsOK'
    BY <1>1, <1>2, <1>3, <2>1 DEF SeederInv, AnnouncementsOK, StoreInv
  <2>3. FreshInv'
    BY <1>1, <1>3, <2>1 DEF SeederInv, FreshInv
  <2>4. LeftInv'
    BY <1>1, <1>2, <2>1 DEF SeederInv, LeftInv
  <2>5. QED
    BY <2>2, <2>3, <2>4 DEF SeederInv
<1>4. ASSUME NEW r \in Requests, AnnounceOne(r, h), last' = h, missed' = 0
      PROVE  SeederInv'
  <2>1. /\ files' = files /\ files[h] # Absent
        /\ lastSeen'[Self] = 0
        /\ <<Self, h>> \in peerFiles'
        /\ \A g \in Hashes : <<Self, g>> \in peerFiles' => g = h
    BY <1>4, AcceptedTables DEF SeederInv
  <2>2. AnnouncementsOK'
    BY <1>1, <1>2, <1>4, <2>1 DEF SeederInv, AnnouncementsOK, StoreInv
  <2>3. FreshInv'
    BY <1>1, <1>4, <2>1, SeederAges DEF SeederInv, FreshInv, StoreInv
  <2>4. LeftInv'
    <3>1. removedFor[h] <= 1
      <4>1. CASE h \in seeding
        <5>1. removedFor[h] = 0
          BY <4>1 DEF SeederInv, LeftInv
        <5>2. QED
          BY <5>1
      <4>2. CASE h \in added
        BY <4>2 DEF SeederInv, LeftInv
      <4>3. QED
        BY <1>1, <4>1, <4>2
    <3>2. lastSeen'[Self] + 1 = 1
      BY <2>1
    <3>3. QED
      BY <1>1, <1>2, <2>1, <3>1, <3>2 DEF SeederInv, LeftInv
  <2>5. QED
    BY <2>2, <2>3, <2>4 DEF SeederInv
<1>5. QED
  BY <1>1, <1>3, <1>4 DEF AnnounceToTracker

\* The ticker fires: one more round since the tracker last accepted.
LEMMA StartRoundKeeps ==
  ASSUME SeederInv, StoreInv', StartRound
  PROVE  SeederInv'
<1>1. /\ UNCHANGED <<files, peerFiles, lastSeen, seeding, added, late, accepted,
                     last, removedFor>>
      /\ round' = seeding /\ sinceRound' = 0 /\ walking' = TRUE
      /\ left' = Cardinality(seeding)
      /\ sinceRound >= AnnounceEvery
      /\ missed' = IF missed < 3 THEN missed + 1 ELSE missed
  BY DEF StartRound, Due, vars, tables
<1>2. /\ lastSeen[Self] \in Nat
      /\ sinceRound \in Nat /\ sinceRound = AnnounceEvery
      /\ missed \in 0..3
  BY <1>1, SeederAges, AnnounceTimes DEF SeederInv, StoreInv, FreshInv
<1>3. left' \in Nat /\ left' <= Cardinality(Hashes)
  <2>1. seeding \in SUBSET Hashes /\ IsFiniteSet(Hashes)
    BY AnnounceAssumption DEF SeederInv, AnnouncementsOK
  <2>2. QED
    BY <1>1, <2>1, FS_Subset, FS_CardinalityType
<1>4. AnnouncementsOK'
  <2>1. sinceRound' \in Nat /\ missed' \in 0..3
    BY <1>1, <1>2
  <2>2. QED
    BY <1>1, <1>3, <2>1 DEF SeederInv, AnnouncementsOK, StoreInv
<1>5. FreshInv'
  <2>1. sinceRound' <= AnnounceEvery /\ sinceRound' + left' <= Cardinality(Hashes)
    BY <1>1, <1>3, AnnounceTimes
  <2>2. ASSUME last # Absent, missed' \in {0, 1, 2}
        PROVE  /\ missed' \in {1, 2}
               /\ <<Self, last>> \in peerFiles
               /\ missed' = 1 => lastSeen[Self] <= sinceRound' + AnnounceEvery
               /\ missed' = 2 => lastSeen[Self] <= sinceRound' + 2 * AnnounceEvery
    <3>1. missed' = missed + 1 /\ missed \in {0, 1}
      BY <1>1, <1>2, <2>2
    <3>2. /\ <<Self, last>> \in peerFiles
          /\ missed = 0 => lastSeen[Self] <= sinceRound
          /\ missed = 1 => lastSeen[Self] <= sinceRound + AnnounceEvery
      BY <2>2, <3>1 DEF SeederInv, FreshInv
    <3>3. QED
      BY <1>1, <1>2, <3>1, <3>2, AnnounceTimes
  <2>3. QED
    BY <1>1, <2>1, <2>2 DEF FreshInv
<1>6. LeftInv'
  BY <1>1 DEF SeederInv, LeftInv
<1>7. QED
  BY <1>4, <1>5, <1>6 DEF SeederInv

\* The round is over.
LEMMA EndRoundKeeps ==
  ASSUME SeederInv, StoreInv', EndRound
  PROVE  SeederInv'
<1>1. /\ UNCHANGED <<files, peerFiles, lastSeen, seeding, added, late, round,
                     sinceRound, accepted, last, missed, removedFor>>
      /\ walking' = FALSE /\ left' = 0 /\ round = {}
  BY DEF EndRound, vars, tables, history
<1>2. AnnouncementsOK' /\ FreshInv' /\ LeftInv'
  BY <1>1 DEF SeederInv, AnnouncementsOK, StoreInv, FreshInv, LeftInv
<1>3. QED
  BY <1>2 DEF SeederInv

\* Until a second round after the last accepted announcement has ended, the row
\* is young enough to be listed.
LEMMA YoungRow ==
  ASSUME SeederInv, last # Absent, missed \in {0, 1} \/ (missed = 2 /\ walking)
  PROVE  <<Self, last>> \in peerFiles /\ lastSeen[Self] < LiveWindow
<1>1. /\ lastSeen[Self] \in Nat /\ sinceRound \in Nat /\ left \in Nat
      /\ sinceRound <= AnnounceEvery
      /\ walking => sinceRound + left <= Cardinality(Hashes)
  BY SeederAges DEF SeederInv, StoreInv, FreshInv
<1>2. CASE missed = 0
  BY <1>1, <1>2, AnnounceTimes, Times DEF SeederInv, FreshInv
<1>3. CASE missed = 1
  BY <1>1, <1>3, AnnounceTimes, Times DEF SeederInv, FreshInv
<1>4. CASE missed = 2 /\ walking
  BY <1>1, <1>4, AnnounceTimes, Times DEF SeederInv, FreshInv
<1>5. QED
  BY <1>2, <1>3, <1>4

\* Nothing the tracker does by itself, or for those who register files, takes
\* away a record or a peer young enough to be listed.
LEMMA TrackerTables ==
  ASSUME StoreInv, TrackerStep
  PROVE  /\ lastSeen' = lastSeen
         /\ peerFiles' \subseteq peerFiles
         /\ \A pf \in peerFiles : lastSeen[pf[1]] < LiveWindow => pf \in peerFiles'
         /\ \A h \in Hashes : files[h] # Absent => files'[h] # Absent
<1>1. CASE UNCHANGED <<files, peerFiles, lastSeen>>
  BY <1>1
<1>2. ASSUME NEW r \in Requests, Continue(r) \/ Abort(r)
      PROVE  UNCHANGED <<files, peerFiles, lastSeen>>
  BY <1>2 DEF Continue, Abort, ForgetFile, Announced, SelectFile, CacheFile,
              ReadPeerCache, SelectPeers, CachePeers, ForgetPeers, tables
<1>3. ASSUME NEW r \in Requests, NEW h \in Hashes, NEW new \in Records,
             UpsertFile(r, h, new)
      PROVE  /\ UNCHANGED <<peerFiles, lastSeen>>
             /\ \A g \in Hashes : files[g] # Absent => files'[g] # Absent
  BY <1>3, AbsentAssumption DEF UpsertFile, StoreInv, TypeOK
<1>4. CASE CleanupStalePeers
  <2>1. /\ UNCHANGED <<files, lastSeen>>
        /\ peerFiles' = {pf \in peerFiles : pf[1] \notin {p \in peers : Forgotten(p)}}
    BY <1>4 DEF CleanupStalePeers
  <2>2. ASSUME NEW pf \in peerFiles, lastSeen[pf[1]] < LiveWindow
        PROVE  pf \in peerFiles'
    <3>1. pf[1] \in PeerIDs
      BY DEF StoreInv, TypeOK
    <3>2. lastSeen[pf[1]] \in Nat
      BY <3>1, Ages DEF StoreInv
    <3>3. ~ Forgotten(pf[1])
      BY <2>2, <3>2, Times, TimesAssumption DEF Forgotten
    <3>4. QED
      BY <2>1, <3>3
  <2>3. QED
    BY <2>1, <2>2
<1>5. QED
  BY <1>1, <1>2, <1>3, <1>4 DEF TrackerStep

LEMMA TrackerStepKeeps ==
  ASSUME SeederInv, StoreInv', TrackerStep
  PROVE  SeederInv'
<1>1. /\ lastSeen' = lastSeen
      /\ peerFiles' \subseteq peerFiles
      /\ \A pf \in peerFiles : lastSeen[pf[1]] < LiveWindow => pf \in peerFiles'
      /\ \A h \in Hashes : files[h] # Absent => files'[h] # Absent
  BY TrackerTables DEF SeederInv
<1>2. UNCHANGED <<seeding, added, late, walking, round, left, sinceRound,
                  accepted, last, missed, removedFor>>
  BY DEF TrackerStep, seederVars, walk, history
<1>3. AnnouncementsOK'
  BY <1>1, <1>2 DEF SeederInv, AnnouncementsOK, StoreInv
<1>4. FreshInv'
  <2>1. ASSUME last # Absent, <<Self, last>> \in peerFiles,
               \/ missed \in {0, 1}
               \/ missed = 2 /\ walking
        PROVE  <<Self, last>> \in peerFiles'
    <3>1. lastSeen[Self] < LiveWindow
      BY <2>1, YoungRow
    <3>2. QED
      BY <1>1, <2>1, <3>1
  <2>2. QED
    BY <1>1, <1>2, <2>1 DEF SeederInv, FreshInv
<1>5. LeftInv'
  BY <1>1, <1>2 DEF SeederInv, LeftInv
<1>6. QED
  BY <1>3, <1>4, <1>5 DEF SeederInv

\* Time passes for the row, the ticker and the file given up alike.
LEMMA TimeKeeps ==
  ASSUME SeederInv, StoreInv', Time
  PROVE  SeederInv'
<1>1. /\ UNCHANGED <<files, peers, peerFiles, seeding, added, walking, round,
                     accepted, last, missed>>
      /\ late = {} /\ late' = added
      /\ left' = IF walking THEN left - 1 ELSE left
      /\ walking => left > 0
      /\ sinceRound' = sinceRound + 1
      /\ ~ (sinceRound >= AnnounceEvery)
  BY DEF Time, Tick, Due, history
<1>2. /\ lastSeen[Self] \in Nat /\ lastSeen'[Self] \in Nat
      /\ sinceRound \in Nat /\ left \in Nat
      /\ missed \in 0..3
      /\ \A h \in Hashes : removedFor[h] \in Nat /\ removedFor[h] <= LiveWindow + 1
  <2>1. TypeOK'
    BY DEF StoreInv
  <2>2. lastSeen' \in [PeerIDs -> 0..(CleanupAfter + 1)]
    BY <2>1 DEF TypeOK
  <2>3. lastSeen'[Self] \in 0..(CleanupAfter + 1)
    BY <2>2, AnnounceTimes
  <2>4. QED
    BY <2>3, Times, SeederAges DEF SeederInv, StoreInv
<1>3. lastSeen'[Self] = IF Self \in peers /\ ~ (lastSeen[Self] > CleanupAfter)
                        THEN lastSeen[Self] + 1 ELSE lastSeen[Self]
  BY AnnounceTimes DEF Time, Tick, Forgotten
<1>4. \A h \in Hashes :
        removedFor'[h] = IF h \in seeding THEN 0
                         ELSE IF removedFor[h] <= LiveWindow
                              THEN removedFor[h] + 1 ELSE removedFor[h]
  BY DEF Time
<1>5. AnnouncementsOK'
  <2>1. sinceRound' \in Nat /\ left' \in Nat
    BY <1>1, <1>2
  <2>2. \A h \in Hashes : removedFor'[h] \in 0..(LiveWindow + 1)
    BY <1>2, <1>4, Times
  <2>3. removedFor' = [h \in Hashes |-> removedFor'[h]]
    BY DEF Time
  <2>4. removedFor' \in [Hashes -> 0..(LiveWindow + 1)]
    BY <2>2, <2>3
  <2>5. QED
    BY <1>1, <2>1, <2>4 DEF SeederInv, AnnouncementsOK, StoreInv
<1>6. FreshInv'
  <2>1. lastSeen'[Self] <= lastSeen[Self] + 1
    BY <1>2, <1>3
  <2>2. \A k \in Nat : lastSeen[Self] <= sinceRound + k =>
                         lastSeen'[Self] <= sinceRound' + k
    BY <1>1, <1>2, <2>1
  <2>3. lastSeen[Self] <= sinceRound => lastSeen'[Self] <= sinceRound'
    BY <1>1, <1>2, <2>1
  <2>4. AnnounceEvery \in Nat /\ 2 * AnnounceEvery \in Nat
    BY AnnounceTimes
  <2>5. sinceRound' <= AnnounceEvery
    BY <1>1, <1>2, AnnounceTimes
  <2>6. walking => sinceRound' + left' <= Cardinality(Hashes)
    BY <1>1, <1>2, AnnounceTimes DEF SeederInv, FreshInv
  <2>7. QED
    BY <1>1, <2>2, <2>3, <2>4, <2>5, <2>6 DEF SeederInv, FreshInv
<1>7. LeftInv'
  <2>1. ASSUME NEW h \in Hashes
        PROVE  /\ h \in seeding' \/ h \in added' \ late' => removedFor'[h] = 0
               /\ h \in added' => removedFor'[h] <= 1
    <3>1. h \in added => removedFor[h] = 0
      BY <1>1 DEF SeederInv, LeftInv
    <3>2. QED
      BY <1>1, <1>4, <3>1, Times
  <2>2. ASSUME NEW h \in Hashes, <<Self, h>> \in peerFiles'
        PROVE  removedFor'[h] <= lastSeen'[Self] + 1
    <3>1. Self \in peers
      BY <1>1, <2>2 DEF SeederInv, StoreInv, TypeOK
    <3>2. removedFor[h] <= lastSeen[Self] + 1
      BY <1>1, <2>2 DEF SeederInv, LeftInv
    <3>3. CASE ~ (lastSeen[Self] > CleanupAfter)
      <4>1. lastSeen'[Self] = lastSeen[Self] + 1
        BY <1>3, <3>1, <3>3
      <4>2. removedFor'[h] <= removedFor[h] + 1
        BY <1>2, <1>4, Times
      <4>3. removedFor'[h] \in Nat
        BY <1>2, <1>4, Times
      <4>4. QED
        BY <1>2, <3>2, <4>1, <4>2, <4>3
    <3>4. CASE lastSeen[Self] > CleanupAfter
      <4>1. lastSeen'[Self] = lastSeen[Self]
        BY <1>3, <3>4
      <4>2. removedFor'[h] <= LiveWindow + 1 /\ removedFor'[h] \in Nat
        BY <1>2, <1>4, Times
      <4>3. LiveWindow <= CleanupAfter + 1
        BY Times, TimesAssumption
      <4>4. QED
        BY <1>2, <3>4, <4>1, <4>2, <4>3, Times
    <3>5. QED
      BY <3>3, <3>4
  <2>3. QED
    BY <2>1, <2>2 DEF LeftInv
<1>8. QED
  BY <1>5, <1>6, <1>7 DEF SeederInv

LEMMA NextSeederInv == SeederInv /\ [AllNext]_allVars => SeederInv'
<1> SUFFICES ASSUME SeederInv, [AllNext]_allVars PROVE SeederInv'
  OBVIOUS
<1>1. StoreInv'
  BY AnnouncementsAreRequests, NextStoreInv DEF SeederInv, allVars
<1>2. CASE UNCHANGED allVars
  BY <1>1, <1>2 DEF SeederInv, AnnouncementsOK, FreshInv, LeftInv, StoreInv,
                    allVars, vars, tables, seederVars, walk, history
<1>3. QED
  BY <1>1, <1>2, AddRemoveKeeps, AnnouncementKeeps, StartRoundKeeps,
     EndRoundKeeps, TrackerStepKeeps, TimeKeeps DEF AllNext

LEMMA SeederInvariant == AllSpec => []SeederInv
  BY InitSeederInv, NextSeederInv, PTL DEF AllSpec

\* The file the tracker heard of last stays listed until a second round after has
\* ended in vain, for any interval and window into which two intervals and a tick
\* for each file fit, and the seeder's state keeps its types. With the code's
\* interval, window and 10 s for an announcement, up to five files fit.
THEOREM HeardStaysListed == AllSpec => []AnnouncementsInv
<1>1. SeederInv => AnnouncementsInv
  <2>1. SUFFICES ASSUME SeederInv, last # Absent,
                        missed <= 1 \/ (missed = 2 /\ walking)
                 PROVE  Self \in Live(last)
    BY DEF SeederInv, AnnouncementsInv, StaysListed
  <2>2. missed \in {0, 1} \/ (missed = 2 /\ walking)
    <3>1. missed \in 0..3
      BY <2>1, SeederAges DEF SeederInv, StoreInv
    <3>2. QED
      BY <2>1, <3>1
  <2>3. <<Self, last>> \in peerFiles /\ lastSeen[Self] < LiveWindow
    BY <2>1, <2>2, YoungRow
  <2>4. Self \in peers
    BY <2>1, <2>3 DEF SeederInv, StoreInv, TypeOK
  <2>5. QED
    BY <2>3, <2>4 DEF Live
<1>2. QED
  BY <1>1, SeederInvariant, PTL

\* A file the daemon has given up leaves the lists when the window and the time
\* of one announcement are over, although the tracker is never told and the daemon's
\* row stays young.
THEOREM GivenUpLeavesList == AllSpec => []LeavesList
<1>1. SeederInv => LeavesList
  <2>1. SUFFICES ASSUME SeederInv, NEW h \in Hashes,
                        removedFor[h] > LiveWindow, Self \in Live(h)
                 PROVE  FALSE
    BY DEF LeavesList
  <2>2. <<Self, h>> \in peerFiles /\ lastSeen[Self] < LiveWindow
    BY <2>1 DEF Live
  <2>3. removedFor[h] <= lastSeen[Self] + 1
    BY <2>1, <2>2 DEF SeederInv, LeftInv
  <2>4. lastSeen[Self] \in Nat /\ removedFor[h] \in Nat
    BY <2>1, SeederAges DEF SeederInv, StoreInv
  <2>5. QED
    BY <2>1, <2>2, <2>3, <2>4, Times
<1>2. QED
  BY <1>1, SeederInvariant, PTL
-------------------------------------------------------------------------------
\* The control plane (ControlPlane).

\* What the operator's settings may be, whichever they are.
AllValues == UNION {Values(s) : s \in Settings}

\* A message never carries a value of another setting.
Fit(q) == \A i \in 1..Len(q) : q[i].value \in Values(q[i].setting)

\* The messages w leave s restricted when the last of them has been applied to the
\* value v: one of them restricts it, or v does, and none behind that one frees it.
Brings(w, v, s) ==
  \E k \in 0..Len(w) :
    /\ k = 0 => v # Free
    /\ k > 0 => w[k].setting = s
    /\ \A j \in 1..Len(w) : j >= k /\ w[j].setting = s => w[j].value # Free

\* The registration has a restriction of s left to send.
Sends(q, s) == \E i \in 1..Len(q) : q[i].setting = s /\ q[i].value # Free

\* A command that is not over says what its setting is.
ConsoleInv ==
  /\ state \in [Settings -> AllValues]
  /\ \A s \in Settings : state[s] \in Values(s)
  /\ console \in {"idle", "settled", "writing"}
  /\ message \in Messages
  /\ message.value \in Values(message.setting)
  /\ console # "idle" => message.value = state[message.setting]
  /\ targets \subseteq Daemons

\* Only a registration has settings left to send; nothing is on its way to a
\* daemon without a connection.
LinkOK(d) ==
  /\ handler[d] \in {"down", "entered", "replaying", "ready"}
  /\ replay[d] \in Seq(Messages) /\ Fit(replay[d])
  /\ wire[d] \in Seq(Messages) /\ Fit(wire[d])
  /\ applied[d] \in [Settings -> AllValues]
  /\ \A s \in Settings : applied[d][s] \in Values(s)
  /\ handler[d] # "replaying" => replay[d] = <<>>
  /\ handler[d] = "down" => wire[d] = <<>> /\ d \notin targets

\* The broadcast of the present command has yet to reach d.
Awaited(d, s) ==
  /\ message.setting = s
  /\ console = "settled" \/ (console = "writing" /\ d \in targets)

\* A restriction in force is with a daemon whose registration has read the
\* settings, or one of the two senders, registration and broadcast, brings it; and
\* nothing that frees the daemon is behind it.
Carried(d, s) ==
  handler[d] \in {"replaying", "ready"} /\ state[s] # Free =>
    \/ Brings(wire[d], applied[d][s], s)
    \/ Awaited(d, s)
    \/ Sends(replay[d], s)

PerDaemon ==
  /\ handler = [d \in Daemons |-> handler[d]]
  /\ replay = [d \in Daemons |-> replay[d]]
  /\ wire = [d \in Daemons |-> wire[d]]
  /\ applied = [d \in Daemons |-> applied[d]]

CarriedInv ==
  /\ ConsoleInv /\ PerDaemon
  /\ \A d \in Daemons : LinkOK(d)
  /\ \A d \in Daemons : \A s \in Settings : Carried(d, s)

LEMMA SettingsKnown ==
  /\ SettingOrder \in Seq(Settings) /\ SettingOrder # <<>>
  /\ SettingOrder[1] \in Settings
  /\ \A s \in Settings : Free \in Values(s) /\ Values(s) \subseteq AllValues
  /\ Free \in AllValues
<1>1. SettingOrder \in Seq(Settings) /\ SettingOrder # <<>>
  BY SettingsAssumption
<1>2. SettingOrder[1] \in Settings
  BY <1>1, EmptySeq, ElementOfSeq
<1>3. \A s \in Settings : Free \in Values(s) /\ Values(s) \subseteq AllValues
  BY DEF Values, AllValues
<1>4. QED
  BY <1>1, <1>2, <1>3

\* A message behind the others.
LEMMA AppendMessage ==
  ASSUME NEW w \in Seq(Messages), NEW m \in Messages
  PROVE  /\ Append(w, m) \in Seq(Messages)
         /\ Len(w) \in Nat /\ Len(Append(w, m)) = Len(w) + 1
         /\ \A i \in 1..Len(w) : Append(w, m)[i] = w[i]
         /\ Append(w, m)[Len(w) + 1] = m
  BY AppendProperties, LenProperties

\* The first message is taken off.
LEMMA TakeMessage ==
  ASSUME NEW w \in Seq(Messages), w # <<>>
  PROVE  /\ Head(w) \in Messages /\ Head(w) = w[1]
         /\ Tail(w) \in Seq(Messages)
         /\ Len(w) \in Nat \ {0} /\ Len(Tail(w)) = Len(w) - 1
         /\ \A i \in 1..Len(Tail(w)) : Tail(w)[i] = w[i + 1]
  BY HeadTailProperties, EmptySeq

LEMMA FitKept ==
  ASSUME NEW w \in Seq(Messages), Fit(w)
  PROVE  /\ \A m \in Messages : m.value \in Values(m.setting) => Fit(Append(w, m))
         /\ w # <<>> => Fit(Tail(w)) /\ Head(w).value \in Values(Head(w).setting)
<1>1. ASSUME NEW m \in Messages, m.value \in Values(m.setting)
      PROVE  Fit(Append(w, m))
  <2>1. \A i \in 1..Len(Append(w, m)) : i \in 1..Len(w) \/ i = Len(w) + 1
    BY AppendMessage
  <2>2. QED
    BY <1>1, <2>1, AppendMessage DEF Fit
<1>2. ASSUME w # <<>>
      PROVE  Fit(Tail(w)) /\ Head(w).value \in Values(Head(w).setting)
  <2>1. \A i \in 1..Len(Tail(w)) : i + 1 \in 1..Len(w)
    BY <1>2, TakeMessage
  <2>2. 1 \in 1..Len(w)
    BY <1>2, TakeMessage
  <2>3. QED
    BY <1>2, <2>1, <2>2, TakeMessage DEF Fit
<1>3. QED
  BY <1>1, <1>2

\* What is brought is brought with one more message behind it, unless that frees.
LEMMA BringsMore ==
  ASSUME NEW w \in Seq(Messages), NEW m \in Messages, NEW v, NEW s \in Settings,
         m.setting = s => m.value # Free,
         Brings(w, v, s) \/ m.setting = s
  PROVE  Brings(Append(w, m), v, s)
<1>1. \A j \in 1..Len(Append(w, m)) : j \in 1..Len(w) \/ j = Len(w) + 1
  BY AppendMessage
<1>2. CASE Brings(w, v, s)
  <2>1. PICK k \in 0..Len(w) :
          /\ k = 0 => v # Free
          /\ k > 0 => w[k].setting = s
          /\ \A j \in 1..Len(w) : j >= k /\ w[j].setting = s => w[j].value # Free
    BY <1>2 DEF Brings
  <2>2. k \in 0..Len(Append(w, m)) /\ (k > 0 => k \in 1..Len(w))
    BY AppendMessage
  <2>3. k > 0 => Append(w, m)[k].setting = s
    BY <2>1, <2>2, AppendMessage
  <2>4. \A j \in 1..Len(Append(w, m)) :
          j >= k /\ Append(w, m)[j].setting = s => Append(w, m)[j].value # Free
    BY <1>1, <2>1, AppendMessage
  <2>5. QED
    BY <2>1, <2>2, <2>3, <2>4 DEF Brings
<1>3. CASE m.setting = s
  <2> DEFINE k == Len(w) + 1
  <2>1. k \in 0..Len(Append(w, m)) /\ k # 0 /\ Append(w, m)[k] = m
    BY AppendMessage
  <2>2. \A j \in 1..Len(Append(w, m)) : j >= k => j = k
    BY <1>1, AppendMessage
  <2> HIDE DEF k
  <2>3. QED
    BY <1>3, <2>1, <2>2 DEF Brings
<1>4. QED
  BY <1>2, <1>3

\* What is brought stays brought when the first message has been applied.
LEMMA BringsRest ==
  ASSUME NEW w \in Seq(Messages), w # <<>>, NEW v, NEW s \in Settings,
         Brings(w, v, s)
  PROVE  Brings(Tail(w), IF Head(w).setting = s THEN Head(w).value ELSE v, s)
<1>0. /\ Head(w) = w[1] /\ Len(w) \in Nat \ {0} /\ Len(Tail(w)) = Len(w) - 1
      /\ \A i \in 1..Len(Tail(w)) : Tail(w)[i] = w[i + 1]
  BY TakeMessage
<1>1. PICK k \in 0..Len(w) :
        /\ k = 0 => v # Free
        /\ k > 0 => w[k].setting = s
        /\ \A j \in 1..Len(w) : j >= k /\ w[j].setting = s => w[j].value # Free
  BY DEF Brings
<1>2. CASE k <= 1
  <2>1. (IF Head(w).setting = s THEN Head(w).value ELSE v) # Free
    <3>1. 1 \in 1..Len(w) /\ 1 >= k
      BY <1>0, <1>2
    <3>2. w[1].setting = s => w[1].value # Free
      BY <1>1, <3>1
    <3>3. w[1].setting # s => k = 0
      BY <1>1, <1>2
    <3>4. QED
      BY <1>0, <1>1, <3>2, <3>3
  <2>2. \A j \in 1..Len(Tail(w)) : Tail(w)[j].setting = s => Tail(w)[j].value # Free
    <3>1. \A j \in 1..Len(Tail(w)) : j + 1 \in 1..Len(w) /\ j + 1 >= k
      BY <1>0, <1>2
    <3>2. QED
      BY <1>0, <1>1, <3>1
  <2>3. 0 \in 0..Len(Tail(w)) /\ ~ (0 > 0)
    BY <1>0
  <2>4. QED
    BY <2>1, <2>2, <2>3 DEF Brings
<1>3. CASE k > 1
  <2>1. k - 1 \in 1..Len(Tail(w)) /\ k - 1 \in 0..Len(Tail(w)) /\ (k - 1) + 1 = k
        /\ k - 1 # 0
    BY <1>0, <1>3
  <2>2. Tail(w)[k - 1].setting = s
    BY <1>0, <1>1, <1>3, <2>1
  <2>3. \A j \in 1..Len(Tail(w)) :
          j >= k - 1 /\ Tail(w)[j].setting = s => Tail(w)[j].value # Free
    <3>1. \A j \in 1..Len(Tail(w)) :
            j + 1 \in 1..Len(w) /\ (j >= k - 1 => j + 1 >= k)
      BY <1>0
    <3>2. QED
      BY <1>0, <1>1, <3>1
  <2>4. QED
    BY <2>1, <2>2, <2>3 DEF Brings
<1>4. QED
  BY <1>2, <1>3

\* Nothing is brought by no message but what there is.
LEMMA BringsNothing ==
  ASSUME NEW v, NEW s \in Settings, Brings(<<>>, v, s)
  PROVE  v # Free
  BY EmptySeq DEF Brings

\* A setting is sent first, or it is still to be sent.
LEMMA SendsRest ==
  ASSUME NEW q \in Seq(Messages), q # <<>>, NEW s \in Settings, Sends(q, s)
  PROVE  \/ Sends(Tail(q), s)
         \/ Head(q).setting = s /\ Head(q).value # Free
<1>0. /\ Head(q) = q[1] /\ Len(q) \in Nat \ {0} /\ Len(Tail(q)) = Len(q) - 1
      /\ \A i \in 1..Len(Tail(q)) : Tail(q)[i] = q[i + 1]
  BY TakeMessage
<1>1. PICK i \in 1..Len(q) : q[i].setting = s /\ q[i].value # Free
  BY DEF Sends
<1>2. CASE i = 1
  BY <1>0, <1>1, <1>2
<1>3. CASE i # 1
  <2>1. i - 1 \in 1..Len(Tail(q)) /\ (i - 1) + 1 = i
    BY <1>0, <1>3
  <2>2. Tail(q)[i - 1] = q[i]
    BY <1>0, <2>1
  <2>3. QED
    BY <1>1, <2>1, <2>2 DEF Sends
<1>4. QED
  BY <1>2, <1>3

\* The invariant has the types of the control plane, and the property.
LEMMA CarriedGivesControl == CarriedInv => ControlInv
<1> SUFFICES ASSUME CarriedInv PROVE ControlInv
  OBVIOUS
<1>1. ControlTypeOK
  <2>1. targets \subseteq {d \in Daemons : InMap(d)}
    BY DEF CarriedInv, ConsoleInv, LinkOK, InMap
  <2>2. QED
    BY <2>1 DEF CarriedInv, ConsoleInv, LinkOK, ControlTypeOK
<1>2. PausedMeansPaused
  <2>1. SUFFICES ASSUME NEW d \in Daemons, NEW s \in Settings,
                        Settled(d), state[s] # Free
                 PROVE  applied[d][s] # Free
    BY DEF PausedMeansPaused
  <2>2. handler[d] = "ready" /\ wire[d] = <<>> /\ console = "idle"
    BY <2>1 DEF Settled
  <2>3. ~ Awaited(d, s)
    BY <2>2 DEF Awaited
  <2>4. ~ Sends(replay[d], s)
    <3>1. replay[d] = <<>>
      BY <2>2 DEF CarriedInv, LinkOK
    <3>2. Len(replay[d]) = 0
      BY <3>1, EmptySeq
    <3>3. QED
      BY <3>2 DEF Sends
  <2>5. Brings(wire[d], applied[d][s], s)
    BY <2>1, <2>2, <2>3, <2>4 DEF CarriedInv, Carried
  <2>6. QED
    BY <2>2, <2>5, BringsNothing
<1>3. QED
  BY <1>1, <1>2 DEF ControlInv

LEMMA InitCarried == ControlInit => CarriedInv
<1> SUFFICES ASSUME ControlInit PROVE CarriedInv
  OBVIOUS
<1>1. AllFree \in [Settings -> AllValues] /\ \A s \in Settings : AllFree[s] = Free
  BY SettingsKnown DEF AllFree
<1>2. Nothing \in Messages /\ Nothing.value \in Values(Nothing.setting)
  BY SettingsKnown DEF Nothing, Messages, AllValues
<1>3. ConsoleInv
  BY <1>1, <1>2, SettingsKnown DEF ControlInit, ConsoleInv
<1>4. ASSUME NEW d \in Daemons
      PROVE  LinkOK(d) /\ \A s \in Settings : Carried(d, s)
  <2>1. /\ handler[d] = "down" /\ replay[d] = <<>> /\ wire[d] = <<>>
        /\ applied[d] = AllFree /\ targets = {}
    BY DEF ControlInit
  <2>2. <<>> \in Seq(Messages) /\ Fit(<<>>)
    BY EmptySeq DEF Fit
  <2>3. QED
    BY <1>1, <2>1, <2>2, SettingsKnown DEF LinkOK, Carried
<1>5. PerDaemon
  BY DEF ControlInit, PerDaemon
<1>6. QED
  BY <1>3, <1>4, <1>5 DEF CarriedInv

\* A step of one daemon's connection need be looked at for that daemon alone.
LEMMA OneDaemon ==
  ASSUME CarriedInv, NEW d \in Daemons,
         UNCHANGED <<state, console, message>>, PerDaemon',
         targets' \subseteq targets,
         \A e \in Daemons : e # d =>
           /\ handler'[e] = handler[e] /\ replay'[e] = replay[e]
           /\ wire'[e] = wire[e] /\ applied'[e] = applied[e]
           /\ e \in targets => e \in targets',
         LinkOK(d)', \A s \in Settings : Carried(d, s)'
  PROVE  CarriedInv'
<1>1. ConsoleInv'
  BY DEF CarriedInv, ConsoleInv
<1>2. ASSUME NEW e \in Daemons, e # d
      PROVE  LinkOK(e)' /\ \A s \in Settings : Carried(e, s)'
  <2>1. /\ handler'[e] = handler[e] /\ replay'[e] = replay[e]
        /\ wire'[e] = wire[e] /\ applied'[e] = applied[e]
        /\ e \in targets <=> e \in targets'
    BY <1>2
  <2>2. LinkOK(e) /\ \A s \in Settings : Carried(e, s)
    BY DEF CarriedInv
  <2>3. QED
    BY <2>1, <2>2 DEF LinkOK, Carried, Awaited
<1>3. QED
  BY <1>1, <1>2 DEF CarriedInv

\* A step of the console that touches no connection: what it restricts from now
\* on is awaited, and it gives up no broadcast that somebody waits for.
LEMMA ConsoleStep ==
  ASSUME CarriedInv, UNCHANGED <<linkVars, applied>>, ConsoleInv',
         \A d \in targets' : handler[d] # "down",
         \A d \in Daemons : \A s \in Settings :
           handler[d] \in {"replaying", "ready"} /\ state'[s] # Free =>
             Awaited(d, s)' \/ (state[s] # Free /\ ~ Awaited(d, s))
  PROVE  CarriedInv'
<1>1. UNCHANGED <<handler, replay, wire, applied>>
  BY DEF linkVars
<1>2. ASSUME NEW d \in Daemons
      PROVE  LinkOK(d)' /\ \A s \in Settings : Carried(d, s)'
  <2>1. LinkOK(d) /\ \A s \in Settings : Carried(d, s)
    BY DEF CarriedInv
  <2>2. LinkOK(d)'
    BY <1>1, <2>1 DEF LinkOK
  <2>3. ASSUME NEW s \in Settings PROVE Carried(d, s)'
    <3>1. CASE Awaited(d, s)'
      BY <3>1 DEF Carried
    <3>2. CASE ~ Awaited(d, s)'
      BY <1>1, <2>1, <3>2 DEF Carried
    <3>3. QED
      BY <3>1, <3>2
  <2>4. QED
    BY <2>2, <2>3
<1>3. PerDaemon'
  BY <1>1 DEF CarriedInv, PerDaemon
<1>4. QED
  BY <1>2, <1>3 DEF CarriedInv

LEMMA CommandKeeps ==
  ASSUME CarriedInv, NEW s \in Settings, NEW v \in Values(s), Command(s, v)
  PROVE  CarriedInv'
<1>1. /\ console = "idle" /\ console' = "settled"
      /\ state' = [state EXCEPT ![s] = v]
      /\ message' = [setting |-> s, value |-> v]
      /\ UNCHANGED <<targets, linkVars, applied>>
  BY DEF Command
<1>2. v \in AllValues /\ state \in [Settings -> AllValues]
  BY SettingsKnown DEF CarriedInv, ConsoleInv
<1>3. \A r \in Settings : state'[r] = IF r = s THEN v ELSE state[r]
  BY <1>1, <1>2
<1>4. ConsoleInv'
  <2>1. state' \in [Settings -> AllValues]
    BY <1>1, <1>2
  <2>2. \A r \in Settings : state'[r] \in Values(r)
    BY <1>3 DEF CarriedInv, ConsoleInv
  <2>3. /\ message' \in Messages /\ message'.value \in Values(message'.setting)
        /\ message'.value = state'[message'.setting]
    BY <1>1, <1>2, <1>3 DEF Messages, AllValues
  <2>4. QED
    BY <1>1, <2>1, <2>2, <2>3 DEF CarriedInv, ConsoleInv
<1>5. \A d \in targets' : handler[d] # "down"
  BY <1>1 DEF CarriedInv, ConsoleInv, LinkOK
<1>6. ASSUME NEW d \in Daemons, NEW r \in Settings, state'[r] # Free
      PROVE  Awaited(d, r)' \/ (state[r] # Free /\ ~ Awaited(d, r))
  <2>1. CASE r = s
    BY <1>1, <2>1 DEF Awaited
  <2>2. CASE r # s
    BY <1>1, <1>3, <1>6, <2>2 DEF Awaited
  <2>3. QED
    BY <2>1, <2>2
<1>7. QED
  BY <1>1, <1>4, <1>5, <1>6, ConsoleStep

\* The connections are copied: all that have read the settings are among them.
LEMMA SnapshotKeeps ==
  ASSUME CarriedInv, Snapshot
  PROVE  CarriedInv'
<1>1. /\ console = "settled" /\ console' = "writing"
      /\ targets' = {d \in Daemons : handler[d] # "down"}
      /\ UNCHANGED <<state, message, linkVars, applied>>
  BY DEF Snapshot, InMap
<1>2. ConsoleInv'
  BY <1>1 DEF CarriedInv, ConsoleInv
<1>3. \A d \in Daemons : \A s \in Settings :
        handler[d] \in {"replaying", "ready"} /\ state'[s] # Free =>
          Awaited(d, s)' \/ (state[s] # Free /\ ~ Awaited(d, s))
  BY <1>1 DEF Awaited
<1>4. QED
  BY <1>1, <1>2, <1>3, ConsoleStep

\* The command is over: nobody waits for it.
LEMMA PromptKeeps ==
  ASSUME CarriedInv, Prompt
  PROVE  CarriedInv'
<1>1. /\ console = "writing" /\ targets = {} /\ console' = "idle"
      /\ message' = Nothing
      /\ UNCHANGED <<state, targets, linkVars, applied>>
  BY DEF Prompt
<1>2. Nothing \in Messages /\ Nothing.value \in Values(Nothing.setting)
  BY SettingsKnown DEF Nothing, Messages, AllValues
<1>3. ConsoleInv'
  BY <1>1, <1>2 DEF CarriedInv, ConsoleInv
<1>4. \A d \in Daemons : \A s \in Settings :
        handler[d] \in {"replaying", "ready"} /\ state'[s] # Free =>
          Awaited(d, s)' \/ (state[s] # Free /\ ~ Awaited(d, s))
  BY <1>1 DEF Awaited
<1>5. QED
  BY <1>1, <1>3, <1>4, ConsoleStep

\* The broadcast writes to one connection: what it says is what is in force.
LEMMA WriteKeeps ==
  ASSUME CarriedInv, NEW d \in Daemons, Write(d)
  PROVE  CarriedInv'
<1>1. /\ console = "writing" /\ d \in targets /\ targets' = targets \ {d}
      /\ wire' = [wire EXCEPT ![d] = Append(wire[d], message)]
      /\ UNCHANGED <<state, console, message, handler, replay, applied>>
  BY DEF Write
<1>2. /\ LinkOK(d) /\ PerDaemon /\ ConsoleInv
      /\ \A s \in Settings : Carried(d, s)
  BY DEF CarriedInv
<1>3. /\ \A e \in Daemons : wire'[e] =
           IF e = d THEN Append(wire[d], message) ELSE wire[e]
      /\ wire' = [e \in Daemons |-> wire'[e]]
  BY <1>1, <1>2 DEF PerDaemon
<1>4. PerDaemon'
  BY <1>1, <1>2, <1>3 DEF PerDaemon
<1>5. /\ message \in Messages /\ message.value \in Values(message.setting)
      /\ message.value = state[message.setting]
      /\ wire[d] \in Seq(Messages) /\ Fit(wire[d])
      /\ handler[d] # "down"
  BY <1>1, <1>2 DEF ConsoleInv, LinkOK
<1>6. wire'[d] = Append(wire[d], message) /\ wire'[d] \in Seq(Messages) /\ Fit(wire'[d])
  BY <1>3, <1>5, AppendMessage, FitKept
<1>7. LinkOK(d)'
  BY <1>1, <1>2, <1>5, <1>6 DEF LinkOK
<1>8. ASSUME NEW s \in Settings PROVE Carried(d, s)'
  <2>1. SUFFICES ASSUME handler[d] \in {"replaying", "ready"}, state[s] # Free,
                        ~ Sends(replay[d], s)
                 PROVE  Brings(wire'[d], applied[d][s], s)
    BY <1>1 DEF Carried
  <2>2. message.setting = s => message.value # Free
    BY <1>5, <2>1
  <2>3. Brings(wire[d], applied[d][s], s) \/ message.setting = s
    BY <1>2, <2>1 DEF Carried, Awaited
  <2>4. QED
    BY <1>5, <1>6, <2>2, <2>3, BringsMore
<1>9. QED
  BY <1>1, <1>3, <1>4, <1>7, <1>8, OneDaemon

\* A connection enters the map; its registration has read nothing yet.
LEMMA ConnectKeeps ==
  ASSUME CarriedInv, NEW d \in Daemons, Connect(d)
  PROVE  CarriedInv'
<1>1. /\ handler[d] = "down"
      /\ handler' = [handler EXCEPT ![d] = "entered"]
      /\ UNCHANGED <<state, console, message, targets, replay, wire, applied>>
  BY DEF Connect, trackerVars
<1>2. /\ \A e \in Daemons : handler'[e] = IF e = d THEN "entered" ELSE handler[e]
      /\ handler' = [e \in Daemons |-> handler'[e]]
  BY <1>1 DEF CarriedInv, PerDaemon
<1>3. PerDaemon'
  BY <1>1, <1>2 DEF CarriedInv, PerDaemon
<1>4. LinkOK(d)' /\ \A s \in Settings : Carried(d, s)'
  BY <1>1, <1>2 DEF CarriedInv, LinkOK, Carried
<1>5. QED
  BY <1>1, <1>2, <1>3, <1>4, OneDaemon

\* The registration reads the settings: every restriction is in its copy.
LEMMA ReadStateKeeps ==
  ASSUME CarriedInv, NEW d \in Daemons, ReadState(d)
  PROVE  CarriedInv'
<1> DEFINE copy == [i \in DOMAIN SettingOrder |->
                      [setting |-> SettingOrder[i],
                       value |-> state[SettingOrder[i]]]]
<1>1. /\ handler' = [handler EXCEPT ![d] = "replaying"]
      /\ replay' = [replay EXCEPT ![d] = copy]
      /\ UNCHANGED <<state, console, message, targets, wire, applied>>
  BY DEF ReadState, trackerVars
<1>2. /\ DOMAIN SettingOrder = 1..Len(SettingOrder) /\ Len(SettingOrder) \in Nat
      /\ \A i \in 1..Len(SettingOrder) : SettingOrder[i] \in Settings
  BY SettingsKnown, LenProperties, ElementOfSeq
<1>3. \A s \in Settings : state[s] \in Values(s) /\ state[s] \in AllValues
  BY SettingsKnown DEF CarriedInv, ConsoleInv
<1>4. copy = [i \in 1..Len(SettingOrder) |-> copy[i]]
  BY <1>2
<1>5. \A i \in 1..Len(SettingOrder) :
        /\ copy[i] = [setting |-> SettingOrder[i], value |-> state[SettingOrder[i]]]
        /\ copy[i] \in Messages /\ copy[i].value \in Values(copy[i].setting)
  BY <1>2, <1>3 DEF Messages, AllValues
<1>6. ASSUME NEW s \in Settings
      PROVE  \E i \in 1..Len(SettingOrder) : SettingOrder[i] = s
  BY <1>2 DEF Settings
<1> HIDE DEF copy
<1>7. copy \in [1..Len(SettingOrder) -> Messages]
  BY <1>4, <1>5
<1>8. copy \in Seq(Messages) /\ Len(copy) = Len(SettingOrder)
  BY <1>2, <1>7, SMT
<1>9. /\ \A e \in Daemons : /\ handler'[e] = IF e = d THEN "replaying" ELSE handler[e]
                            /\ replay'[e] = IF e = d THEN copy ELSE replay[e]
      /\ handler' = [e \in Daemons |-> handler'[e]]
      /\ replay' = [e \in Daemons |-> replay'[e]]
  BY <1>1 DEF CarriedInv, PerDaemon
<1>10. PerDaemon'
  BY <1>1, <1>9 DEF CarriedInv, PerDaemon
<1>11. LinkOK(d)'
  <2>1. Fit(copy)
    BY <1>5, <1>8 DEF Fit
  <2>2. QED
    BY <1>1, <1>8, <1>9, <2>1 DEF CarriedInv, LinkOK
<1>12. ASSUME NEW s \in Settings PROVE Carried(d, s)'
  <2>1. SUFFICES ASSUME state[s] # Free PROVE Sends(copy, s)
    BY <1>1, <1>9 DEF Carried
  <2>2. PICK i \in 1..Len(SettingOrder) : SettingOrder[i] = s
    BY <1>6
  <2>3. copy[i] = [setting |-> s, value |-> state[s]]
    BY <1>5, <2>2
  <2>4. copy[i].setting = s /\ copy[i].value # Free
    BY <2>1, <2>3
  <2>5. QED
    BY <1>8, <2>4 DEF Sends
<1>13. QED
  BY <1>1, <1>9, <1>10, <1>11, <1>12, OneDaemon

\* The registration sends the next restriction of its copy, or skips what does not
\* restrict.
LEMMA SendToKeeps ==
  ASSUME CarriedInv, NEW d \in Daemons, SendTo(d)
  PROVE  CarriedInv'
<1> DEFINE m == Head(replay[d])
<1>1. /\ handler[d] = "replaying" /\ replay[d] # <<>>
      /\ replay' = [replay EXCEPT ![d] = Tail(replay[d])]
      /\ wire' = IF m.value # Free THEN [wire EXCEPT ![d] = Append(wire[d], m)]
                 ELSE wire
      /\ UNCHANGED <<state, console, message, targets, handler, applied>>
  BY DEF SendTo, trackerVars
<1>2. /\ LinkOK(d) /\ PerDaemon
      /\ \A s \in Settings : Carried(d, s)
  BY DEF CarriedInv
<1>3. /\ replay[d] \in Seq(Messages) /\ Fit(replay[d])
      /\ wire[d] \in Seq(Messages) /\ Fit(wire[d])
  BY <1>2 DEF LinkOK
<1>4. /\ m \in Messages /\ m.value \in Values(m.setting)
      /\ Tail(replay[d]) \in Seq(Messages) /\ Fit(Tail(replay[d]))
  BY <1>1, <1>3, TakeMessage, FitKept
<1>5. ASSUME NEW s \in Settings, Sends(replay[d], s)
      PROVE  Sends(Tail(replay[d]), s) \/ (m.setting = s /\ m.value # Free)
  BY <1>1, <1>3, <1>5, SendsRest
<1> HIDE DEF m
<1>6. /\ \A e \in Daemons :
           /\ replay'[e] = IF e = d THEN Tail(replay[d]) ELSE replay[e]
           /\ wire'[e] = IF e = d /\ m.value # Free
                         THEN Append(wire[d], m) ELSE wire[e]
      /\ replay' = [e \in Daemons |-> replay'[e]]
      /\ wire' = [e \in Daemons |-> wire'[e]]
  BY <1>1, <1>2 DEF PerDaemon
<1>7. PerDaemon'
  BY <1>1, <1>2, <1>6 DEF PerDaemon
<1>8. wire'[d] \in Seq(Messages) /\ Fit(wire'[d])
  BY <1>3, <1>4, <1>6, AppendMessage, FitKept
<1>9. LinkOK(d)'
  BY <1>1, <1>2, <1>4, <1>6, <1>8 DEF LinkOK
<1>10. ASSUME NEW s \in Settings PROVE Carried(d, s)'
  <2>1. SUFFICES ASSUME state[s] # Free, ~ Awaited(d, s),
                        ~ Sends(Tail(replay[d]), s)
                 PROVE  Brings(wire'[d], applied[d][s], s)
    BY <1>1, <1>6 DEF Carried, Awaited
  <2>2. Brings(wire[d], applied[d][s], s) \/ (m.setting = s /\ m.value # Free)
    BY <1>1, <1>2, <1>5, <2>1 DEF Carried
  <2>3. CASE m.value # Free
    BY <1>3, <1>4, <1>6, <2>2, <2>3, BringsMore
  <2>4. CASE m.value = Free
    BY <1>6, <2>2, <2>4
  <2>5. QED
    BY <2>3, <2>4
<1>11. QED
  BY <1>1, <1>6, <1>7, <1>9, <1>10, OneDaemon

LEMMA RegisteredKeeps ==
  ASSUME CarriedInv, NEW d \in Daemons, Registered(d)
  PROVE  CarriedInv'
<1>1. /\ handler[d] = "replaying" /\ replay[d] = <<>>
      /\ handler' = [handler EXCEPT ![d] = "ready"]
      /\ UNCHANGED <<state, console, message, targets, replay, wire, applied>>
  BY DEF Registered, trackerVars
<1>2. /\ \A e \in Daemons : handler'[e] = IF e = d THEN "ready" ELSE handler[e]
      /\ handler' = [e \in Daemons |-> handler'[e]]
  BY <1>1 DEF CarriedInv, PerDaemon
<1>3. PerDaemon'
  BY <1>1, <1>2 DEF CarriedInv, PerDaemon
<1>4. LinkOK(d)' /\ \A s \in Settings : Carried(d, s)'
  BY <1>1, <1>2 DEF CarriedInv, LinkOK, Carried, Awaited
<1>5. QED
  BY <1>1, <1>2, <1>3, <1>4, OneDaemon

\* The daemon applies the first message.
LEMMA ApplyKeeps ==
  ASSUME CarriedInv, NEW d \in Daemons, Apply(d)
  PROVE  CarriedInv'
<1> DEFINE m == Head(wire[d])
<1>1. /\ wire[d] # <<>>
      /\ applied' = [applied EXCEPT ![d][m.setting] = m.value]
      /\ wire' = [wire EXCEPT ![d] = Tail(wire[d])]
      /\ UNCHANGED <<state, console, message, targets, handler, replay>>
  BY DEF Apply, trackerVars
<1>2. /\ LinkOK(d) /\ PerDaemon
      /\ \A s \in Settings : Carried(d, s)
  BY DEF CarriedInv
<1>3. /\ wire[d] \in Seq(Messages) /\ Fit(wire[d])
      /\ applied[d] \in [Settings -> AllValues]
  BY <1>2 DEF LinkOK
<1>4. /\ m \in Messages /\ m.value \in Values(m.setting)
      /\ Tail(wire[d]) \in Seq(Messages) /\ Fit(Tail(wire[d]))
  BY <1>1, <1>3, TakeMessage, FitKept
<1>5. ASSUME NEW s \in Settings, Brings(wire[d], applied[d][s], s)
      PROVE  Brings(Tail(wire[d]),
                    IF m.setting = s THEN m.value ELSE applied[d][s], s)
  BY <1>1, <1>3, <1>5, BringsRest
<1> HIDE DEF m
<1>6. m.setting \in Settings /\ m.value \in AllValues
  BY <1>4 DEF Messages, AllValues
<1>7. /\ \A e \in Daemons : /\ wire'[e] = IF e = d THEN Tail(wire[d]) ELSE wire[e]
                            /\ e # d => applied'[e] = applied[e]
      /\ applied'[d] = [applied[d] EXCEPT ![m.setting] = m.value]
      /\ wire' = [e \in Daemons |-> wire'[e]]
      /\ applied' = [e \in Daemons |-> applied'[e]]
  BY <1>1, <1>2 DEF PerDaemon
<1>8. /\ applied'[d] \in [Settings -> AllValues]
      /\ \A s \in Settings : applied'[d][s] =
           IF m.setting = s THEN m.value ELSE applied[d][s]
  BY <1>3, <1>6, <1>7
<1>9. PerDaemon'
  BY <1>1, <1>2, <1>7 DEF PerDaemon
<1>10. LinkOK(d)'
  <2>1. \A s \in Settings : applied'[d][s] \in Values(s)
    BY <1>2, <1>4, <1>8 DEF LinkOK
  <2>2. handler[d] # "down"
    BY <1>1, <1>2 DEF LinkOK
  <2>3. QED
    BY <1>1, <1>2, <1>4, <1>7, <1>8, <2>1, <2>2 DEF LinkOK
<1>11. ASSUME NEW s \in Settings PROVE Carried(d, s)'
  <2>1. SUFFICES ASSUME Brings(wire[d], applied[d][s], s)
                 PROVE  Brings(wire'[d], applied'[d][s], s)
    BY <1>1, <1>2 DEF Carried, Awaited
  <2>2. Brings(Tail(wire[d]),
               IF m.setting = s THEN m.value ELSE applied[d][s], s)
    BY <1>5, <2>1
  <2>3. wire'[d] = Tail(wire[d])
    BY <1>1, <1>2 DEF PerDaemon
  <2>4. applied'[d][s] = IF m.setting = s THEN m.value ELSE applied[d][s]
    BY <1>8
  <2>5. QED
    BY <2>2, <2>3, <2>4
<1>12. QED
  BY <1>1, <1>7, <1>9, <1>10, <1>11, OneDaemon

\* A connection that is gone carries nothing and promises nothing.
LEMMA GoneKeeps ==
  ASSUME CarriedInv, NEW d \in Daemons, Drop(d) \/ RestartDaemon(d)
  PROVE  CarriedInv'
<1>1. /\ Disconnected({d}) /\ targets' = targets \ {d}
      /\ UNCHANGED <<state, console, message>>
      /\ applied' = applied \/ applied' = [applied EXCEPT ![d] = AllFree]
  BY DEF Drop, RestartDaemon
<1>2. \A e \in Daemons :
        /\ handler'[e] = IF e = d THEN "down" ELSE handler[e]
        /\ replay'[e] = IF e = d THEN <<>> ELSE replay[e]
        /\ wire'[e] = IF e = d THEN <<>> ELSE wire[e]
        /\ applied'[e] = applied[e] \/ (e = d /\ applied'[e] = AllFree)
  BY <1>1 DEF Disconnected, CarriedInv, PerDaemon
<1>3. PerDaemon'
  BY <1>1 DEF Disconnected, CarriedInv, PerDaemon
<1>4. AllFree \in [Settings -> AllValues] /\ \A s \in Settings : AllFree[s] = Free
  BY SettingsKnown DEF AllFree
<1>5. <<>> \in Seq(Messages) /\ Fit(<<>>)
  BY EmptySeq DEF Fit
<1>6. LinkOK(d)'
  BY <1>1, <1>2, <1>4, <1>5, SettingsKnown DEF CarriedInv, LinkOK
<1>7. \A s \in Settings : Carried(d, s)'
  BY <1>2 DEF Carried
<1>8. QED
  BY <1>1, <1>2, <1>3, <1>6, <1>7, OneDaemon

\* The tracker has forgotten all restrictions, and every connection is gone.
LEMMA RestartTrackerKeeps ==
  ASSUME CarriedInv, RestartTracker
  PROVE  CarriedInv'
<1>1. /\ Disconnected(Daemons)
      /\ state' = AllFree
      /\ console' = "idle" /\ message' = Nothing /\ targets' = {}
      /\ applied' = applied
  BY DEF RestartTracker
<1>2. AllFree \in [Settings -> AllValues] /\ \A s \in Settings : AllFree[s] = Free
  BY SettingsKnown DEF AllFree
<1>3. Nothing \in Messages /\ Nothing.value \in Values(Nothing.setting)
  BY SettingsKnown DEF Nothing, Messages, AllValues
<1>4. ConsoleInv'
  BY <1>1, <1>2, <1>3, SettingsKnown DEF ConsoleInv
<1>5. <<>> \in Seq(Messages) /\ Fit(<<>>)
  BY EmptySeq DEF Fit
<1>6. \A d \in Daemons : /\ handler'[d] = "down" /\ replay'[d] = <<>>
                         /\ wire'[d] = <<>>
  BY <1>1 DEF Disconnected
<1>7. ASSUME NEW d \in Daemons
      PROVE  LinkOK(d)' /\ \A s \in Settings : Carried(d, s)'
  BY <1>1, <1>5, <1>6 DEF CarriedInv, LinkOK, Carried
<1>8. PerDaemon'
  BY <1>1 DEF Disconnected, CarriedInv, PerDaemon
<1>9. QED
  BY <1>4, <1>7, <1>8 DEF CarriedInv

LEMMA NextCarried == CarriedInv /\ [ControlNext]_controlVars => CarriedInv'
<1> SUFFICES ASSUME CarriedInv, [ControlNext]_controlVars PROVE CarriedInv'
  OBVIOUS
<1>1. CASE UNCHANGED controlVars
  <2>1. UNCHANGED <<state, console, message, targets, handler, replay, wire,
                    applied>>
    BY <1>1 DEF controlVars, trackerVars, linkVars
  <2>2. QED
    BY <2>1 DEF CarriedInv, ConsoleInv, PerDaemon, LinkOK, Carried, Awaited
<1>2. ASSUME NEW d \in Daemons,
             \/ Write(d) \/ Connect(d) \/ ReadState(d) \/ SendTo(d)
             \/ Registered(d) \/ Apply(d) \/ Drop(d) \/ RestartDaemon(d)
      PROVE  CarriedInv'
  BY <1>2, WriteKeeps, ConnectKeeps, ReadStateKeeps, SendToKeeps,
     RegisteredKeeps, ApplyKeeps, GoneKeeps
<1>3. QED
  BY <1>1, <1>2, CommandKeeps, SnapshotKeeps, PromptKeeps, RestartTrackerKeeps
  DEF ControlNext

LEMMA CarriedInvariant == ControlSpec => []CarriedInv
  BY InitCarried, NextCarried, PTL DEF ControlSpec

\* Every daemon that is registered and has been told everything holds back what
\* the operator restricts, for any number of daemons and settings and in every
\* order of registrations, broadcasts, lost connections and restarts.
THEOREM RestrictionsHold == ControlSpec => []ControlInv
  BY CarriedGivesControl, CarriedInvariant, PTL
===============================================================================
