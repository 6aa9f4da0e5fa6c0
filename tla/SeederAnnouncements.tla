------------------------- MODULE SeederAnnouncements -------------------------
(* How the tracker learns what a daemon seeds: the seeder's announcements      *)
(* (pkg/client/seeder.go over pkg/client/tracker.go) made to TrackerStore.     *)
(*                                                                             *)
(* A file that is added is announced once, by a goroutine of its own; every    *)
(* AnnounceEvery ticks announceAll announces the files one after the other,    *)
(* each in a request that names it alone. announceAll holds seedingMu for      *)
(* reading, so nothing is added or removed before it ends. An announcement     *)
(* gives up after 10 s, which is a tick here; it has then been applied or not. *)
(* So a round takes a tick for each file at most. How they spread over the     *)
(* round is left open, and the answer to the last may be one of them.          *)
(*                                                                             *)
(* Of the tracker's other clients only those that register files take part     *)
(* here: readers change no table.                                              *)
EXTENDS TrackerStore, FiniteSets

CONSTANTS
  Self,          \* the daemon's peer id
  AnnounceEvery  \* Seeder.announceInterval

\* Two rounds, and a third that takes its time, fit into the window. The code's
\* numbers are 12 ticks (2 minutes) and 30 (5 minutes): so it is with up to five
\* files, however slow the tracker is.
ASSUME AnnounceAssumption ==
  /\ Self \in PeerIDs
  /\ AnnounceEvery \in Nat \ {0}
  /\ IsFiniteSet(Hashes)
  /\ Cardinality(Hashes) <= AnnounceEvery
  /\ 2 * AnnounceEvery + Cardinality(Hashes) < LiveWindow

VARIABLES
  seeding,    \* keys of Seeder.seedingFiles
  added,      \* files whose announcing goroutine has not come to it yet
  late,       \* those over which a tick has passed
  walking,    \* announceAll is running
  round,      \* files it has yet to announce
  left,       \* ticks it may still take
  sinceRound, \* ticks since the ticker fired
  accepted,   \* history: files whose last announcement the tracker accepted
  last,       \* history: the file it accepted last, or Absent
  missed,     \* history: rounds begun since then
  removedFor  \* history: ticks since the file was last seeded

history == <<accepted, last, missed>>
walk == <<walking, round, left, sinceRound>>
seederVars == <<seeding, added, late, walk, history, removedFor>>
allVars == <<vars, seederVars>>

SeederInit ==
  /\ seeding = {} /\ added = {} /\ late = {}
  /\ walking = FALSE /\ round = {} /\ left = 0
  /\ sinceRound = 0
  /\ accepted = {}
  /\ last = Absent
  /\ missed = 0
  /\ removedFor = [h \in Hashes |-> LiveWindow + 1]

AllInit == Init /\ SeederInit

\* AddFile, after the file has been loaded. If the goroutine of an earlier AddFile
\* of the file is still to come, the two count as one, with the time of the later.
AddFile(h) ==
  /\ ~walking
  /\ h \notin seeding
  /\ seeding' = seeding \cup {h}
  /\ added' = added \cup {h}
  /\ late' = late \ {h}
  /\ removedFor' = [removedFor EXCEPT ![h] = 0]
  /\ UNCHANGED <<vars, walk, history>>

\* RemoveFile. The tracker is not told.
RemoveFile(h) ==
  /\ ~walking
  /\ h \in seeding
  /\ seeding' = seeding \ {h}
  /\ UNCHANGED <<vars, added, late, walk, history, removedFor>>

\* Fault: every second beat of the ticker is lost.
EverySecond == sinceRound >= 2 * AnnounceEvery

Due == sinceRound >= AnnounceEvery

\* The ticker fires and announceAll walks the files.
StartRound ==
  /\ Due /\ ~walking
  /\ walking' = TRUE
  /\ round' = seeding
  /\ left' = Cardinality(seeding)
  /\ sinceRound' = 0
  /\ missed' = IF missed < 3 THEN missed + 1 ELSE missed
  /\ UNCHANGED <<vars, seeding, added, late, accepted, last, removedFor>>

\* The last announcement is answered, or has failed, and seedingMu is released.
EndRound ==
  /\ walking /\ round = {}
  /\ walking' = FALSE
  /\ left' = 0
  /\ UNCHANGED <<vars, seeding, added, late, round, sinceRound, history,
                 removedFor>>

\* Fault: an announcement is added to what the daemon has announced before.
AnnounceMore(r, h) ==
  /\ at[r] = "idle"
  /\ files[h] # Absent
  /\ peers' = peers \cup {Self}
  /\ lastSeen' = [lastSeen EXCEPT ![Self] = 0]
  /\ peerFiles' = peerFiles \cup {<<Self, h>>}
  /\ GoTo(r, "forget peers")
  /\ stale' = [stale EXCEPT ![r] = {h}]
  /\ UNCHANGED <<files, cache, hash, record, found, age>>

\* The request AnnouncePeerWithNAT makes.
AnnounceOne(r, h) == Announce(r, Self, {h})

\* announceToTracker: the tracker accepts, or refuses, or is not reached.
AnnounceToTracker(h) ==
  \/ /\ \E r \in Requests : AnnounceOne(r, h)
     /\ accepted' = accepted \cup {h}
     /\ last' = h
     /\ missed' = 0
     /\ UNCHANGED removedFor
  \/ /\ accepted' = accepted \ {h}
     /\ UNCHANGED <<vars, last, missed, removedFor>>

AnnounceInRound(h) ==
  /\ h \in round
  /\ round' = round \ {h}
  /\ AnnounceToTracker(h)
  /\ UNCHANGED <<seeding, added, late, walking, left, sinceRound>>

AnnounceAdded(h) ==
  /\ h \in added
  /\ added' = added \ {h} /\ late' = late \ {h}
  /\ AnnounceToTracker(h)
  /\ UNCHANGED <<seeding, walk>>

\* The tracker by itself and its other clients.
TrackerStep ==
  /\ \/ \E r \in Requests : Continue(r) \/ Abort(r)
     \/ \E r \in Requests, h \in Hashes, new \in Records : UpsertFile(r, h, new)
     \/ CleanupStalePeers
  /\ UNCHANGED seederVars

\* Time passes for both, in a round too, as long as its announcements allow. The
\* ticker is not late by a tick: the round before it is over by then.
Time ==
  /\ ~Due
  /\ walking => left > 0
  /\ late = {}
  /\ Tick
  /\ left' = IF walking THEN left - 1 ELSE left
  /\ late' = added
  /\ sinceRound' = sinceRound + 1
  /\ removedFor' = [h \in Hashes |->
       IF h \in seeding THEN 0
       ELSE IF removedFor[h] <= LiveWindow THEN removedFor[h] + 1
       ELSE removedFor[h]]
  /\ UNCHANGED <<seeding, added, walking, round, history>>

AllNext ==
  \/ \E h \in Hashes :
       AddFile(h) \/ RemoveFile(h) \/ AnnounceInRound(h) \/ AnnounceAdded(h)
  \/ StartRound \/ EndRound \/ TrackerStep \/ Time

AllSpec == AllInit /\ [][AllNext]_allVars
-------------------------------------------------------------------------------
\* The tables keep their types and only registered files are announced.
AnnouncementsOK ==
  /\ TypeOK
  /\ seeding \subseteq Hashes /\ added \subseteq Hashes /\ late \subseteq added
  /\ walking \in BOOLEAN
  /\ round \subseteq seeding
  /\ left \in Nat /\ sinceRound \in Nat
  /\ accepted \subseteq Hashes
  /\ last \in Hashes \cup {Absent}
  /\ last # Absent => files[last] # Absent
  /\ missed \in 0..3
  /\ removedFor \in [Hashes -> 0..(LiveWindow + 1)]

\* The file the tracker heard of last stays listed until a second round after has
\* ended in vain, also when all of its announcements take their 10 s: one round
\* may be missed. It is so for as many files as fit into the window with their
\* seconds (AnnounceAssumption), five with the code's numbers.
StaysListed ==
  last # Absent /\ (missed <= 1 \/ (missed = 2 /\ walking)) => Self \in Live(last)

\* With it, that only what is seeded is announced in a round, and only what the
\* tracker has a record of is listed (seeder.go:236-249, store.go:263-290).
AnnouncementsInv == AnnouncementsOK /\ StaysListed

\* A file that is no longer seeded is no longer listed once the window and the
\* seconds of one late announcement are over, although the tracker is never told
\* and the daemon goes on announcing others, which keeps its row alive.
LeavesList ==
  \A h \in Hashes : removedFor[h] > LiveWindow => Self \notin Live(h)

\* "announcing seeding files" (seeder.go:240): a daemon whose announcements were
\* all accepted is listed for every file it seeds. Violated: AnnouncePeer replaces
\* the files of the peer by the one the request names, so the announcement of a
\* second file takes the first off the list.
SeededAreListed ==
  ~walking /\ added = {} =>
    \A h \in seeding \cap accepted : Self \in Live(h)
===============================================================================
