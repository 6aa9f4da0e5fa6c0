-------------------------------- MODULE Seeding --------------------------------
(* What a daemon seeds, in three places that are not updated together: the     *)
(* seeder's map of files (pkg/client/seeder.go), the seeding state in memory   *)
(* and in seeding.json (pkg/daemon/seeding_state.go), and the block store      *)
(* (pkg/storage/filestore.go). The handlers, the watcher and the restoration   *)
(* after a restart (pkg/daemon/server.go) work on them side by side.           *)
(*                                                                             *)
(* A content stands for the bytes of a file and for its hash, and is a set of  *)
(* chunks. A seed job waits for the gate, hashes the file, stores the blocks   *)
(* that are missing, one by one and reading the file again, adds the file to   *)
(* the seeder and records it. An unseed takes the file off the seeder first    *)
(* and off the state afterwards. Files change and vanish at any time, reads,   *)
(* writes and saves may fail, and the daemon may crash between any two steps   *)
(* and while it writes a block; seeding.json is replaced by a rename.          *)
(*                                                                             *)
(* Left out: the announcements (SeederAnnouncements), the index from CIDs to   *)
(* files, which only counts what is served, and the metrics of an unseed.      *)
EXTENDS Naturals, FiniteSets

CONSTANTS
  Paths,
  Contents,
  Chunks,
  ChunksOf,   \* ChunksOf[c]: the chunks of content c
  None,       \* no file, no entry
  Seeds,      \* seed requests served at a time
  Users,      \* unseed requests served at a time
  Watcher,    \* the file watcher, which unseeds too
  MaxChanges, \* bound on the changes of files
  MaxCrashes  \* bound on the crashes of the daemon

ASSUME SeedingAssumption ==
  /\ ChunksOf \in [Contents -> SUBSET Chunks]
  /\ None \notin Paths \cup Contents
  /\ Seeds \cap Contents = {}
  /\ Watcher \notin Users
  /\ MaxChanges \in Nat /\ MaxCrashes \in Nat

\* A seed request, or the goroutine that restores an entry, named by its hash.
Jobs == Seeds \cup Contents
Callers == Users \cup {Watcher}

VARIABLES
  source,   \* source[p]: the content of the file at p, or None
  blocks,   \* the block store: each chunk is "none", "whole" or "broken"
  seeding,  \* keys of Seeder.seedingFiles
  state,    \* SeedingStateManager.state: the path of each entry, or None
  saved,    \* seeding.json
  paused,   \* seedGate is closed
  booting,  \* restoreSeeds has not looked at the state yet
  at,       \* at[j]: what job j does next
  path,     \* path[j]: the file it loads
  content,  \* content[j]: what it has hashed
  todo,     \* todo[j]: the chunks it has yet to store
  call,     \* call[u]: what unseedFile of caller u does next
  target,   \* target[u]: the hash it is about
  watch,    \* entries the watcher has yet to look at
  stopped,  \* history: files unseeded with success, with no seed in between
  quiet,    \* history: unseeds that no seed of their file has met
  kept,     \* history: files recorded and left alone since
  dropped,  \* history: those among them that a failed restoration has dropped
  changes,
  crashes

job == <<at, path, content, todo>>
unseed == <<call, target, watch>>
history == <<stopped, quiet, kept, dropped>>
counts == <<changes, crashes>>
vars == <<source, blocks, seeding, state, saved, paused, booting, job, unseed,
          history, counts>>

Init ==
  /\ source \in [Paths -> Contents]
  /\ blocks = [k \in Chunks |-> "none"]
  /\ seeding = {}
  /\ state = [c \in Contents |-> None]
  /\ saved = state
  /\ paused = FALSE
  /\ booting = TRUE
  /\ at = [j \in Jobs |-> "idle"]
  /\ path = [j \in Jobs |-> None]
  /\ content = [j \in Jobs |-> None]
  /\ todo = [j \in Jobs |-> {}]
  /\ call = [u \in Callers |-> "idle"]
  /\ target = [u \in Callers |-> None]
  /\ watch = {}
  /\ stopped = {} /\ quiet = {} /\ kept = {} /\ dropped = {}
  /\ changes = 0 /\ crashes = 0

\* Job j goes on with a step, or leaves its data behind.
GoTo(j, step) == at' = [at EXCEPT ![j] = step]

Leave(j, step) ==
  /\ GoTo(j, step)
  /\ path' = [path EXCEPT ![j] = None]
  /\ content' = [content EXCEPT ![j] = None]
  /\ todo' = [todo EXCEPT ![j] = {}]

Goes(u, step, c) ==
  /\ call' = [call EXCEPT ![u] = step]
  /\ target' = [target EXCEPT ![u] = c]

\* The contents S have been unseeded or changed: nothing is claimed of them.
LetGo(S) == kept' = kept \ S /\ dropped' = dropped \ S

\* A job that has the content c in hand.
Loads(c) == \E j \in Jobs : at[j] \in {"store", "record"} /\ content[j] = c

\* saveUnlocked: the file is replaced, or the save fails and it stays.
Save == saved' = state' \/ saved' = saved
-------------------------------------------------------------------------------
\* handleSeed: the file must be there; the gate holds the job while it is closed.
Submit(j, p) ==
  /\ j \in Seeds /\ at[j] = "idle"
  /\ source[p] # None
  /\ path' = [path EXCEPT ![j] = p]
  /\ GoTo(j, IF paused THEN "held" ELSE "load")
  /\ UNCHANGED <<source, blocks, seeding, state, saved, paused, booting,
                 content, todo, unseed, history, counts>>

\* seedGate.Pause.
Pause ==
  /\ ~paused
  /\ paused' = TRUE
  /\ UNCHANGED <<source, blocks, seeding, state, saved, booting, job, unseed,
                 history, counts>>

\* Fault: the gate opens and those that wait are not told.
ResumeQuietly ==
  /\ paused
  /\ paused' = FALSE
  /\ UNCHANGED <<source, blocks, seeding, state, saved, booting, job, unseed,
                 history, counts>>

\* seedGate.Resume lets go of every job it holds.
Resume ==
  /\ paused
  /\ paused' = FALSE
  /\ at' = [j \in Jobs |-> IF at[j] = "held" THEN "load" ELSE at[j]]
  /\ UNCHANGED <<source, blocks, seeding, state, saved, booting, path, content,
                 todo, unseed, history, counts>>

\* LoadFileFromDisk, ChunkFile: the file is hashed.
ChunkFile(j) ==
  LET c == source[path[j]] IN
    /\ at[j] = "load"
    /\ c # None
    /\ content' = [content EXCEPT ![j] = c]
    /\ todo' = [todo EXCEPT ![j] = ChunksOf[c]]
    /\ GoTo(j, "store")
    /\ stopped' = stopped \ {c}
    /\ quiet' = {u \in quiet : target[u] # c}
    /\ UNCHANGED <<source, blocks, seeding, state, saved, paused, booting, path,
                   unseed, kept, dropped, counts>>

\* LoadFileFromDisk, the loop: HasBlock skips a chunk that is there in whatever
\* shape. The others are read from the file once more; if it has changed in the
\* meantime other bytes may be stored under the old CID.
StoreBlock(j, k) ==
  /\ at[j] = "store" /\ k \in todo[j]
  /\ todo' = [todo EXCEPT ![j] = @ \ {k}]
  /\ \/ blocks[k] # "none" /\ UNCHANGED blocks
     \/ /\ blocks[k] = "none"
        /\ source[path[j]] # None
        /\ blocks' = [blocks EXCEPT ![k] =
             IF k \in ChunksOf[source[path[j]]] THEN "whole" ELSE "broken"]
  /\ UNCHANGED <<source, seeding, state, saved, paused, booting, at, path,
                 content, unseed, history, counts>>

\* Fault: the file enters the map before its blocks are stored.
AddFileEarly(j) ==
  /\ at[j] = "store"
  /\ seeding' = seeding \cup {content[j]}
  /\ IF j \in Seeds
     THEN GoTo(j, "record") /\ UNCHANGED <<path, content, todo>>
     ELSE Leave(j, "idle")
  /\ UNCHANGED <<source, blocks, state, saved, paused, booting, unseed, history,
                 counts>>

\* AddFile; a restored file keeps the entry it has.
AddFile(j) ==
  /\ at[j] = "store" /\ todo[j] = {}
  /\ seeding' = seeding \cup {content[j]}
  /\ IF j \in Seeds
     THEN GoTo(j, "record") /\ UNCHANGED <<path, content, todo>>
     ELSE Leave(j, "idle")
  /\ UNCHANGED <<source, blocks, state, saved, paused, booting, unseed, history,
                 counts>>

\* AddSeeding, which replaces the entry there is. A failed save is logged.
AddSeeding(j) ==
  LET c == content[j] IN
    /\ at[j] = "record"
    /\ state' = [state EXCEPT ![c] = path[j]]
    /\ Save
    /\ Leave(j, "idle")
    /\ kept' = IF saved' = state' /\ c \in seeding /\ source[path[j]] = c
               THEN kept \cup {c} ELSE kept \ {c}
    /\ dropped' = dropped \ {c}
    /\ UNCHANGED <<source, blocks, seeding, paused, booting, unseed, stopped,
                   quiet, counts>>

\* Loading fails: the file cannot be read, or a block cannot be stored, and may
\* be left in part. What was stored stays.
Fail(j) ==
  /\ at[j] \in {"load", "store"}
  /\ Leave(j, IF j \in Seeds THEN "idle" ELSE "drop")
  /\ \/ UNCHANGED blocks
     \/ \E k \in todo[j] :
          /\ at[j] = "store" /\ blocks[k] = "none"
          /\ blocks' = [blocks EXCEPT ![k] = "broken"]
  /\ UNCHANGED <<source, seeding, state, saved, paused, booting, unseed, history,
                 counts>>
-------------------------------------------------------------------------------
\* RemoveSeeding: there is no save when there is no entry.
Forget(c) ==
  /\ state' = [state EXCEPT ![c] = None]
  /\ IF state[c] = None THEN saved' = saved ELSE Save

\* restoreSeeds: the entry of a file that could not be loaded is removed, for
\* whatever reason it could not, and whoever has recorded it anew in between.
Drop(j) ==
  /\ at[j] = "drop"
  /\ Forget(j)
  /\ GoTo(j, "idle")
  /\ dropped' = dropped \cup ({j} \cap kept)
  /\ UNCHANGED <<source, blocks, seeding, paused, booting, path, content, todo,
                 unseed, stopped, quiet, kept, counts>>

\* handleUnseed calls unseedFile.
Unseed(u, c) ==
  /\ u \in Users /\ call[u] = "idle"
  /\ Goes(u, "remove", c)
  /\ UNCHANGED <<source, blocks, seeding, state, saved, paused, booting, job,
                 watch, history, counts>>

\* Fault: unseedFile returns when the seeder does not have the file.
RemoveFileOrReturn(u) ==
  /\ call[u] = "remove"
  /\ seeding' = seeding \ {target[u]}
  /\ IF target[u] \in seeding
     THEN Goes(u, "forget", target[u])
     ELSE Goes(u, "idle", None)
  /\ UNCHANGED <<source, blocks, state, saved, paused, booting, job, watch,
                 history, counts>>

\* Fault: the entry is removed and the seeder keeps the file.
KeepSeeding(u) ==
  /\ call[u] = "remove"
  /\ Goes(u, "forget", target[u])
  /\ quiet' = IF Loads(target[u]) THEN quiet \ {u} ELSE quiet \cup {u}
  /\ LetGo({target[u]})
  /\ UNCHANGED <<source, blocks, seeding, state, saved, paused, booting, job,
                 watch, stopped, counts>>

\* unseedFile: RemoveFile, whether or not the seeder has the file.
RemoveFile(u) ==
  /\ call[u] = "remove"
  /\ seeding' = seeding \ {target[u]}
  /\ Goes(u, "forget", target[u])
  /\ quiet' = IF Loads(target[u]) THEN quiet \ {u} ELSE quiet \cup {u}
  /\ LetGo({target[u]})
  /\ UNCHANGED <<source, blocks, state, saved, paused, booting, job, watch,
                 stopped, counts>>

\* unseedFile: RemoveSeeding. The call has failed when there is no entry or the
\* save fails.
RemoveSeeding(u) ==
  LET c == target[u] IN
    /\ call[u] = "forget"
    /\ Forget(c)
    /\ Goes(u, "idle", None)
    /\ stopped' = IF state[c] # None /\ saved' = state' /\ u \in quiet
                  THEN stopped \cup {c} ELSE stopped
    /\ quiet' = quiet \ {u}
    /\ LetGo({c})
    /\ UNCHANGED <<source, blocks, seeding, paused, booting, job, watch,
                   counts>>

\* checkSeedingFiles: copy the entries...
Look ==
  /\ watch = {} /\ call[Watcher] = "idle"
  /\ watch' = {e \in Contents \X Paths : state[e[1]] = e[2]}
  /\ watch' # {}
  /\ UNCHANGED <<source, blocks, seeding, state, saved, paused, booting, job,
                 call, target, history, counts>>

\* ... and unseed each whose file is gone.
CheckEntry(c, p) ==
  /\ <<c, p>> \in watch /\ call[Watcher] = "idle"
  /\ watch' = watch \ {<<c, p>>}
  /\ IF source[p] = None
     THEN Goes(Watcher, "remove", c)
     ELSE UNCHANGED <<call, target>>
  /\ UNCHANGED <<source, blocks, seeding, state, saved, paused, booting, job,
                 history, counts>>
-------------------------------------------------------------------------------
\* restoreSeeds: one goroutine for each entry. The gate is not asked.
RestoreSeeds ==
  /\ booting
  /\ booting' = FALSE
  /\ at' = [j \in Jobs |->
              IF j \in Contents /\ state[j] # None THEN "load" ELSE at[j]]
  /\ path' = [j \in Jobs |->
              IF j \in Contents /\ state[j] # None THEN state[j] ELSE path[j]]
  /\ UNCHANGED <<source, blocks, seeding, state, saved, paused, content, todo,
                 unseed, history, counts>>

\* What dies with the daemon: the jobs, the calls and the seeder.
Dies ==
  /\ seeding' = {}
  /\ paused' = FALSE /\ booting' = TRUE
  /\ at' = [j \in Jobs |-> "idle"]
  /\ path' = [j \in Jobs |-> None]
  /\ content' = [j \in Jobs |-> None]
  /\ todo' = [j \in Jobs |-> {}]
  /\ call' = [u \in Callers |-> "idle"]
  /\ target' = [u \in Callers |-> None]
  /\ watch' = {} /\ quiet' = {}

\* Fault: seeding.json is not read.
StartAnew == state' = [c \in Contents |-> None]

\* NewSeedingStateManager.
LoadState == state' = saved

\* The daemon ends and is started again: NewServer loads seeding.json. The block
\* that was being written may be left in part.
Crash ==
  /\ crashes < MaxCrashes
  /\ crashes' = crashes + 1
  /\ \/ UNCHANGED blocks
     \/ \E j \in Jobs : \E k \in todo[j] :
          /\ at[j] = "store" /\ blocks[k] = "none"
          /\ blocks' = [blocks EXCEPT ![k] = "broken"]
  /\ Dies
  /\ LoadState
  /\ UNCHANGED <<source, saved, stopped, kept, dropped, changes>>

\* Somebody rewrites, moves or deletes a file.
ChangeFile(p, c) ==
  /\ changes < MaxChanges
  /\ changes' = changes + 1
  /\ source' = [source EXCEPT ![p] = c]
  /\ LetGo({h \in kept : state[h] = p})
  /\ UNCHANGED <<blocks, seeding, state, saved, paused, booting, job, unseed,
                 stopped, quiet, crashes>>
-------------------------------------------------------------------------------
Work(j) ==
  \/ ChunkFile(j) \/ AddFile(j) \/ AddSeeding(j) \/ Fail(j) \/ Drop(j)
  \/ \E k \in Chunks : StoreBlock(j, k)

Unseeds(u) == RemoveFile(u) \/ RemoveSeeding(u)

Watch == Look \/ \E c \in Contents, p \in Paths : CheckEntry(c, p)

Next ==
  \/ \E j \in Jobs : Work(j) \/ \E p \in Paths : Submit(j, p)
  \/ \E u \in Callers : Unseeds(u) \/ \E c \in Contents : Unseed(u, c)
  \/ Watch \/ RestoreSeeds \/ Pause \/ Resume \/ Crash
  \/ \E p \in Paths, c \in Contents \cup {None} : ChangeFile(p, c)

Spec == Init /\ [][Next]_vars

\* The daemon's own goroutines run. Nobody need submit, unseed or resume.
Fairness ==
  /\ \A j \in Jobs : WF_vars(Work(j))
  /\ \A u \in Callers : WF_vars(Unseeds(u))
  /\ WF_vars(Watch) /\ WF_vars(RestoreSeeds)

FairSpec == Spec /\ Fairness
-------------------------------------------------------------------------------
TypeOK ==
  /\ source \in [Paths -> Contents \cup {None}]
  /\ blocks \in [Chunks -> {"none", "whole", "broken"}]
  /\ seeding \subseteq Contents
  /\ state \in [Contents -> Paths \cup {None}]
  /\ saved \in [Contents -> Paths \cup {None}]
  /\ paused \in BOOLEAN /\ booting \in BOOLEAN
  /\ at \in [Jobs -> {"idle", "held", "load", "store", "record", "drop"}]
  /\ path \in [Jobs -> Paths \cup {None}]
  /\ content \in [Jobs -> Contents \cup {None}]
  /\ todo \in [Jobs -> SUBSET Chunks]
  /\ call \in [Callers -> {"idle", "remove", "forget"}]
  /\ target \in [Callers -> Contents \cup {None}]
  /\ watch \subseteq Contents \X Paths
  /\ stopped \subseteq Contents /\ kept \subseteq Contents
  /\ dropped \subseteq Contents
  /\ quiet \subseteq Callers
  /\ changes \in 0..MaxChanges /\ crashes \in 0..MaxCrashes

Present(c) == \A k \in ChunksOf[c] : blocks[k] # "none"

\* A job has what its step needs: a path, a content, and the blocks it no longer
\* has to store. Only restorations drop and only seeds record.
JobInv ==
  \A j \in Jobs :
    /\ at[j] \in {"held", "load", "store", "record"} => path[j] \in Paths
    /\ at[j] \in {"store", "record"} =>
         /\ content[j] \in Contents
         /\ \A k \in ChunksOf[content[j]] : blocks[k] # "none" \/ k \in todo[j]
    /\ at[j] = "record" => j \in Seeds /\ Present(content[j])
    /\ at[j] = "drop" => j \in Contents

CallInv == \A u \in Callers : call[u] # "idle" => target[u] \in Contents

\* No job has in hand what was unseeded since nobody seeds it.
QuietInv ==
  /\ \A c \in stopped : ~Loads(c)
  /\ \A u \in quiet :
       call[u] = "forget" /\ ~Loads(target[u]) /\ target[u] \notin seeding

SeedingInv == TypeOK /\ JobInv /\ CallInv /\ QuietInv

\* No file is seeded, recorded, or found in seeding.json after a crash without
\* all of its blocks in the store: a restored daemon never promises a block it
\* would have to refuse.
StoredBeforeSeeded ==
  \A c \in Contents :
    c \in seeding \/ state[c] # None \/ saved[c] # None => Present(c)

\* "seeding stopped" (server.go:422) holds: a file unseeded with success, while
\* no seed of it was under way, is gone from the seeder, the state and the saved
\* state, and stays so through crashes, failed saves of other entries, queued
\* jobs and the watcher until the file is loaded again.
UnseedHolds ==
  \A c \in stopped :
    c \notin seeding /\ state[c] = None /\ saved[c] = None

\* A file that was recorded and has since been neither changed nor unseeded is
\* seeded, or is about to be restored from its own path, whatever crashes, failed
\* saves and other seeds were in between, unless a restoration fails to load it. Such
\* a file is exempt although nobody touched it: one failed read or write, or more
\* than five minutes of storing blocks, is enough for restoreSeeds to delete its
\* entry for good (server.go:996-1001). Only a crash before that saves it.
SeedSurvives ==
  \A c \in kept \ dropped :
    /\ state[c] # None /\ saved[c] = state[c] /\ source[state[c]] = c
    /\ \/ c \in seeding
       \/ booting
       \/ at[c] = "load" /\ path[c] = state[c]
       \/ at[c] = "store" /\ content[c] = c
       \/ at[c] = "drop"

\* When a file has vanished for good, no entry names it for long: the watcher, or
\* the next restoration, takes it off.
DeletedFilesLeave ==
  \A p \in Paths :
    <>[](source[p] = None) => <>[](\A c \in Contents : state[c] # p)

\* A gate that opens again and again lets every seed request come to its end.
SeedsEnd ==
  []<>~paused => \A j \in Seeds : []<>(at[j] = "idle")
===============================================================================
