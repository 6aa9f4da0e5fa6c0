----------------------------- MODULE SeedingProofs -----------------------------
(* Proofs about Seeding, for any number of files, contents, requests, changes  *)
(* and crashes. The four parts of SeedingInv are inductive together; the three *)
(* properties follow one after the other on top of it.                         *)
EXTENDS Seeding, TLAPS

\* Every step keeps the types; a step of a job or a call needs what JobInv and
\* CallInv say it has in hand.
LEMMA TypeStep ==
  ASSUME TypeOK, JobInv, CallInv, [Next]_vars
  PROVE  TypeOK'
<1> USE SeedingAssumption DEF TypeOK, JobInv, CallInv, Jobs, Callers, Loads
<1>1. ASSUME NEW j \in Jobs, ChunkFile(j)
      PROVE  TypeOK'
  BY <1>1 DEF ChunkFile, GoTo, job, unseed, history, counts
<1>2. ASSUME NEW j \in Jobs, NEW k \in Chunks, StoreBlock(j, k)
      PROVE  TypeOK'
  BY <1>2 DEF StoreBlock, job, unseed, history, counts
<1>3. ASSUME NEW j \in Jobs, AddFile(j)
      PROVE  TypeOK'
  <2>1. content[j] \in Contents
    BY <1>3 DEF AddFile
  <2>2. /\ at' \in [Jobs -> {"idle", "held", "load", "store", "record", "drop"}]
        /\ path' \in [Jobs -> Paths \cup {None}]
        /\ content' \in [Jobs -> Contents \cup {None}]
        /\ todo' \in [Jobs -> SUBSET Chunks]
    BY <1>3 DEF AddFile, GoTo, Leave
  <2> QED
    BY <1>3, <2>1, <2>2 DEF AddFile, unseed, history, counts
<1>4. ASSUME NEW j \in Jobs, AddSeeding(j)
      PROVE  TypeOK'
  BY <1>4 DEF AddSeeding, GoTo, Leave, Save, job, unseed, history, counts
<1>5. ASSUME NEW j \in Jobs, Fail(j)
      PROVE  TypeOK'
  BY <1>5 DEF Fail, GoTo, Leave, job, unseed, history, counts
<1>6. ASSUME NEW j \in Jobs, Drop(j)
      PROVE  TypeOK'
  BY <1>6 DEF Drop, GoTo, Forget, Save, job, unseed, history, counts
<1>7. ASSUME NEW j \in Jobs, NEW p \in Paths, Submit(j, p)
      PROVE  TypeOK'
  BY <1>7 DEF Submit, GoTo, job, unseed, history, counts
<1>8. ASSUME NEW u \in Callers, RemoveFile(u)
      PROVE  TypeOK'
  BY <1>8 DEF RemoveFile, LetGo, Goes, job, unseed, history, counts
<1>9. ASSUME NEW u \in Callers, RemoveSeeding(u)
      PROVE  TypeOK'
  BY <1>9 DEF RemoveSeeding, LetGo, Goes, Forget, Save, job, unseed, history, counts
<1>10. ASSUME NEW u \in Callers, NEW c \in Contents, Unseed(u, c)
      PROVE  TypeOK'
  BY <1>10 DEF Unseed, Goes, job, unseed, history, counts
<1>11. ASSUME Look
      PROVE  TypeOK'
  BY <1>11 DEF Look, job, unseed, history, counts
<1>12. ASSUME NEW c \in Contents, NEW p \in Paths, CheckEntry(c, p)
      PROVE  TypeOK'
  BY <1>12 DEF CheckEntry, Goes, job, unseed, history, counts
<1>13. ASSUME RestoreSeeds
      PROVE  TypeOK'
  BY <1>13 DEF RestoreSeeds, job, unseed, history, counts
<1>14. ASSUME Pause
      PROVE  TypeOK'
  BY <1>14 DEF Pause, job, unseed, history, counts
<1>15. ASSUME Resume
      PROVE  TypeOK'
  BY <1>15 DEF Resume, job, unseed, history, counts
<1>16. ASSUME Crash
      PROVE  TypeOK'
  <2>1. blocks' \in [Chunks -> {"none", "whole", "broken"}]
    BY <1>16 DEF Crash
  <2>2. crashes' \in 0..MaxCrashes
    <3>1. crashes \in 0..MaxCrashes /\ crashes < MaxCrashes /\ crashes' = crashes + 1
      BY <1>16 DEF Crash
    <3> QED
      BY <3>1
  <2>3. /\ source' \in [Paths -> Contents \cup {None}]
        /\ saved' \in [Contents -> Paths \cup {None}]
        /\ state' \in [Contents -> Paths \cup {None}]
        /\ stopped' \subseteq Contents /\ kept' \subseteq Contents
        /\ dropped' \subseteq Contents
        /\ changes' \in 0..MaxChanges
    BY <1>16 DEF Crash, LoadState
  <2>4. /\ seeding' = {} /\ watch' = {} /\ quiet' = {}
        /\ paused' \in BOOLEAN /\ booting' \in BOOLEAN
        /\ at' = [i \in Jobs |-> "idle"]
        /\ path' = [i \in Jobs |-> None]
        /\ content' = [i \in Jobs |-> None]
        /\ todo' = [i \in Jobs |-> {}]
        /\ call' = [u \in Callers |-> "idle"]
        /\ target' = [u \in Callers |-> None]
    BY <1>16 DEF Crash, Dies
  <2> QED
    BY <2>1, <2>2, <2>3, <2>4
<1>17. ASSUME NEW p \in Paths, NEW c \in Contents \cup {None}, ChangeFile(p, c)
      PROVE  TypeOK'
  BY <1>17 DEF ChangeFile, LetGo, job, unseed, history, counts
<1>18. CASE UNCHANGED vars
  BY <1>18 DEF vars, job, unseed, history, counts
<1> QED
  BY <1>1, <1>2, <1>3, <1>4, <1>5, <1>6, <1>7, <1>8, <1>9, <1>10, <1>11, <1>12,
     <1>13, <1>14, <1>15, <1>16, <1>17, <1>18
     DEF Next, Work, Unseeds, Watch

\* Jobs keep what their next step needs, and blocks only come in.
LEMMA JobStep ==
  ASSUME TypeOK, JobInv, CallInv, [Next]_vars
  PROVE  JobInv'
<1> USE SeedingAssumption DEF TypeOK, JobInv, Present, Jobs
<1>1. ASSUME NEW j \in Jobs, ChunkFile(j)
      PROVE  JobInv'
  BY <1>1 DEF ChunkFile, GoTo, job, unseed, history, counts
<1>2. ASSUME NEW j \in Jobs, NEW k \in Chunks, StoreBlock(j, k)
      PROVE  JobInv'
  BY <1>2 DEF StoreBlock, job, unseed, history, counts
<1>3. ASSUME NEW j \in Jobs, AddFile(j)
      PROVE  JobInv'
  BY <1>3 DEF AddFile, GoTo, Leave, job, unseed, history, counts
<1>4. ASSUME NEW j \in Jobs, AddSeeding(j)
      PROVE  JobInv'
  BY <1>4 DEF AddSeeding, GoTo, Leave, Save, job, unseed, history, counts
<1>5. ASSUME NEW j \in Jobs, Fail(j)
      PROVE  JobInv'
  BY <1>5 DEF Fail, GoTo, Leave, job, unseed, history, counts
<1>6. ASSUME NEW j \in Jobs, Drop(j)
      PROVE  JobInv'
  BY <1>6 DEF Drop, GoTo, Forget, Save, job, unseed, history, counts
<1>7. ASSUME NEW j \in Jobs, NEW p \in Paths, Submit(j, p)
      PROVE  JobInv'
  BY <1>7 DEF Submit, GoTo, job, unseed, history, counts
<1>8. ASSUME NEW u \in Callers, RemoveFile(u)
      PROVE  JobInv'
  BY <1>8 DEF RemoveFile, LetGo, Goes, job, unseed, history, counts
<1>9. ASSUME NEW u \in Callers, RemoveSeeding(u)
      PROVE  JobInv'
  BY <1>9 DEF RemoveSeeding, LetGo, Goes, Forget, Save, job, unseed, history, counts
<1>10. ASSUME NEW u \in Callers, NEW c \in Contents, Unseed(u, c)
      PROVE  JobInv'
  BY <1>10 DEF Unseed, Goes, job, unseed, history, counts
<1>11. ASSUME Look
      PROVE  JobInv'
  BY <1>11 DEF Look, job, unseed, history, counts
<1>12. ASSUME NEW c \in Contents, NEW p \in Paths, CheckEntry(c, p)
      PROVE  JobInv'
  BY <1>12 DEF CheckEntry, Goes, job, unseed, history, counts
<1>13. ASSUME RestoreSeeds
      PROVE  JobInv'
  BY <1>13 DEF RestoreSeeds, job, unseed, history, counts
<1>14. ASSUME Pause
      PROVE  JobInv'
  BY <1>14 DEF Pause, job, unseed, history, counts
<1>15. ASSUME Resume
      PROVE  JobInv'
  BY <1>15 DEF Resume, job, unseed, history, counts
<1>16. ASSUME Crash
      PROVE  JobInv'
  BY <1>16 DEF Crash, Dies, LoadState, job, unseed, history, counts
<1>17. ASSUME NEW p \in Paths, NEW c \in Contents \cup {None}, ChangeFile(p, c)
      PROVE  JobInv'
  BY <1>17 DEF ChangeFile, LetGo, job, unseed, history, counts
<1>18. CASE UNCHANGED vars
  BY <1>18 DEF vars, job, unseed, history, counts
<1> QED
  BY <1>1, <1>2, <1>3, <1>4, <1>5, <1>6, <1>7, <1>8, <1>9, <1>10, <1>11, <1>12,
     <1>13, <1>14, <1>15, <1>16, <1>17, <1>18
     DEF Next, Work, Unseeds, Watch

\* Calls keep the hash they are about.
LEMMA CallStep ==
  ASSUME TypeOK, CallInv, [Next]_vars
  PROVE  CallInv'
<1> USE SeedingAssumption DEF TypeOK, CallInv, Callers
<1>1. ASSUME NEW j \in Jobs, ChunkFile(j)
      PROVE  CallInv'
  BY <1>1 DEF ChunkFile, GoTo, job, unseed, history, counts
<1>2. ASSUME NEW j \in Jobs, NEW k \in Chunks, StoreBlock(j, k)
      PROVE  CallInv'
  BY <1>2 DEF StoreBlock, job, unseed, history, counts
<1>3. ASSUME NEW j \in Jobs, AddFile(j)
      PROVE  CallInv'
  BY <1>3 DEF AddFile, GoTo, Leave, job, unseed, history, counts
<1>4. ASSUME NEW j \in Jobs, AddSeeding(j)
      PROVE  CallInv'
  BY <1>4 DEF AddSeeding, GoTo, Leave, Save, job, unseed, history, counts
<1>5. ASSUME NEW j \in Jobs, Fail(j)
      PROVE  CallInv'
  BY <1>5 DEF Fail, GoTo, Leave, job, unseed, history, counts
<1>6. ASSUME NEW j \in Jobs, Drop(j)
      PROVE  CallInv'
  BY <1>6 DEF Drop, GoTo, Forget, Save, job, unseed, history, counts
<1>7. ASSUME NEW j \in Jobs, NEW p \in Paths, Submit(j, p)
      PROVE  CallInv'
  BY <1>7 DEF Submit, GoTo, job, unseed, history, counts
<1>8. ASSUME NEW u \in Callers, RemoveFile(u)
      PROVE  CallInv'
  BY <1>8 DEF RemoveFile, LetGo, Goes, job, unseed, history, counts
<1>9. ASSUME NEW u \in Callers, RemoveSeeding(u)
      PROVE  CallInv'
  BY <1>9 DEF RemoveSeeding, LetGo, Goes, Forget, Save, job, unseed, history, counts
<1>10. ASSUME NEW u \in Callers, NEW c \in Contents, Unseed(u, c)
      PROVE  CallInv'
  BY <1>10 DEF Unseed, Goes, job, unseed, history, counts
<1>11. ASSUME Look
      PROVE  CallInv'
  BY <1>11 DEF Look, job, unseed, history, counts
<1>12. ASSUME NEW c \in Contents, NEW p \in Paths, CheckEntry(c, p)
      PROVE  CallInv'
  BY <1>12 DEF CheckEntry, Goes, job, unseed, history, counts
<1>13. ASSUME RestoreSeeds
      PROVE  CallInv'
  BY <1>13 DEF RestoreSeeds, job, unseed, history, counts
<1>14. ASSUME Pause
      PROVE  CallInv'
  BY <1>14 DEF Pause, job, unseed, history, counts
<1>15. ASSUME Resume
      PROVE  CallInv'
  BY <1>15 DEF Resume, job, unseed, history, counts
<1>16. ASSUME Crash
      PROVE  CallInv'
  BY <1>16 DEF Crash, Dies, LoadState, job, unseed, history, counts
<1>17. ASSUME NEW p \in Paths, NEW c \in Contents \cup {None}, ChangeFile(p, c)
      PROVE  CallInv'
  BY <1>17 DEF ChangeFile, LetGo, job, unseed, history, counts
<1>18. CASE UNCHANGED vars
  BY <1>18 DEF vars, job, unseed, history, counts
<1> QED
  BY <1>1, <1>2, <1>3, <1>4, <1>5, <1>6, <1>7, <1>8, <1>9, <1>10, <1>11, <1>12,
     <1>13, <1>14, <1>15, <1>16, <1>17, <1>18
     DEF Next, Work, Unseeds, Watch

\* A file that nobody seeds when it is unseeded is in no job's hand until a job
\* hashes it, which ends the claim.
LEMMA QuietStep ==
  ASSUME TypeOK, JobInv, CallInv, QuietInv, [Next]_vars
  PROVE  QuietInv'
<1> USE SeedingAssumption DEF TypeOK, JobInv, QuietInv, Loads, Jobs, Callers
<1>1. ASSUME NEW j \in Jobs, ChunkFile(j)
      PROVE  QuietInv'
  BY <1>1 DEF ChunkFile, GoTo, job, unseed, history, counts
<1>2. ASSUME NEW j \in Jobs, NEW k \in Chunks, StoreBlock(j, k)
      PROVE  QuietInv'
  BY <1>2 DEF StoreBlock, job, unseed, history, counts
<1>3. ASSUME NEW j \in Jobs, AddFile(j)
      PROVE  QuietInv'
  BY <1>3 DEF AddFile, GoTo, Leave, job, unseed, history, counts
<1>4. ASSUME NEW j \in Jobs, AddSeeding(j)
      PROVE  QuietInv'
  BY <1>4 DEF AddSeeding, GoTo, Leave, Save, job, unseed, history, counts
<1>5. ASSUME NEW j \in Jobs, Fail(j)
      PROVE  QuietInv'
  BY <1>5 DEF Fail, GoTo, Leave, job, unseed, history, counts
<1>6. ASSUME NEW j \in Jobs, Drop(j)
      PROVE  QuietInv'
  BY <1>6 DEF Drop, GoTo, Forget, Save, job, unseed, history, counts
<1>7. ASSUME NEW j \in Jobs, NEW p \in Paths, Submit(j, p)
      PROVE  QuietInv'
  BY <1>7 DEF Submit, GoTo, job, unseed, history, counts
<1>8. ASSUME NEW u \in Callers, RemoveFile(u)
      PROVE  QuietInv'
  BY <1>8 DEF RemoveFile, LetGo, Goes, job, unseed, history, counts
<1>9. ASSUME NEW u \in Callers, RemoveSeeding(u)
      PROVE  QuietInv'
  BY <1>9 DEF RemoveSeeding, LetGo, Goes, Forget, Save, job, unseed, history, counts
<1>10. ASSUME NEW u \in Callers, NEW c \in Contents, Unseed(u, c)
      PROVE  QuietInv'
  BY <1>10 DEF Unseed, Goes, job, unseed, history, counts
<1>11. ASSUME Look
      PROVE  QuietInv'
  BY <1>11 DEF Look, job, unseed, history, counts
<1>12. ASSUME NEW c \in Contents, NEW p \in Paths, CheckEntry(c, p)
      PROVE  QuietInv'
  BY <1>12 DEF CheckEntry, Goes, job, unseed, history, counts
<1>13. ASSUME RestoreSeeds
      PROVE  QuietInv'
  BY <1>13 DEF RestoreSeeds, job, unseed, history, counts
<1>14. ASSUME Pause
      PROVE  QuietInv'
  BY <1>14 DEF Pause, job, unseed, history, counts
<1>15. ASSUME Resume
      PROVE  QuietInv'
  BY <1>15 DEF Resume, job, unseed, history, counts
<1>16. ASSUME Crash
      PROVE  QuietInv'
  BY <1>16 DEF Crash, Dies, LoadState, job, unseed, history, counts
<1>17. ASSUME NEW p \in Paths, NEW c \in Contents \cup {None}, ChangeFile(p, c)
      PROVE  QuietInv'
  BY <1>17 DEF ChangeFile, LetGo, job, unseed, history, counts
<1>18. CASE UNCHANGED vars
  BY <1>18 DEF vars, job, unseed, history, counts
<1> QED
  BY <1>1, <1>2, <1>3, <1>4, <1>5, <1>6, <1>7, <1>8, <1>9, <1>10, <1>11, <1>12,
     <1>13, <1>14, <1>15, <1>16, <1>17, <1>18
     DEF Next, Work, Unseeds, Watch

\* A file enters the seeder, the state and seeding.json after its blocks.
LEMMA StoredStep ==
  ASSUME TypeOK, JobInv, StoredBeforeSeeded, [Next]_vars
  PROVE  StoredBeforeSeeded'
<1> USE SeedingAssumption DEF TypeOK, JobInv, StoredBeforeSeeded, Present, Jobs
<1>1. ASSUME NEW j \in Jobs, ChunkFile(j)
      PROVE  StoredBeforeSeeded'
  BY <1>1 DEF ChunkFile, GoTo, job, unseed, history, counts
<1>2. ASSUME NEW j \in Jobs, NEW k \in Chunks, StoreBlock(j, k)
      PROVE  StoredBeforeSeeded'
  BY <1>2 DEF StoreBlock, job, unseed, history, counts
<1>3. ASSUME NEW j \in Jobs, AddFile(j)
      PROVE  StoredBeforeSeeded'
  BY <1>3 DEF AddFile, GoTo, Leave, job, unseed, history, counts
<1>4. ASSUME NEW j \in Jobs, AddSeeding(j)
      PROVE  StoredBeforeSeeded'
  BY <1>4 DEF AddSeeding, GoTo, Leave, Save, job, unseed, history, counts
<1>5. ASSUME NEW j \in Jobs, Fail(j)
      PROVE  StoredBeforeSeeded'
  BY <1>5 DEF Fail, GoTo, Leave, job, unseed, history, counts
<1>6. ASSUME NEW j \in Jobs, Drop(j)
      PROVE  StoredBeforeSeeded'
  BY <1>6 DEF Drop, GoTo, Forget, Save, job, unseed, history, counts
<1>7. ASSUME NEW j \in Jobs, NEW p \in Paths, Submit(j, p)
      PROVE  StoredBeforeSeeded'
  BY <1>7 DEF Submit, GoTo, job, unseed, history, counts
<1>8. ASSUME NEW u \in Callers, RemoveFile(u)
      PROVE  StoredBeforeSeeded'
  BY <1>8 DEF RemoveFile, LetGo, Goes, job, unseed, history, counts
<1>9. ASSUME NEW u \in Callers, RemoveSeeding(u)
      PROVE  StoredBeforeSeeded'
  BY <1>9 DEF RemoveSeeding, LetGo, Goes, Forget, Save, job, unseed, history, counts
<1>10. ASSUME NEW u \in Callers, NEW c \in Contents, Unseed(u, c)
      PROVE  StoredBeforeSeeded'
  BY <1>10 DEF Unseed, Goes, job, unseed, history, counts
<1>11. ASSUME Look
      PROVE  StoredBeforeSeeded'
  BY <1>11 DEF Look, job, unseed, history, counts
<1>12. ASSUME NEW c \in Contents, NEW p \in Paths, CheckEntry(c, p)
      PROVE  StoredBeforeSeeded'
  BY <1>12 DEF CheckEntry, Goes, job, unseed, history, counts
<1>13. ASSUME RestoreSeeds
      PROVE  StoredBeforeSeeded'
  BY <1>13 DEF RestoreSeeds, job, unseed, history, counts
<1>14. ASSUME Pause
      PROVE  StoredBeforeSeeded'
  BY <1>14 DEF Pause, job, unseed, history, counts
<1>15. ASSUME Resume
      PROVE  StoredBeforeSeeded'
  BY <1>15 DEF Resume, job, unseed, history, counts
<1>16. ASSUME Crash
      PROVE  StoredBeforeSeeded'
  BY <1>16 DEF Crash, Dies, LoadState, job, unseed, history, counts
<1>17. ASSUME NEW p \in Paths, NEW c \in Contents \cup {None}, ChangeFile(p, c)
      PROVE  StoredBeforeSeeded'
  BY <1>17 DEF ChangeFile, LetGo, job, unseed, history, counts
<1>18. CASE UNCHANGED vars
  BY <1>18 DEF vars, job, unseed, history, counts
<1> QED
  BY <1>1, <1>2, <1>3, <1>4, <1>5, <1>6, <1>7, <1>8, <1>9, <1>10, <1>11, <1>12,
     <1>13, <1>14, <1>15, <1>16, <1>17, <1>18
     DEF Next, Work, Unseeds, Watch

\* Only a job that has the file in hand brings it back.
LEMMA UnseedStep ==
  ASSUME TypeOK, JobInv, CallInv, QuietInv, UnseedHolds, [Next]_vars
  PROVE  UnseedHolds'
<1> USE SeedingAssumption DEF TypeOK, JobInv, QuietInv, UnseedHolds, Loads, Jobs, Callers
<1>1. ASSUME NEW j \in Jobs, ChunkFile(j)
      PROVE  UnseedHolds'
  BY <1>1 DEF ChunkFile, GoTo, job, unseed, history, counts
<1>2. ASSUME NEW j \in Jobs, NEW k \in Chunks, StoreBlock(j, k)
      PROVE  UnseedHolds'
  BY <1>2 DEF StoreBlock, job, unseed, history, counts
<1>3. ASSUME NEW j \in Jobs, AddFile(j)
      PROVE  UnseedHolds'
  BY <1>3 DEF AddFile, GoTo, Leave, job, unseed, history, counts
<1>4. ASSUME NEW j \in Jobs, AddSeeding(j)
      PROVE  UnseedHolds'
  BY <1>4 DEF AddSeeding, GoTo, Leave, Save, job, unseed, history, counts
<1>5. ASSUME NEW j \in Jobs, Fail(j)
      PROVE  UnseedHolds'
  BY <1>5 DEF Fail, GoTo, Leave, job, unseed, history, counts
<1>6. ASSUME NEW j \in Jobs, Drop(j)
      PROVE  UnseedHolds'
  BY <1>6 DEF Drop, GoTo, Forget, Save, job, unseed, history, counts
<1>7. ASSUME NEW j \in Jobs, NEW p \in Paths, Submit(j, p)
      PROVE  UnseedHolds'
  BY <1>7 DEF Submit, GoTo, job, unseed, history, counts
<1>8. ASSUME NEW u \in Callers, RemoveFile(u)
      PROVE  UnseedHolds'
  BY <1>8 DEF RemoveFile, LetGo, Goes, job, unseed, history, counts
<1>9. ASSUME NEW u \in Callers, RemoveSeeding(u)
      PROVE  UnseedHolds'
  <2> SUFFICES ASSUME NEW c \in stopped'
               PROVE  c \notin seeding' /\ state'[c] = None /\ saved'[c] = None
    OBVIOUS
  <2>1. seeding' = seeding
    BY <1>9 DEF RemoveSeeding
  <2>2. state' = [state EXCEPT ![target[u]] = None]
    BY <1>9 DEF RemoveSeeding, Forget
  <2>3. saved' = saved \/ saved' = state'
    BY <1>9 DEF RemoveSeeding, Forget, Save
  <2>4. CASE c \in stopped
    BY <2>1, <2>2, <2>3, <2>4
  <2>5. CASE c \notin stopped
    <3>1. c = target[u] /\ u \in quiet /\ saved' = state'
      BY <1>9, <2>5 DEF RemoveSeeding
    <3>2. c \in Contents
      BY <1>9, <3>1 DEF CallInv, RemoveSeeding
    <3> QED
      BY <2>1, <2>2, <3>1, <3>2
  <2> QED
    BY <2>4, <2>5
<1>10. ASSUME NEW u \in Callers, NEW c \in Contents, Unseed(u, c)
      PROVE  UnseedHolds'
  BY <1>10 DEF Unseed, Goes, job, unseed, history, counts
<1>11. ASSUME Look
      PROVE  UnseedHolds'
  BY <1>11 DEF Look, job, unseed, history, counts
<1>12. ASSUME NEW c \in Contents, NEW p \in Paths, CheckEntry(c, p)
      PROVE  UnseedHolds'
  BY <1>12 DEF CheckEntry, Goes, job, unseed, history, counts
<1>13. ASSUME RestoreSeeds
      PROVE  UnseedHolds'
  BY <1>13 DEF RestoreSeeds, job, unseed, history, counts
<1>14. ASSUME Pause
      PROVE  UnseedHolds'
  BY <1>14 DEF Pause, job, unseed, history, counts
<1>15. ASSUME Resume
      PROVE  UnseedHolds'
  BY <1>15 DEF Resume, job, unseed, history, counts
<1>16. ASSUME Crash
      PROVE  UnseedHolds'
  BY <1>16 DEF Crash, Dies, LoadState, job, unseed, history, counts
<1>17. ASSUME NEW p \in Paths, NEW c \in Contents \cup {None}, ChangeFile(p, c)
      PROVE  UnseedHolds'
  BY <1>17 DEF ChangeFile, LetGo, job, unseed, history, counts
<1>18. CASE UNCHANGED vars
  BY <1>18 DEF vars, job, unseed, history, counts
<1> QED
  BY <1>1, <1>2, <1>3, <1>4, <1>5, <1>6, <1>7, <1>8, <1>9, <1>10, <1>11, <1>12,
     <1>13, <1>14, <1>15, <1>16, <1>17, <1>18
     DEF Next, Work, Unseeds, Watch

\* What is recorded and left alone is seeded, or on its way through a restart.
LEMMA SurviveStep ==
  ASSUME TypeOK, JobInv, SeedSurvives, [Next]_vars
  PROVE  SeedSurvives'
<1> USE SeedingAssumption DEF TypeOK, JobInv, SeedSurvives, Jobs
<1>1. ASSUME NEW j \in Jobs, ChunkFile(j)
      PROVE  SeedSurvives'
  BY <1>1 DEF ChunkFile, GoTo, job, unseed, history, counts
<1>2. ASSUME NEW j \in Jobs, NEW k \in Chunks, StoreBlock(j, k)
      PROVE  SeedSurvives'
  BY <1>2 DEF StoreBlock, job, unseed, history, counts
<1>3. ASSUME NEW j \in Jobs, AddFile(j)
      PROVE  SeedSurvives'
  BY <1>3 DEF AddFile, GoTo, Leave, job, unseed, history, counts
<1>4. ASSUME NEW j \in Jobs, AddSeeding(j)
      PROVE  SeedSurvives'
  BY <1>4 DEF AddSeeding, GoTo, Leave, Save, job, unseed, history, counts
<1>5. ASSUME NEW j \in Jobs, Fail(j)
      PROVE  SeedSurvives'
  BY <1>5 DEF Fail, GoTo, Leave, job, unseed, history, counts
<1>6. ASSUME NEW j \in Jobs, Drop(j)
      PROVE  SeedSurvives'
  BY <1>6 DEF Drop, GoTo, Forget, Save, job, unseed, history, counts
<1>7. ASSUME NEW j \in Jobs, NEW p \in Paths, Submit(j, p)
      PROVE  SeedSurvives'
  BY <1>7 DEF Submit, GoTo, job, unseed, history, counts
<1>8. ASSUME NEW u \in Callers, RemoveFile(u)
      PROVE  SeedSurvives'
  BY <1>8 DEF RemoveFile, LetGo, Goes, job, unseed, history, counts
<1>9. ASSUME NEW u \in Callers, RemoveSeeding(u)
      PROVE  SeedSurvives'
  BY <1>9 DEF RemoveSeeding, LetGo, Goes, Forget, Save, job, unseed, history, counts
<1>10. ASSUME NEW u \in Callers, NEW c \in Contents, Unseed(u, c)
      PROVE  SeedSurvives'
  BY <1>10 DEF Unseed, Goes, job, unseed, history, counts
<1>11. ASSUME Look
      PROVE  SeedSurvives'
  BY <1>11 DEF Look, job, unseed, history, counts
<1>12. ASSUME NEW c \in Contents, NEW p \in Paths, CheckEntry(c, p)
      PROVE  SeedSurvives'
  BY <1>12 DEF CheckEntry, Goes, job, unseed, history, counts
<1>13. ASSUME RestoreSeeds
      PROVE  SeedSurvives'
  BY <1>13 DEF RestoreSeeds, job, unseed, history, counts
<1>14. ASSUME Pause
      PROVE  SeedSurvives'
  BY <1>14 DEF Pause, job, unseed, history, counts
<1>15. ASSUME Resume
      PROVE  SeedSurvives'
  BY <1>15 DEF Resume, job, unseed, history, counts
<1>16. ASSUME Crash
      PROVE  SeedSurvives'
  BY <1>16 DEF Crash, Dies, LoadState, job, unseed, history, counts
<1>17. ASSUME NEW p \in Paths, NEW c \in Contents \cup {None}, ChangeFile(p, c)
      PROVE  SeedSurvives'
  BY <1>17 DEF ChangeFile, LetGo, job, unseed, history, counts
<1>18. CASE UNCHANGED vars
  BY <1>18 DEF vars, job, unseed, history, counts
<1> QED
  BY <1>1, <1>2, <1>3, <1>4, <1>5, <1>6, <1>7, <1>8, <1>9, <1>10, <1>11, <1>12,
     <1>13, <1>14, <1>15, <1>16, <1>17, <1>18
     DEF Next, Work, Unseeds, Watch
-------------------------------------------------------------------------------
\* The daemon starts with nothing in hand.
LEMMA InitHolds ==
  ASSUME Init
  PROVE  SeedingInv /\ StoredBeforeSeeded /\ UnseedHolds /\ SeedSurvives
<1> USE SeedingAssumption DEF Init, Jobs, Callers
<1>1. TypeOK
  <2>1. changes \in 0..MaxChanges /\ crashes \in 0..MaxCrashes
    OBVIOUS
  <2>2. state \in [Contents -> Paths \cup {None}] /\ saved = state
    OBVIOUS
  <2>3. /\ path \in [Jobs -> Paths \cup {None}]
        /\ content \in [Jobs -> Contents \cup {None}]
        /\ target \in [Callers -> Contents \cup {None}]
    OBVIOUS
  <2> QED
    BY <2>1, <2>2, <2>3 DEF TypeOK
<1>2. JobInv /\ CallInv
  BY DEF JobInv, CallInv
<1>3. QuietInv
  BY DEF QuietInv
<1>4. StoredBeforeSeeded
  BY DEF StoredBeforeSeeded
<1>5. UnseedHolds /\ SeedSurvives
  BY DEF UnseedHolds, SeedSurvives
<1> QED
  BY <1>1, <1>2, <1>3, <1>4, <1>5 DEF SeedingInv

\* The parts of SeedingInv hold of every state: jobs have the path, the content
\* and the blocks they need (LoadFileFromDisk), calls the hash (unseedFile), and
\* no job has in hand what was unseeded while nobody seeded it.
THEOREM SeedingInvariant == Spec => []SeedingInv
<1>1. Init => SeedingInv
  BY InitHolds
<1>2. SeedingInv /\ [Next]_vars => SeedingInv'
  <2> SUFFICES ASSUME SeedingInv, [Next]_vars
               PROVE  SeedingInv'
    OBVIOUS
  <2>1. TypeOK /\ JobInv /\ CallInv /\ QuietInv
    BY DEF SeedingInv
  <2>2. TypeOK' /\ JobInv' /\ CallInv' /\ QuietInv'
    BY <2>1, TypeStep, JobStep, CallStep, QuietStep
  <2> QED
    BY <2>2 DEF SeedingInv
<1> QED
  BY <1>1, <1>2, PTL DEF Spec

\* AddFile and AddSeeding come after the loop that stores the blocks, nothing
\* removes a block, and a save writes what is in memory: so no file is seeded,
\* recorded or restored without all of its blocks in the store.
THEOREM BlocksStored == Spec => []StoredBeforeSeeded
<1>1. Init => StoredBeforeSeeded
  BY InitHolds
<1>2. SeedingInv /\ StoredBeforeSeeded /\ [Next]_vars => StoredBeforeSeeded'
  BY StoredStep DEF SeedingInv
<1> QED
  BY <1>1, <1>2, SeedingInvariant, PTL DEF Spec

\* An unseed that met no seed of its file lasts until the file is loaded again,
\* through crashes and failed saves (unseedFile, saveUnlocked, restoreSeeds).
THEOREM UnseedsHold == Spec => []UnseedHolds
<1>1. Init => UnseedHolds
  BY InitHolds
<1>2. SeedingInv /\ UnseedHolds /\ [Next]_vars => UnseedHolds'
  BY UnseedStep DEF SeedingInv
<1> QED
  BY <1>1, <1>2, SeedingInvariant, PTL DEF Spec

\* A recorded file that is neither changed nor unseeded is still in seeding.json
\* and is seeded again after every crash (AddSeeding, restoreSeeds), as long as no
\* restoration has failed to load it: one that has deletes its entry.
THEOREM SeedsSurvive == Spec => []SeedSurvives
<1>1. Init => SeedSurvives
  BY InitHolds
<1>2. SeedingInv /\ SeedSurvives /\ [Next]_vars => SeedSurvives'
  BY SurviveStep DEF SeedingInv
<1> QED
  BY <1>1, <1>2, SeedingInvariant, PTL DEF Spec
===============================================================================
