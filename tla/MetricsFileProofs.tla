--------------------------- MODULE MetricsFileProofs ---------------------------
(* However many downloads, files and clears there are, and wherever the daemon *)
(* crashes: request numbers are not given out twice in one sequence, what has  *)
(* been saved stays, and what has been cleared stays away.                     *)
EXTENDS MetricsFile, TLAPS

\* Only the one with the lock saves, and what it writes is what memory has: the
\* lock keeps memory still from the write to the rename.
LockInv ==
  /\ \A w \in Workers : pc[w] = "saving" <=> saver = w
  /\ saver # Nobody => tmp = mem

\* The numbers of database db have been given out by it.
Given(db) == \A e \in db.entries : e.era = db.era => e.no <= db.last

\* No two entries of database db have the same number.
Distinct(db) == \A e, f \in db.entries : e.no = f.no /\ e.era = f.era => e = f

\* A download's number was given out by memory in this or in an earlier sequence,
\* and nobody else, and no entry, has it.
HeldInv ==
  \A d \in Downloads : pc[d] = "runs" =>
    /\ num[d].era <= mem.era
    /\ num[d].era = mem.era => num[d].no <= mem.last
    /\ \A e \in mem.entries : e.no # num[d].no \/ e.era # num[d].era
    /\ \A f \in Downloads : pc[f] = "runs" /\ num[f] = num[d] => f = d

NumbersInv ==
  /\ Given(mem) /\ Given(disk)
  /\ Distinct(mem) /\ Distinct(disk)

\* What an operation has changed is in memory until it is cleared, and in the
\* file once it is saved.
SavedInv ==
  \A d \in Downloads \cup Files : d \notin cleared =>
    /\ pc[d] \in {"unsaved", "saving", "saved"} => d \in Listed(mem)
    /\ pc[d] = "saved" => d \in Listed(disk)

\* What has been cleared is not in memory, and only a download that has not yet
\* ended can still come.
ClearInv ==
  /\ gone \cap (Listed(disk) \cup Listed(mem)) = {}
  /\ \A c \in Clearers : erased[c] \cap Listed(mem) = {}
  /\ \A d \in Downloads : pc[d] \in {"idle", "runs"} =>
       /\ d \notin gone /\ d \notin Listed(mem) /\ d \notin Listed(disk)
       /\ \A c \in Clearers : d \notin erased[c]

IInv == TypeOK /\ LockInv /\ NumbersInv /\ HeldInv /\ SavedInv /\ ClearInv

\* The kinds of workers are different, and nobody is none of them.
LEMMA Kinds ==
  /\ \A d \in Downloads : d \in Workers /\ d \notin Files /\ d \notin Clearers
  /\ \A f \in Files : f \in Workers /\ f \notin Clearers
  /\ \A c \in Clearers : c \in Workers
  /\ Nobody \notin Workers
  BY WorkersAssumption DEF Workers

LEMMA InitIInv == Init => IInv
<1> SUFFICES ASSUME Init PROVE IInv
  OBVIOUS
<1>1. mem = Empty /\ disk = Empty /\ tmp = Empty /\ Empty \in Databases
  BY DEF Init, Empty, Databases, Entries
<1>2. Listed(mem) = {} /\ Listed(disk) = {} /\ mem.entries = {} /\ disk.entries = {}
  BY <1>1 DEF Empty, Listed
<1>3. TypeOK
  BY <1>1 DEF Init, TypeOK, NoNumber
<1>4. LockInv
  BY Kinds DEF Init, LockInv
<1>5. NumbersInv /\ HeldInv
  BY <1>2, Kinds DEF Init, NumbersInv, HeldInv, Given, Distinct
<1>6. SavedInv
  BY <1>2, Kinds DEF Init, SavedInv, Workers
<1>7. ClearInv
  BY <1>2 DEF Init, ClearInv
<1> QED
  BY <1>3, <1>4, <1>5, <1>6, <1>7 DEF IInv

\* Type correctness.
LEMMA TypeStep ==
  ASSUME TypeOK, [Next]_vars
  PROVE  TypeOK'
<1> USE Kinds DEF TypeOK, Databases
<1>1. ASSUME NEW d \in Downloads, TakeNumber(d)
      PROVE  TypeOK'
  BY <1>1 DEF TakeNumber, Go, Unlocked
<1>2. ASSUME NEW d \in Downloads, AddMetrics(d)
      PROVE  TypeOK'
  <2>1. [of |-> d, no |-> num[d].no, era |-> num[d].era] \in Entries
    BY DEF Entries
  <2>2. mem' \in Databases
    BY <2>1, <1>2 DEF AddMetrics
  <2> QED
    BY <2>2, <1>2 DEF AddMetrics, Go
<1>3. ASSUME NEW f \in Files, UpsertSeedMetrics(f)
      PROVE  TypeOK'
  BY <1>3 DEF UpsertSeedMetrics, Go, Unlocked
<1>4. ASSUME NEW c \in Clearers, ClearMetrics(c)
      PROVE  TypeOK'
  <2>1. mem' \in Databases
    BY <1>4 DEF ClearMetrics, Empty
  <2>2. Listed(mem) \subseteq Downloads \cup Files
    BY DEF Listed, Entries
  <2> QED
    BY <2>1, <2>2, <1>4 DEF ClearMetrics, Go
<1>5. ASSUME NEW w \in Workers, WriteTmp(w)
      PROVE  TypeOK'
  BY <1>5 DEF WriteTmp, Go, Unlocked
<1>6. ASSUME NEW w \in Workers, Rename(w)
      PROVE  TypeOK'
  BY <1>6 DEF Rename, EndSave, Go, Empty
<1>7. ASSUME NEW w \in Workers, FailSave(w)
      PROVE  TypeOK'
  BY <1>7 DEF FailSave, EndSave, Go, Empty
<1>8. ASSUME Restart
      PROVE  TypeOK'
  <2>1. mem' = disk /\ tmp' = Empty /\ disk' = disk
    BY <1>8 DEF Restart, StartWith
  <2>2. Empty \in Databases
    BY DEF Empty, Entries
  <2>3. pc' \in [Workers -> {"idle", "runs", "unsaved", "saving", "saved", "failed", "lost"}]
    BY <1>8 DEF Restart, StartWith
  <2>4. num' \in [Downloads -> [no : Nat, era : Nat]]
    BY <1>8 DEF Restart, StartWith, NoNumber
  <2> QED
    BY <2>1, <2>2, <2>3, <2>4, <1>8 DEF Restart, StartWith
<1>9. CASE UNCHANGED vars
  BY <1>9 DEF vars
<1> QED
  BY <1>1, <1>2, <1>3, <1>4, <1>5, <1>6, <1>7, <1>8, <1>9
     DEF Next

\* The lock.
LEMMA LockStep ==
  ASSUME TypeOK, LockInv, [Next]_vars
  PROVE  LockInv'
<1> USE Kinds DEF TypeOK, LockInv
<1>1. ASSUME NEW d \in Downloads, TakeNumber(d)
      PROVE  LockInv'
  BY <1>1 DEF TakeNumber, Go, Unlocked
<1>2. ASSUME NEW d \in Downloads, AddMetrics(d)
      PROVE  LockInv'
  BY <1>2 DEF AddMetrics, Go, Unlocked
<1>3. ASSUME NEW f \in Files, UpsertSeedMetrics(f)
      PROVE  LockInv'
  BY <1>3 DEF UpsertSeedMetrics, Go, Unlocked
<1>4. ASSUME NEW c \in Clearers, ClearMetrics(c)
      PROVE  LockInv'
  BY <1>4 DEF ClearMetrics, Go, Unlocked, Empty
<1>5. ASSUME NEW w \in Workers, WriteTmp(w)
      PROVE  LockInv'
  BY <1>5 DEF WriteTmp, Go, Unlocked
<1>6. ASSUME NEW w \in Workers, Rename(w)
      PROVE  LockInv'
  BY <1>6 DEF Rename, EndSave, Go, Empty
<1>7. ASSUME NEW w \in Workers, FailSave(w)
      PROVE  LockInv'
  BY <1>7 DEF FailSave, EndSave, Go, Empty
<1>8. ASSUME Restart
      PROVE  LockInv'
  BY <1>8 DEF Restart, StartWith, Empty
<1>9. CASE UNCHANGED vars
  BY <1>9 DEF vars
<1> QED
  BY <1>1, <1>2, <1>3, <1>4, <1>5, <1>6, <1>7, <1>8, <1>9
     DEF Next

\* The numbers in memory and in the file.
LEMMA NumbersStep ==
  ASSUME TypeOK, LockInv, NumbersInv, HeldInv, [Next]_vars
  PROVE  NumbersInv'
<1> USE Kinds DEF TypeOK, LockInv, NumbersInv, Given, Distinct, Databases, Entries
<1>1. ASSUME NEW d \in Downloads, TakeNumber(d)
      PROVE  NumbersInv'
  BY <1>1 DEF TakeNumber, Go, Unlocked
<1>2. ASSUME NEW d \in Downloads, AddMetrics(d)
      PROVE  NumbersInv'
  <2> DEFINE e0 == [of |-> d, no |-> num[d].no, era |-> num[d].era]
  <2>1. /\ mem'.entries = mem.entries \cup {e0} /\ mem'.last = mem.last /\ mem'.era = mem.era
        /\ disk' = disk /\ pc[d] = "runs"
    BY <1>2 DEF AddMetrics
  <2>2. e0.no = num[d].no /\ e0.era = num[d].era
    OBVIOUS
  <2>3. \A e \in mem.entries : ~(e.no = e0.no /\ e.era = e0.era)
    BY <2>1, <2>2 DEF HeldInv
  <2>4. e0.era = mem.era => e0.no <= mem.last
    BY <2>1, <2>2 DEF HeldInv
  <2> HIDE DEF e0
  <2>5. Given(mem)'
    BY <2>1, <2>4
  <2>6. Distinct(mem)'
    BY <2>1, <2>3
  <2> QED
    BY <2>1, <2>5, <2>6
<1>3. ASSUME NEW f \in Files, UpsertSeedMetrics(f)
      PROVE  NumbersInv'
  BY <1>3 DEF UpsertSeedMetrics, Go, Unlocked
<1>4. ASSUME NEW c \in Clearers, ClearMetrics(c)
      PROVE  NumbersInv'
  BY <1>4 DEF ClearMetrics, Go, Unlocked, Empty
<1>5. ASSUME NEW w \in Workers, WriteTmp(w)
      PROVE  NumbersInv'
  BY <1>5 DEF WriteTmp, Go, Unlocked
<1>6. ASSUME NEW w \in Workers, Rename(w)
      PROVE  NumbersInv'
  BY <1>6 DEF Rename, EndSave, Go, Empty
<1>7. ASSUME NEW w \in Workers, FailSave(w)
      PROVE  NumbersInv'
  BY <1>7 DEF FailSave, EndSave, Go, Empty
<1>8. ASSUME Restart
      PROVE  NumbersInv'
  BY <1>8 DEF Restart, StartWith, Empty
<1>9. CASE UNCHANGED vars
  BY <1>9 DEF vars
<1> QED
  BY <1>1, <1>2, <1>3, <1>4, <1>5, <1>6, <1>7, <1>8, <1>9
     DEF Next

\* The numbers that downloads hold.
LEMMA HeldStep ==
  ASSUME TypeOK, LockInv, NumbersInv, HeldInv, [Next]_vars
  PROVE  HeldInv'
<1> USE Kinds DEF TypeOK, LockInv, HeldInv, Databases, Entries
<1>1. ASSUME NEW d \in Downloads, TakeNumber(d)
      PROVE  HeldInv'
  <2>1. /\ mem'.last = mem.last + 1 /\ mem'.era = mem.era /\ mem'.entries = mem.entries
        /\ num'[d] = [no |-> mem.last + 1, era |-> mem.era]
        /\ mem.last \in Nat /\ mem.era \in Nat
        /\ \A f \in Downloads \ {d} : num'[f] = num[f] /\ pc'[f] = pc[f]
    BY <1>1 DEF TakeNumber, Go
  <2>2. num'[d].no = mem.last + 1 /\ num'[d].era = mem.era
    BY <2>1
  <2>3. \A f \in Downloads : num[f].no \in Nat /\ num[f].era \in Nat
    OBVIOUS
  <2>4. \A e \in mem.entries : e.no \in Nat /\ e.era \in Nat
    OBVIOUS
  <2>5. \A e \in mem.entries : e.no # num'[d].no \/ e.era # num'[d].era
    BY <2>1, <2>2, <2>4 DEF NumbersInv, Given
  <2>6. \A f \in Downloads \ {d} : pc[f] = "runs" => num[f] # num'[d]
    BY <2>1, <2>2, <2>3
  <2>7. \A f \in Downloads \ {d} : pc'[f] = "runs" =>
          /\ num'[f].era <= mem'.era
          /\ num'[f].era = mem'.era => num'[f].no <= mem'.last
          /\ \A e \in mem'.entries : e.no # num'[f].no \/ e.era # num'[f].era
    BY <2>1, <2>3
  <2>8. num'[d].era <= mem'.era /\ num'[d].no <= mem'.last
    BY <2>1, <2>2
  <2> HIDE DEF TypeOK, Databases, Entries
  <2> QED
    BY <2>1, <2>5, <2>6, <2>7, <2>8
<1>2. ASSUME NEW d \in Downloads, AddMetrics(d)
      PROVE  HeldInv'
  BY <1>2 DEF AddMetrics, Go, Unlocked
<1>3. ASSUME NEW f \in Files, UpsertSeedMetrics(f)
      PROVE  HeldInv'
  BY <1>3 DEF UpsertSeedMetrics, Go, Unlocked
<1>4. ASSUME NEW c \in Clearers, ClearMetrics(c)
      PROVE  HeldInv'
  BY <1>4 DEF ClearMetrics, Go, Unlocked, Empty
<1>5. ASSUME NEW w \in Workers, WriteTmp(w)
      PROVE  HeldInv'
  BY <1>5 DEF WriteTmp, Go, Unlocked
<1>6. ASSUME NEW w \in Workers, Rename(w)
      PROVE  HeldInv'
  BY <1>6 DEF Rename, EndSave, Go, Empty
<1>7. ASSUME NEW w \in Workers, FailSave(w)
      PROVE  HeldInv'
  BY <1>7 DEF FailSave, EndSave, Go, Empty
<1>8. ASSUME Restart
      PROVE  HeldInv'
  BY <1>8 DEF Restart, StartWith, Empty
<1>9. CASE UNCHANGED vars
  BY <1>9 DEF vars
<1> QED
  BY <1>1, <1>2, <1>3, <1>4, <1>5, <1>6, <1>7, <1>8, <1>9
     DEF Next

\* What is saved.
LEMMA SavedStep ==
  ASSUME TypeOK, LockInv, SavedInv, [Next]_vars
  PROVE  SavedInv'
<1> USE Kinds DEF TypeOK, LockInv, SavedInv, Listed, Databases, Entries
<1>1. ASSUME NEW d \in Downloads, TakeNumber(d)
      PROVE  SavedInv'
  BY <1>1 DEF TakeNumber, Go, Unlocked
<1>2. ASSUME NEW d \in Downloads, AddMetrics(d)
      PROVE  SavedInv'
  <2> DEFINE e0 == [of |-> d, no |-> num[d].no, era |-> num[d].era]
  <2>1. /\ mem'.entries = mem.entries \cup {e0} /\ mem'.seeds = mem.seeds
        /\ disk' = disk /\ cleared' = cleared
        /\ pc' = [pc EXCEPT ![d] = "unsaved"]
    BY <1>2 DEF AddMetrics, Go
  <2>2. e0.of = d
    OBVIOUS
  <2> HIDE DEF e0
  <2>3. Listed(mem)' = Listed(mem) \cup {d}
    BY <2>1, <2>2
  <2>4. Listed(disk)' = Listed(disk)
    BY <2>1
  <2> HIDE DEF Listed
  <2> QED
    BY <2>1, <2>3, <2>4
<1>3. ASSUME NEW f \in Files, UpsertSeedMetrics(f)
      PROVE  SavedInv'
  BY <1>3 DEF UpsertSeedMetrics, Go, Unlocked
<1>4. ASSUME NEW c \in Clearers, ClearMetrics(c)
      PROVE  SavedInv'
  BY <1>4 DEF ClearMetrics, Go, Unlocked, Empty
<1>5. ASSUME NEW w \in Workers, WriteTmp(w)
      PROVE  SavedInv'
  BY <1>5 DEF WriteTmp, Go, Unlocked
<1>6. ASSUME NEW w \in Workers, Rename(w)
      PROVE  SavedInv'
  BY <1>6 DEF Rename, EndSave, Go, Empty
<1>7. ASSUME NEW w \in Workers, FailSave(w)
      PROVE  SavedInv'
  BY <1>7 DEF FailSave, EndSave, Go, Empty
<1>8. ASSUME Restart
      PROVE  SavedInv'
  BY <1>8 DEF Restart, StartWith, Empty
<1>9. CASE UNCHANGED vars
  BY <1>9 DEF vars
<1> QED
  BY <1>1, <1>2, <1>3, <1>4, <1>5, <1>6, <1>7, <1>8, <1>9
     DEF Next

\* What is cleared.
LEMMA ClearStep ==
  ASSUME TypeOK, LockInv, ClearInv, [Next]_vars
  PROVE  ClearInv'
<1> USE Kinds DEF TypeOK, LockInv, ClearInv, Listed, Databases, Entries
<1>1. ASSUME NEW d \in Downloads, TakeNumber(d)
      PROVE  ClearInv'
  BY <1>1 DEF TakeNumber, Go, Unlocked
<1>2. ASSUME NEW d \in Downloads, AddMetrics(d)
      PROVE  ClearInv'
  BY <1>2 DEF AddMetrics, Go, Unlocked
<1>3. ASSUME NEW f \in Files, UpsertSeedMetrics(f)
      PROVE  ClearInv'
  BY <1>3 DEF UpsertSeedMetrics, Go, Unlocked
<1>4. ASSUME NEW c \in Clearers, ClearMetrics(c)
      PROVE  ClearInv'
  BY <1>4 DEF ClearMetrics, Go, Unlocked, Empty
<1>5. ASSUME NEW w \in Workers, WriteTmp(w)
      PROVE  ClearInv'
  BY <1>5 DEF WriteTmp, Go, Unlocked
<1>6. ASSUME NEW w \in Workers, Rename(w)
      PROVE  ClearInv'
  BY <1>6 DEF Rename, EndSave, Go, Empty
<1>7. ASSUME NEW w \in Workers, FailSave(w)
      PROVE  ClearInv'
  BY <1>7 DEF FailSave, EndSave, Go, Empty
<1>8. ASSUME Restart
      PROVE  ClearInv'
  BY <1>8 DEF Restart, StartWith, Empty
<1>9. CASE UNCHANGED vars
  BY <1>9 DEF vars
<1> QED
  BY <1>1, <1>2, <1>3, <1>4, <1>5, <1>6, <1>7, <1>8, <1>9
     DEF Next

THEOREM InvariantHolds == Spec => []IInv
<1>1. IInv /\ [Next]_vars => IInv'
  BY TypeStep, LockStep, NumbersStep, HeldStep, SavedStep, ClearStep DEF IInv
<1> QED
  BY InitIInv, <1>1, PTL DEF Spec

\* Two downloads get the same number only if the metrics have been cleared in
\* between (metrics.go:149-163, 290-299).
THEOREM NumbersAreUnique == Spec => []MetricsInv
<1>1. IInv => MetricsInv
  BY DEF IInv, MetricsInv, NumbersUnique, NumbersInv, Distinct
<1> QED
  BY InvariantHolds, <1>1, PTL

\* What has been saved survives every crash and every other operation, until it
\* is cleared (metrics.go:125-163).
THEOREM SavedStays == Spec => []SavedSurvives
<1>1. IInv => SavedSurvives
  BY DEF IInv, SavedSurvives, SavedInv
<1> QED
  BY InvariantHolds, <1>1, PTL

\* What has been cleared stays away (metrics.go:290-299).
THEOREM ClearedStaysAway == Spec => []ClearHolds
<1>1. IInv => ClearHolds
  BY DEF IInv, ClearHolds, ClearInv
<1> QED
  BY InvariantHolds, <1>1, PTL

\* The lock keeps memory still from the write of the temporary file to its rename,
\* so the rename makes the file a copy of memory, for any number of workers.
THEOREM SavesAreWhole == Spec => SavesWhole
<1>1. IInv /\ [Next]_vars => [disk' # disk => disk' = mem /\ mem' = mem]_<<mem, disk>>
  <2> SUFFICES ASSUME IInv, Next
               PROVE  disk' # disk => disk' = mem /\ mem' = mem
    BY DEF vars
  <2>1. ASSUME NEW w \in Workers, Rename(w)
        PROVE  disk' = mem /\ mem' = mem
    <3>1. pc[w] = "saving" /\ disk' = tmp /\ mem' = mem
      BY <2>1 DEF Rename, EndSave
    <3>2. tmp = mem
      BY <3>1, Kinds DEF IInv, LockInv
    <3> QED
      BY <3>1, <3>2
  <2>2. Next => disk' = disk \/ \E w \in Workers : Rename(w)
    BY DEF Next, TakeNumber, AddMetrics, UpsertSeedMetrics, ClearMetrics, WriteTmp,
           FailSave, Restart, StartWith
  <2> QED
    BY <2>1, <2>2
<1> QED
  BY InvariantHolds, <1>1, PTL DEF Spec, SavesWhole
================================================================================
