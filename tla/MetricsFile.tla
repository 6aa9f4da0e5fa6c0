------------------------------- MODULE MetricsFile -------------------------------
(* The daemon's metrics (pkg/metrics/metrics.go): a database in memory, guarded *)
(* by one lock, and its copy in metrics.json.                                   *)
(*                                                                              *)
(* Every operation changes memory under the lock, lets go of it, and saves      *)
(* under the lock again: other operations may come in between. A save writes    *)
(* a temporary file and renames it. Downloads take a request number when they   *)
(* start and add an entry when they end; the file watcher and the unseeding of  *)
(* a file replace the entry of that file; the API and the control plane clear   *)
(* everything. The daemon may crash between any two steps and starts again with *)
(* what the file has. What an entry says is left out.                           *)
EXTENDS Naturals

CONSTANTS Downloads,  \* the downloads, over all lives of the daemon
          Files,      \* the seeded files, each with one who updates its entry
          Clearers,   \* those who clear
          MaxClears,  \* bound on the times the metrics are cleared
          Nobody      \* the lock is free

Workers == Downloads \cup Files \cup Clearers

ASSUME WorkersAssumption ==
  /\ Nobody \notin Workers
  /\ Downloads \cap (Files \cup Clearers) = {} /\ Files \cap Clearers = {}
  /\ MaxClears \in Nat

VARIABLES mem,      \* MetricsManager.db
          disk,     \* what metrics.json has
          tmp,      \* what metrics.json.tmp has, inside a save
          saver,    \* who is inside save, with the lock
          pc,       \* pc[w]: how far w is
          num,      \* num[d]: d's request number, and the sequence it is of
          erased,   \* erased[c]: the downloads c has cleared and not yet saved
          cleared,  \* history: those whose entry a clear has removed
          gone      \* history: the downloads whose removal was reported done

vars == <<mem, disk, tmp, saver, pc, num, erased, cleared, gone>>

\* A database: the last number given out, the entries of downloads, the files
\* with an entry, and, as history, the number of clears, which names the
\* sequence of request numbers.
Empty == [last |-> 0, entries |-> {}, seeds |-> {}, era |-> 0]

NoNumber == [no |-> 0, era |-> 0]

Init ==
  /\ mem = Empty /\ disk = Empty /\ tmp = Empty
  /\ saver = Nobody
  /\ pc = [w \in Workers |-> "idle"]
  /\ num = [d \in Downloads |-> NoNumber]
  /\ erased = [c \in Clearers |-> {}]
  /\ cleared = {} /\ gone = {}
-------------------------------------------------------------------------------
Go(w, l) == pc' = [pc EXCEPT ![w] = l]

\* The lock can be taken for a change of memory, or by a save.
Unlocked == saver = Nobody

\* The downloads and the files with an entry in database db.
Listed(db) == {e.of : e \in db.entries} \cup db.seeds

\* GetNextRequestID: counted in memory; nothing is saved.
TakeNumber(d) ==
  /\ pc[d] = "idle" /\ Unlocked
  /\ mem' = [mem EXCEPT !.last = @ + 1]
  /\ num' = [num EXCEPT ![d] = [no |-> mem.last + 1, era |-> mem.era]]
  /\ Go(d, "runs")
  /\ UNCHANGED <<disk, tmp, saver, erased, cleared, gone>>

\* AddMetrics, first half.
AddMetrics(d) ==
  /\ pc[d] = "runs" /\ Unlocked
  /\ mem' = [mem EXCEPT !.entries =
                 @ \cup {[of |-> d, no |-> num[d].no, era |-> num[d].era]}]
  /\ Go(d, "unsaved")
  /\ UNCHANGED <<disk, tmp, saver, num, erased, cleared, gone>>

\* UpsertSeedMetrics, first half: by a flush, again and again, and at the end
\* by unseedFile.
UpsertSeedMetrics(f) ==
  /\ pc[f] \in {"idle", "saved", "failed"} /\ Unlocked
  /\ mem' = [mem EXCEPT !.seeds = @ \cup {f}]
  /\ cleared' = cleared \ {f}
  /\ Go(f, "unsaved")
  /\ UNCHANGED <<disk, tmp, saver, num, erased, gone>>

\* ClearMetrics, first half: the numbers start again with 1.
ClearMetrics(c) ==
  /\ pc[c] \in {"idle", "saved", "failed"} /\ Unlocked /\ mem.era < MaxClears
  /\ mem' = [Empty EXCEPT !.era = mem.era + 1]
  /\ erased' = [erased EXCEPT ![c] = Listed(mem) \ Files]
  /\ cleared' = cleared \cup Listed(mem)
  /\ Go(c, "unsaved")
  /\ UNCHANGED <<disk, tmp, saver, num, gone>>
-------------------------------------------------------------------------------
\* Fault: the file itself is overwritten, and has nothing for a moment.
WriteInPlace(w) ==
  /\ pc[w] = "unsaved" /\ Unlocked
  /\ saver' = w
  /\ tmp' = mem /\ disk' = Empty
  /\ Go(w, "saving")
  /\ UNCHANGED <<mem, num, erased, cleared, gone>>

\* Fault: the lock is let go once memory has been copied.
CopyAndUnlock(w) ==
  /\ pc[w] = "unsaved" /\ Unlocked
  /\ tmp' = mem
  /\ Go(w, "saving")
  /\ UNCHANGED <<mem, disk, saver, num, erased, cleared, gone>>

\* save takes the lock and writes the temporary file.
WriteTmp(w) ==
  /\ pc[w] = "unsaved" /\ Unlocked
  /\ saver' = w
  /\ tmp' = mem
  /\ Go(w, "saving")
  /\ UNCHANGED <<mem, disk, num, erased, cleared, gone>>

\* The save of worker w ends with answer l, and lets go of the lock.
EndSave(w, l) ==
  /\ pc[w] = "saving"
  /\ saver' = Nobody
  /\ tmp' = Empty
  /\ Go(w, l)
  /\ erased' = [c \in Clearers |-> IF c = w THEN {} ELSE erased[c]]
  /\ gone' = IF l = "saved" /\ w \in Clearers THEN gone \cup erased[w] ELSE gone
  /\ UNCHANGED <<mem, num, cleared>>

\* It renames the file.
Rename(w) ==
  /\ EndSave(w, "saved")
  /\ disk' = tmp

\* Fault: a save that fails is taken for one that has succeeded.
FailQuietly(w) ==
  /\ EndSave(w, "saved")
  /\ UNCHANGED disk

\* The write or the rename fails: memory keeps the change, and the next save of
\* anything else saves it too.
FailSave(w) ==
  /\ EndSave(w, "failed")
  /\ UNCHANGED disk

\* The daemon crashes and starts again with database db. A download that has
\* not been saved is lost, with its number.
StartWith(db) ==
  /\ mem' = db
  /\ saver' = Nobody /\ tmp' = Empty
  /\ pc' = [w \in Workers |->
              IF pc[w] \notin {"runs", "unsaved", "saving"} THEN pc[w]
              ELSE IF w \in Downloads THEN "lost" ELSE "failed"]
  /\ num' = [d \in Downloads |-> IF pc[d] = "runs" THEN NoNumber ELSE num[d]]
  /\ erased' = [c \in Clearers |-> {}]
  /\ UNCHANGED <<disk, cleared, gone>>

\* Fault: the last number is not in the file.
RestartCounting == StartWith([disk EXCEPT !.last = 0])

\* NewMetricsManager loads the file.
Restart == StartWith(disk)
-------------------------------------------------------------------------------
Next ==
  \/ \E d \in Downloads : TakeNumber(d) \/ AddMetrics(d)
  \/ \E f \in Files : UpsertSeedMetrics(f)
  \/ \E c \in Clearers : ClearMetrics(c)
  \/ \E w \in Workers : WriteTmp(w) \/ Rename(w) \/ FailSave(w)
  \/ Restart

Spec == Init /\ [][Next]_vars
-------------------------------------------------------------------------------
Entries == [of : Downloads, no : Nat, era : Nat]

Databases == [last : Nat, entries : SUBSET Entries, seeds : SUBSET Files, era : Nat]

TypeOK ==
  /\ mem \in Databases /\ disk \in Databases /\ tmp \in Databases
  /\ saver \in Workers \cup {Nobody}
  /\ pc \in [Workers -> {"idle", "runs", "unsaved", "saving", "saved", "failed", "lost"}]
  /\ num \in [Downloads -> [no : Nat, era : Nat]]
  /\ erased \in [Clearers -> SUBSET Downloads]
  /\ cleared \subseteq Downloads \cup Files /\ gone \subseteq Downloads

\* In a database, entries with the same number are of different sequences: two
\* downloads get the same number only if the metrics have been cleared in
\* between, whatever has crashed before it was saved (metrics.go:149-163, 290).
NumbersUnique ==
  \A db \in {mem, disk} : \A e, f \in db.entries :
    e.no = f.no /\ e.era = f.era => e = f

\* An entry whose save has succeeded is in the file, and so survives every crash,
\* until the metrics are cleared (metrics.go:125-163: the change and the save of
\* one operation, with other operations, saves and failures in between).
SavedSurvives ==
  \A d \in Downloads \cup Files :
    pc[d] = "saved" /\ d \notin cleared => d \in Listed(disk) /\ d \in Listed(mem)

\* What the file has changes only to what memory has at that moment, whole: no
\* save writes what memory had before somebody else's change, although the change
\* and its save are two critical sections (metrics.go:125-163).
SavesWhole == [][disk' # disk => disk' = mem /\ mem' = mem]_<<mem, disk>>

\* What a successful clear has removed never comes back, not even with a crash
\* or with the save of an operation that began before it (metrics.go:290-299).
ClearHolds == gone \cap (Listed(disk) \cup Listed(mem)) = {}

MetricsInv == TypeOK /\ NumbersUnique
================================================================================
