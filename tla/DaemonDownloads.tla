---------------------------- MODULE DaemonDownloads ----------------------------
(* The downloads of one file hash in the daemon (pkg/daemon/server.go): the    *)
(* requests that start, replace and list them, the goroutine runDownload of    *)
(* each, and the gate it waits at (module Gate, which this one extends).       *)
(*                                                                             *)
(* A request makes a download and an entry of the map downloads; both are      *)
(* named by the caller of the gate that runDownload is. Entries of other       *)
(* hashes share only the locks. Two locks are held across steps: downloadsMu,  *)
(* by a request that looks an entry up and by a listing, and download.mu, by a *)
(* runDownload whose transfer has succeeded, until it has reported so. What is *)
(* reported, to whom and how, is module ProgressStream; a call of DownloadFile *)
(* (HybridDownload) is one step that ends well or badly.                       *)
EXTENDS Gate

CONSTANT None  \* no download

ASSUME NoneAssumption == None \notin Callers

VARIABLES
  entry,     \* downloads[hash], or None
  req,       \* req[d]: how far handleDownload is with d's request
  lister,    \* handleListDownloads: "idle", or it "holds" downloadsMu
  raced,     \* history: two requests were between their look-up and insert
  run,       \* run[d]: how far runDownload is
  status,    \* status[d]: ActiveDownload.Status
  cancelled  \* the downloads whose context is done

table == <<entry, req, lister, raced, cancelled>>
allVars == <<vars, table, run, status>>

DownloadsInit ==
  /\ Init
  /\ entry = None /\ lister = "idle" /\ raced = FALSE /\ cancelled = {}
  /\ req = [d \in Callers |-> "none"]
  /\ run = [d \in Callers |-> "none"]
  /\ status = [d \in Callers |-> "downloading"]
-------------------------------------------------------------------------------
\* download.mu of the entry is held.
Locked(d) == d # None /\ run[d] = "locked"

\* downloadsMu can be taken.
MapFree == lister = "idle" /\ \A d \in Callers : req[d] # "locks"

\* handleDownload takes downloadsMu.
LockMap(d) ==
  /\ req[d] = "none" /\ MapFree
  /\ req' = [req EXCEPT ![d] = "locks"]
  /\ UNCHANGED <<vars, entry, lister, raced, cancelled, run, status>>

\* It reads the status of an earlier download, which takes that download's
\* lock, cancels the download, deletes the entry and unlocks the map.
Displace(d) ==
  /\ req[d] = "locks" /\ ~Locked(entry)
  /\ cancelled' = cancelled \cup ({entry} \ {None})
  /\ entry' = None
  /\ raced' = (raced \/ \E e \in Callers : req[e] = "looked")
  /\ req' = [req EXCEPT ![d] = "looked"]
  /\ UNCHANGED <<vars, lister, run, status>>

\* Fault: an entry made in the meantime is waited for.
InsertWhenVacant(d) ==
  /\ req[d] = "looked" /\ MapFree /\ entry = None
  /\ entry' = d
  /\ req' = [req EXCEPT ![d] = "answered"]
  /\ run' = [run EXCEPT ![d] = "start"]
  /\ UNCHANGED <<vars, lister, raced, cancelled, status>>

\* The tracker has been asked for the record; the entry is made, whatever is
\* there by now, runDownload starts and the request is answered.
Insert(d) ==
  /\ req[d] = "looked" /\ MapFree
  /\ entry' = d
  /\ req' = [req EXCEPT ![d] = "answered"]
  /\ run' = [run EXCEPT ![d] = "start"]
  /\ UNCHANGED <<vars, lister, raced, cancelled, status>>

\* No path can be made for the output: the request fails, and the download it
\* has displaced stays cancelled.
CannotSave(d) ==
  /\ req[d] = "looked"
  /\ req' = [req EXCEPT ![d] = "answered"]
  /\ UNCHANGED <<vars, entry, lister, raced, cancelled, run, status>>

\* handleListDownloads takes downloadsMu for reading and then, one after the
\* other, the lock of every download.
ListBegin ==
  /\ MapFree
  /\ lister' = "holds"
  /\ UNCHANGED <<vars, entry, req, raced, cancelled, run, status>>

ListEnd ==
  /\ lister = "holds" /\ ~Locked(entry)
  /\ lister' = "idle"
  /\ UNCHANGED <<vars, entry, req, raced, cancelled, run, status>>
-------------------------------------------------------------------------------
\* The control plane pauses and resumes the gate.
PauseDownloads == Pause /\ UNCHANGED <<table, run, status>>
ResumeDownloads == Resume /\ UNCHANGED <<table, run, status>>

\* runDownload: a download that finds the gate closed says that it waits.
BeginRun(d) ==
  /\ run[d] = "start"
  /\ status' = [status EXCEPT ![d] = IF paused THEN "waiting" ELSE @]
  /\ run' = [run EXCEPT ![d] = "gate"]
  /\ UNCHANGED <<vars, table>>

AwaitGate(d) ==
  /\ run[d] = "gate" /\ Enter(d)
  /\ run' = [run EXCEPT ![d] = "select"]
  /\ UNCHANGED <<table, status>>

\* Fault: the status is set to "downloading" only if the gate is open by now.
PassGateUnlessPaused(d) ==
  /\ run[d] = "select" /\ Admit(d)
  /\ status' = [status EXCEPT ![d] = IF @ = "waiting" /\ ~paused THEN "downloading" ELSE @]
  /\ run' = [run EXCEPT ![d] = "fetch"]
  /\ UNCHANGED table

\* Wait has returned nil: the download starts.
PassGate(d) ==
  /\ run[d] = "select" /\ Admit(d)
  /\ status' = [status EXCEPT ![d] = IF @ = "waiting" THEN "downloading" ELSE @]
  /\ run' = [run EXCEPT ![d] = "fetch"]
  /\ UNCHANGED table

\* Fault: a waiting download is only woken by the gate.
GiveUpWhenOpened(d) ==
  /\ run[d] = "select" /\ d \in cancelled /\ Ready(d) /\ Refuse(d)
  /\ status' = [status EXCEPT ![d] = "cancelled"]
  /\ run' = [run EXCEPT ![d] = "ended"]
  /\ UNCHANGED table

\* Wait has returned the context's error: runDownload returns, and leaves the
\* map to whoever cancelled the download.
GiveUp(d) ==
  /\ run[d] = "select" /\ d \in cancelled /\ Refuse(d)
  /\ status' = [status EXCEPT ![d] = "cancelled"]
  /\ run' = [run EXCEPT ![d] = "ended"]
  /\ UNCHANGED table

\* DownloadFile has returned an error.
Fail(d) ==
  /\ run[d] = "fetch"
  /\ status' = [status EXCEPT ![d] = "error"]
  /\ run' = [run EXCEPT ![d] = "over"]
  /\ UNCHANGED <<vars, table>>

\* DownloadFile has returned nil: download.mu is taken, and kept.
Succeed(d) ==
  /\ run[d] = "fetch"
  /\ status' = [status EXCEPT ![d] = "complete"]
  /\ run' = [run EXCEPT ![d] = "locked"]
  /\ UNCHANGED <<vars, table>>

\* The final report is in the channel, or a second has passed without room for
\* it, and half a second later the lock is let go.
Settle(d) ==
  /\ run[d] = "locked"
  /\ run' = [run EXCEPT ![d] = "over"]
  /\ UNCHANGED <<vars, table, status>>

\* Fault: the entry is deleted whosever it is.
CleanUpAny(d) ==
  /\ run[d] = "over" /\ MapFree
  /\ entry' = None
  /\ run' = [run EXCEPT ![d] = "ended"]
  /\ UNCHANGED <<vars, req, lister, raced, cancelled, status>>

\* Some seconds later the entry goes, if it is still this download's.
CleanUp(d) ==
  /\ run[d] = "over" /\ MapFree
  /\ entry' = IF entry = d THEN None ELSE entry
  /\ run' = [run EXCEPT ![d] = "ended"]
  /\ UNCHANGED <<vars, req, lister, raced, cancelled, status>>
-------------------------------------------------------------------------------
DownloadsNext ==
  \/ PauseDownloads \/ ResumeDownloads \/ ListBegin \/ ListEnd
  \/ \E d \in Callers :
       \/ LockMap(d) \/ Displace(d) \/ Insert(d) \/ CannotSave(d)
       \/ BeginRun(d) \/ AwaitGate(d) \/ PassGate(d) \/ GiveUp(d)
       \/ Fail(d) \/ Succeed(d) \/ Settle(d) \/ CleanUp(d)

DownloadsSpec == DownloadsInit /\ [][DownloadsNext]_allVars

\* Goroutines that can go on are scheduled, DownloadFile returns, timers fire,
\* and downloadsMu passes no writer over for ever. The broadcasts at the end of
\* runDownload (server.go:790-806) are assumed to return, which nothing in the code
\* enforces: a write to a websocket client that does not read has no deadline.
\* Requests, pauses and resumptions are nobody's duty.
DownloadsFairness ==
  /\ WF_allVars(ListEnd)
  /\ \A d \in Callers :
       /\ WF_allVars(Displace(d)) /\ SF_allVars(Insert(d))
       /\ WF_allVars(BeginRun(d)) /\ WF_allVars(AwaitGate(d))
       /\ WF_allVars(PassGate(d)) /\ WF_allVars(GiveUp(d))
       /\ WF_allVars(Fail(d) \/ Succeed(d))
       /\ WF_allVars(Settle(d)) /\ SF_allVars(CleanUp(d))

FairDownloads == DownloadsSpec /\ DownloadsFairness
-------------------------------------------------------------------------------
\* The variables range over what the code lets them hold.
DownloadsTypeOK ==
  /\ TypeOK
  /\ entry \in Callers \cup {None}
  /\ req \in [Callers -> {"none", "locks", "looked", "answered"}]
  /\ lister \in {"idle", "holds"}
  /\ raced \in BOOLEAN
  /\ run \in [Callers -> {"none", "start", "gate", "select", "fetch", "locked", "over", "ended"}]
  /\ status \in [Callers -> {"downloading", "waiting", "cancelled", "error", "complete"}]
  /\ cancelled \subseteq Callers

\* An entry of the map is a download that has neither been cancelled nor ended:
\* whoever cancels a download takes it off in the same breath, and one that
\* ends takes itself off (server.go:444-456, 814-818).
EntryIsLive ==
  entry # None => entry \notin cancelled /\ run[entry] \notin {"none", "ended"}

\* What handleStatus and handleListDownloads show of a download fits what its
\* goroutine does: one that "waits" has not begun its transfer, one that is
\* "complete" or in "error" has ended it, and only one that has been replaced is
\* "cancelled" (server.go:729-790, status written and read under different locks).
StatusFits ==
  \A d \in Callers :
    /\ status[d] = "waiting" => run[d] \in {"gate", "select"}
    /\ status[d] \in {"complete", "error"} => run[d] \in {"locked", "over", "ended"}
    /\ status[d] = "cancelled" => d \in cancelled /\ run[d] = "ended"

DownloadsInv == DownloadsTypeOK /\ EntryIsLive /\ StatusFits

\* A download that has not ended and has not been cancelled is the entry of its
\* hash, so that the next request cancels it before it writes the same file. It
\* takes two requests at once, both past the look-up of server.go:444-456 before
\* either inserts at 516-518, to break this.
RunningIsListed ==
  \A d \in Callers :
    run[d] \notin {"none", "ended"} /\ d \notin cancelled /\ ~raced => entry = d

\* A download that has been admitted, or cancelled, comes to its end, even at a
\* gate that stays closed (server.go:737-744) and while others list and replace.
DownloadsEnd ==
  \A d \in Callers : (run[d] = "fetch" \/ d \in cancelled) ~> (run[d] = "ended")

\* Requests that take the map's lock and then a download's are answered: no
\* holder of a download's lock waits for the map's (server.go:444, 644, 753).
RequestsAnswered ==
  /\ (lister = "holds") ~> (lister = "idle")
  /\ \A d \in Callers : (req[d] = "locks") ~> (req[d] = "answered")
===============================================================================
