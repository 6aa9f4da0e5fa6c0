----------------------------- MODULE ProgressStream -----------------------------
(* How the daemon reports one download (runDownload, broadcastProgress and     *)
(* broadcastWSMessage of pkg/daemon/server.go, monitorProgress of              *)
(* pkg/client/downloader.go), and how the command lines that follow it take    *)
(* the reports (pkg/daemon/client.go, cmd/cli/daemon_integration.go).          *)
(*                                                                             *)
(* The downloader reports into a bounded channel and drops what does not fit;  *)
(* broadcastProgress empties it, records each report under download.mu and     *)
(* broadcasts it. runDownload takes the same lock when the transfer has        *)
(* succeeded and sends the final report into the channel while it holds it.    *)
(* Then it broadcasts the end itself, so two goroutines broadcast. A broadcast *)
(* holds wsClientsMu for reading until every client has been written to, and   *)
(* wsWriteMu during each write, which blocks while the client's connection is  *)
(* full. Connections deliver in order.                                         *)
EXTENDS Naturals, Sequences

CONSTANTS Watchers,  \* the command lines that follow the download
          ChanCap,   \* capacity of ProgressChan
          ConnCap,   \* messages a connection holds before a write to it blocks
          ProgCap,   \* capacity of a command line's channel of progress
          Nobody     \* no writer

ASSUME CapacityAssumption ==
  /\ {ChanCap, ConnCap, ProgCap} \subseteq Nat \ {0}
  /\ Nobody \notin {"run", "report"} \X Watchers

VARIABLES
  run,        \* how far runDownload is
  status,     \* ActiveDownload.Status
  reporting,  \* monitorProgress has not ended
  queue,      \* the number of reports in ProgressChan
  shut,       \* ProgressChan is closed
  rep,        \* how far broadcastProgress is
  msg,        \* the message it broadcasts
  todo,       \* todo[g]: the clients broadcaster g has left to write to
  writer,     \* who holds wsWriteMu, and the client it writes to
  clients,    \* wsClients
  conn,       \* conn[w]: messages written to w's connection and not read
  reader,     \* reader[w]: the goroutine of StreamProgress, or how it ended
  prog,       \* prog[w]: the channel of progress it fills
  err,        \* the watchers whose channel of errors holds one
  cli         \* cli[w]: where downloadViaDaemon is, or what it ended with

download == <<run, status, reporting, queue, shut>>
reports == <<rep, msg>>
sockets == <<todo, writer, clients, conn>>
streams == <<reader, prog, err, cli>>
vars == <<download, reports, sockets, streams>>

\* The two goroutines that broadcast.
Broadcasters == {"run", "report"}

\* The gate has been passed and DownloadFile is called.
Init ==
  /\ run = "fetch" /\ status = "downloading"
  /\ reporting = TRUE /\ queue = 0 /\ shut = FALSE
  /\ rep = "range" /\ msg = "progress"
  /\ todo = [g \in Broadcasters |-> {}] /\ writer = Nobody
  /\ clients = {} /\ err = {}
  /\ conn = [w \in Watchers |-> <<>>]
  /\ prog = [w \in Watchers |-> <<>>]
  /\ reader = [w \in Watchers |-> "none"]
  /\ cli = [w \in Watchers |-> "posted"]
-------------------------------------------------------------------------------
\* download.mu is held across steps.
Locked == run \in {"sending", "settling"}

\* DownloadFile has returned an error.
Fail ==
  /\ run = "fetch"
  /\ status' = "error"
  /\ run' = "tell"
  /\ UNCHANGED <<reporting, queue, shut, reports, sockets, streams>>

\* DownloadFile has returned nil: the lock is taken, and kept.
Succeed ==
  /\ run = "fetch"
  /\ status' = "complete"
  /\ run' = "sending"
  /\ UNCHANGED <<reporting, queue, shut, reports, sockets, streams>>

\* Fault: the final report waits for room in the channel as long as it takes.
SendFinalPatiently ==
  /\ run = "sending" /\ queue < ChanCap
  /\ queue' = queue + 1
  /\ run' = "settling"
  /\ UNCHANGED <<status, reporting, shut, reports, sockets, streams>>

\* The select: the final report goes into the channel, or a second passes
\* without room in it.
SendFinal ==
  /\ run = "sending"
  /\ queue' = IF queue < ChanCap THEN queue + 1 ELSE queue
  /\ run' = "settling"
  /\ UNCHANGED <<status, reporting, shut, reports, sockets, streams>>

\* Half a second later the lock is let go.
Settle ==
  /\ run = "settling"
  /\ run' = "tell"
  /\ UNCHANGED <<status, reporting, queue, shut, reports, sockets, streams>>

\* The error, or the completion, is broadcast to the clients of this moment.
Tell ==
  /\ run = "tell"
  /\ todo' = [todo EXCEPT !["run"] = clients]
  /\ run' = "telling"
  /\ UNCHANGED <<status, reporting, queue, shut, reports, writer, clients, conn, streams>>

\* Half a second after the broadcast the channel is closed.
CloseChannel ==
  /\ run = "telling" /\ todo["run"] = {}
  /\ shut' = TRUE
  /\ run' = "ended"
  /\ UNCHANGED <<status, reporting, queue, reports, sockets, streams>>

\* monitorProgress: a report is dropped when the channel is full.
Report ==
  /\ reporting /\ ~shut /\ queue < ChanCap
  /\ queue' = queue + 1
  /\ UNCHANGED <<run, status, reporting, shut, reports, sockets, streams>>

\* It notices that DownloadFile has returned, at once or some reports later.
StopReporting ==
  /\ reporting /\ run # "fetch"
  /\ reporting' = FALSE
  /\ UNCHANGED <<run, status, queue, shut, reports, sockets, streams>>

\* Nothing orders the close after the reporter's last send but the sleeps of half
\* a second before it: a reporter that is later than that sends on the closed
\* channel, and the daemon crashes.
Panic ==
  /\ reporting /\ shut
  /\ reporting' = FALSE
  /\ run' = "crashed" /\ rep' = "ended" /\ msg' = "progress" /\ queue' = 0
  /\ todo' = [g \in Broadcasters |-> {}] /\ writer' = Nobody
  /\ clients' = {}
  /\ UNCHANGED <<status, shut, conn, streams>>
-------------------------------------------------------------------------------
\* broadcastProgress takes a report, or ends with the channel.
TakeReport ==
  /\ rep = "range" /\ queue > 0
  /\ queue' = queue - 1
  /\ rep' = "locks"
  /\ UNCHANGED <<run, status, reporting, shut, msg, sockets, streams>>

EndReports ==
  /\ rep = "range" /\ queue = 0 /\ shut
  /\ rep' = "ended"
  /\ UNCHANGED <<download, msg, sockets, streams>>

\* It records the report under download.mu.
RecordReport ==
  /\ rep = "locks" /\ ~Locked
  /\ rep' = "recorded"
  /\ UNCHANGED <<download, msg, sockets, streams>>

\* Fault: any download that is over counts as complete.
TellOverAsFinal ==
  /\ rep = "recorded"
  /\ msg' = IF status = "downloading" THEN "progress" ELSE "final"
  /\ todo' = [todo EXCEPT !["report"] = clients]
  /\ rep' = "telling"
  /\ UNCHANGED <<download, writer, clients, conn, streams>>

\* The message has the download's status, read without the lock: whatever the
\* report says, it is a final one if the download is complete by now.
TellProgress ==
  /\ rep = "recorded"
  /\ msg' = IF status = "complete" THEN "final" ELSE "progress"
  /\ todo' = [todo EXCEPT !["report"] = clients]
  /\ rep' = "telling"
  /\ UNCHANGED <<download, writer, clients, conn, streams>>

NextReport ==
  /\ rep = "telling" /\ todo["report"] = {}
  /\ rep' = "range" /\ msg' = "progress"
  /\ UNCHANGED <<download, sockets, streams>>

\* What broadcaster g tells its clients.
Message(g) ==
  IF g = "report" THEN msg
  ELSE IF status = "complete" THEN "complete" ELSE "error"

\* broadcastWSMessage: the write to one client begins under wsWriteMu ...
BeginWrite(g, w) ==
  /\ writer = Nobody /\ w \in todo[g]
  /\ writer' = <<g, w>>
  /\ UNCHANGED <<download, reports, todo, clients, conn, streams>>

\* ... and ends when the connection has room for it. A write to a connection
\* the client has closed fails, and the broadcast goes on.
EndWrite(g, w) ==
  /\ writer = <<g, w>>
  /\ reader[w] = "reading" => Len(conn[w]) < ConnCap
  /\ conn' = [conn EXCEPT ![w] = IF reader[w] = "reading" THEN Append(@, Message(g)) ELSE @]
  /\ todo' = [todo EXCEPT ![g] = @ \ {w}]
  /\ writer' = Nobody
  /\ UNCHANGED <<download, reports, clients, streams>>

\* wsClientsMu can be taken for writing.
ClientsFree == \A g \in Broadcasters : todo[g] = {}

\* The command line opens the websocket, and handleWebSocket enters it.
Watch(w) ==
  /\ cli[w] = "posted" /\ run # "crashed" /\ ClientsFree
  /\ clients' = clients \cup {w}
  /\ reader' = [reader EXCEPT ![w] = "reading"]
  /\ cli' = [cli EXCEPT ![w] = "watches"]
  /\ UNCHANGED <<download, reports, todo, writer, conn, prog, err>>

\* The dial fails: the download goes on without this watcher.
CannotWatch(w) ==
  /\ cli[w] = "posted"
  /\ cli' = [cli EXCEPT ![w] = "unwatched"]
  /\ UNCHANGED <<download, reports, sockets, reader, prog, err>>

\* Fault: the client is taken off while broadcasts are under way.
ForgetAtOnce(w) ==
  /\ w \in clients /\ reader[w] # "reading"
  /\ clients' = clients \ {w}
  /\ UNCHANGED <<download, reports, todo, writer, conn, streams>>

\* handleWebSocket notices that the client has closed its connection.
Forget(w) ==
  /\ w \in clients /\ reader[w] # "reading" /\ ClientsFree
  /\ clients' = clients \ {w}
  /\ UNCHANGED <<download, reports, todo, writer, conn, streams>>
-------------------------------------------------------------------------------
\* The goroutine of StreamProgress passes a progress message on, and ends with
\* an error message or a completion, whatever comes after it.
Read(w) ==
  /\ reader[w] = "reading" /\ conn[w] # <<>>
  /\ LET m == Head(conn[w])
     IN  \/ /\ m \in {"progress", "final"}
            /\ Len(prog[w]) < ProgCap
            /\ prog' = [prog EXCEPT ![w] = Append(@, m)]
            /\ conn' = [conn EXCEPT ![w] = Tail(@)]
            /\ UNCHANGED <<reader, err>>
         \/ /\ m \in {"error", "complete"}
            /\ reader' = [reader EXCEPT ![w] = m]
            /\ err' = IF m = "error" THEN err \cup {w} ELSE err
            /\ conn' = [conn EXCEPT ![w] = <<>>]
            /\ UNCHANGED prog
  /\ UNCHANGED <<download, reports, todo, writer, clients, cli>>

\* The connection breaks, with what was not read; the reader reports a read error
\* and ends.
Break(w) ==
  /\ reader[w] = "reading"
  /\ reader' = [reader EXCEPT ![w] = "broken"]
  /\ err' = err \cup {w}
  /\ conn' = [conn EXCEPT ![w] = <<>>]
  /\ UNCHANGED <<download, reports, todo, writer, clients, prog, cli>>

\* downloadViaDaemon returns, the process ends and with it the connection.
Return(w, verdict) ==
  /\ cli[w] = "watches"
  /\ cli' = [cli EXCEPT ![w] = verdict]
  /\ reader' = [reader EXCEPT ![w] = IF @ = "reading" THEN "exited" ELSE @]
  /\ prog' = [prog EXCEPT ![w] = <<>>]
  /\ err' = err \ {w}
  /\ conn' = [conn EXCEPT ![w] = <<>>]
  /\ UNCHANGED <<download, reports, todo, writer, clients>>

\* The select of downloadViaDaemon picks any case that is ready. A final
\* message: the file is reported, and seeded unless the user declined it.
ShowFinal(w) == prog[w] # <<>> /\ Head(prog[w]) = "final" /\ Return(w, "completed")

ShowProgress(w) ==
  /\ cli[w] = "watches" /\ prog[w] # <<>> /\ Head(prog[w]) = "progress"
  /\ prog' = [prog EXCEPT ![w] = Tail(@)]
  /\ UNCHANGED <<download, reports, sockets, reader, err, cli>>

\* The channel of progress is closed and drained: nil, without a word.
StreamEnds(w) ==
  prog[w] = <<>> /\ reader[w] \in {"complete", "error", "broken"} /\ Return(w, "silent")

ShowError(w) == w \in err /\ Return(w, "failed")

\* A minute without progress.
StreamStalls(w) ==
  prog[w] = <<>> /\ w \notin err /\ reader[w] = "reading" /\ Return(w, "stalled")
-------------------------------------------------------------------------------
Running == Fail \/ Succeed \/ SendFinal \/ Settle \/ Tell \/ CloseChannel

Broadcasting == TakeReport \/ EndReports \/ RecordReport \/ TellProgress \/ NextReport

Writing ==
  \E g \in Broadcasters, w \in Watchers : BeginWrite(g, w) \/ EndWrite(g, w)

Show(w) ==
  ShowFinal(w) \/ ShowProgress(w) \/ StreamEnds(w) \/ ShowError(w) \/ StreamStalls(w)

Next ==
  \/ Running \/ Report \/ StopReporting \/ Panic \/ Broadcasting \/ Writing
  \/ \E w \in Watchers :
       Watch(w) \/ CannotWatch(w) \/ Forget(w) \/ Read(w) \/ Break(w) \/ Show(w)

Spec == Init /\ [][Next]_vars

\* Goroutines that can go on are scheduled, DownloadFile returns, timers fire,
\* wsWriteMu is given to somebody who waits for it, and a command line that runs
\* takes what it is sent. Reports, new watchers and breaks are nobody's duty.
Fairness ==
  /\ WF_vars(Running) /\ WF_vars(StopReporting) /\ WF_vars(Broadcasting)
  /\ WF_vars(Writing)
  /\ \A w \in Watchers : WF_vars(Read(w)) /\ WF_vars(Show(w))

FairSpec == Spec /\ Fairness
-------------------------------------------------------------------------------
\* The variables range over what the code lets them hold.
TypeOK ==
  /\ run \in {"fetch", "sending", "settling", "tell", "telling", "ended",
             "crashed"}
  /\ status \in {"downloading", "error", "complete"}
  /\ reporting \in BOOLEAN /\ shut \in BOOLEAN
  /\ queue \in 0..ChanCap
  /\ rep \in {"range", "locks", "recorded", "telling", "ended"}
  /\ msg \in {"progress", "final"}
  /\ todo \in [Broadcasters -> SUBSET Watchers]
  /\ writer \in {Nobody} \cup (Broadcasters \X Watchers)
  /\ clients \subseteq Watchers /\ err \subseteq Watchers
  /\ reader \in [Watchers -> {"none", "reading", "error", "complete", "broken", "exited"}]
  /\ cli \in [Watchers -> {"posted", "unwatched", "watches", "completed", "silent",
                           "failed", "stalled"}]

\* The client a broadcaster is writing to is one it has left to write to and one
\* that is still registered: nobody is taken off the map, and no connection
\* closed by the daemon, under a broadcast (server.go:709-719, 869-884).
WriteToRegistered ==
  /\ \A g \in Broadcasters : todo[g] \subseteq clients
  /\ writer # Nobody => writer[2] \in todo[writer[1]]

StreamInv == TypeOK /\ WriteToRegistered

\* A command line says "completed" only if the download has succeeded, although
\* the status it goes by is read without the lock (server.go:840), and fails only
\* if the download has failed or its connection broke.
VerdictHasCause ==
  \A w \in Watchers :
    /\ cli[w] = "completed" => status = "complete"
    /\ cli[w] = "failed" => status = "error" \/ reader[w] = "broken"

\* Unless the daemon crashes on a late reporter, a download whose transfer has
\* ended comes to its own end, and so does its broadcaster, with the channel
\* drained: the lock held while the final report waits for room
\* (server.go:753-784) is the one the channel's reader needs, and both wait for
\* the clients, which are taken to read.
StreamCloses ==
  <>(run = "crashed" \/ (run = "ended" /\ rep = "ended" /\ queue = 0))

\* A command line that has been told of the completion says so (and goes on to
\* seed the file). The code does not keep this: the lock held until after the
\* final report holds the reporter back as well, and then the completion that
\* ends the stream races the final progress message (server.go:799, 831-843).
CompletionTold ==
  \A w \in Watchers : cli[w] = "silent" => reader[w] # "complete"
===============================================================================
