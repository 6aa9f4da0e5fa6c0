------------------------------ MODULE DaemonProcess ------------------------------
(* The daemon's process and its PID file (pkg/daemon/manager.go, pidfile.go,   *)
(* service.go, cmd/cli/commands_daemon.go).                                    *)
(*                                                                             *)
(* Users run the commands "daemon start", "stop" and "restart", several at a   *)
(* time and each in a process of its own; a command learns of the daemon only  *)
(* through the PID file and the health endpoint. What a command reads it acts  *)
(* on later: the check that a PID is stale and the removal of the file, the    *)
(* spawning of a process, the creation of the file and the writing of the PID  *)
(* are steps of their own. A process may fail to boot or crash at any moment,  *)
(* and a user may interrupt a command at any step.                             *)
(*                                                                             *)
(* Only one process can have the API's port. The one that comes late logs the  *)
(* error and lives on without an API ("mute"): DaemonService.Start runs the    *)
(* server in a goroutine. PIDs are not used again.                             *)
EXTENDS Naturals

CONSTANTS Users,     \* those who run commands, one at a time each
          MaxProcs,  \* bound on the daemon processes ever spawned
          Empty,     \* the content of a PID file not written yet
          None       \* no file, or no process

ASSUME ProcessAssumption ==
  /\ Users # {}
  /\ MaxProcs \in Nat /\ {Empty, None} \cap Nat = {} /\ Empty # None

VARIABLES proc,       \* proc[p]: the state of process p
          file,       \* the content of the PID file, or None
          linked,     \* the users whose open PID file is the one at the path
          pc,         \* pc[u]: where u's command stands, or "idle"
          goal,       \* goal[u]: what the call of IsRunning is for
          pid,        \* pid[u]: the process u has read of, or spawned
          said,       \* the last answer of a command that the daemon is gone
          overlapped, \* history: a command began while another was under way
          strays      \* history: the processes no command answers for

commands == <<pc, goal, pid>>
history == <<overlapped, strays>>
vars == <<proc, file, linked, commands, said, history>>

\* The PIDs, given out in this order.
Procs == 1..MaxProcs

Alive == {"starting", "serving", "mute", "stopping", "closing"}
Living == {p \in Procs : proc[p] \in Alive}

\* The processes with the port. One that stops keeps it for a while.
Answering == {p \in Procs : proc[p] \in {"serving", "stopping"}}

Init ==
  /\ proc = [p \in Procs |-> "free"]
  /\ file = None /\ linked = {}
  /\ pc = [u \in Users |-> "idle"]
  /\ goal = [u \in Users |-> "start"]
  /\ pid = [u \in Users |-> None]
  /\ said = ""
  /\ overlapped = FALSE /\ strays = {}
-------------------------------------------------------------------------------
\* NewServer has succeeded; the server gets the port, or finds it taken.
Boot(p) ==
  /\ proc[p] = "starting"
  /\ proc' = [proc EXCEPT ![p] = IF Answering = {} THEN "serving" ELSE "mute"]
  /\ UNCHANGED <<file, linked, commands, said, history>>

\* Server.Stop lets go of the port, then of the rest.
ClosePort(p) ==
  /\ proc[p] = "stopping"
  /\ proc' = [proc EXCEPT ![p] = "closing"]
  /\ UNCHANGED <<file, linked, commands, said, history>>

\* The end of Server.Stop, a failed NewServer, or a crash.
Die(p) ==
  /\ p \in Living
  /\ proc' = [proc EXCEPT ![p] = "dead"]
  /\ UNCHANGED <<file, linked, commands, said, history>>
-------------------------------------------------------------------------------
\* u's command goes on at label l.
Go(u, l) == pc' = [pc EXCEPT ![u] = l]

\* u's command is over.
Leave(u) ==
  /\ Go(u, "idle")
  /\ goal' = [goal EXCEPT ![u] = "start"]
  /\ pid' = [pid EXCEPT ![u] = None]

\* It ends otherwise than by stopping the daemon.
Return(u) == Leave(u) /\ UNCHANGED said

\* It ends with the news that the daemon does not run.
Answer(u, text) == Leave(u) /\ said' = text

\* RemovePID: whoever has the file open keeps a file without a name.
Unlink == file' = None /\ linked' = {}

\* daemon start, stop or restart: each begins with IsRunning.
Begin(u) ==
  /\ pc[u] = "idle"
  /\ \E g \in {"ensure", "stop", "restart"} : goal' = [goal EXCEPT ![u] = g]
  /\ Go(u, "cleanup")
  /\ said' = ""
  /\ overlapped' = (overlapped \/ \E v \in Users : pc[v] # "idle")
  /\ UNCHANGED <<proc, file, linked, pid, strays>>

\* The user interrupts the command. The process it was starting or stopping may
\* live on.
Interrupt(u) ==
  /\ pc[u] # "idle"
  /\ Leave(u)
  /\ linked' = linked \ {u}
  /\ strays' = strays \cup ({pid[u]} \cap Procs)
  /\ UNCHANGED <<proc, file, said, overlapped>>

\* IsRunning has returned FALSE: start and restart go on to Start, which asks
\* again before it spawns.
NotRunning(u) ==
  \/ /\ goal[u] \in {"ensure", "restart"}
     /\ goal' = [goal EXCEPT ![u] = "start"]
     /\ Go(u, "cleanup")
     /\ UNCHANGED <<pid, said>>
  \/ goal[u] = "start" /\ Go(u, "spawn") /\ UNCHANGED <<goal, pid, said>>
  \/ goal[u] = "stop" /\ Answer(u, "not running")

\* CleanupStale reads the file. An unparsable one makes IsRunning return FALSE.
ReadStale(u) ==
  /\ pc[u] = "cleanup"
  /\ IF file = Empty THEN NotRunning(u)
     ELSE /\ Go(u, IF file # None /\ file \notin Living THEN "stale" ELSE "read")
          /\ UNCHANGED <<goal, pid, said>>
  /\ UNCHANGED <<proc, file, linked, history>>

\* It removes a file that named a dead process when it was read.
RemoveStale(u) ==
  /\ pc[u] = "stale"
  /\ Unlink
  /\ Go(u, "read")
  /\ UNCHANGED <<proc, goal, pid, said, history>>

\* IsRunning reads the file again and asks whether that process lives.
ReadFile(u) ==
  /\ pc[u] = "read"
  /\ IF file \in {None, Empty} THEN NotRunning(u)
     ELSE /\ Go(u, IF file \in Living THEN "health" ELSE "dead")
          /\ UNCHANGED <<goal, pid, said>>
  /\ UNCHANGED <<proc, file, linked, history>>

RemoveDead(u) ==
  /\ pc[u] = "dead"
  /\ Unlink
  /\ NotRunning(u)
  /\ UNCHANGED <<proc, history>>

\* HealthCheck: any process that answers on the port will do. One that has the
\* port answers in time.
CheckHealth(u) ==
  /\ pc[u] = "health"
  /\ IF Answering = {} THEN NotRunning(u)
     ELSE \/ goal[u] \in {"ensure", "start"} /\ Return(u)
          \/ /\ goal[u] \in {"stop", "restart"} /\ Go(u, "signal")
             /\ UNCHANGED <<goal, pid, said>>
  /\ UNCHANGED <<proc, file, linked, history>>
-------------------------------------------------------------------------------
\* Start: cmd.Start has spawned a process. One that has to share the port and the
\* PID file with a stray is a stray itself.
Spawn(u) ==
  /\ pc[u] = "spawn"
  /\ \E p \in Procs :
       /\ proc[p] = "free" /\ \A q \in 1..(p - 1) : proc[q] # "free"
       /\ proc' = [proc EXCEPT ![p] = "starting"]
       /\ pid' = [pid EXCEPT ![u] = p]
       /\ strays' = IF Living \cap strays = {} THEN strays ELSE strays \cup {p}
  /\ Go(u, "create")
  /\ UNCHANGED <<file, linked, goal, said, overlapped>>

\* cmd.Start fails, or the executable or the log file is missing.
CannotSpawn(u) ==
  /\ pc[u] = "spawn"
  /\ Return(u)
  /\ UNCHANGED <<proc, file, linked, history>>

\* os.Create truncates a file that is there.
CreateFile(u) ==
  /\ pc[u] = "create"
  /\ file' = Empty
  /\ linked' = linked \cup {u}
  /\ Go(u, "write")
  /\ UNCHANGED <<proc, goal, pid, said, history>>

\* The PID goes into the file u has open, wherever that is by now.
WriteFile(u) ==
  /\ pc[u] = "write"
  /\ file' = IF u \in linked THEN pid[u] ELSE file
  /\ linked' = linked \ {u}
  /\ Go(u, "wait")
  /\ UNCHANGED <<proc, goal, pid, said, history>>

\* The PID file cannot be created or written: Start fails, and the process it has
\* spawned lives on without a name.
CannotName(u) ==
  /\ pc[u] \in {"create", "write"}
  /\ Return(u)
  /\ linked' = linked \ {u}
  /\ strays' = strays \cup {pid[u]}
  /\ UNCHANGED <<proc, file, overlapped>>

\* Start polls the health endpoint ...
Started(u) ==
  /\ pc[u] = "wait" /\ Answering # {}
  /\ Return(u)
  /\ UNCHANGED <<proc, file, linked, history>>

\* Fault: Start waits for the daemon as long as it lives.
NotStartedOnlyIfDead(u) ==
  /\ pc[u] = "wait" /\ pid[u] \notin Living
  /\ Return(u)
  /\ UNCHANGED <<proc, file, linked, history>>

\* ... for ten seconds, after which it fails, even if the daemon answers by now. A
\* process that is late is left alone.
NotStarted(u) ==
  /\ pc[u] = "wait"
  /\ Return(u)
  /\ strays' = strays \cup ({pid[u]} \cap (Living \ Answering))
  /\ UNCHANGED <<proc, file, linked, overlapped>>
-------------------------------------------------------------------------------
\* What SIGTERM does: Server.Stop, once the service waits for signals.
Terminated(p) ==
  [proc EXCEPT ![p] = CASE @ = "starting" -> "dead"
                        [] @ = "serving" -> "stopping"
                        [] @ = "mute" -> "closing"
                        [] OTHER -> @]

\* Fault: the PID file goes as soon as the signal is sent.
SignalAndForget(u) ==
  /\ pc[u] = "signal" /\ file \in Living
  /\ proc' = Terminated(file)
  /\ pid' = [pid EXCEPT ![u] = file]
  /\ Go(u, "await")
  /\ Unlink
  /\ UNCHANGED <<goal, said, history>>

\* Stop reads the file once more and signals the process it names.
Signal(u) ==
  /\ pc[u] = "signal" /\ file \in Living
  /\ proc' = Terminated(file)
  /\ pid' = [pid EXCEPT ![u] = file]
  /\ Go(u, "await")
  /\ UNCHANGED <<file, linked, goal, said, history>>

\* There is no file any more, or the process is dead.
CannotSignal(u) ==
  /\ pc[u] = "signal" /\ file \notin Living
  /\ Return(u)
  /\ UNCHANGED <<proc, file, linked, history>>

\* The process is gone: Stop succeeds. A restart goes on with Start.
Stopped(u) ==
  /\ pc[u] = "await" /\ pid[u] \notin Living
  /\ Unlink
  /\ IF goal[u] = "restart"
     THEN /\ goal' = [goal EXCEPT ![u] = "start"]
          /\ Go(u, "cleanup")
          /\ UNCHANGED <<pid, said>>
     ELSE Answer(u, "stopped")
  /\ UNCHANGED <<proc, history>>

\* Fault: after five seconds Stop gives up, and the process goes on.
GiveUpOn(u) ==
  /\ pc[u] = "await" /\ pid[u] \in Living
  /\ Unlink
  /\ Answer(u, "killed")
  /\ UNCHANGED <<proc, history>>

\* Five seconds have passed: it is killed, and Stop, or Restart, fails.
Kill(u) ==
  /\ pc[u] = "await" /\ pid[u] \in Living
  /\ proc' = [proc EXCEPT ![pid[u]] = "dead"]
  /\ Unlink
  /\ Answer(u, "killed")
  /\ UNCHANGED history
-------------------------------------------------------------------------------
Command(u) ==
  \/ ReadStale(u) \/ RemoveStale(u) \/ ReadFile(u) \/ RemoveDead(u) \/ CheckHealth(u)
  \/ Spawn(u) \/ CannotSpawn(u) \/ CreateFile(u) \/ WriteFile(u) \/ CannotName(u)
  \/ Started(u) \/ NotStarted(u)
  \/ Signal(u) \/ CannotSignal(u) \/ Stopped(u) \/ Kill(u)

Next ==
  \/ \E p \in Procs : Boot(p) \/ ClosePort(p) \/ Die(p)
  \/ \E u \in Users : Begin(u) \/ Interrupt(u) \/ Command(u)

Spec == Init /\ [][Next]_vars

\* A command that runs goes on, and its timers fire. Nothing is asked of the
\* processes: they may hang while they boot and while they stop.
FairSpec == Spec /\ \A u \in Users : WF_vars(Command(u))
-------------------------------------------------------------------------------
TypeOK ==
  /\ proc \in [Procs -> Alive \cup {"free", "dead"}]
  /\ file \in Procs \cup {Empty, None}
  /\ linked \subseteq Users
  /\ pc \in [Users -> {"idle", "cleanup", "stale", "read", "dead", "health", "spawn",
                       "create", "write", "wait", "signal", "await"}]
  /\ goal \in [Users -> {"ensure", "start", "stop", "restart"}]
  /\ pid \in [Users -> Procs \cup {None}]
  /\ said \in {"", "stopped", "killed", "not running"}
  /\ overlapped \in BOOLEAN /\ strays \subseteq Procs

\* As long as no commands overlap, every daemon process that lives is the one the
\* PID file names, or about to be named by the command that has spawned it,
\* whatever crashes in between (manager.go:34-170). Left out, as the code does not
\* keep it for them, are the strays: a process whose start gave up on it before
\* it answered, could not write its PID, or was interrupted, one whose stop was
\* interrupted, and one that was spawned while such a process lived.
RunningIsNamed ==
  \A p \in Living :
    \/ overlapped
    \/ p \in strays
    \/ file = p
    \/ \E u \in Users : pid[u] = p /\ pc[u] \in {"create", "write"}

ProcessInv == TypeOK /\ RunningIsNamed

\* As long as no commands overlap, after a stop that says that the daemon is gone,
\* or that finds none running, no daemon lives but strays, which a stop may not
\* find: the late one, whose start timed out, has a PID file but does not answer,
\* and "stop" says that the daemon is not running (manager.go:34-54, 132-170,
\* commands_daemon.go:87-90).
StoppedIsGone == said # "" => overlapped \/ Living \subseteq strays

\* Every command returns, also when the daemon neither boots nor stops
\* (manager.go:107-129, 152-169).
CommandsReturn == \A u \in Users : (pc[u] # "idle") ~> (pc[u] = "idle")
================================================================================
