----------------------------- MODULE ControlPlane -----------------------------
(* The operator's settings on their way from the tracker's console to the      *)
(* daemons: pkg/tracker/control.go and cli.go on the tracker, the WebSocket    *)
(* handler of pkg/tracker/server.go, and pkg/daemon/tracker_ws.go.             *)
(*                                                                             *)
(* The tracker keeps the settings in memory. A console command changes one and *)
(* broadcasts it to the daemons that are connected. A daemon that connects is  *)
(* told the settings that restrict it, and no others. A daemon applies what it *)
(* is told, in order, and keeps it when the connection breaks.                 *)
(*                                                                             *)
(* The console is one goroutine; each connection has a handler of its own on   *)
(* the tracker and a reader on the daemon. cp.mu and daemonsMu are never held  *)
(* together, so every critical section is a step. A daemon has one connection  *)
(* at a time; what the tracker writes to a connection that has broken is lost, *)
(* and so is what was on its way.                                              *)
EXTENDS Naturals, Sequences

CONSTANTS
  Daemons,
  SettingOrder,  \* the settings, in the order RegisterDaemon sends them
  Limits,        \* Limits[s]: the values of setting s that restrict a daemon
  Free,          \* the value that restricts nothing: resumed, or unlimited
  MaxCommands,   \* bound on console commands
  MaxDrops,      \* bound on connections that break
  MaxRestarts    \* bound on restarts, of daemons and of the tracker together

Settings == {SettingOrder[i] : i \in DOMAIN SettingOrder}

ASSUME SettingsAssumption ==
  /\ SettingOrder \in Seq(Settings) \ {<<>>}
  /\ \A s \in Settings : Free \notin Limits[s]

Values(s) == Limits[s] \cup {Free}

\* protocol.TrackerControlMessage: a pause, a resume or a bandwidth.
Messages == [setting : Settings, value : UNION {Values(s) : s \in Settings}]

VARIABLES
  state,     \* ControlPlane.state
  console,   \* the console's command: idle, settled (state changed), writing
  message,   \* the message of that command
  targets,   \* the connections it has yet to write to
  handler,   \* handler[d]: how far d's registration has come
  replay,    \* replay[d]: what RegisterDaemon has yet to send d
  wire,      \* wire[d]: written to d's connection and not read yet
  applied,   \* applied[d]: the gates and the rate limit of daemon d
  commands, drops, restarts  \* how many there have been

trackerVars == <<state, console, message, targets>>
linkVars == <<handler, replay, wire>>
counts == <<commands, drops, restarts>>
controlVars == <<trackerVars, linkVars, applied, counts>>

AllFree == [s \in Settings |-> Free]
Nothing == [setting |-> SettingOrder[1], value |-> Free]

ControlInit ==
  /\ state = AllFree
  /\ console = "idle" /\ message = Nothing /\ targets = {}
  /\ handler = [d \in Daemons |-> "down"]
  /\ replay = [d \in Daemons |-> <<>>]
  /\ wire = [d \in Daemons |-> <<>>]
  /\ applied = [d \in Daemons |-> AllFree]
  /\ commands = 0 /\ drops = 0 /\ restarts = 0
-------------------------------------------------------------------------------
\* The console.

\* The first half of PauseSeeds, ResumeSeeds, PauseDownloads, ResumeDownloads
\* and SetBandwidth: change the setting under cp.mu.
Command(s, v) ==
  /\ console = "idle"
  /\ commands < MaxCommands
  /\ commands' = commands + 1
  /\ state' = [state EXCEPT ![s] = v]
  /\ message' = [setting |-> s, value |-> v]
  /\ console' = "settled"
  /\ UNCHANGED <<targets, linkVars, applied, drops, restarts>>

\* Fault: a daemon joins the broadcasts only once its registration is over.
RegisteredOnly(d) == handler[d] = "ready"

\* RegisterDaemon has put the connection into cp.daemons.
InMap(d) == handler[d] # "down"

\* broadcast: copy the connections under daemonsMu.
Snapshot ==
  /\ console = "settled"
  /\ targets' = {d \in Daemons : InMap(d)}
  /\ console' = "writing"
  /\ UNCHANGED <<state, message, linkVars, applied, counts>>

\* Fault: the first write ends the broadcast.
WriteOne(d) ==
  /\ console = "writing"
  /\ d \in targets
  /\ targets' = {}
  /\ wire' = [wire EXCEPT ![d] = Append(@, message)]
  /\ UNCHANGED <<state, console, message, handler, replay, applied, counts>>

\* broadcast: one write, under the connection's mutex, in map order.
Write(d) ==
  /\ console = "writing"
  /\ d \in targets
  /\ targets' = targets \ {d}
  /\ wire' = [wire EXCEPT ![d] = Append(@, message)]
  /\ UNCHANGED <<state, console, message, handler, replay, applied, counts>>

\* The command is over and the console reads the next line.
Prompt ==
  /\ console = "writing"
  /\ targets = {}
  /\ console' = "idle"
  /\ message' = Nothing
  /\ UNCHANGED <<state, targets, linkVars, applied, counts>>
-------------------------------------------------------------------------------
\* The connection of a daemon.

\* The daemon dials and says hello; RegisterDaemon enters it into cp.daemons.
Connect(d) ==
  /\ handler[d] = "down"
  /\ handler' = [handler EXCEPT ![d] = "entered"]
  /\ UNCHANGED <<trackerVars, replay, wire, applied, counts>>

\* RegisterDaemon: copy the settings under cp.mu.
ReadState(d) ==
  /\ handler[d] = "entered"
  /\ handler' = [handler EXCEPT ![d] = "replaying"]
  /\ replay' = [replay EXCEPT
       ![d] = [i \in DOMAIN SettingOrder |->
                 [setting |-> SettingOrder[i], value |-> state[SettingOrder[i]]]]]
  /\ UNCHANGED <<trackerVars, wire, applied, counts>>

\* RegisterDaemon: the next setting of the copy is sent if it restricts.
SendTo(d) ==
  /\ handler[d] = "replaying"
  /\ replay[d] # <<>>
  /\ replay' = [replay EXCEPT ![d] = Tail(@)]
  /\ wire' = IF Head(replay[d]).value # Free
             THEN [wire EXCEPT ![d] = Append(@, Head(replay[d]))]
             ELSE wire
  /\ UNCHANGED <<trackerVars, handler, applied, counts>>

\* RegisterDaemon returns; handleDaemonWS waits for the connection to break.
Registered(d) ==
  /\ handler[d] = "replaying"
  /\ replay[d] = <<>>
  /\ handler' = [handler EXCEPT ![d] = "ready"]
  /\ UNCHANGED <<trackerVars, replay, wire, applied, counts>>

\* readLoop and applyCommand: the gate closes or opens, the limit changes.
Apply(d) ==
  /\ wire[d] # <<>>
  /\ applied' = [applied EXCEPT ![d][Head(wire[d]).setting] =
                   Head(wire[d]).value]
  /\ wire' = [wire EXCEPT ![d] = Tail(@)]
  /\ UNCHANGED <<trackerVars, handler, replay, counts>>

\* The connections of the daemons D are gone: both ends forget them.
Disconnected(D) ==
  /\ handler' = [d \in Daemons |-> IF d \in D THEN "down" ELSE handler[d]]
  /\ replay' = [d \in Daemons |-> IF d \in D THEN <<>> ELSE replay[d]]
  /\ wire' = [d \in Daemons |-> IF d \in D THEN <<>> ELSE wire[d]]

\* The connection breaks. UnregisterDaemon takes it out of the map, the daemon
\* leaves its readLoop and will dial again. It keeps its gates and its limit.
Drop(d) ==
  /\ handler[d] # "down"
  /\ drops < MaxDrops
  /\ drops' = drops + 1
  /\ Disconnected({d})
  /\ targets' = targets \ {d}
  /\ UNCHANGED <<state, console, message, applied, commands, restarts>>

\* The daemon starts anew, with open gates and no limit.
RestartDaemon(d) ==
  /\ restarts < MaxRestarts
  /\ restarts' = restarts + 1
  /\ Disconnected({d})
  /\ targets' = targets \ {d}
  /\ applied' = [applied EXCEPT ![d] = AllFree]
  /\ UNCHANGED <<state, console, message, commands, drops>>

\* The tracker starts anew: the settings were only in memory.
RestartTracker ==
  /\ restarts < MaxRestarts
  /\ restarts' = restarts + 1
  /\ Disconnected(Daemons)
  /\ state' = AllFree
  /\ console' = "idle" /\ message' = Nothing /\ targets' = {}
  /\ UNCHANGED <<applied, commands, drops>>

ControlNext ==
  \/ \E s \in Settings : \E v \in Values(s) : Command(s, v)
  \/ Snapshot
  \/ Prompt
  \/ RestartTracker
  \/ \E d \in Daemons :
       \/ Write(d)
       \/ Connect(d)
       \/ ReadState(d)
       \/ SendTo(d)
       \/ Registered(d)
       \/ Apply(d)
       \/ Drop(d)
       \/ RestartDaemon(d)

ControlSpec == ControlInit /\ [][ControlNext]_controlVars

\* The console finishes its command, a daemon keeps dialling, its registration
\* goes on and it reads what it was sent. The operator need not type anything.
ControlFairness ==
  /\ WF_controlVars(Snapshot)
  /\ WF_controlVars(Prompt)
  /\ \A d \in Daemons :
       /\ WF_controlVars(Write(d))
       /\ WF_controlVars(Connect(d))
       /\ WF_controlVars(ReadState(d))
       /\ WF_controlVars(SendTo(d))
       /\ WF_controlVars(Registered(d))
       /\ WF_controlVars(Apply(d))

ControlFairSpec == ControlSpec /\ ControlFairness
-------------------------------------------------------------------------------
\* A broadcast is meant only for connections in the map.
ControlTypeOK ==
  /\ \A s \in Settings : state[s] \in Values(s)
  /\ console \in {"idle", "settled", "writing"}
  /\ message \in Messages
  /\ targets \subseteq {d \in Daemons : InMap(d)}
  /\ \A d \in Daemons :
       /\ handler[d] \in {"down", "entered", "replaying", "ready"}
       /\ replay[d] \in Seq(Messages)
       /\ wire[d] \in Seq(Messages)
       /\ \A s \in Settings : applied[d][s] \in Values(s)

\* Nothing is on its way to a registered daemon.
Settled(d) ==
  /\ handler[d] = "ready"
  /\ wire[d] = <<>>
  /\ console = "idle"

\* A registered daemon that has been told everything holds back what the
\* operator restricts: no order of registration, broadcast, lost connection and
\* restart loses a pause or a limit. Which limit it has is another matter: a
\* registration that has read an older one may send it after the newer one was
\* broadcast. (RegisterDaemon enters the connection into the map before it reads
\* the settings, control.go:43-51.)
PausedMeansPaused ==
  \A d \in Daemons : \A s \in Settings :
    Settled(d) /\ state[s] # Free => applied[d][s] # Free

\* With it, the types: a broadcast is meant only for connections in the map
\* (control.go:138-142).
ControlInv == ControlTypeOK /\ PausedMeansPaused

\* A restriction that stays in force reaches every daemon that stays connected.
RestrictionArrives ==
  \A d \in Daemons : \A s \in Settings :
    (state[s] # Free /\ InMap(d))
      ~> (applied[d][s] # Free \/ state[s] = Free \/ ~InMap(d))
===============================================================================
