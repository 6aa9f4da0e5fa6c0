--------------------------------- MODULE Gate ---------------------------------
(* The pause gate of the daemon (pkg/daemon/gate.go).                          *)
(*                                                                             *)
(* The daemon has two: seedGate, on which the goroutines of handleSeed wait,   *)
(* and downloadGate, on which those of runDownload wait. The goroutine that    *)
(* reads the tracker's control messages pauses and resumes them. A gate keeps  *)
(* one channel: Resume closes it, the next Pause makes a new one, so a channel *)
(* is named here by the number of Pauses that made a channel before it.        *)
(*                                                                             *)
(* Pause, Resume and the first half of Wait run under the gate's mutex and are *)
(* one step each. The second half of Wait, the select, runs without it, on the *)
(* channel the first half read, after any number of Pauses and Resumes.        *)
EXTENDS Naturals

CONSTANTS Callers,   \* the goroutines that wait on the gate
          MaxPauses  \* bound on the channels ever made

ASSUME MaxPausesAssumption == MaxPauses \in Nat

VARIABLES paused,    \* Gate.paused
          resumeCh,  \* Gate.resumeCh
          closed,    \* the channels that have been closed
          pc,        \* pc[c]: where c stands in its last call of Wait
          ch         \* ch[c]: the channel that call read

vars == <<paused, resumeCh, closed, pc, ch>>

\* NewGate: the gate is open and its channel already closed.
Init ==
  /\ paused = FALSE
  /\ resumeCh = 0
  /\ closed = {0}
  /\ pc = [c \in Callers |-> "outside"]
  /\ ch = [c \in Callers |-> 0]

\* The locked half of Wait: read the channel.
Enter(c) ==
  /\ pc[c] # "select"
  /\ pc' = [pc EXCEPT ![c] = "select"]
  /\ ch' = [ch EXCEPT ![c] = resumeCh]
  /\ UNCHANGED <<paused, resumeCh, closed>>

\* A receive on a channel is possible once it is closed.
Ready(c) == ch[c] \in closed

\* The select's first case: Wait returns nil.
Admit(c) ==
  /\ pc[c] = "select"
  /\ Ready(c)
  /\ pc' = [pc EXCEPT ![c] = "admitted"]
  /\ UNCHANGED <<paused, resumeCh, closed, ch>>

\* The select's second case, the context is done: Wait returns its error. The
\* select picks either case when both are possible.
Refuse(c) ==
  /\ pc[c] = "select"
  /\ pc' = [pc EXCEPT ![c] = "refused"]
  /\ UNCHANGED <<paused, resumeCh, closed, ch>>

\* Fault: Pause raises the flag but keeps the channel Resume has closed.
PauseKeepsChannel ==
  /\ ~paused
  /\ paused' = TRUE
  /\ UNCHANGED <<resumeCh, closed, pc, ch>>

\* Fault: Pause makes a new channel even when the gate is closed already.
PauseAgain ==
  /\ resumeCh < MaxPauses
  /\ paused' = TRUE
  /\ resumeCh' = resumeCh + 1
  /\ UNCHANGED <<closed, pc, ch>>

\* Pause of an open gate. Of a closed one it does nothing.
Pause ==
  /\ ~paused
  /\ resumeCh < MaxPauses
  /\ paused' = TRUE
  /\ resumeCh' = resumeCh + 1
  /\ UNCHANGED <<closed, pc, ch>>

\* Fault: Resume wakes the callers that wait now, and no later ones, by
\* replacing the channel after it has closed it.
ResumeReplacesChannel ==
  /\ paused
  /\ paused' = FALSE
  /\ closed' = closed \cup {resumeCh}
  /\ resumeCh' = resumeCh + 1
  /\ UNCHANGED <<pc, ch>>

\* Resume of a closed gate. Of an open one it does nothing.
Resume ==
  /\ paused
  /\ paused' = FALSE
  /\ closed' = closed \cup {resumeCh}
  /\ UNCHANGED <<resumeCh, pc, ch>>

Next == \/ Pause
        \/ Resume
        \/ \E c \in Callers : Enter(c) \/ Admit(c) \/ Refuse(c)

Spec == Init /\ [][Next]_vars

\* A goroutine whose select can proceed is scheduled some day.
Fairness == \A c \in Callers : WF_vars(Admit(c))

FairSpec == Spec /\ Fairness
-------------------------------------------------------------------------------
\* The gate's variables range over what the code lets them hold.
TypeOK ==
  /\ paused \in BOOLEAN
  /\ resumeCh \in 0..MaxPauses
  /\ closed \subseteq Nat
  /\ pc \in [Callers -> {"outside", "select", "admitted", "refused"}]
  /\ ch \in [Callers -> 0..resumeCh]

\* Every channel the gate has dropped is closed, and its present one is closed
\* exactly while the gate is open.
ChannelsClosed ==
  /\ paused => closed = 0..(resumeCh - 1)
  /\ ~paused => closed = 0..resumeCh

GateInv == TypeOK /\ ChannelsClosed

\* No caller is left behind: a call of Wait that is not released waits on the
\* channel the next Resume closes. (gate.go:20-31 reads the channel, lets go of
\* the mutex, and only then waits.)
NoneStranded ==
  \A c \in Callers :
    pc[c] = "select" /\ ~Ready(c) => paused /\ ch[c] = resumeCh

\* The gate keeps the promise of BroadcastGate: a call is held exactly while its
\* own channel is open.
Promise == INSTANCE BroadcastGate WITH
  call <- [c \in Callers |->
             IF pc[c] # "select" THEN pc[c]
             ELSE IF Ready(c) THEN "released" ELSE "held"]

KeepsPromise == Promise!Spec

\* A caller that waits while the gate is open gets through, even when the gate
\* is closed again before that caller runs.
OpenGateAdmits ==
  \A c \in Callers : (pc[c] = "select" /\ ~paused) ~> (pc[c] # "select")
===============================================================================
