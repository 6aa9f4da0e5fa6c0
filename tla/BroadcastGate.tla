----------------------------- MODULE BroadcastGate -----------------------------
(* What the daemon's pause gate (pkg/daemon/gate.go) promises its callers: a   *)
(* closed gate holds every call made to it, opening it releases all the calls  *)
(* it holds at once, and a released call is never held again, whatever happens *)
(* to the gate before that caller is scheduled.                                *)
CONSTANT Callers

VARIABLES paused,  \* the gate is closed
          call     \* call[c]: where c's last call of Wait stands

vars == <<paused, call>>

Idle == {"outside", "admitted", "refused"}

Init == paused = FALSE /\ call = [c \in Callers |-> "outside"]

Enter(c) ==
  /\ call[c] \in Idle
  /\ call' = [call EXCEPT ![c] = IF paused THEN "held" ELSE "released"]
  /\ UNCHANGED paused

Admit(c) ==
  /\ call[c] = "released"
  /\ call' = [call EXCEPT ![c] = "admitted"]
  /\ UNCHANGED paused

\* The context of the call is done: it gives up, held or not.
Refuse(c) ==
  /\ call[c] \in {"held", "released"}
  /\ call' = [call EXCEPT ![c] = "refused"]
  /\ UNCHANGED paused

Close == paused' = TRUE /\ UNCHANGED call

Open ==
  /\ paused' = FALSE
  /\ call' = [c \in Callers |->
                IF call[c] = "held" THEN "released" ELSE call[c]]

Next == \/ Close
        \/ Open
        \/ \E c \in Callers : Enter(c) \/ Admit(c) \/ Refuse(c)

Spec == Init /\ [][Next]_vars
===============================================================================
