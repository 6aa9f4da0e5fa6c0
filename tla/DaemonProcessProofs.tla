--------------------------- MODULE DaemonProcessProofs ---------------------------
(* However many users run commands and however many processes come and go:     *)
(* while commands do not overlap and but for strays, the PID file names the    *)
(* one daemon that lives, and a stop that says the daemon is gone is right.    *)
EXTENDS DaemonProcess, TLAPS

\* Where a command has a process in hand that it has spawned or signalled.
Minding == {"create", "write", "wait", "await"}

PidInv == \A u \in Users : pc[u] \in Minding => pid[u] \in Procs

Booting == {p \in Procs : proc[p] = "starting"}
Serving == {p \in Procs : proc[p] = "serving"}

\* The processes that live and are no strays.
Kept == Living \ strays

\* Nobody but u has a command under way, and at most one daemon is no stray. It
\* is alone then, the file names it, or u's command has spawned it, and it serves
\* unless u's command still starts or stops it. None is left after u was told so.
Orderly(u) ==
  /\ \A v \in Users \ {u} : pc[v] = "idle"
  /\ pc[u] = "write" => u \in linked
  /\ Kept = {} \/ Kept = Living
  /\ pc[u] \notin {"create", "write"} => Kept \subseteq {file}
  /\ pc[u] \in Minding => Kept \subseteq {pid[u]}
  /\ pc[u] \notin Minding => Kept \subseteq Serving
  /\ pc[u] \in {"create", "write", "wait"} => Kept \subseteq Serving \cup Booting
  /\ pc[u] \in {"stale", "dead", "spawn"} => Kept = {}
  /\ said # "" => Kept = {} /\ pc[u] = "idle"

OrderInv == overlapped \/ \E u \in Users : Orderly(u)

IInv == TypeOK /\ PidInv /\ OrderInv

\* No process, and no content, is a PID.
LEMMA NotPIDs == Empty \notin Procs /\ None \notin Procs /\ Empty # None
  BY ProcessAssumption DEF Procs

LEMMA Subsets ==
  /\ Kept \subseteq Living /\ Living \subseteq Procs
  /\ Answering \subseteq Living /\ Serving \subseteq Answering
  /\ Kept \cap strays = {}
  BY DEF Kept, Living, Alive, Answering, Serving

\* The command of u turns from label pc[u] to l, and nobody else's moves.
Turns(u, l) ==
  /\ pc' = [pc EXCEPT ![u] = l]
  /\ \A v \in Users \ {u} : pid'[v] = pid[v]

\* What a command does that has found no daemon.
LEMMA NotRunningDoes ==
  ASSUME TypeOK, NEW u \in Users, NotRunning(u)
  PROVE  /\ \E l \in {"cleanup", "spawn", "idle"} : Turns(u, l)
         /\ said' = said \/ (said' = "not running" /\ Turns(u, "idle"))
<1>1. CASE goal[u] \in {"ensure", "restart"} /\ Go(u, "cleanup") /\ UNCHANGED <<pid, said>>
  BY <1>1 DEF Go, Turns
<1>2. CASE Go(u, "spawn") /\ UNCHANGED <<goal, pid, said>>
  BY <1>2 DEF Go, Turns
<1>3. CASE Answer(u, "not running")
  BY <1>3 DEF Answer, Leave, Go, Turns, TypeOK
<1> QED
  BY <1>1, <1>2, <1>3 DEF NotRunning

LEMMA InitIInv == Init => IInv
<1> SUFFICES ASSUME Init PROVE IInv
  OBVIOUS
<1>1. Living = {} /\ Kept = {}
  BY DEF Init, Living, Alive, Kept
<1>2. TypeOK
  BY DEF Init, TypeOK, Alive
<1>3. PidInv
  BY DEF Init, PidInv, Minding
<1>4. PICK u \in Users : TRUE
  BY ProcessAssumption
<1>5. Orderly(u)
  BY <1>1, <1>4 DEF Init, Orderly
<1> QED
  BY <1>2, <1>3, <1>5 DEF IInv, OrderInv

\* Type correctness.
LEMMA TypeStep ==
  ASSUME TypeOK, PidInv, [Next]_vars
  PROVE  TypeOK'
<1> USE NotPIDs DEF TypeOK, Alive
<1>1. ASSUME NEW p \in Procs, Boot(p)
      PROVE  TypeOK'
  BY <1>1 DEF Boot, commands, history
<1>2. ASSUME NEW p \in Procs, ClosePort(p)
      PROVE  TypeOK'
  BY <1>2 DEF ClosePort, commands, history
<1>3. ASSUME NEW p \in Procs, Die(p)
      PROVE  TypeOK'
  BY <1>3 DEF Die, commands, history
<1>4. ASSUME NEW u \in Users, Begin(u)
      PROVE  TypeOK'
  <2>1. /\ pc' \in [Users -> {"idle", "cleanup", "stale", "read", "dead", "health",
                            "spawn", "create", "write", "wait", "signal", "await"}]
        /\ goal' \in [Users -> {"ensure", "start", "stop", "restart"}]
    BY <1>4 DEF Begin, Go
  <2> QED
    BY <1>4, <2>1 DEF Begin, history
<1>5. ASSUME NEW u \in Users, Interrupt(u)
      PROVE  TypeOK'
  BY <1>5 DEF Interrupt, Leave, Go, commands, history
<1>6. ASSUME NEW u \in Users, ReadStale(u)
      PROVE  TypeOK'
  BY <1>6 DEF ReadStale, NotRunning, Go, Answer, Leave, commands, history
<1>7. ASSUME NEW u \in Users, RemoveStale(u)
      PROVE  TypeOK'
  BY <1>7 DEF RemoveStale, Go, Unlink, commands, history
<1>8. ASSUME NEW u \in Users, ReadFile(u)
      PROVE  TypeOK'
  BY <1>8 DEF ReadFile, NotRunning, Go, Answer, Leave, commands, history
<1>9. ASSUME NEW u \in Users, RemoveDead(u)
      PROVE  TypeOK'
  BY <1>9 DEF RemoveDead, NotRunning, Go, Answer, Leave, Unlink, commands, history
<1>10. ASSUME NEW u \in Users, CheckHealth(u)
      PROVE  TypeOK'
  BY <1>10 DEF CheckHealth, NotRunning, Go, Answer, Leave, Return, commands, history
<1>11. ASSUME NEW u \in Users, Spawn(u)
      PROVE  TypeOK'
  <2>1. PICK p \in Procs :
          /\ proc' = [proc EXCEPT ![p] = "starting"]
          /\ pid' = [pid EXCEPT ![u] = p]
          /\ strays' = strays \/ strays' = strays \cup {p}
    BY <1>11 DEF Spawn
  <2> QED
    BY <1>11, <2>1 DEF Spawn, Go, commands
<1>12. ASSUME NEW u \in Users, CannotSpawn(u)
      PROVE  TypeOK'
  BY <1>12 DEF CannotSpawn, Return, Leave, Go, commands, history
<1>13. ASSUME NEW u \in Users, CreateFile(u)
      PROVE  TypeOK'
  BY <1>13 DEF CreateFile, Go, commands, history
<1>14. ASSUME NEW u \in Users, WriteFile(u)
      PROVE  TypeOK'
  BY <1>14 DEF WriteFile, Go, commands, history
<1>n. ASSUME NEW u \in Users, CannotName(u)
      PROVE  TypeOK'
  <2>1. pid[u] \in Procs
    BY <1>n DEF CannotName, PidInv, Minding
  <2> QED
    BY <1>n, <2>1 DEF CannotName, Return, Leave, Go, commands, history
<1>15. ASSUME NEW u \in Users, Started(u)
      PROVE  TypeOK'
  BY <1>15 DEF Started, Return, Leave, Go, commands, history
<1>16. ASSUME NEW u \in Users, NotStarted(u)
      PROVE  TypeOK'
  <2>1. Living \subseteq Procs
    BY DEF Living
  <2> QED
    BY <1>16, <2>1 DEF NotStarted, Return, Leave, Go, commands, history
<1>17. ASSUME NEW u \in Users, Signal(u)
      PROVE  TypeOK'
  <2>1. /\ pc' = [pc EXCEPT ![u] = "await"] /\ pid' = [pid EXCEPT ![u] = file]
        /\ file \in Procs /\ proc' = Terminated(file)
        /\ UNCHANGED <<file, linked, goal, said, overlapped, strays>>
    BY <1>17 DEF Signal, Go, Living, history
  <2>2. Terminated(file) \in [Procs -> Alive \cup {"free", "dead"}]
    BY <2>1 DEF Terminated
  <2> QED
    BY <2>1, <2>2
<1>18. ASSUME NEW u \in Users, CannotSignal(u)
      PROVE  TypeOK'
  BY <1>18 DEF CannotSignal, Return, Leave, Go, commands, history
<1>19. ASSUME NEW u \in Users, Stopped(u)
      PROVE  TypeOK'
  BY <1>19 DEF Stopped, Unlink, Go, Answer, Leave, commands, history
<1>20. ASSUME NEW u \in Users, Kill(u)
      PROVE  TypeOK'
  BY <1>20 DEF Kill, Unlink, Go, Answer, Leave, commands, history
<1>21. CASE UNCHANGED vars
  BY <1>21 DEF vars, commands, history
<1> QED
  BY <1>1, <1>2, <1>3, <1>4, <1>5, <1>6, <1>7, <1>8, <1>9, <1>10, <1>11, <1>12,
     <1>13, <1>14, <1>n, <1>15, <1>16, <1>17, <1>18, <1>19, <1>20, <1>21
     DEF Next, Command


\* Where nothing but strays is left.
LEMMA NoneKept ==
  ASSUME NEW u \in Users,
         \A v \in Users \ {u} : pc'[v] = "idle",
         pc'[u] # "write",
         Kept' = {},
         said' # "" => pc'[u] = "idle"
  PROVE  Orderly(u)'
  BY DEF Orderly

\* What depends on the processes and the strays alone.
LEMMA SameProcs ==
  ASSUME UNCHANGED <<proc, strays>>
  PROVE  UNCHANGED <<Living, Kept, Answering, Serving, Booting>>
  BY DEF Living, Kept, Answering, Serving, Booting

\* Processes boot, close the port and die, in order.
LEMMA ProcessOrderly ==
  ASSUME TypeOK, NEW u \in Users, Orderly(u),
         NEW p \in Procs, Boot(p) \/ ClosePort(p) \/ Die(p)
  PROVE  Orderly(u)'
<1>1. UNCHANGED <<file, linked, pc, pid, said, overlapped, strays>>
  BY DEF Boot, ClosePort, Die, commands, history
<1>2. \A q \in Procs \ {p} : proc'[q] = proc[q]
  BY DEF Boot, ClosePort, Die, TypeOK
<1>3. p \in Living
  BY DEF Boot, ClosePort, Die, Living, Alive
<1>4. Living' \subseteq Living /\ Living \ {p} \subseteq Living'
  BY <1>2, <1>3 DEF Living
<1>5. Kept' \subseteq Kept /\ (Kept = {} \/ Kept = Living => Kept' = {} \/ Kept' = Living')
  BY <1>1, <1>4 DEF Kept
<1>6. Serving \ {p} \subseteq Serving' /\ Booting \ {p} \subseteq Booting'
  BY <1>2 DEF Serving, Booting
<1>7. pc[u] \notin Minding => Kept' \subseteq Serving'
  <2> SUFFICES ASSUME Kept \subseteq Serving, p \in Kept' PROVE p \in Serving'
    BY <1>5, <1>6 DEF Orderly
  <2>1. proc[p] = "serving"
    BY <1>5 DEF Serving
  <2>2. Die(p)
    BY <2>1 DEF Boot, ClosePort
  <2> QED
    BY <1>5, <2>2, Subsets DEF Die, Kept, Living, Alive, TypeOK
<1>8. pc[u] \in {"create", "write", "wait"} => Kept' \subseteq Serving' \cup Booting'
  <2> SUFFICES ASSUME Kept \subseteq Serving \cup Booting, Kept \subseteq {pid[u]},
                      p \in Kept'
               PROVE  p \in Serving'
    BY <1>5, <1>6 DEF Orderly, Minding
  <2>1. Kept = {p} /\ Living = {p}
    BY <1>5 DEF Orderly
  <2>2. proc[p] \in {"starting", "serving"}
    BY <2>1 DEF Serving, Booting
  <2>3. ~ Die(p)
    BY DEF Die, Kept, Living, Alive, TypeOK
  <2>4. Boot(p) /\ proc[p] = "starting"
    BY <2>2, <2>3 DEF Boot, ClosePort
  <2>5. Answering = {}
    BY <2>1, <2>4, Subsets DEF Answering
  <2> QED
    BY <2>4, <2>5 DEF Boot, Serving, TypeOK
<1> QED
  BY <1>1, <1>5, <1>7, <1>8 DEF Orderly

\* What a command's step does to the others, and to the process in hand.
Moved(u) ==
  /\ \A v \in Users \ {u} : pc'[v] = pc[v] /\ pid'[v] = pid[v]
  /\ pc'[u] \in Minding => pid'[u] \in Procs

LEMMA TurnsMoves ==
  ASSUME TypeOK, NEW u \in Users, NEW l \in {"cleanup", "spawn", "idle"}, Turns(u, l)
  PROVE  Moved(u) /\ pc'[u] = l
  BY DEF TypeOK, Turns, Moved, Minding

LEMMA CommandMoves ==
  ASSUME TypeOK, PidInv, NEW u \in Users, Begin(u) \/ Interrupt(u) \/ Command(u)
  PROVE  Moved(u)
<1> USE DEF Moved, Minding
<1>n. ASSUME NotRunning(u) PROVE Moved(u)
  <2>1. PICK l \in {"cleanup", "spawn", "idle"} : Turns(u, l)
    BY <1>n, NotRunningDoes
  <2> QED
    BY <2>1, TurnsMoves
<1>1. CASE Begin(u)
  BY <1>1 DEF Begin, Go, TypeOK, PidInv, commands
<1>2. CASE Interrupt(u)
  BY <1>2 DEF Interrupt, Leave, Go, TypeOK, PidInv, commands
<1>3. CASE RemoveStale(u)
  BY <1>3 DEF RemoveStale, Go, Unlink, TypeOK, PidInv, commands
<1>4. CASE Spawn(u)
  BY <1>4 DEF Spawn, Go, TypeOK, PidInv, commands
<1>5. CASE CannotSpawn(u)
  BY <1>5 DEF CannotSpawn, Return, Leave, Go, TypeOK, PidInv, commands
<1>6. CASE CreateFile(u)
  BY <1>6 DEF CreateFile, Go, TypeOK, PidInv, commands
<1>7. CASE WriteFile(u)
  BY <1>7 DEF WriteFile, Go, TypeOK, PidInv, commands
<1>8. CASE CannotName(u)
  BY <1>8 DEF CannotName, Return, Leave, Go, TypeOK, PidInv, commands
<1>9. CASE Started(u)
  BY <1>9 DEF Started, Return, Leave, Go, TypeOK, PidInv, commands
<1>10. CASE NotStarted(u)
  BY <1>10 DEF NotStarted, Return, Leave, Go, TypeOK, PidInv, commands
<1>11. CASE CannotSignal(u)
  BY <1>11 DEF CannotSignal, Return, Leave, Go, TypeOK, PidInv, commands
<1>12. CASE Stopped(u)
  BY <1>12 DEF Stopped, Unlink, Go, Answer, Leave, TypeOK, PidInv, commands
<1>13. CASE Kill(u)
  BY <1>13 DEF Kill, Unlink, Go, Answer, Leave, TypeOK, PidInv, commands
<1>14. CASE ReadStale(u) /\ ~NotRunning(u)
  BY <1>14 DEF ReadStale, Go, TypeOK
<1>15. CASE ReadFile(u) /\ ~NotRunning(u)
  BY <1>15 DEF ReadFile, Go, TypeOK
<1>16. CASE RemoveDead(u)
  BY <1>n, <1>16 DEF RemoveDead
<1>17. CASE CheckHealth(u) /\ ~NotRunning(u)
  BY <1>17 DEF CheckHealth, Go, Return, Leave, TypeOK
<1>18. CASE Signal(u)
  <2>1. file \in Procs
    BY <1>18 DEF Signal, Living
  <2> QED
    BY <1>18, <2>1 DEF Signal, Go, TypeOK
<1> QED
  BY <1>n, <1>1, <1>2, <1>3, <1>4, <1>5, <1>6, <1>7, <1>8, <1>9, <1>10, <1>11,
     <1>12, <1>13, <1>14, <1>15, <1>16, <1>17, <1>18 DEF Command

LEMMA PidStep ==
  ASSUME TypeOK, PidInv, [Next]_vars
  PROVE  PidInv'
<1>1. ASSUME NEW u \in Users, Moved(u) PROVE PidInv'
  BY <1>1 DEF PidInv, Moved
<1>2. CASE UNCHANGED <<pc, pid>>
  BY <1>2 DEF PidInv
<1>3. ASSUME NEW p \in Procs, Boot(p) \/ ClosePort(p) \/ Die(p)
      PROVE  UNCHANGED <<pc, pid>>
  BY <1>3 DEF Boot, ClosePort, Die, commands
<1> QED
  BY <1>1, <1>2, <1>3, CommandMoves DEF Next, vars, commands

\* A command that finds no daemon is right, but for strays.
LEMMA NotRunningOrderly ==
  ASSUME TypeOK, PidInv, NEW u \in Users, Orderly(u), pc[u] # "idle",
         Kept = {}, UNCHANGED <<proc, strays>>, NotRunning(u)
  PROVE  Orderly(u)'
<1>1. PICK l \in {"cleanup", "spawn", "idle"} : Turns(u, l)
  BY NotRunningDoes
<1>2. pc'[u] = l /\ \A v \in Users \ {u} : pc'[v] = "idle"
  BY <1>1, TurnsMoves DEF Moved, Orderly
<1>3. Kept' = {}
  BY SameProcs
<1>4. said' # "" => pc'[u] = "idle"
  BY NotRunningDoes, TurnsMoves DEF Orderly
<1> QED
  BY <1>2, <1>3, <1>4, NoneKept

\* IsRunning, in order.
LEMMA IsRunningOrderly ==
  ASSUME TypeOK, PidInv, NEW u \in Users, Orderly(u),
         ReadStale(u) \/ RemoveStale(u) \/ ReadFile(u) \/ RemoveDead(u) \/ CheckHealth(u)
  PROVE  Orderly(u)'
<1>1. UNCHANGED <<proc, strays>> /\ pc[u] \notin Minding /\ pc[u] # "idle"
  BY DEF ReadStale, RemoveStale, ReadFile, RemoveDead, CheckHealth, history, Minding
<1>2. UNCHANGED <<Living, Kept, Serving, Booting>>
  BY <1>1, SameProcs
<1>3. \A v \in Users \ {u} : pc'[v] = "idle"
  BY CommandMoves DEF Command, Moved, Orderly
<1>4. /\ Kept \subseteq {file} /\ Kept \subseteq Living /\ Living \subseteq Procs
      /\ Kept \subseteq Answering
      /\ said = ""
      /\ pc[u] \in {"stale", "dead"} => Kept = {}
  BY <1>1, Subsets DEF Orderly, Minding
<1>5. ASSUME NotRunning(u), Kept = {} PROVE Orderly(u)'
  BY <1>1, <1>5, NotRunningOrderly
<1>6. ASSUME pc'[u] = "read", Kept = {}, said' = said PROVE Orderly(u)'
  BY <1>2, <1>3, <1>4, <1>6, NoneKept
<1>7. ASSUME file' = file, said' = said,
             \/ pc'[u] \in {"read", "health", "signal", "idle"}
             \/ pc'[u] \in {"stale", "dead"} /\ file \notin Living
      PROVE  Orderly(u)'
  <2>1. pc'[u] \in {"stale", "dead"} => Kept = {}
    BY <1>4, <1>7
  <2> QED
    BY <1>1, <1>2, <1>3, <1>4, <1>7, <2>1 DEF Orderly, Minding
<1>8. CASE ReadStale(u)
  <2>1. CASE file = Empty
    BY <1>4, <1>5, <1>8, <2>1, NotPIDs DEF ReadStale
  <2>2. CASE file # Empty
    BY <1>7, <1>8, <2>2 DEF ReadStale, Go, TypeOK
  <2> QED
    BY <2>1, <2>2
<1>9. CASE RemoveStale(u)
  BY <1>4, <1>6, <1>9 DEF RemoveStale, Go, TypeOK
<1>10. CASE ReadFile(u)
  <2>1. CASE file \in {None, Empty}
    BY <1>4, <1>5, <1>10, <2>1, NotPIDs DEF ReadFile
  <2>2. CASE file \notin {None, Empty}
    BY <1>7, <1>10, <2>2 DEF ReadFile, Go, TypeOK
  <2> QED
    BY <2>1, <2>2
<1>11. CASE RemoveDead(u)
  BY <1>4, <1>5, <1>11 DEF RemoveDead
<1>12. CASE CheckHealth(u)
  <2>1. CASE Answering = {}
    BY <1>4, <1>5, <1>12, <2>1 DEF CheckHealth
  <2>2. CASE Answering # {}
    BY <1>7, <1>12, <2>2 DEF CheckHealth, Go, Return, Leave, TypeOK
  <2> QED
    BY <2>1, <2>2
<1> QED
  BY <1>8, <1>9, <1>10, <1>11, <1>12

\* What a command knows that is neither idle nor asks whether a daemon runs.
LEMMA AtHand ==
  ASSUME PidInv, NEW u \in Users, Orderly(u), pc[u] # "idle"
  PROVE  /\ Kept = {} \/ Kept = Living
         /\ Kept \subseteq Living /\ Living \subseteq Procs /\ Answering \subseteq Living
         /\ said = ""
         /\ pc[u] \in Minding => Kept \subseteq {pid[u]} /\ pid[u] \in Procs
         /\ pc[u] \notin {"create", "write"} => Kept \subseteq {file}
  BY Subsets DEF Orderly, PidInv

\* Start, in order: the process it spawns is alone, or a stray.
LEMMA SpawnOrderly ==
  ASSUME TypeOK, PidInv, NEW u \in Users, Orderly(u), Spawn(u)
  PROVE  Orderly(u)'
<1>1. PICK p \in Procs :
        /\ proc[p] = "free"
        /\ proc' = [proc EXCEPT ![p] = "starting"]
        /\ pid' = [pid EXCEPT ![u] = p]
        /\ strays' = IF Living \cap strays = {} THEN strays ELSE strays \cup {p}
  BY DEF Spawn
<1>2. Living' = Living \cup {p}
  BY <1>1 DEF Living, Alive, TypeOK
<1>3. Booting' = Booting \cup {p}
  BY <1>1 DEF Booting, TypeOK
<1>4. Kept = {} /\ said = "" /\ pc[u] = "spawn"
  BY DEF Spawn, Orderly
<1>5. /\ Kept' \subseteq {p}
      /\ Kept' = {} \/ Kept' = Living'
  <2>1. CASE Living \cap strays = {}
    BY <1>1, <1>2, <1>4, <2>1 DEF Kept
  <2>2. CASE Living \cap strays # {}
    BY <1>1, <1>2, <1>4, <2>2 DEF Kept
  <2> QED
    BY <2>1, <2>2
<1>6. /\ pc'[u] = "create" /\ pid'[u] = p /\ said' = said
      /\ \A v \in Users \ {u} : pc'[v] = "idle"
  <2>1. pc' = [pc EXCEPT ![u] = "create"] /\ said' = said
    BY DEF Spawn, Go
  <2>2. pc'[u] = "create" /\ pid'[u] = p
    BY <1>1, <2>1 DEF TypeOK
  <2>3. \A v \in Users \ {u} : pc[v] = "idle"
    BY DEF Orderly
  <2>4. \A v \in Users \ {u} : pc'[v] = pc[v]
    BY <2>1 DEF TypeOK
  <2> QED
    BY <2>1, <2>2, <2>3, <2>4
<1> QED
  BY <1>3, <1>4, <1>5, <1>6 DEF Orderly, Minding

LEMMA StartOrderly ==
  ASSUME TypeOK, PidInv, NEW u \in Users, Orderly(u),
         CannotSpawn(u) \/ CreateFile(u) \/ WriteFile(u) \/ Started(u) \/ NotStarted(u)
         \/ CannotName(u)
  PROVE  Orderly(u)'
<1>1. proc' = proc /\ said' = said /\ pc[u] # "idle"
  BY DEF CannotSpawn, CreateFile, WriteFile, Started, NotStarted, CannotName, Return
<1>2. \A v \in Users \ {u} : pc'[v] = "idle"
  BY CommandMoves DEF Command, Moved, Orderly
<1>3. UNCHANGED <<Living, Answering, Serving, Booting>>
  BY <1>1 DEF Living, Answering, Serving, Booting
<1>4. strays' = strays => Kept' = Kept
  BY <1>3 DEF Kept
<1>5. CASE CannotSpawn(u)
  <2>1. pc'[u] = "idle" /\ Kept' = {}
    BY <1>4, <1>5 DEF CannotSpawn, Return, Leave, Go, TypeOK, Orderly, history
  <2> QED
    BY <1>2, <2>1, NoneKept
<1>6. CASE CreateFile(u)
  <2>1. pc[u] = "create" /\ pc'[u] = "write" /\ pid' = pid /\ Kept' = Kept /\ u \in linked'
    BY <1>4, <1>6 DEF CreateFile, Go, TypeOK, history
  <2> QED
    BY <1>1, <1>2, <1>3, <2>1, AtHand DEF Orderly, Minding
<1>7. CASE WriteFile(u)
  <2>1. /\ pc[u] = "write" /\ pc'[u] = "wait" /\ pid' = pid /\ Kept' = Kept
        /\ file' = pid[u]
    BY <1>4, <1>7 DEF WriteFile, Go, TypeOK, Orderly, history
  <2> QED
    BY <1>1, <1>2, <1>3, <2>1, AtHand DEF Orderly, Minding
<1>8. CASE CannotName(u)
  <2>1. pc'[u] = "idle" /\ strays' = strays \cup {pid[u]} /\ pc[u] \in Minding
    BY <1>8 DEF CannotName, Return, Leave, Go, TypeOK, Minding
  <2>2. Kept' = {}
    BY <1>1, <1>3, <2>1, AtHand DEF Kept
  <2> QED
    BY <1>2, <2>1, <2>2, NoneKept
<1>9. ASSUME pc[u] = "wait", pc'[u] = "idle", file' = file,
             Kept' = {} \/ (Kept' = Kept /\ Kept \subseteq Answering)
      PROVE  Orderly(u)'
  <2>1. CASE Kept' = {}
    BY <1>2, <1>9, <2>1, NoneKept
  <2>2. CASE Kept' = Kept /\ Kept \subseteq Answering
    <3>1. Kept \subseteq Serving
      BY <1>9, <2>2 DEF Orderly, Answering, Serving, Booting
    <3> QED
      BY <1>1, <1>2, <1>3, <1>9, <2>2, <3>1, AtHand DEF Orderly, Minding
  <2> QED
    BY <1>9, <2>1, <2>2
<1>10. CASE Started(u)
  <2>1. /\ pc[u] = "wait" /\ pc'[u] = "idle" /\ file' = file /\ Answering # {}
        /\ Kept' = Kept
    BY <1>4, <1>10 DEF Started, Return, Leave, Go, TypeOK, history
  <2>2. Kept \subseteq Answering
    BY <1>1, <2>1, AtHand DEF Minding
  <2> QED
    BY <1>9, <2>1, <2>2
<1>11. CASE NotStarted(u)
  <2>1. /\ pc[u] = "wait" /\ pc'[u] = "idle" /\ file' = file
        /\ strays' = strays \cup ({pid[u]} \cap (Living \ Answering))
    BY <1>11 DEF NotStarted, Return, Leave, Go, TypeOK
  <2>2. Kept' = {} \/ (Kept' = Kept /\ Kept \subseteq Answering)
    <3>1. Kept \subseteq {pid[u]} /\ Kept \subseteq Living
      BY <1>1, <2>1, AtHand DEF Minding
    <3>2. Kept' = Living \ strays'
      BY <1>3 DEF Kept
    <3> QED
      BY <2>1, <3>1, <3>2 DEF Kept
  <2> QED
    BY <1>9, <2>1, <2>2
<1> QED
  BY <1>5, <1>6, <1>7, <1>8, <1>10, <1>11

\* Stop, in order.
LEMMA StopOrderly ==
  ASSUME TypeOK, PidInv, NEW u \in Users, Orderly(u),
         Signal(u) \/ CannotSignal(u) \/ Stopped(u) \/ Kill(u)
  PROVE  Orderly(u)'
<1>1. strays' = strays /\ pc[u] \in {"signal", "await"}
  BY DEF Signal, CannotSignal, Stopped, Kill, history
<1>2. \A v \in Users \ {u} : pc'[v] = "idle"
  BY CommandMoves DEF Command, Moved, Orderly
<1>3. said = "" /\ Kept \subseteq Living /\ Living \subseteq Procs /\ Kept \subseteq {file}
  BY <1>1, AtHand
<1>4. CASE Signal(u)
  <2>1. /\ pc'[u] = "await" /\ pid'[u] = file /\ file' = file /\ said' = said
        /\ proc' = Terminated(file)
    BY <1>4 DEF Signal, Go, TypeOK
  <2>2. Living' \subseteq Living
    BY <2>1 DEF Terminated, Living, Alive
  <2>3. Kept \subseteq Serving
    BY <1>4 DEF Signal, Orderly, Minding
  <2>4. Kept \subseteq Living'
    <3> SUFFICES ASSUME NEW p \in Kept
                 PROVE  p \in Living'
      OBVIOUS
    <3>1. p \in Procs /\ proc[p] = "serving"
      BY <1>3, <2>3 DEF Serving
    <3>2. proc'[p] \in {"serving", "stopping"}
      BY <2>1, <3>1 DEF Terminated, TypeOK
    <3> QED
      BY <3>1, <3>2 DEF Living, Alive, Procs
  <2>5. Kept' = Kept
    BY <1>1, <2>2, <2>4 DEF Kept
  <2>6. Kept' = {} \/ Kept' = Living'
    BY <1>1, <1>3, <2>2, <2>4, <2>5, AtHand DEF Kept
  <2> QED
    BY <1>2, <1>3, <2>1, <2>5, <2>6 DEF Orderly, Minding
<1>5. CASE CannotSignal(u)
  <2>1. proc' = proc /\ pc'[u] = "idle" /\ file \notin Living
    BY <1>5 DEF CannotSignal, Return, Leave, Go, TypeOK
  <2>2. Kept' = {}
    BY <1>1, <1>3, <2>1, SameProcs
  <2> QED
    BY <1>2, <2>1, <2>2, NoneKept
<1>6. CASE Stopped(u)
  <2>1. pc[u] = "await" /\ proc' = proc /\ pid[u] \notin Living
    BY <1>6 DEF Stopped
  <2>2. pc'[u] \in {"cleanup", "idle"} /\ (said' = said \/ pc'[u] = "idle")
    BY <1>6 DEF Stopped, Answer, Leave, Go, TypeOK
  <2>3. Kept' = {}
    BY <1>1, <1>3, <2>1, AtHand, SameProcs DEF Minding
  <2> QED
    BY <1>2, <1>3, <2>2, <2>3, NoneKept
<1>7. CASE Kill(u)
  <2>1. /\ pc[u] = "await" /\ pc'[u] = "idle"
        /\ proc' = [proc EXCEPT ![pid[u]] = "dead"]
    BY <1>7 DEF Kill, Answer, Leave, Go, TypeOK
  <2>2. Kept \subseteq {pid[u]} /\ pid[u] \in Procs
    BY <2>1, AtHand DEF Minding
  <2>3. Living' = Living \ {pid[u]}
    BY <2>1, <2>2 DEF Living, Alive, TypeOK
  <2>4. Kept' = {}
    BY <1>1, <2>2, <2>3 DEF Kept
  <2> QED
    BY <1>2, <2>1, <2>4, NoneKept
<1> QED
  BY <1>4, <1>5, <1>6, <1>7

\* What an interrupted command had in hand is a stray.
LEMMA InterruptOrderly ==
  ASSUME TypeOK, PidInv, NEW u \in Users, Orderly(u), Interrupt(u)
  PROVE  Orderly(u)'
<1>1. /\ pc[u] # "idle" /\ pc'[u] = "idle"
      /\ proc' = proc /\ file' = file /\ said' = said
      /\ strays' = strays \cup ({pid[u]} \cap Procs)
  BY DEF Interrupt, Leave, Go, TypeOK
<1>2. \A v \in Users \ {u} : pc'[v] = "idle"
  BY CommandMoves DEF Moved, Orderly
<1>3. UNCHANGED <<Living, Serving>> /\ Kept' = Kept \ ({pid[u]} \cap Procs)
  BY <1>1 DEF Living, Serving, Kept
<1>4. CASE pc[u] \in Minding
  <2>1. Kept' = {}
    BY <1>1, <1>3, <1>4, AtHand
  <2> QED
    BY <1>1, <1>2, <2>1, NoneKept
<1>5. CASE pc[u] \notin Minding
  <2>1. Kept \subseteq {file} /\ (Kept = {} \/ Kept = Living) /\ said = ""
    BY <1>1, <1>5, AtHand DEF Minding
  <2>2. Kept' = {} \/ Kept' = Living'
    BY <1>3, <2>1
  <2>3. Kept' \subseteq {file} /\ Kept' \subseteq Serving'
    BY <1>3, <1>5, <2>1 DEF Orderly
  <2> QED
    BY <1>1, <1>2, <2>1, <2>2, <2>3 DEF Orderly, Minding
<1> QED
  BY <1>4, <1>5

\* A command that begins while none is under way.
LEMMA BeginOrderly ==
  ASSUME TypeOK, PidInv, NEW w \in Users, Orderly(w), NEW u \in Users, Begin(u),
         ~overlapped'
  PROVE  Orderly(u)'
<1>1. /\ \A v \in Users : pc[v] = "idle"
      /\ pc'[u] = "cleanup" /\ \A v \in Users \ {u} : pc'[v] = "idle"
      /\ UNCHANGED <<proc, file, strays>>
      /\ said' = ""
  BY DEF Begin, Go, TypeOK
<1>2. UNCHANGED <<Living, Kept, Serving>>
  BY <1>1, SameProcs
<1>3. Kept \subseteq {file} /\ Kept \subseteq Serving /\ (Kept = {} \/ Kept = Living)
  BY <1>1 DEF Orderly, Minding
<1> QED
  BY <1>1, <1>2, <1>3 DEF Orderly, Minding

LEMMA OrderStep ==
  ASSUME TypeOK, PidInv, OrderInv, [Next]_vars
  PROVE  OrderInv'
<1> SUFFICES ASSUME ~overlapped' PROVE \E u \in Users : Orderly(u)'
  BY DEF OrderInv
<1>1. CASE UNCHANGED vars
  <2>1. PICK u \in Users : Orderly(u)
    BY <1>1 DEF OrderInv, vars, history
  <2>2. Orderly(u)'
    BY <1>1, <2>1, SameProcs DEF Orderly, vars, commands, history
  <2> QED
    BY <2>2
<1>2. ASSUME NEW p \in Procs, Boot(p) \/ ClosePort(p) \/ Die(p)
      PROVE  \E u \in Users : Orderly(u)'
  <2>1. overlapped' = overlapped
    BY <1>2 DEF Boot, ClosePort, Die, history
  <2> QED
    BY <1>2, <2>1, ProcessOrderly DEF OrderInv
<1>3. ASSUME NEW u \in Users, Begin(u)
      PROVE  \E v \in Users : Orderly(v)'
  <2>1. ~overlapped
    BY <1>3 DEF Begin
  <2> QED
    BY <1>3, <2>1, BeginOrderly DEF OrderInv
<1>4. ASSUME NEW u \in Users, Interrupt(u) \/ Command(u)
      PROVE  \E v \in Users : Orderly(v)'
  <2>1. overlapped' = overlapped /\ pc[u] # "idle"
    BY <1>4 DEF Interrupt, Command, ReadStale, RemoveStale, ReadFile, RemoveDead,
                CheckHealth, Spawn, CannotSpawn, CreateFile, WriteFile, CannotName,
                Started, NotStarted, Signal, CannotSignal, Stopped, Kill, history
  <2>2. Orderly(u)
    BY <2>1 DEF OrderInv, Orderly
  <2> QED
    BY <1>4, <2>2, IsRunningOrderly, SpawnOrderly, StartOrderly, StopOrderly,
       InterruptOrderly DEF Command
<1> QED
  BY <1>1, <1>2, <1>3, <1>4 DEF Next

THEOREM InvariantHolds == Spec => []IInv
<1>1. IInv /\ [Next]_vars => IInv'
  BY TypeStep, PidStep, OrderStep DEF IInv
<1> QED
  BY InitIInv, <1>1, PTL DEF Spec

\* As long as no commands overlap, the daemon that lives is the one the PID file
\* names or is about to name, or a stray: late, unnamed, left by an interrupted
\* command, or spawned while such a one lived (manager.go:34-170).
THEOREM RunningNamed == Spec => []ProcessInv
<1>1. IInv => ProcessInv
  <2> SUFFICES ASSUME IInv, NEW p \in Living, ~overlapped, p \notin strays, file # p
               PROVE  \E u \in Users : pid[u] = p /\ pc[u] \in {"create", "write"}
    BY DEF IInv, ProcessInv, RunningIsNamed
  <2>1. PICK u \in Users : Orderly(u)
    BY DEF IInv, OrderInv
  <2>2. p \in Kept
    BY DEF Kept
  <2> QED
    BY <2>1, <2>2 DEF Orderly, Minding
<1> QED
  BY InvariantHolds, <1>1, PTL

\* As long as no commands overlap, after a stop that says that the daemon is gone
\* no process lives but strays (manager.go:34-54, 132-170).
THEOREM StoppedGone == Spec => []StoppedIsGone
<1>1. IInv => StoppedIsGone
  BY DEF IInv, OrderInv, Orderly, StoppedIsGone, Kept
<1> QED
  BY InvariantHolds, <1>1, PTL
================================================================================
