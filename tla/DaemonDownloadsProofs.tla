------------------------- MODULE DaemonDownloadsProofs -------------------------
(* However many callers, requests, downloads and pauses there are: the gate of  *)
(* Gate strands nobody; the map of downloads lists what runs, and what is shown *)
(* of a download fits what it does; and the downloads use the gate as the       *)
(* gate's module says, so what is proved of the gate holds for them.            *)
EXTENDS DaemonDownloads, TLAPS
-------------------------------------------------------------------------------
\* The gate (Gate): for any set of callers and any number of Pauses it strands no
\* caller and implements BroadcastGate.

\* NewGate makes a gate whose channels are in order.
LEMMA InitGateInv == Init => GateInv
<1>1. 0..0 = {0}
  OBVIOUS
<1>2. Init => TypeOK
  <2>1. Init => paused \in BOOLEAN
    BY Zenon DEF Init
  <2>2. QED
    BY <2>1, MaxPausesAssumption DEF Init, TypeOK
<1>3. Init => ChannelsClosed
  <2> SUFFICES ASSUME Init PROVE closed = 0..resumeCh /\ ~paused
    BY DEF ChannelsClosed
  <2>1. QED
    BY <1>1 DEF Init
<1>4. QED
  BY <1>2, <1>3 DEF GateInv

\* Every step keeps the channels in order: Pause makes the one open channel
\* after all earlier ones, Resume closes exactly that one, and a caller reads
\* the present one.
LEMMA NextGateInv == GateInv /\ [Next]_vars => GateInv'
<1> SUFFICES ASSUME GateInv, [Next]_vars PROVE GateInv'
  OBVIOUS
<1> USE MaxPausesAssumption DEF GateInv, TypeOK, ChannelsClosed
<1>1. CASE Pause
  <2>1. TypeOK'
    BY <1>1 DEF Pause
  <2>2. ChannelsClosed'
    <3>1. closed' = 0..resumeCh /\ paused'
      BY <1>1 DEF Pause
    <3>2. resumeCh' - 1 = resumeCh
      BY <1>1 DEF Pause
    <3>3. closed' = 0..(resumeCh' - 1)
      BY <3>1, <3>2, Zenon
    <3>4. QED
      BY <3>1, <3>3, Zenon
  <2>3. QED
    BY <2>1, <2>2
<1>2. CASE Resume
  <2>1. TypeOK'
    <3>1. paused' \in BOOLEAN
      BY <1>2, Zenon DEF Resume
    <3>2. QED
      BY <1>2, <3>1 DEF Resume
  <2>2. ChannelsClosed'
    <3>1. closed' = (0..(resumeCh - 1)) \cup {resumeCh}
      BY <1>2 DEF Resume
    <3>2. (0..(resumeCh - 1)) \cup {resumeCh} = 0..resumeCh
      OBVIOUS
    <3>3. QED
      BY <1>2, <3>1, <3>2 DEF Resume
  <2>3. QED
    BY <2>1, <2>2
<1>3. ASSUME NEW c \in Callers, Enter(c) PROVE GateInv'
  BY <1>3 DEF Enter
<1>4. ASSUME NEW c \in Callers, Admit(c) PROVE GateInv'
  BY <1>4 DEF Admit
<1>5. ASSUME NEW c \in Callers, Refuse(c) PROVE GateInv'
  BY <1>5 DEF Refuse
<1>6. CASE UNCHANGED vars
  BY <1>6 DEF vars
<1>7. QED
  BY <1>1, <1>2, <1>3, <1>4, <1>5, <1>6 DEF Next

\* The channels of a gate are always in order.
THEOREM GateInvariant == Spec => []GateInv
<1>1. QED
  BY InitGateInv, NextGateInv, PTL DEF Spec

\* No call of Wait is ever left on a channel that no Resume will close.
THEOREM NobodyStranded == Spec => []NoneStranded
<1>1. GateInv => NoneStranded
  BY DEF GateInv, TypeOK, ChannelsClosed, NoneStranded, Ready
<1>2. QED
  BY <1>1, GateInvariant, PTL

\* The gate implements the promise made to its callers: one Resume releases all
\* the calls that wait, and no later Pause takes a release back.
THEOREM GateKeepsPromise == Spec => KeepsPromise
<1> DEFINE Call == [c \in Callers |->
                      IF pc[c] # "select" THEN pc[c]
                      ELSE IF Ready(c) THEN "released" ELSE "held"]
<1>1. Init => Promise!Init
  BY DEF Init, Promise!Init
<1>2. GateInv /\ [Next]_vars => [Promise!Next]_(Promise!vars)
  <2> SUFFICES ASSUME GateInv, [Next]_vars
               PROVE  [Promise!Next]_(Promise!vars)
    OBVIOUS
  <2> USE DEF GateInv, TypeOK, ChannelsClosed, Ready
  <2>1. CASE Pause
    <3>1. Call' = Call
      BY <2>1 DEF Pause
    <3>2. QED
      BY <2>1, <3>1 DEF Pause, Promise!Next, Promise!Close
  <2>2. CASE Resume
    <3>1. Call' = [c \in Callers |->
                     IF Call[c] = "held" THEN "released" ELSE Call[c]]
      BY <2>2, MaxPausesAssumption DEF Resume
    <3>2. QED
      BY <2>2, <3>1 DEF Resume, Promise!Next, Promise!Open
  <2>3. ASSUME NEW c \in Callers, Enter(c)
        PROVE  Promise!Next
    <3>1. Call[c] \in Promise!Idle
      BY <2>3 DEF Enter, Promise!Idle
    <3>2. resumeCh \in closed <=> ~paused
      BY MaxPausesAssumption
    <3>3. Call' = [Call EXCEPT ![c] = IF paused THEN "held" ELSE "released"]
      BY <2>3, <3>2 DEF Enter
    <3>4. QED
      BY <2>3, <3>1, <3>3 DEF Enter, Promise!Next, Promise!Enter
  <2>4. ASSUME NEW c \in Callers, Admit(c)
        PROVE  Promise!Next
    <3>1. Call[c] = "released"
      BY <2>4 DEF Admit
    <3>2. Call' = [Call EXCEPT ![c] = "admitted"]
      BY <2>4 DEF Admit
    <3>3. QED
      BY <2>4, <3>1, <3>2 DEF Admit, Promise!Next, Promise!Admit
  <2>5. ASSUME NEW c \in Callers, Refuse(c)
        PROVE  Promise!Next
    <3>1. Call[c] \in {"held", "released"}
      BY <2>5 DEF Refuse
    <3>2. Call' = [Call EXCEPT ![c] = "refused"]
      BY <2>5 DEF Refuse
    <3>3. QED
      BY <2>5, <3>1, <3>2 DEF Refuse, Promise!Next, Promise!Refuse
  <2>6. CASE UNCHANGED vars
    BY <2>6 DEF vars, Promise!vars
  <2>7. QED
    BY <2>1, <2>2, <2>3, <2>4, <2>5, <2>6 DEF Next
<1>3. QED
  BY <1>1, <1>2, GateInvariant, PTL DEF Spec, KeepsPromise, Promise!Spec
-------------------------------------------------------------------------------
\* The downloads (DaemonDownloads).

\* A download whose request has not been answered is nowhere yet.
FreshInv ==
  \A d \in Callers :
    req[d] # "answered" => run[d] = "none" /\ d # entry /\ d \notin cancelled

\* Unless two requests raced, one that is about to insert finds no entry, and is
\* the only such one.
LookInv ==
  ~raced => \A d \in Callers : req[d] = "looked" =>
              entry = None /\ \A e \in Callers : req[e] = "looked" => e = d

IInv == DownloadsInv /\ FreshInv /\ LookInv /\ RunningIsListed

\* A step of the downloads is a step of the gate, or leaves it alone.
LEMMA GateStep == [DownloadsNext]_allVars => [Next]_vars
<1> SUFFICES ASSUME [DownloadsNext]_allVars PROVE [Next]_vars
  OBVIOUS
<1>1. ASSUME PauseDownloads
      PROVE  [Next]_vars
  BY <1>1 DEF PauseDownloads, Next
<1>2. ASSUME ResumeDownloads
      PROVE  [Next]_vars
  BY <1>2 DEF ResumeDownloads, Next
<1>3. ASSUME ListBegin
      PROVE  [Next]_vars
  BY <1>3 DEF ListBegin, Next
<1>4. ASSUME ListEnd
      PROVE  [Next]_vars
  BY <1>4 DEF ListEnd, Next
<1>5. ASSUME NEW d \in Callers, LockMap(d)
      PROVE  [Next]_vars
  BY <1>5 DEF LockMap, Next
<1>6. ASSUME NEW d \in Callers, Displace(d)
      PROVE  [Next]_vars
  BY <1>6 DEF Displace, Next
<1>7. ASSUME NEW d \in Callers, Insert(d)
      PROVE  [Next]_vars
  BY <1>7 DEF Insert, Next
<1>8. ASSUME NEW d \in Callers, CannotSave(d)
      PROVE  [Next]_vars
  BY <1>8 DEF CannotSave, Next
<1>9. ASSUME NEW d \in Callers, BeginRun(d)
      PROVE  [Next]_vars
  BY <1>9 DEF BeginRun, Next
<1>10. ASSUME NEW d \in Callers, AwaitGate(d)
      PROVE  [Next]_vars
  BY <1>10 DEF AwaitGate, Next
<1>11. ASSUME NEW d \in Callers, PassGate(d)
      PROVE  [Next]_vars
  BY <1>11 DEF PassGate, Next
<1>12. ASSUME NEW d \in Callers, GiveUp(d)
      PROVE  [Next]_vars
  BY <1>12 DEF GiveUp, Next
<1>13. ASSUME NEW d \in Callers, Fail(d)
      PROVE  [Next]_vars
  BY <1>13 DEF Fail, Next
<1>14. ASSUME NEW d \in Callers, Succeed(d)
      PROVE  [Next]_vars
  BY <1>14 DEF Succeed, Next
<1>15. ASSUME NEW d \in Callers, Settle(d)
      PROVE  [Next]_vars
  BY <1>15 DEF Settle, Next
<1>16. ASSUME NEW d \in Callers, CleanUp(d)
      PROVE  [Next]_vars
  BY <1>16 DEF CleanUp, Next
<1>17. CASE UNCHANGED allVars
  BY <1>17 DEF allVars
<1> QED
  BY <1>1, <1>2, <1>3, <1>4, <1>5, <1>6, <1>7, <1>8, <1>9, <1>10, <1>11, <1>12,
     <1>13, <1>14, <1>15, <1>16, <1>17
     DEF DownloadsNext

\* The downloads implement the gate's specification.
THEOREM DownloadsUseGate == DownloadsSpec => Spec
<1>1. DownloadsInit => Init
  BY DEF DownloadsInit
<1> QED
  BY <1>1, GateStep, PTL DEF DownloadsSpec, Spec

LEMMA InitIInv == DownloadsInit => IInv
<1> SUFFICES ASSUME DownloadsInit PROVE IInv
  OBVIOUS
<1>1. TypeOK
  BY InitGateInv DEF DownloadsInit, GateInv
<1>2. DownloadsTypeOK
  BY <1>1 DEF DownloadsInit, DownloadsTypeOK
<1>3. EntryIsLive /\ StatusFits
  BY DEF DownloadsInit, EntryIsLive, StatusFits
<1>4. FreshInv /\ LookInv /\ RunningIsListed
  BY NoneAssumption DEF DownloadsInit, FreshInv, LookInv, RunningIsListed
<1> QED
  BY <1>2, <1>3, <1>4 DEF IInv, DownloadsInv

\* Type correctness, of what the gate does not keep.
LEMMA DownloadsTypeStep ==
  ASSUME GateInv, DownloadsTypeOK, [DownloadsNext]_allVars
  PROVE  DownloadsTypeOK'
<1>0. TypeOK'
  BY GateStep, NextGateInv DEF GateInv
<1> USE <1>0 DEF DownloadsTypeOK
<1>1. ASSUME PauseDownloads
      PROVE  DownloadsTypeOK'
  BY <1>1 DEF PauseDownloads, Pause, vars, table
<1>2. ASSUME ResumeDownloads
      PROVE  DownloadsTypeOK'
  BY <1>2 DEF ResumeDownloads, Resume, vars, table
<1>3. ASSUME ListBegin
      PROVE  DownloadsTypeOK'
  BY <1>3 DEF ListBegin, vars, table
<1>4. ASSUME ListEnd
      PROVE  DownloadsTypeOK'
  BY <1>4 DEF ListEnd, vars, table
<1>5. ASSUME NEW d \in Callers, LockMap(d)
      PROVE  DownloadsTypeOK'
  BY <1>5 DEF LockMap, vars, table
<1>6. ASSUME NEW d \in Callers, Displace(d)
      PROVE  DownloadsTypeOK'
  BY <1>6 DEF Displace, vars, table
<1>7. ASSUME NEW d \in Callers, Insert(d)
      PROVE  DownloadsTypeOK'
  BY <1>7 DEF Insert, vars, table
<1>8. ASSUME NEW d \in Callers, CannotSave(d)
      PROVE  DownloadsTypeOK'
  BY <1>8 DEF CannotSave, vars, table
<1>9. ASSUME NEW d \in Callers, BeginRun(d)
      PROVE  DownloadsTypeOK'
  BY <1>9 DEF BeginRun, vars, table
<1>10. ASSUME NEW d \in Callers, AwaitGate(d)
      PROVE  DownloadsTypeOK'
  BY <1>10 DEF AwaitGate, Enter, vars, table
<1>11. ASSUME NEW d \in Callers, PassGate(d)
      PROVE  DownloadsTypeOK'
  BY <1>11 DEF PassGate, Admit, vars, table
<1>12. ASSUME NEW d \in Callers, GiveUp(d)
      PROVE  DownloadsTypeOK'
  BY <1>12 DEF GiveUp, Refuse, vars, table
<1>13. ASSUME NEW d \in Callers, Fail(d)
      PROVE  DownloadsTypeOK'
  BY <1>13 DEF Fail, vars, table
<1>14. ASSUME NEW d \in Callers, Succeed(d)
      PROVE  DownloadsTypeOK'
  BY <1>14 DEF Succeed, vars, table
<1>15. ASSUME NEW d \in Callers, Settle(d)
      PROVE  DownloadsTypeOK'
  BY <1>15 DEF Settle, vars, table
<1>16. ASSUME NEW d \in Callers, CleanUp(d)
      PROVE  DownloadsTypeOK'
  BY <1>16 DEF CleanUp, vars, table
<1>17. CASE UNCHANGED allVars
  BY <1>17 DEF allVars, table
<1> QED
  BY <1>1, <1>2, <1>3, <1>4, <1>5, <1>6, <1>7, <1>8, <1>9, <1>10, <1>11, <1>12,
     <1>13, <1>14, <1>15, <1>16, <1>17
     DEF DownloadsNext

\* The entry of the map.
LEMMA EntryStep ==
  ASSUME DownloadsTypeOK, FreshInv, EntryIsLive, [DownloadsNext]_allVars
  PROVE  EntryIsLive'
<1> USE NoneAssumption DEF DownloadsTypeOK, EntryIsLive, FreshInv
<1>1. ASSUME PauseDownloads
      PROVE  EntryIsLive'
  BY <1>1 DEF PauseDownloads, Pause, vars, table
<1>2. ASSUME ResumeDownloads
      PROVE  EntryIsLive'
  BY <1>2 DEF ResumeDownloads, Resume, vars, table
<1>3. ASSUME ListBegin
      PROVE  EntryIsLive'
  BY <1>3 DEF ListBegin, vars, table
<1>4. ASSUME ListEnd
      PROVE  EntryIsLive'
  BY <1>4 DEF ListEnd, vars, table
<1>5. ASSUME NEW d \in Callers, LockMap(d)
      PROVE  EntryIsLive'
  BY <1>5 DEF LockMap, vars, table
<1>6. ASSUME NEW d \in Callers, Displace(d)
      PROVE  EntryIsLive'
  BY <1>6 DEF Displace, vars, table
<1>7. ASSUME NEW d \in Callers, Insert(d)
      PROVE  EntryIsLive'
  BY <1>7 DEF Insert, vars, table
<1>8. ASSUME NEW d \in Callers, CannotSave(d)
      PROVE  EntryIsLive'
  BY <1>8 DEF CannotSave, vars, table
<1>9. ASSUME NEW d \in Callers, BeginRun(d)
      PROVE  EntryIsLive'
  BY <1>9 DEF BeginRun, vars, table
<1>10. ASSUME NEW d \in Callers, AwaitGate(d)
      PROVE  EntryIsLive'
  BY <1>10 DEF AwaitGate, Enter, vars, table
<1>11. ASSUME NEW d \in Callers, PassGate(d)
      PROVE  EntryIsLive'
  BY <1>11 DEF PassGate, Admit, vars, table
<1>12. ASSUME NEW d \in Callers, GiveUp(d)
      PROVE  EntryIsLive'
  BY <1>12 DEF GiveUp, Refuse, vars, table
<1>13. ASSUME NEW d \in Callers, Fail(d)
      PROVE  EntryIsLive'
  BY <1>13 DEF Fail, vars, table
<1>14. ASSUME NEW d \in Callers, Succeed(d)
      PROVE  EntryIsLive'
  BY <1>14 DEF Succeed, vars, table
<1>15. ASSUME NEW d \in Callers, Settle(d)
      PROVE  EntryIsLive'
  BY <1>15 DEF Settle, vars, table
<1>16. ASSUME NEW d \in Callers, CleanUp(d)
      PROVE  EntryIsLive'
  BY <1>16 DEF CleanUp, vars, table
<1>17. CASE UNCHANGED allVars
  BY <1>17 DEF allVars, table
<1> QED
  BY <1>1, <1>2, <1>3, <1>4, <1>5, <1>6, <1>7, <1>8, <1>9, <1>10, <1>11, <1>12,
     <1>13, <1>14, <1>15, <1>16, <1>17
     DEF DownloadsNext

\* The status.
LEMMA StatusStep ==
  ASSUME DownloadsTypeOK, FreshInv, StatusFits, [DownloadsNext]_allVars
  PROVE  StatusFits'
<1> USE NoneAssumption DEF DownloadsTypeOK, StatusFits, FreshInv
<1>1. ASSUME PauseDownloads
      PROVE  StatusFits'
  BY <1>1 DEF PauseDownloads, Pause, vars, table
<1>2. ASSUME ResumeDownloads
      PROVE  StatusFits'
  BY <1>2 DEF ResumeDownloads, Resume, vars, table
<1>3. ASSUME ListBegin
      PROVE  StatusFits'
  BY <1>3 DEF ListBegin, vars, table
<1>4. ASSUME ListEnd
      PROVE  StatusFits'
  BY <1>4 DEF ListEnd, vars, table
<1>5. ASSUME NEW d \in Callers, LockMap(d)
      PROVE  StatusFits'
  BY <1>5 DEF LockMap, vars, table
<1>6. ASSUME NEW d \in Callers, Displace(d)
      PROVE  StatusFits'
  BY <1>6 DEF Displace, vars, table
<1>7. ASSUME NEW d \in Callers, Insert(d)
      PROVE  StatusFits'
  BY <1>7 DEF Insert, vars, table
<1>8. ASSUME NEW d \in Callers, CannotSave(d)
      PROVE  StatusFits'
  BY <1>8 DEF CannotSave, vars, table
<1>9. ASSUME NEW d \in Callers, BeginRun(d)
      PROVE  StatusFits'
  BY <1>9 DEF BeginRun, vars, table
<1>10. ASSUME NEW d \in Callers, AwaitGate(d)
      PROVE  StatusFits'
  BY <1>10 DEF AwaitGate, Enter, vars, table
<1>11. ASSUME NEW d \in Callers, PassGate(d)
      PROVE  StatusFits'
  BY <1>11 DEF PassGate, Admit, vars, table
<1>12. ASSUME NEW d \in Callers, GiveUp(d)
      PROVE  StatusFits'
  BY <1>12 DEF GiveUp, Refuse, vars, table
<1>13. ASSUME NEW d \in Callers, Fail(d)
      PROVE  StatusFits'
  BY <1>13 DEF Fail, vars, table
<1>14. ASSUME NEW d \in Callers, Succeed(d)
      PROVE  StatusFits'
  BY <1>14 DEF Succeed, vars, table
<1>15. ASSUME NEW d \in Callers, Settle(d)
      PROVE  StatusFits'
  BY <1>15 DEF Settle, vars, table
<1>16. ASSUME NEW d \in Callers, CleanUp(d)
      PROVE  StatusFits'
  BY <1>16 DEF CleanUp, vars, table
<1>17. CASE UNCHANGED allVars
  BY <1>17 DEF allVars, table
<1> QED
  BY <1>1, <1>2, <1>3, <1>4, <1>5, <1>6, <1>7, <1>8, <1>9, <1>10, <1>11, <1>12,
     <1>13, <1>14, <1>15, <1>16, <1>17
     DEF DownloadsNext

\* Requests that have not been answered.
LEMMA FreshStep ==
  ASSUME DownloadsTypeOK, FreshInv, [DownloadsNext]_allVars
  PROVE  FreshInv'
<1> USE NoneAssumption DEF DownloadsTypeOK, FreshInv
<1>1. ASSUME PauseDownloads
      PROVE  FreshInv'
  BY <1>1 DEF PauseDownloads, Pause, vars, table
<1>2. ASSUME ResumeDownloads
      PROVE  FreshInv'
  BY <1>2 DEF ResumeDownloads, Resume, vars, table
<1>3. ASSUME ListBegin
      PROVE  FreshInv'
  BY <1>3 DEF ListBegin, vars, table
<1>4. ASSUME ListEnd
      PROVE  FreshInv'
  BY <1>4 DEF ListEnd, vars, table
<1>5. ASSUME NEW d \in Callers, LockMap(d)
      PROVE  FreshInv'
  BY <1>5 DEF LockMap, vars, table
<1>6. ASSUME NEW d \in Callers, Displace(d)
      PROVE  FreshInv'
  BY <1>6 DEF Displace, vars, table
<1>7. ASSUME NEW d \in Callers, Insert(d)
      PROVE  FreshInv'
  BY <1>7 DEF Insert, vars, table
<1>8. ASSUME NEW d \in Callers, CannotSave(d)
      PROVE  FreshInv'
  BY <1>8 DEF CannotSave, vars, table
<1>9. ASSUME NEW d \in Callers, BeginRun(d)
      PROVE  FreshInv'
  BY <1>9 DEF BeginRun, vars, table
<1>10. ASSUME NEW d \in Callers, AwaitGate(d)
      PROVE  FreshInv'
  BY <1>10 DEF AwaitGate, Enter, vars, table
<1>11. ASSUME NEW d \in Callers, PassGate(d)
      PROVE  FreshInv'
  BY <1>11 DEF PassGate, Admit, vars, table
<1>12. ASSUME NEW d \in Callers, GiveUp(d)
      PROVE  FreshInv'
  BY <1>12 DEF GiveUp, Refuse, vars, table
<1>13. ASSUME NEW d \in Callers, Fail(d)
      PROVE  FreshInv'
  BY <1>13 DEF Fail, vars, table
<1>14. ASSUME NEW d \in Callers, Succeed(d)
      PROVE  FreshInv'
  BY <1>14 DEF Succeed, vars, table
<1>15. ASSUME NEW d \in Callers, Settle(d)
      PROVE  FreshInv'
  BY <1>15 DEF Settle, vars, table
<1>16. ASSUME NEW d \in Callers, CleanUp(d)
      PROVE  FreshInv'
  BY <1>16 DEF CleanUp, vars, table
<1>17. CASE UNCHANGED allVars
  BY <1>17 DEF allVars, table
<1> QED
  BY <1>1, <1>2, <1>3, <1>4, <1>5, <1>6, <1>7, <1>8, <1>9, <1>10, <1>11, <1>12,
     <1>13, <1>14, <1>15, <1>16, <1>17
     DEF DownloadsNext

\* Requests that have looked.
LEMMA LookStep ==
  ASSUME DownloadsTypeOK, LookInv, [DownloadsNext]_allVars
  PROVE  LookInv'
<1> USE NoneAssumption DEF DownloadsTypeOK, LookInv
<1>1. ASSUME PauseDownloads
      PROVE  LookInv'
  BY <1>1 DEF PauseDownloads, Pause, vars, table
<1>2. ASSUME ResumeDownloads
      PROVE  LookInv'
  BY <1>2 DEF ResumeDownloads, Resume, vars, table
<1>3. ASSUME ListBegin
      PROVE  LookInv'
  BY <1>3 DEF ListBegin, vars, table
<1>4. ASSUME ListEnd
      PROVE  LookInv'
  BY <1>4 DEF ListEnd, vars, table
<1>5. ASSUME NEW d \in Callers, LockMap(d)
      PROVE  LookInv'
  BY <1>5 DEF LockMap, vars, table
<1>6. ASSUME NEW d \in Callers, Displace(d)
      PROVE  LookInv'
  BY <1>6 DEF Displace, vars, table
<1>7. ASSUME NEW d \in Callers, Insert(d)
      PROVE  LookInv'
  BY <1>7 DEF Insert, vars, table
<1>8. ASSUME NEW d \in Callers, CannotSave(d)
      PROVE  LookInv'
  BY <1>8 DEF CannotSave, vars, table
<1>9. ASSUME NEW d \in Callers, BeginRun(d)
      PROVE  LookInv'
  BY <1>9 DEF BeginRun, vars, table
<1>10. ASSUME NEW d \in Callers, AwaitGate(d)
      PROVE  LookInv'
  BY <1>10 DEF AwaitGate, Enter, vars, table
<1>11. ASSUME NEW d \in Callers, PassGate(d)
      PROVE  LookInv'
  BY <1>11 DEF PassGate, Admit, vars, table
<1>12. ASSUME NEW d \in Callers, GiveUp(d)
      PROVE  LookInv'
  BY <1>12 DEF GiveUp, Refuse, vars, table
<1>13. ASSUME NEW d \in Callers, Fail(d)
      PROVE  LookInv'
  BY <1>13 DEF Fail, vars, table
<1>14. ASSUME NEW d \in Callers, Succeed(d)
      PROVE  LookInv'
  BY <1>14 DEF Succeed, vars, table
<1>15. ASSUME NEW d \in Callers, Settle(d)
      PROVE  LookInv'
  BY <1>15 DEF Settle, vars, table
<1>16. ASSUME NEW d \in Callers, CleanUp(d)
      PROVE  LookInv'
  BY <1>16 DEF CleanUp, vars, table
<1>17. CASE UNCHANGED allVars
  BY <1>17 DEF allVars, table
<1> QED
  BY <1>1, <1>2, <1>3, <1>4, <1>5, <1>6, <1>7, <1>8, <1>9, <1>10, <1>11, <1>12,
     <1>13, <1>14, <1>15, <1>16, <1>17
     DEF DownloadsNext

\* Downloads that run.
LEMMA ListedStep ==
  ASSUME DownloadsTypeOK, FreshInv, LookInv, EntryIsLive, RunningIsListed, [DownloadsNext]_allVars
  PROVE  RunningIsListed'
<1> USE NoneAssumption DEF DownloadsTypeOK, RunningIsListed, FreshInv, LookInv, EntryIsLive
<1>1. ASSUME PauseDownloads
      PROVE  RunningIsListed'
  BY <1>1 DEF PauseDownloads, Pause, vars, table
<1>2. ASSUME ResumeDownloads
      PROVE  RunningIsListed'
  BY <1>2 DEF ResumeDownloads, Resume, vars, table
<1>3. ASSUME ListBegin
      PROVE  RunningIsListed'
  BY <1>3 DEF ListBegin, vars, table
<1>4. ASSUME ListEnd
      PROVE  RunningIsListed'
  BY <1>4 DEF ListEnd, vars, table
<1>5. ASSUME NEW d \in Callers, LockMap(d)
      PROVE  RunningIsListed'
  BY <1>5 DEF LockMap, vars, table
<1>6. ASSUME NEW d \in Callers, Displace(d)
      PROVE  RunningIsListed'
  BY <1>6 DEF Displace, vars, table
<1>7. ASSUME NEW d \in Callers, Insert(d)
      PROVE  RunningIsListed'
  BY <1>7 DEF Insert, vars, table
<1>8. ASSUME NEW d \in Callers, CannotSave(d)
      PROVE  RunningIsListed'
  BY <1>8 DEF CannotSave, vars, table
<1>9. ASSUME NEW d \in Callers, BeginRun(d)
      PROVE  RunningIsListed'
  BY <1>9 DEF BeginRun, vars, table
<1>10. ASSUME NEW d \in Callers, AwaitGate(d)
      PROVE  RunningIsListed'
  BY <1>10 DEF AwaitGate, Enter, vars, table
<1>11. ASSUME NEW d \in Callers, PassGate(d)
      PROVE  RunningIsListed'
  BY <1>11 DEF PassGate, Admit, vars, table
<1>12. ASSUME NEW d \in Callers, GiveUp(d)
      PROVE  RunningIsListed'
  BY <1>12 DEF GiveUp, Refuse, vars, table
<1>13. ASSUME NEW d \in Callers, Fail(d)
      PROVE  RunningIsListed'
  BY <1>13 DEF Fail, vars, table
<1>14. ASSUME NEW d \in Callers, Succeed(d)
      PROVE  RunningIsListed'
  BY <1>14 DEF Succeed, vars, table
<1>15. ASSUME NEW d \in Callers, Settle(d)
      PROVE  RunningIsListed'
  BY <1>15 DEF Settle, vars, table
<1>16. ASSUME NEW d \in Callers, CleanUp(d)
      PROVE  RunningIsListed'
  BY <1>16 DEF CleanUp, vars, table
<1>17. CASE UNCHANGED allVars
  BY <1>17 DEF allVars, table
<1> QED
  BY <1>1, <1>2, <1>3, <1>4, <1>5, <1>6, <1>7, <1>8, <1>9, <1>10, <1>11, <1>12,
     <1>13, <1>14, <1>15, <1>16, <1>17
     DEF DownloadsNext

THEOREM InvariantHolds == DownloadsSpec => []IInv
<1>1. GateInv /\ IInv /\ [DownloadsNext]_allVars => IInv'
  BY DownloadsTypeStep, EntryStep, StatusStep, FreshStep, LookStep, ListedStep
     DEF IInv, DownloadsInv
<1> QED
  BY InitIInv, <1>1, DownloadsUseGate, GateInvariant, PTL DEF DownloadsSpec

\* The entry of a hash is a download that is neither cancelled nor over, and what
\* is shown of a download fits what it does (server.go:444-456, 729-818).
THEOREM ShownIsTrue == DownloadsSpec => []DownloadsInv
<1>1. IInv => DownloadsInv
  BY DEF IInv
<1> QED
  BY InvariantHolds, <1>1, PTL

\* Unless two requests for one hash raced, a download that runs is the entry
\* that the next request cancels (server.go:444-456, 516-518).
THEOREM RunningListed == DownloadsSpec => []RunningIsListed
<1>1. IInv => RunningIsListed
  BY DEF IInv
<1> QED
  BY InvariantHolds, <1>1, PTL

\* No download of the daemon waits on a channel that no Resume will close.
THEOREM NoDownloadStranded == DownloadsSpec => []NoneStranded
  BY DownloadsUseGate, NobodyStranded, PTL

\* Whatever the daemon does with its downloads, its gate keeps the promise made to
\* those who wait at it (gate.go:20-31).
THEOREM DownloadsKeepPromise == DownloadsSpec => KeepsPromise
  BY DownloadsUseGate, GateKeepsPromise, PTL

\* The gate's channels are closed as they should be.
THEOREM DownloadsKeepGate == DownloadsSpec => []GateInv
  BY DownloadsUseGate, GateInvariant, PTL
================================================================================
