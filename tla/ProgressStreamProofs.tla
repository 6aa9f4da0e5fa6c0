-------------------------- MODULE ProgressStreamProofs --------------------------
(* However many watchers there are and whatever the capacities: no client is   *)
(* taken away under a broadcast, and what a command line says of the end has   *)
(* its cause.                                                                  *)
EXTENDS ProgressStream, TLAPS

Messages == {"progress", "final", "error", "complete"}

QueuesTyped ==
  /\ conn \in [Watchers -> Seq(Messages)]
  /\ prog \in [Watchers -> Seq(Messages)]

\* What may be said of the download: the final report and the completion only of
\* one that has succeeded, the error only of one that has failed.
True(m) ==
  /\ m \in {"final", "complete"} => status = "complete"
  /\ m = "error" => status = "error"

\* The status is settled when the transfer has ended, and what is under way is
\* true: messages, errors and verdicts.
CauseInv ==
  /\ status = "downloading" <=> run = "fetch"
  /\ shut => run \in {"ended", "crashed"}
  /\ todo["run"] # {} => run = "telling"
  /\ True(msg)
  /\ \A w \in Watchers :
       /\ \A i \in 1..Len(conn[w]) : True(conn[w][i])
       /\ \A i \in 1..Len(prog[w]) : True(prog[w][i])
       /\ cli[w] = "posted" => reader[w] = "none"
       /\ w \in err => status = "error" \/ reader[w] = "broken"
       /\ cli[w] = "completed" => status = "complete"
       /\ cli[w] = "failed" => status = "error" \/ reader[w] = "broken"

IInv == TypeOK /\ QueuesTyped /\ WriteToRegistered /\ CauseInv

\* Nobody is not a pair of a broadcaster and a watcher.
LEMMA NobodyWrites == \A g \in Broadcasters, w \in Watchers : <<g, w>> # Nobody
  BY CapacityAssumption DEF Broadcasters

LEMMA Capacities == ChanCap \in Nat \ {0} /\ ConnCap \in Nat \ {0} /\ ProgCap \in Nat \ {0}
  BY CapacityAssumption

LEMMA InitIInv == Init => IInv
<1> SUFFICES ASSUME Init PROVE IInv
  OBVIOUS
<1>0. 0 \in 0..ChanCap
  BY Capacities
<1>1. TypeOK
  BY <1>0, Zenon DEF Init, TypeOK, Broadcasters
<1>2. QueuesTyped
  BY DEF Init, QueuesTyped
<1>3. WriteToRegistered
  BY DEF Init, WriteToRegistered, Broadcasters
<1>4. CauseInv
  BY DEF Init, CauseInv, True, Broadcasters
<1> QED
  BY <1>1, <1>2, <1>3, <1>4 DEF IInv

\* Type correctness.
LEMMA TypeStep ==
  ASSUME TypeOK, [Next]_vars
  PROVE  TypeOK'
<1> USE Capacities, NobodyWrites DEF TypeOK, Broadcasters
<1>1. ASSUME Fail
      PROVE  TypeOK'
  BY <1>1 DEF Fail, download, reports, sockets, streams
<1>2. ASSUME Succeed
      PROVE  TypeOK'
  BY <1>2 DEF Succeed, download, reports, sockets, streams
<1>3. ASSUME SendFinal
      PROVE  TypeOK'
  BY <1>3 DEF SendFinal, download, reports, sockets, streams
<1>4. ASSUME Settle
      PROVE  TypeOK'
  BY <1>4 DEF Settle, download, reports, sockets, streams
<1>5. ASSUME Tell
      PROVE  TypeOK'
  BY <1>5 DEF Tell, download, reports, sockets, streams
<1>6. ASSUME CloseChannel
      PROVE  TypeOK'
  BY <1>6 DEF CloseChannel, download, reports, sockets, streams
<1>7. ASSUME Report
      PROVE  TypeOK'
  BY <1>7 DEF Report, download, reports, sockets, streams
<1>8. ASSUME StopReporting
      PROVE  TypeOK'
  BY <1>8 DEF StopReporting, download, reports, sockets, streams
<1>p. ASSUME Panic
      PROVE  TypeOK'
  <2>1. queue' \in 0..ChanCap
    BY <1>p, CapacityAssumption DEF Panic
  <2> QED
    BY <1>p, <2>1 DEF Panic, streams
<1>9. ASSUME TakeReport
      PROVE  TypeOK'
  BY <1>9 DEF TakeReport, download, reports, sockets, streams
<1>10. ASSUME EndReports
      PROVE  TypeOK'
  BY <1>10 DEF EndReports, download, reports, sockets, streams
<1>11. ASSUME RecordReport
      PROVE  TypeOK'
  BY <1>11 DEF RecordReport, download, reports, sockets, streams
<1>12. ASSUME TellProgress
      PROVE  TypeOK'
  BY <1>12 DEF TellProgress, download, reports, sockets, streams
<1>13. ASSUME NextReport
      PROVE  TypeOK'
  BY <1>13 DEF NextReport, download, reports, sockets, streams
<1>14. ASSUME NEW g \in Broadcasters, NEW w \in Watchers, BeginWrite(g, w)
      PROVE  TypeOK'
  BY <1>14 DEF BeginWrite, download, reports, sockets, streams
<1>15. ASSUME NEW g \in Broadcasters, NEW w \in Watchers, EndWrite(g, w)
      PROVE  TypeOK'
  BY <1>15 DEF EndWrite, download, reports, sockets, streams
<1>16. ASSUME NEW w \in Watchers, Watch(w)
      PROVE  TypeOK'
  BY <1>16 DEF Watch, download, reports, sockets, streams
<1>17. ASSUME NEW w \in Watchers, CannotWatch(w)
      PROVE  TypeOK'
  BY <1>17 DEF CannotWatch, download, reports, sockets, streams
<1>18. ASSUME NEW w \in Watchers, Forget(w)
      PROVE  TypeOK'
  BY <1>18 DEF Forget, download, reports, sockets, streams
<1>19. ASSUME NEW w \in Watchers, Read(w)
      PROVE  TypeOK'
  BY <1>19 DEF Read, download, reports, sockets, streams
<1>20. ASSUME NEW w \in Watchers, Break(w)
      PROVE  TypeOK'
  BY <1>20 DEF Break, download, reports, sockets, streams
<1>21. ASSUME NEW w \in Watchers, ShowFinal(w)
      PROVE  TypeOK'
  BY <1>21 DEF ShowFinal, Return, download, reports, sockets, streams
<1>22. ASSUME NEW w \in Watchers, ShowProgress(w)
      PROVE  TypeOK'
  BY <1>22 DEF ShowProgress, download, reports, sockets, streams
<1>23. ASSUME NEW w \in Watchers, StreamEnds(w)
      PROVE  TypeOK'
  BY <1>23 DEF StreamEnds, Return, download, reports, sockets, streams
<1>24. ASSUME NEW w \in Watchers, ShowError(w)
      PROVE  TypeOK'
  BY <1>24 DEF ShowError, Return, download, reports, sockets, streams
<1>25. ASSUME NEW w \in Watchers, StreamStalls(w)
      PROVE  TypeOK'
  BY <1>25 DEF StreamStalls, Return, download, reports, sockets, streams
<1>26. CASE UNCHANGED vars
  BY <1>26 DEF vars, download, reports, sockets, streams
<1> QED
  BY <1>1, <1>2, <1>3, <1>4, <1>5, <1>6, <1>7, <1>8, <1>p, <1>9, <1>10, <1>11,
     <1>12, <1>13, <1>14, <1>15, <1>16, <1>17, <1>18, <1>19, <1>20, <1>21, <1>22,
     <1>23, <1>24, <1>25, <1>26
     DEF Next, Running, Broadcasting, Writing, Show

\* The queues hold messages.
LEMMA QueuesStep ==
  ASSUME TypeOK, QueuesTyped, [Next]_vars
  PROVE  QueuesTyped'
<1> USE DEF QueuesTyped, Messages
<1>1. ASSUME Fail
      PROVE  QueuesTyped'
  BY <1>1 DEF Fail, download, reports, sockets, streams
<1>2. ASSUME Succeed
      PROVE  QueuesTyped'
  BY <1>2 DEF Succeed, download, reports, sockets, streams
<1>3. ASSUME SendFinal
      PROVE  QueuesTyped'
  BY <1>3 DEF SendFinal, download, reports, sockets, streams
<1>4. ASSUME Settle
      PROVE  QueuesTyped'
  BY <1>4 DEF Settle, download, reports, sockets, streams
<1>5. ASSUME Tell
      PROVE  QueuesTyped'
  BY <1>5 DEF Tell, download, reports, sockets, streams
<1>6. ASSUME CloseChannel
      PROVE  QueuesTyped'
  BY <1>6 DEF CloseChannel, download, reports, sockets, streams
<1>7. ASSUME Report
      PROVE  QueuesTyped'
  BY <1>7 DEF Report, download, reports, sockets, streams
<1>8. ASSUME StopReporting
      PROVE  QueuesTyped'
  BY <1>8 DEF StopReporting, download, reports, sockets, streams
<1>p. ASSUME Panic
      PROVE  QueuesTyped'
  BY <1>p DEF Panic, download, reports, sockets, streams
<1>9. ASSUME TakeReport
      PROVE  QueuesTyped'
  BY <1>9 DEF TakeReport, download, reports, sockets, streams
<1>10. ASSUME EndReports
      PROVE  QueuesTyped'
  BY <1>10 DEF EndReports, download, reports, sockets, streams
<1>11. ASSUME RecordReport
      PROVE  QueuesTyped'
  BY <1>11 DEF RecordReport, download, reports, sockets, streams
<1>12. ASSUME TellProgress
      PROVE  QueuesTyped'
  BY <1>12 DEF TellProgress, download, reports, sockets, streams
<1>13. ASSUME NextReport
      PROVE  QueuesTyped'
  BY <1>13 DEF NextReport, download, reports, sockets, streams
<1>14. ASSUME NEW g \in Broadcasters, NEW w \in Watchers, BeginWrite(g, w)
      PROVE  QueuesTyped'
  BY <1>14 DEF BeginWrite, download, reports, sockets, streams
<1>15. ASSUME NEW g \in Broadcasters, NEW w \in Watchers, EndWrite(g, w)
      PROVE  QueuesTyped'
  <2>1. Message(g) \in Messages
    BY DEF Message, TypeOK, Messages
  <2>2. conn' = [conn EXCEPT ![w] = IF reader[w] = "reading" THEN Append(@, Message(g)) ELSE @]
        /\ prog' = prog
    BY <1>15 DEF EndWrite, streams
  <2>3. Append(conn[w], Message(g)) \in Seq(Messages)
    BY <2>1
  <2> QED
    BY <2>2, <2>3
<1>16. ASSUME NEW w \in Watchers, Watch(w)
      PROVE  QueuesTyped'
  BY <1>16 DEF Watch, download, reports, sockets, streams
<1>17. ASSUME NEW w \in Watchers, CannotWatch(w)
      PROVE  QueuesTyped'
  BY <1>17 DEF CannotWatch, download, reports, sockets, streams
<1>18. ASSUME NEW w \in Watchers, Forget(w)
      PROVE  QueuesTyped'
  BY <1>18 DEF Forget, download, reports, sockets, streams
<1>19. ASSUME NEW w \in Watchers, Read(w)
      PROVE  QueuesTyped'
  <2>1. conn[w] # <<>> /\ conn[w] \in Seq(Messages) /\ prog[w] \in Seq(Messages)
    BY <1>19 DEF Read
  <2>2. /\ conn' = [conn EXCEPT ![w] = Tail(@)] \/ conn' = [conn EXCEPT ![w] = <<>>]
        /\ Tail(conn[w]) \in Seq(Messages)
    BY <2>1, <1>19 DEF Read
  <2>3. prog' = [prog EXCEPT ![w] = Append(@, Head(conn[w]))] \/ prog' = prog
    BY <1>19 DEF Read
  <2>4. Append(prog[w], Head(conn[w])) \in Seq(Messages)
    BY <2>1
  <2>5. conn' \in [Watchers -> Seq(Messages)]
    <3>1. <<>> \in Seq(Messages)
      OBVIOUS
    <3> QED
      BY <2>2, <3>1
  <2>6. prog' \in [Watchers -> Seq(Messages)]
    BY <2>3, <2>4
  <2> QED
    BY <2>5, <2>6
<1>20. ASSUME NEW w \in Watchers, Break(w)
      PROVE  QueuesTyped'
  BY <1>20 DEF Break, download, reports, sockets, streams
<1>21. ASSUME NEW w \in Watchers, ShowFinal(w)
      PROVE  QueuesTyped'
  BY <1>21 DEF ShowFinal, Return, download, reports, sockets, streams
<1>22. ASSUME NEW w \in Watchers, ShowProgress(w)
      PROVE  QueuesTyped'
  BY <1>22 DEF ShowProgress, download, reports, sockets, streams
<1>23. ASSUME NEW w \in Watchers, StreamEnds(w)
      PROVE  QueuesTyped'
  BY <1>23 DEF StreamEnds, Return, download, reports, sockets, streams
<1>24. ASSUME NEW w \in Watchers, ShowError(w)
      PROVE  QueuesTyped'
  BY <1>24 DEF ShowError, Return, download, reports, sockets, streams
<1>25. ASSUME NEW w \in Watchers, StreamStalls(w)
      PROVE  QueuesTyped'
  BY <1>25 DEF StreamStalls, Return, download, reports, sockets, streams
<1>26. CASE UNCHANGED vars
  BY <1>26 DEF vars, download, reports, sockets, streams
<1> QED
  BY <1>1, <1>2, <1>3, <1>4, <1>5, <1>6, <1>7, <1>8, <1>p, <1>9, <1>10, <1>11,
     <1>12, <1>13, <1>14, <1>15, <1>16, <1>17, <1>18, <1>19, <1>20, <1>21, <1>22,
     <1>23, <1>24, <1>25, <1>26
     DEF Next, Running, Broadcasting, Writing, Show

\* Broadcasts and the map of clients.
LEMMA RegisteredStep ==
  ASSUME TypeOK, WriteToRegistered, [Next]_vars
  PROVE  WriteToRegistered'
<1> USE NobodyWrites DEF TypeOK, WriteToRegistered, Broadcasters, ClientsFree
<1>1. ASSUME Fail
      PROVE  WriteToRegistered'
  BY <1>1 DEF Fail, download, reports, sockets, streams
<1>2. ASSUME Succeed
      PROVE  WriteToRegistered'
  BY <1>2 DEF Succeed, download, reports, sockets, streams
<1>3. ASSUME SendFinal
      PROVE  WriteToRegistered'
  BY <1>3 DEF SendFinal, download, reports, sockets, streams
<1>4. ASSUME Settle
      PROVE  WriteToRegistered'
  BY <1>4 DEF Settle, download, reports, sockets, streams
<1>5. ASSUME Tell
      PROVE  WriteToRegistered'
  BY <1>5 DEF Tell, download, reports, sockets, streams
<1>6. ASSUME CloseChannel
      PROVE  WriteToRegistered'
  BY <1>6 DEF CloseChannel, download, reports, sockets, streams
<1>7. ASSUME Report
      PROVE  WriteToRegistered'
  BY <1>7 DEF Report, download, reports, sockets, streams
<1>8. ASSUME StopReporting
      PROVE  WriteToRegistered'
  BY <1>8 DEF StopReporting, download, reports, sockets, streams
<1>p. ASSUME Panic
      PROVE  WriteToRegistered'
  BY <1>p DEF Panic, download, reports, sockets, streams
<1>9. ASSUME TakeReport
      PROVE  WriteToRegistered'
  BY <1>9 DEF TakeReport, download, reports, sockets, streams
<1>10. ASSUME EndReports
      PROVE  WriteToRegistered'
  BY <1>10 DEF EndReports, download, reports, sockets, streams
<1>11. ASSUME RecordReport
      PROVE  WriteToRegistered'
  BY <1>11 DEF RecordReport, download, reports, sockets, streams
<1>12. ASSUME TellProgress
      PROVE  WriteToRegistered'
  BY <1>12 DEF TellProgress, download, reports, sockets, streams
<1>13. ASSUME NextReport
      PROVE  WriteToRegistered'
  BY <1>13 DEF NextReport, download, reports, sockets, streams
<1>14. ASSUME NEW g \in Broadcasters, NEW w \in Watchers, BeginWrite(g, w)
      PROVE  WriteToRegistered'
  BY <1>14 DEF BeginWrite, download, reports, sockets, streams
<1>15. ASSUME NEW g \in Broadcasters, NEW w \in Watchers, EndWrite(g, w)
      PROVE  WriteToRegistered'
  BY <1>15 DEF EndWrite, download, reports, sockets, streams
<1>16. ASSUME NEW w \in Watchers, Watch(w)
      PROVE  WriteToRegistered'
  BY <1>16 DEF Watch, download, reports, sockets, streams
<1>17. ASSUME NEW w \in Watchers, CannotWatch(w)
      PROVE  WriteToRegistered'
  BY <1>17 DEF CannotWatch, download, reports, sockets, streams
<1>18. ASSUME NEW w \in Watchers, Forget(w)
      PROVE  WriteToRegistered'
  BY <1>18 DEF Forget, download, reports, sockets, streams
<1>19. ASSUME NEW w \in Watchers, Read(w)
      PROVE  WriteToRegistered'
  BY <1>19 DEF Read, download, reports, sockets, streams
<1>20. ASSUME NEW w \in Watchers, Break(w)
      PROVE  WriteToRegistered'
  BY <1>20 DEF Break, download, reports, sockets, streams
<1>21. ASSUME NEW w \in Watchers, ShowFinal(w)
      PROVE  WriteToRegistered'
  BY <1>21 DEF ShowFinal, Return, download, reports, sockets, streams
<1>22. ASSUME NEW w \in Watchers, ShowProgress(w)
      PROVE  WriteToRegistered'
  BY <1>22 DEF ShowProgress, download, reports, sockets, streams
<1>23. ASSUME NEW w \in Watchers, StreamEnds(w)
      PROVE  WriteToRegistered'
  BY <1>23 DEF StreamEnds, Return, download, reports, sockets, streams
<1>24. ASSUME NEW w \in Watchers, ShowError(w)
      PROVE  WriteToRegistered'
  BY <1>24 DEF ShowError, Return, download, reports, sockets, streams
<1>25. ASSUME NEW w \in Watchers, StreamStalls(w)
      PROVE  WriteToRegistered'
  BY <1>25 DEF StreamStalls, Return, download, reports, sockets, streams
<1>26. CASE UNCHANGED vars
  BY <1>26 DEF vars, download, reports, sockets, streams
<1> QED
  BY <1>1, <1>2, <1>3, <1>4, <1>5, <1>6, <1>7, <1>8, <1>p, <1>9, <1>10, <1>11,
     <1>12, <1>13, <1>14, <1>15, <1>16, <1>17, <1>18, <1>19, <1>20, <1>21, <1>22,
     <1>23, <1>24, <1>25, <1>26
     DEF Next, Running, Broadcasting, Writing, Show

\* What is said of the end.
LEMMA CauseStep ==
  ASSUME TypeOK, QueuesTyped, WriteToRegistered, CauseInv, [Next]_vars
  PROVE  CauseInv'
<1> USE DEF TypeOK, QueuesTyped, CauseInv, True, Broadcasters
<1>1. ASSUME Fail
      PROVE  CauseInv'
  BY <1>1 DEF Fail, download, reports, sockets, streams
<1>2. ASSUME Succeed
      PROVE  CauseInv'
  BY <1>2 DEF Succeed, download, reports, sockets, streams
<1>3. ASSUME SendFinal
      PROVE  CauseInv'
  BY <1>3 DEF SendFinal, download, reports, sockets, streams
<1>4. ASSUME Settle
      PROVE  CauseInv'
  BY <1>4 DEF Settle, download, reports, sockets, streams
<1>5. ASSUME Tell
      PROVE  CauseInv'
  BY <1>5 DEF Tell, download, reports, sockets, streams
<1>6. ASSUME CloseChannel
      PROVE  CauseInv'
  BY <1>6 DEF CloseChannel, download, reports, sockets, streams
<1>7. ASSUME Report
      PROVE  CauseInv'
  BY <1>7 DEF Report, download, reports, sockets, streams
<1>8. ASSUME StopReporting
      PROVE  CauseInv'
  BY <1>8 DEF StopReporting, download, reports, sockets, streams
<1>p. ASSUME Panic
      PROVE  CauseInv'
  BY <1>p DEF Panic, download, reports, sockets, streams
<1>9. ASSUME TakeReport
      PROVE  CauseInv'
  BY <1>9 DEF TakeReport, download, reports, sockets, streams
<1>10. ASSUME EndReports
      PROVE  CauseInv'
  BY <1>10 DEF EndReports, download, reports, sockets, streams
<1>11. ASSUME RecordReport
      PROVE  CauseInv'
  BY <1>11 DEF RecordReport, download, reports, sockets, streams
<1>12. ASSUME TellProgress
      PROVE  CauseInv'
  BY <1>12 DEF TellProgress, download, reports, sockets, streams
<1>13. ASSUME NextReport
      PROVE  CauseInv'
  BY <1>13 DEF NextReport, download, reports, sockets, streams
<1>14. ASSUME NEW g \in Broadcasters, NEW w \in Watchers, BeginWrite(g, w)
      PROVE  CauseInv'
  BY <1>14 DEF BeginWrite, download, reports, sockets, streams
<1>15. ASSUME NEW g \in Broadcasters, NEW w \in Watchers, EndWrite(g, w)
      PROVE  CauseInv'
  <2>1. True(Message(g))
    <3>1. CASE g = "report"
      BY <3>1 DEF Message
    <3>2. CASE g = "run"
      <4>1. writer = <<g, w>> /\ writer # Nobody
        BY NobodyWrites, <1>15 DEF EndWrite
      <4>2. w \in todo["run"]
        BY <3>2, <4>1 DEF WriteToRegistered
      <4>3. run = "telling"
        BY <4>2
      <4> QED
        BY <3>2, <4>3 DEF Message
    <3> QED
      BY <3>1, <3>2
  <2>2. /\ conn[w] \in Seq(Messages)
        /\ \A x \in Watchers \ {w} : conn'[x] = conn[x]
        /\ conn'[w] = conn[w] \/ conn'[w] = Append(conn[w], Message(g))
    BY <1>15 DEF EndWrite
  <2>3. /\ status' = status /\ run' = run /\ shut' = shut
        /\ msg' = msg /\ prog' = prog
        /\ reader' = reader /\ err' = err /\ cli' = cli
        /\ todo'["run"] \subseteq todo["run"]
    BY <1>15 DEF EndWrite, download, reports, streams
  <2>4. \A i \in 1..Len(Append(conn[w], Message(g))) :
          True(Append(conn[w], Message(g))[i])
    <3> HIDE DEF True
    <3> SUFFICES ASSUME NEW i \in 1..Len(Append(conn[w], Message(g)))
                 PROVE  True(Append(conn[w], Message(g))[i])
      OBVIOUS
    <3>1. CASE i = Len(conn[w]) + 1
      BY <2>1, <2>2, <3>1
    <3>2. CASE i \in 1..Len(conn[w])
      <4>1. Append(conn[w], Message(g))[i] = conn[w][i]
        BY <2>2, <3>2
      <4>2. True(conn[w][i])
        BY <3>2 DEF CauseInv
      <4> QED
        BY <4>1, <4>2
    <3>3. Len(conn[w]) \in Nat /\ Len(Append(conn[w], Message(g))) = Len(conn[w]) + 1
      BY <2>2
    <3> QED
      BY <3>1, <3>2, <3>3
  <2>5. \A x \in Watchers : \A i \in 1..Len(conn'[x]) : True(conn'[x][i])
    <3> HIDE DEF True
    <3>1. \A x \in Watchers : \A i \in 1..Len(conn[x]) : True(conn[x][i])
      BY DEF CauseInv
    <3> QED
      BY <2>2, <2>4, <3>1
  <2> QED
    BY <2>3, <2>5
<1>16. ASSUME NEW w \in Watchers, Watch(w)
      PROVE  CauseInv'
  BY <1>16 DEF Watch, download, reports, sockets, streams
<1>17. ASSUME NEW w \in Watchers, CannotWatch(w)
      PROVE  CauseInv'
  BY <1>17 DEF CannotWatch, download, reports, sockets, streams
<1>18. ASSUME NEW w \in Watchers, Forget(w)
      PROVE  CauseInv'
  BY <1>18 DEF Forget, download, reports, sockets, streams
<1>19. ASSUME NEW w \in Watchers, Read(w)
      PROVE  CauseInv'
  <2>1. /\ conn[w] # <<>> /\ conn[w] \in Seq(Messages) /\ prog[w] \in Seq(Messages)
        /\ conn' = [conn EXCEPT ![w] = Tail(@)] \/ conn' = [conn EXCEPT ![w] = <<>>]
        /\ prog' = [prog EXCEPT ![w] = Append(@, Head(conn[w]))] \/ prog' = prog
        /\ run' = run /\ status' = status /\ shut' = shut /\ msg' = msg
        /\ todo' = todo /\ cli' = cli
        /\ reader[w] = "reading"
        /\ \A x \in Watchers \ {w} : reader'[x] = reader[x]
        /\ err' = err \/ (err' = err \cup {w} /\ Head(conn[w]) = "error")
    BY <1>19 DEF Read, download, reports
  <2>2. True(Head(conn[w]))
    <3>1. Head(conn[w]) = conn[w][1] /\ 1 \in 1..Len(conn[w])
      BY <2>1
    <3> HIDE DEF True
    <3>2. \A i \in 1..Len(conn[w]) : True(conn[w][i])
      BY DEF CauseInv
    <3> QED
      BY <3>1, <3>2
  <2>3. \A i \in 1..Len(Tail(conn[w])) : True(Tail(conn[w])[i])
    <3> HIDE DEF True
    <3>1. \A i \in 1..Len(conn[w]) : True(conn[w][i])
      BY DEF CauseInv
    <3>2. \A i \in 1..Len(Tail(conn[w])) :
            i + 1 \in 1..Len(conn[w]) /\ Tail(conn[w])[i] = conn[w][i + 1]
      BY <2>1
    <3> QED
      BY <3>1, <3>2
  <2>4. \A i \in 1..Len(Append(prog[w], Head(conn[w]))) :
          True(Append(prog[w], Head(conn[w]))[i])
    <3> HIDE DEF True
    <3>1. \A i \in 1..Len(prog[w]) : True(prog[w][i])
      BY DEF CauseInv
    <3>2. \A i \in 1..Len(Append(prog[w], Head(conn[w]))) :
            \/ i \in 1..Len(prog[w]) /\ Append(prog[w], Head(conn[w]))[i] = prog[w][i]
            \/ Append(prog[w], Head(conn[w]))[i] = Head(conn[w])
      BY <2>1
    <3> QED
      BY <2>2, <3>1, <3>2
  <2>5. \A x \in Watchers :
          /\ \A i \in 1..Len(conn'[x]) : True(conn'[x][i])
          /\ \A i \in 1..Len(prog'[x]) : True(prog'[x][i])
    <3> HIDE DEF True
    <3>1. \A x \in Watchers :
            /\ \A i \in 1..Len(conn[x]) : True(conn[x][i])
            /\ \A i \in 1..Len(prog[x]) : True(prog[x][i])
      BY DEF CauseInv
    <3>2. \A x \in Watchers \ {w} : conn'[x] = conn[x] /\ prog'[x] = prog[x]
      BY <2>1
    <3>3. conn'[w] = Tail(conn[w]) \/ conn'[w] = <<>>
      <4>1. conn \in [Watchers -> Seq(Messages)]
        BY DEF QueuesTyped
      <4> QED
        BY <2>1, <4>1
    <3>4. prog'[w] = prog[w] \/ prog'[w] = Append(prog[w], Head(conn[w]))
      BY <2>1
    <3> QED
      <4>1. ASSUME NEW x \in Watchers \ {w}
            PROVE  /\ \A i \in 1..Len(conn'[x]) : True(conn'[x][i])
                   /\ \A i \in 1..Len(prog'[x]) : True(prog'[x][i])
        <5>1. conn'[x] = conn[x] /\ prog'[x] = prog[x]
          BY <3>2
        <5> QED
          BY <3>1, <5>1, Zenon
      <4>2. \A i \in 1..Len(conn'[w]) : True(conn'[w][i])
        <5>1. CASE conn'[w] = Tail(conn[w])
          BY <2>3, <5>1, Zenon
        <5>2. CASE conn'[w] = <<>>
          <6>1. \A i \in 1..Len(conn'[w]) : FALSE
            BY <5>2
          <6> QED
            BY <6>1
        <5> QED
          BY <3>3, <5>1, <5>2
      <4>3. \A i \in 1..Len(prog'[w]) : True(prog'[w][i])
        <5>1. CASE prog'[w] = prog[w]
          BY <3>1, <5>1, Zenon
        <5>2. CASE prog'[w] = Append(prog[w], Head(conn[w]))
          BY <2>4, <5>2, Zenon
        <5> QED
          BY <3>4, <5>1, <5>2
      <4> QED
        BY <4>1, <4>2, <4>3, Zenon
  <2>6. True(msg)' /\ (status' = "downloading" <=> run' = "fetch")
        /\ (shut' => run' \in {"ended", "crashed"})
        /\ (todo'["run"] # {} => run' = "telling")
    BY <2>1
  <2>7. \A x \in Watchers :
          /\ cli'[x] = "posted" => reader'[x] = "none"
          /\ x \in err' => status' = "error" \/ reader'[x] = "broken"
          /\ cli'[x] = "completed" => status' = "complete"
          /\ cli'[x] = "failed" => status' = "error" \/ reader'[x] = "broken"
    BY <2>1, <2>2
  <2> QED
    BY <2>1, <2>5, <2>6, <2>7
<1>20. ASSUME NEW w \in Watchers, Break(w)
      PROVE  CauseInv'
  BY <1>20 DEF Break, download, reports, sockets, streams
<1>21. ASSUME NEW w \in Watchers, ShowFinal(w)
      PROVE  CauseInv'
  BY <1>21 DEF ShowFinal, Return, download, reports, sockets, streams
<1>22. ASSUME NEW w \in Watchers, ShowProgress(w)
      PROVE  CauseInv'
  BY <1>22 DEF ShowProgress, download, reports, sockets, streams
<1>23. ASSUME NEW w \in Watchers, StreamEnds(w)
      PROVE  CauseInv'
  BY <1>23 DEF StreamEnds, Return, download, reports, sockets, streams
<1>24. ASSUME NEW w \in Watchers, ShowError(w)
      PROVE  CauseInv'
  BY <1>24 DEF ShowError, Return, download, reports, sockets, streams
<1>25. ASSUME NEW w \in Watchers, StreamStalls(w)
      PROVE  CauseInv'
  BY <1>25 DEF StreamStalls, Return, download, reports, sockets, streams
<1>26. CASE UNCHANGED vars
  BY <1>26 DEF vars, download, reports, sockets, streams
<1> QED
  BY <1>1, <1>2, <1>3, <1>4, <1>5, <1>6, <1>7, <1>8, <1>p, <1>9, <1>10, <1>11,
     <1>12, <1>13, <1>14, <1>15, <1>16, <1>17, <1>18, <1>19, <1>20, <1>21, <1>22,
     <1>23, <1>24, <1>25, <1>26
     DEF Next, Running, Broadcasting, Writing, Show

THEOREM InvariantHolds == Spec => []IInv
<1>1. IInv /\ [Next]_vars => IInv'
  BY TypeStep, QueuesStep, RegisteredStep, CauseStep DEF IInv
<1> QED
  BY InitIInv, <1>1, PTL DEF Spec

\* No client is taken off the map, and no connection closed, while a broadcast
\* still has to write to it (server.go:709-719, 869-884).
THEOREM ClientsStayRegistered == Spec => []StreamInv
<1>1. IInv => StreamInv
  BY DEF IInv, StreamInv
<1> QED
  BY InvariantHolds, <1>1, PTL

\* A command line says "completed" only of a download that has succeeded, and
\* fails only if the download or its connection did (server.go:840).
THEOREM VerdictsHaveCauses == Spec => []VerdictHasCause
<1>1. IInv => VerdictHasCause
  BY DEF IInv, CauseInv, VerdictHasCause
<1> QED
  BY InvariantHolds, <1>1, PTL
================================================================================
