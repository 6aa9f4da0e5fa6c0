--------------------------- MODULE HTTPFallbackProofs ---------------------------
(* For any number of workers and attempts and any contents of the URL: the pool *)
(* hands out every chunk once, no worker ever waits for room in errChan, a nil  *)
(* result means that every chunk was answered, and the file holds nothing but   *)
(* what HybridDownload expects of a transfer.                                   *)
EXTENDS HTTPFallback, FiniteSetTheorems, SequenceTheorems, TLAPS

\* The workers that have not returned, and those with a chunk in hand.
Running == {w \in Workers : worker[w] # Exited}
Holding == {w \in Workers : worker[w].chunk # 0}

\* A worker is between jobs, gone, or has a chunk in hand and attempts left if it
\* is to try again.
HandInv ==
  \A w \in Workers :
    \/ worker[w] \in {Idle, Exited}
    \/ /\ worker[w].state \in {"fetch", "backoff", "report"}
       /\ worker[w].chunk # 0
       /\ worker[w].state = "backoff" => worker[w].attempt < MaxRetries

\* Every worker reports once at most, and every job taken is done, reported or in
\* hand.
CountInv ==
  /\ errs + Cardinality(Running) <= Cardinality(Workers)
  /\ downloaded + errs + Cardinality(Holding) = nextJob - 1

\* The pool runs while main waits for it, and not before or after. A worker that
\* has returned without an error has seen the queue empty.
PhaseInv ==
  /\ pc # "wait" => Running = {}
  /\ pc \in {"head", "open", "copy", "create"} => nextJob = 1
  /\ pc \in {"head", "open", "copy"} => ~supportsRange
  /\ pc = "done" <=> result # "none"
  /\ pc = "wait" /\ errs = 0 /\ Running # Workers => nextJob = count + 1

\* What the file holds, by where DownloadFile is.
BodyInv ==
  /\ pc \in {"head", "open", "create"} => output \in Leftovers
  /\ pc = "copy" => output \in PrefixBodies(origin)
  /\ pc = "wait" => output \in RangedBodies(origin, size, count, Hole)

IInv ==
  /\ PoolInv /\ NilMeansEveryChunk /\ KeepsToBodies
  /\ HandInv /\ CountInv /\ PhaseInv /\ BodyInv
-------------------------------------------------------------------------------
\* The announced size and count are numbers of chunks.
LEMMA Sizes ==
  ASSUME TypeOK
  PROVE  size \in Nat /\ count \in Nat
<1>1. <<size, count>> \in Nat \X Nat
  BY PoolAssumption DEF TypeOK
<1>2. QED
  BY <1>1

\* The workers are counted by natural numbers.
LEMMA Counted ==
  /\ \A S \in SUBSET Workers : IsFiniteSet(S) /\ Cardinality(S) \in Nat
  /\ Cardinality(Workers) \in Nat
  /\ \A S \in SUBSET Workers : Cardinality(S) <= Cardinality(Workers)
<1>1. IsFiniteSet(Workers)
  BY PoolAssumption
<1>2. ASSUME NEW S \in SUBSET Workers
      PROVE  /\ IsFiniteSet(S) /\ Cardinality(S) \in Nat
             /\ Cardinality(S) <= Cardinality(Workers)
  BY <1>1, FS_Subset, FS_CardinalityType
<1>3. QED
  BY <1>1, <1>2, FS_CardinalityType

\* Counting one worker less.
LEMMA OneLess ==
  ASSUME NEW S \in SUBSET Workers, NEW w \in S
  PROVE  /\ S \ {w} \in SUBSET Workers
         /\ Cardinality(S \ {w}) = Cardinality(S) - 1
  BY Counted, FS_RemoveElement

\* Counting one worker more.
LEMMA OneMore ==
  ASSUME NEW S \in SUBSET Workers, NEW w \in Workers, w \notin S
  PROVE  /\ S \cup {w} \in SUBSET Workers
         /\ Cardinality(S \cup {w}) = Cardinality(S) + 1
  BY Counted, FS_AddElement
-------------------------------------------------------------------------------
\* The bodies.

\* One more piece of the body.
LEMMA PrefixGrows ==
  ASSUME NEW o, o \in Seq(Range(o)), NEW p \in PrefixBodies(o), Len(p) < Len(o)
  PROVE  Append(p, o[Len(p) + 1]) \in PrefixBodies(o)
<1>0. Len(o) \in Nat
  BY LenProperties
<1>1. PICK n \in 0..Len(o) : p = SubSeq(o, 1, n)
  BY DEF PrefixBodies
<1>2. \A i \in 1..n : o[i] \in Range(o)
  BY <1>0, ElementOfSeq
<1>3. Len(p) = n /\ p \in Seq(Range(o))
  BY <1>0, <1>1, <1>2, SubSeqProperties
<1>4. n + 1 \in 0..Len(o) /\ n + 1 \in 1..Len(o) /\ 1 \in 1..Len(o)
  BY <1>0, <1>3
<1>5. SubSeq(o, 1, n + 1) = p \o <<o[n + 1]>>
  <2>1. n + 1 \in 1..Len(o) /\ (n + 1) - 1 = n
    BY <1>0, <1>4
  <2>2. SubSeq(o, 1, n + 1) = SubSeq(o, 1, (n + 1) - 1) \o <<o[n + 1]>>
    BY <1>4, SubSeqRecursiveSecond
  <2>3. QED
    BY <1>1, <2>1, <2>2
<1>6. o[n + 1] \in Range(o)
  BY <1>4, ElementOfSeq
<1>7. Append(p, o[n + 1]) = p \o <<o[n + 1]>>
  BY <1>3, <1>6, AppendIsConcat
<1>8. QED
  BY <1>3, <1>4, <1>5, <1>7 DEF PrefixBodies

\* The empty body is a prefix of every other.
LEMMA EmptyPrefix ==
  ASSUME NEW o, o \in Seq(Range(o))
  PROVE  <<>> \in PrefixBodies(o)
<1>1. Len(o) \in Nat /\ SubSeq(o, 1, 0) = <<>>
  BY LenProperties, SubSeqEmpty
<1>2. QED
  BY <1>1 DEF PrefixBodies

\* A file just truncated to the announced size is all holes.
LEMMA HolesAreRanged ==
  ASSUME TypeOK
  PROVE  [i \in 1..size |-> Hole] \in RangedBodies(origin, size, count, Hole)
<1> DEFINE file == [i \in 1..size |-> Hole]
<1>1. size \in Nat
  BY Sizes
<1>2. file \in [1..size -> Range(origin) \cup {Hole}]
  OBVIOUS
<1>3. Len(file) = size
  BY <1>1
<1>4. RangedBody(file, origin, count, Hole)
  BY <1>3 DEF RangedBody
<1>5. QED
  BY <1>2, <1>4 DEF RangedBodies, Lengths

\* What a request writes for its chunk keeps the file a ranged body: a chunk
\* beyond its end lengthens it no further than the announced count.
LEMMA WriteRanged ==
  ASSUME TypeOK, output \in RangedBodies(origin, size, count, Hole),
         NEW k \in 1..count, NEW bytes \in Answers(k)
  PROVE  WriteAt(k, bytes) \in RangedBodies(origin, size, count, Hole)
<1>0. size \in Nat /\ count \in Nat
  BY Sizes
<1>1. origin \in Seq(Range(origin)) /\ Len(origin) \in Nat
  BY PoolAssumption, LenProperties DEF TypeOK
<1>2. \/ bytes = Hole
      \/ k <= Len(origin) /\ bytes = origin[k]
      \/ origin # <<>> /\ bytes = origin[1]
  BY DEF Answers
<1>3. bytes \in Range(origin) \cup {Hole}
  <2>1. k <= Len(origin) => origin[k] \in Range(origin)
    BY <1>0, <1>1, ElementOfSeq
  <2>2. origin # <<>> => origin[1] \in Range(origin)
    BY <1>1, EmptySeq, ElementOfSeq
  <2>3. QED
    BY <1>2, <2>1, <2>2
<1>4. PICK n \in Lengths(size, count) :
        /\ output \in [1..n -> Range(origin) \cup {Hole}]
        /\ RangedBody(output, origin, count, Hole)
  BY DEF RangedBodies
<1>5. n \in Nat /\ Len(output) = n
  BY <1>0, <1>4 DEF Lengths
<1> DEFINE m == IF k <= n THEN n ELSE k
           written == [i \in 1..m |-> IF i = k THEN bytes
                                      ELSE IF i <= n THEN output[i] ELSE Hole]
<1>6. WriteAt(k, bytes) = written
  BY <1>5 DEF WriteAt
<1>7. m \in Nat /\ m \in Lengths(size, count) /\ k <= count
  BY <1>0, <1>4, <1>5 DEF Lengths
<1>8. written \in [1..m -> Range(origin) \cup {Hole}]
  BY <1>3, <1>4, <1>5, <1>7
<1>9. Len(written) = m
  BY <1>7
<1>10. ASSUME NEW i \in 1..m
       PROVE  \/ written[i] = Hole
              \/ /\ i <= count
                 /\ \/ i <= Len(origin) /\ written[i] = origin[i]
                    \/ origin # <<>> /\ written[i] = origin[1]
  <2>1. CASE i = k
    BY <1>2, <1>7, <2>1
  <2>2. CASE i # k /\ i <= n
    <3>1. written[i] = output[i] /\ i \in 1..n
      BY <1>5, <1>7, <2>2
    <3>2. QED
      BY <1>4, <1>5, <3>1 DEF RangedBody
  <2>3. CASE i # k /\ ~(i <= n)
    BY <2>3
  <2>4. QED
    BY <2>1, <2>2, <2>3
<1>11. RangedBody(written, origin, count, Hole)
  <2> HIDE DEF written, m
  <2>1. QED
    BY <1>9, <1>10 DEF RangedBody
<1>12. QED
  <2> HIDE DEF written, m
  <2>1. QED
    BY <1>6, <1>7, <1>8, <1>11 DEF RangedBodies
-------------------------------------------------------------------------------
\* The inductive invariant.

LEMMA InitIInv == Init => IInv
<1> SUFFICES ASSUME Init PROVE IInv
  OBVIOUS
<1>1. <<size, count>> \in Announced
  <2>1. PICK m \in Announced : size = m[1] /\ count = m[2]
    BY DEF Init
  <2>2. m = <<m[1], m[2]>>
    BY PoolAssumption
  <2>3. QED
    BY <2>1, <2>2
<1>2. size \in Nat /\ count \in Nat
  BY <1>1, PoolAssumption
<1>3. \A w \in Workers : worker[w] = Exited
  BY DEF Init
<1>4. Running = {} /\ Holding = {}
  BY <1>3 DEF Running, Holding, Exited
<1>5. Cardinality(Running) = 0 /\ Cardinality(Holding) = 0
  BY <1>4, FS_EmptySet
<1>6. TypeOK
  <2>1. 0 \in 0..Cardinality(Workers) /\ 0 \in 0..count /\ 1 \in 1..(count + 1)
    BY <1>2, Counted
  <2>2. Exited \in [state: {"idle", "fetch", "backoff", "report", "exited"},
                    chunk: 0..count, attempt: 0..MaxRetries]
    BY <1>2, PoolAssumption DEF Exited
  <2>3. worker \in [Workers ->
          [state: {"idle", "fetch", "backoff", "report", "exited"},
           chunk: 0..count, attempt: 0..MaxRetries]]
    BY <2>2 DEF Init
  <2>4. QED
    BY <1>1, <2>1, <2>3 DEF Init, TypeOK
<1>7. CountInv
  BY <1>5, Counted DEF Init, CountInv
<1>8. ReportNeverBlocks /\ DisjointJobs /\ HandInv
  BY <1>3 DEF ReportNeverBlocks, DisjointJobs, HandInv, Exited
<1>9. PhaseInv /\ BodyInv /\ NilMeansEveryChunk /\ KeepsToBodies
  BY <1>4 DEF Init, PhaseInv, BodyInv, NilMeansEveryChunk, KeepsToBodies
<1>10. QED
  BY <1>6, <1>7, <1>8, <1>9 DEF IInv, PoolInv

\* While main does not wait for it the pool stands still; its part of the
\* invariant stays.
LEMMA PoolStill ==
  ASSUME IInv, UNCHANGED <<Metadata, Pool>>,
         supportsRange' \in BOOLEAN, cancelled' \in BOOLEAN,
         pc' \in {"head", "open", "copy", "create", "wait", "done"},
         result' \in {"none", "nil", "error"}
  PROVE  /\ PoolInv' /\ HandInv' /\ CountInv'
         /\ Running' = Running /\ Holding' = Holding
  BY DEF IInv, PoolInv, TypeOK, ReportNeverBlocks, ErrChanCapacity, DisjointJobs,
         HandInv, CountInv, Running, Holding, Metadata, Pool

\* A step of main that returns or goes on, with the pool at rest.
LEMMA MainKeeps ==
  ASSUME IInv, CheckRangeSupport \/ OpenBody \/ CopyBuffer \/ CopyEnds \/ CopyFails
               \/ CreateFails
  PROVE  IInv'
<1>1. /\ UNCHANGED <<Metadata, Pool>> /\ UNCHANGED cancelled
      /\ supportsRange' \in BOOLEAN
      /\ pc' \in {"head", "open", "copy", "create", "wait", "done"}
      /\ result' \in {"none", "nil", "error"}
  BY DEF IInv, PoolInv, TypeOK, CheckRangeSupport, OpenBody, CopyBuffer, CopyEnds,
         CopyFails, CreateFails, Return, Given
<1>2. PoolInv' /\ HandInv' /\ CountInv' /\ Running' = Running
  BY <1>1, PoolStill DEF IInv, PoolInv, TypeOK
<1>3. /\ UNCHANGED <<origin, size, count, nextJob, worker, downloaded, errs>>
  BY <1>1 DEF Metadata, Pool
<1>4. origin \in Seq(Range(origin))
  BY PoolAssumption DEF IInv, PoolInv, TypeOK
<1>5. <<>> \in PrefixBodies(origin)
  BY <1>4, EmptyPrefix
<1>6. PhaseInv'
  BY <1>2, <1>3
  DEF IInv, PhaseInv, CheckRangeSupport, OpenBody, CopyBuffer, CopyEnds,
      CopyFails, CreateFails, Return, Given
<1>7. BodyInv'
  <2>1. CASE CopyBuffer
    <3>1. output' \in PrefixBodies(origin)
      BY <2>1, <1>4, PrefixGrows DEF CopyBuffer, IInv, BodyInv
    <3>2. QED
      BY <2>1, <1>3, <3>1 DEF CopyBuffer, BodyInv
  <2>2. CASE CheckRangeSupport \/ OpenBody \/ CopyEnds \/ CopyFails \/ CreateFails
    BY <2>2, <1>3, <1>5
    DEF IInv, BodyInv, CheckRangeSupport, OpenBody, CopyEnds, CopyFails,
        CreateFails, Return
  <2>3. QED
    BY <2>1, <2>2
<1>8. NilMeansEveryChunk'
  BY <1>3 DEF IInv, NilMeansEveryChunk, PhaseInv, CheckRangeSupport, OpenBody,
      CopyBuffer, CopyEnds, CopyFails, CreateFails, Return, Given
<1>9. KeepsToBodies'
  BY <1>3, <1>5
  DEF IInv, KeepsToBodies, BodyInv, PhaseInv, HTTPBodies, CheckRangeSupport,
      OpenBody, CopyBuffer, CopyEnds, CopyFails, CreateFails, Return
<1>10. QED
  BY <1>2, <1>6, <1>7, <1>8, <1>9 DEF IInv

\* The file is truncated and the workers start.
LEMMA CreateFileKeeps ==
  ASSUME IInv, CreateFile
  PROVE  IInv'
<1>1. /\ UNCHANGED <<origin, size, count, supportsRange, nextJob, downloaded,
                     errs, result, cancelled>>
      /\ pc = "create" /\ pc' = "wait"
      /\ output' = [i \in 1..size |-> Hole]
      /\ worker' = [w \in Workers |-> Idle]
  BY DEF CreateFile, Given, Metadata
<1>2. size \in Nat /\ count \in Nat
  BY Sizes DEF IInv, PoolInv
<1>3. nextJob = 1 /\ Running = {} /\ result = "none"
  BY <1>1 DEF IInv, PhaseInv, PoolInv, TypeOK
<1>4. errs \in Nat /\ downloaded \in Nat
  BY <1>2, Counted DEF IInv, PoolInv, TypeOK
<1>5. Holding = {}
  BY <1>3 DEF Running, Holding, Exited
<1>6. errs = 0 /\ downloaded = 0
  <2>1. Cardinality(Holding) = 0
    BY <1>5, FS_EmptySet
  <2>2. downloaded + errs + Cardinality(Holding) = nextJob - 1
    BY DEF IInv, CountInv
  <2>3. QED
    BY <1>3, <1>4, <2>1, <2>2
<1>7. Running' = Workers /\ Holding' = {}
  BY <1>1 DEF Running, Holding, Idle, Exited
<1>8. CountInv'
  BY <1>1, <1>3, <1>6, <1>7, Counted, FS_EmptySet DEF CountInv
<1>9. HandInv' /\ DisjointJobs' /\ ReportNeverBlocks'
  BY <1>1 DEF HandInv, DisjointJobs, ReportNeverBlocks, Idle
<1>10. TypeOK'
  <2>1. Idle \in [state: {"idle", "fetch", "backoff", "report", "exited"},
                  chunk: 0..count, attempt: 0..MaxRetries]
    BY <1>2, PoolAssumption DEF Idle
  <2>2. worker' \in [Workers ->
          [state: {"idle", "fetch", "backoff", "report", "exited"},
           chunk: 0..count, attempt: 0..MaxRetries]]
    BY <1>1, <2>1
  <2>3. QED
    BY <1>1, <2>2 DEF IInv, PoolInv, TypeOK
<1>11. PhaseInv'
  BY <1>1, <1>3, <1>7 DEF PhaseInv
<1>12. BodyInv'
  BY <1>1, HolesAreRanged DEF BodyInv, IInv, PoolInv
<1>13. NilMeansEveryChunk' /\ KeepsToBodies'
  BY <1>1, <1>3 DEF NilMeansEveryChunk, KeepsToBodies
<1>14. QED
  BY <1>8, <1>9, <1>10, <1>11, <1>12, <1>13 DEF IInv, PoolInv

\* All workers have returned. When none reported an error the last of them found
\* the queue empty, and no chunk is in hand: every chunk was downloaded.
LEMMA JoinKeeps ==
  ASSUME IInv, Join
  PROVE  IInv'
<1>1. /\ UNCHANGED <<origin, size, count, supportsRange, output, nextJob, worker,
                     downloaded, errs, cancelled>>
      /\ pc = "wait" /\ pc' = "done"
      /\ result' = IF errs > 0 THEN "error" ELSE "nil"
      /\ \A w \in Workers : worker[w] = Exited
  BY DEF Join, Return, Given, Metadata, Pool
<1>2. PoolInv' /\ HandInv' /\ CountInv' /\ Running' = Running /\ Holding' = Holding
  BY <1>1, PoolStill DEF IInv, PoolInv, TypeOK, Metadata, Pool
<1>3. Running = {} /\ Holding = {}
  BY <1>1 DEF Running, Holding, Exited
<1>4. count \in Nat /\ errs \in Nat /\ downloaded \in Nat
  BY Sizes, Counted DEF IInv, PoolInv, TypeOK
<1>5. errs = 0 => downloaded = count
  <2>1. SUFFICES ASSUME errs = 0 PROVE downloaded = count
    OBVIOUS
  <2>2. nextJob = count + 1
    BY <1>1, <1>3, <2>1, PoolAssumption DEF IInv, PhaseInv
  <2>3. downloaded + errs + Cardinality(Holding) = nextJob - 1
    BY DEF IInv, CountInv
  <2>4. Cardinality(Holding) = 0
    BY <1>3, FS_EmptySet
  <2>5. QED
    BY <1>4, <2>1, <2>2, <2>3, <2>4
<1>6. NilMeansEveryChunk'
  BY <1>1, <1>4, <1>5 DEF NilMeansEveryChunk
<1>7. KeepsToBodies' /\ BodyInv'
  BY <1>1 DEF IInv, BodyInv, KeepsToBodies, HTTPBodies
<1>8. PhaseInv'
  BY <1>1, <1>2, <1>3 DEF IInv, PhaseInv
<1>9. QED
  BY <1>2, <1>6, <1>7, <1>8 DEF IInv

\* The caller gives up: nobody has noticed yet.
LEMMA CancelKeeps ==
  ASSUME IInv, Cancel
  PROVE  IInv'
<1>1. /\ UNCHANGED <<origin, size, count, supportsRange, pc, output, nextJob,
                     worker, downloaded, errs, result>>
      /\ cancelled' \in BOOLEAN
  BY DEF Cancel, Given, Metadata, Pool
<1>2. PoolInv' /\ HandInv' /\ CountInv' /\ Running' = Running
  BY <1>1, PoolStill DEF IInv, PoolInv, TypeOK, Metadata, Pool
<1>3. PhaseInv' /\ BodyInv' /\ NilMeansEveryChunk' /\ KeepsToBodies'
  BY <1>1, <1>2 DEF IInv, PhaseInv, BodyInv, NilMeansEveryChunk, KeepsToBodies
<1>4. QED
  BY <1>2, <1>3 DEF IInv

WorkerStates ==
  [state: {"idle", "fetch", "backoff", "report", "exited"},
   chunk: 0..count, attempt: 0..MaxRetries]

\* Handed(r) is 1 for a worker r with a chunk in hand.
Handed(r) == IF r.chunk # 0 THEN 1 ELSE 0

\* A worker that runs does so under a main that waits, and the job in its hand is
\* one it has taken.
LEMMA RunningWorker ==
  ASSUME IInv, NEW w \in Workers, worker[w] # Exited
  PROVE  /\ pc = "wait" /\ result = "none"
         /\ w \in Running
         /\ worker[w] \in WorkerStates
         /\ worker[w].chunk < nextJob
         /\ nextJob \in Nat /\ 1 <= nextJob /\ nextJob <= count + 1
         /\ count \in Nat /\ downloaded \in Nat /\ errs \in Nat
<1>1. w \in Running
  BY DEF Running
<1>2. pc = "wait" /\ result = "none"
  BY <1>1 DEF IInv, PhaseInv, PoolInv, TypeOK
<1>3. count \in Nat
  BY Sizes DEF IInv, PoolInv
<1>4. worker[w] \in WorkerStates
  BY DEF IInv, PoolInv, TypeOK, WorkerStates
<1>5. nextJob \in 1..(count + 1) /\ downloaded \in 0..count
      /\ errs \in 0..Cardinality(Workers)
  BY DEF IInv, PoolInv, TypeOK
<1>6. worker[w].chunk < nextJob
  <2>1. worker[w].chunk = 0 \/ worker[w].chunk < nextJob
    BY DEF IInv, PoolInv, DisjointJobs
  <2>2. QED
    BY <1>3, <1>5, <2>1
<1>7. QED
  BY <1>1, <1>2, <1>3, <1>4, <1>5, <1>6, Counted

\* The counts after worker w has gone from its state to x.
LEMMA CountsMove ==
  ASSUME IInv, NEW w \in Workers, worker[w] # Exited, NEW x \in WorkerStates,
         worker' = [worker EXCEPT ![w] = x]
  PROVE  /\ \A v \in Workers : worker'[v] = IF v = w THEN x ELSE worker[v]
         /\ Cardinality(Running') =
              Cardinality(Running) - (IF x = Exited THEN 1 ELSE 0)
         /\ Cardinality(Holding') =
              Cardinality(Holding) - Handed(worker[w]) + Handed(x)
         /\ Cardinality(Running) \in Nat /\ Cardinality(Holding) \in Nat
<1>1. \A v \in Workers : worker'[v] = IF v = w THEN x ELSE worker[v]
  BY DEF IInv, PoolInv, TypeOK
<1>2. Running \in SUBSET Workers /\ Holding \in SUBSET Workers /\ w \in Running
  BY DEF Running, Holding
<1>3. Cardinality(Running') = Cardinality(Running) - (IF x = Exited THEN 1 ELSE 0)
  <2>1. CASE x = Exited
    <3>1. Running' = Running \ {w}
      BY <1>1, <2>1 DEF Running
    <3>2. QED
      BY <1>2, <2>1, <3>1, OneLess
  <2>2. CASE x # Exited
    <3>1. Running' = Running
      BY <1>1, <2>2 DEF Running
    <3>2. Cardinality(Running) \in Nat
      BY <1>2, Counted
    <3>3. QED
      BY <2>2, <3>1, <3>2
  <2>3. QED
    BY <2>1, <2>2
<1>4. Cardinality(Holding') = Cardinality(Holding) - Handed(worker[w]) + Handed(x)
  <2>0. Cardinality(Holding) \in Nat
    BY <1>2, Counted
  <2>1. CASE worker[w].chunk # 0 /\ x.chunk = 0
    <3>1. Holding' = Holding \ {w} /\ w \in Holding
      BY <1>1, <2>1 DEF Holding
    <3>2. QED
      BY <1>2, <2>0, <2>1, <3>1, OneLess DEF Handed
  <2>2. CASE worker[w].chunk = 0 /\ x.chunk # 0
    <3>1. Holding' = Holding \cup {w} /\ w \notin Holding
      BY <1>1, <2>2 DEF Holding
    <3>2. QED
      BY <1>2, <2>0, <2>2, <3>1, OneMore DEF Handed
  <2>3. CASE worker[w].chunk = 0 <=> x.chunk = 0
    <3>1. Holding' = Holding
      BY <1>1, <2>3 DEF Holding
    <3>2. QED
      BY <2>0, <2>3, <3>1 DEF Handed
  <2>4. QED
    BY <2>1, <2>2, <2>3
<1>5. QED
  BY <1>1, <1>2, <1>3, <1>4, Counted

\* What a worker's step has to do to keep the invariant: take the next job or
\* none, account for the chunk it had in hand, and leave without an error only
\* when the queue is empty.
LEMMA WorkerKeeps ==
  ASSUME IInv, NEW w \in Workers, worker[w] # Exited, NEW x \in WorkerStates,
         worker' = [worker EXCEPT ![w] = x],
         UNCHANGED <<Given, pc, result, cancelled>>,
         downloaded' \in Nat, errs' \in Nat,
         output' \in RangedBodies(origin, size, count, Hole),
         \/ x \in {Idle, Exited}
         \/ /\ x.state \in {"fetch", "backoff", "report"}
            /\ x.chunk # 0
            /\ x.state = "backoff" => x.attempt < MaxRetries,
         \/ nextJob' = nextJob /\ x.chunk \in {0, worker[w].chunk}
         \/ nextJob' = nextJob + 1 /\ nextJob <= count /\ x.chunk = nextJob,
         downloaded' + errs' + Handed(x) - nextJob'
           = downloaded + errs + Handed(worker[w]) - nextJob,
         errs' = errs \/ (errs' = errs + 1 /\ x = Exited),
         errs' = 0 /\ x = Exited => nextJob' = count + 1
  PROVE  IInv'
<1>1. /\ UNCHANGED <<origin, size, count, supportsRange, pc, result, cancelled>>
      /\ pc = "wait" /\ result = "none" /\ w \in Running
      /\ worker[w] \in WorkerStates
      /\ worker[w].chunk < nextJob
      /\ nextJob \in Nat /\ 1 <= nextJob /\ nextJob <= count + 1
      /\ count \in Nat /\ downloaded \in Nat /\ errs \in Nat
  BY RunningWorker DEF Given, Metadata
<1>2. /\ \A v \in Workers : worker'[v] = IF v = w THEN x ELSE worker[v]
      /\ Cardinality(Running') =
           Cardinality(Running) - (IF x = Exited THEN 1 ELSE 0)
      /\ Cardinality(Holding') =
           Cardinality(Holding) - Handed(worker[w]) + Handed(x)
      /\ Cardinality(Running) \in Nat /\ Cardinality(Holding) \in Nat
  BY CountsMove
<1>3. CountInv'
  <2>1. /\ errs + Cardinality(Running) <= Cardinality(Workers)
        /\ downloaded + errs + Cardinality(Holding) = nextJob - 1
        /\ Cardinality(Workers) \in Nat
    BY Counted DEF IInv, CountInv
  <2>2. Handed(x) \in {0, 1} /\ Handed(worker[w]) \in {0, 1} /\ nextJob' \in Nat
    BY <1>1 DEF Handed
  <2>3. errs' + Cardinality(Running') <= Cardinality(Workers)
    BY <1>1, <1>2, <2>1
  <2>4. downloaded' + errs' + Cardinality(Holding') = nextJob' - 1
    BY <1>1, <1>2, <2>1, <2>2
  <2>5. QED
    BY <2>3, <2>4 DEF CountInv
<1>4. TypeOK'
  <2>1. nextJob' \in 1..(count + 1)
    BY <1>1
  <2>2. worker' \in [Workers -> WorkerStates]
    BY DEF IInv, PoolInv, TypeOK, WorkerStates
  <2>3. Running' \in SUBSET Workers /\ Holding' \in SUBSET Workers
    BY DEF Running, Holding
  <2>4. Cardinality(Running') \in Nat /\ Cardinality(Holding') \in Nat
        /\ Cardinality(Workers) \in Nat
    BY <2>3, Counted
  <2>5. errs' \in 0..Cardinality(Workers)
    BY <1>3, <2>4 DEF CountInv
  <2>6. downloaded' \in 0..count
    BY <1>1, <1>3, <2>1, <2>4 DEF CountInv
  <2>7. QED
    BY <1>1, <2>1, <2>2, <2>5, <2>6 DEF IInv, PoolInv, TypeOK, WorkerStates
<1>5. ReportNeverBlocks'
  <2>1. SUFFICES ASSUME NEW v \in Workers, worker'[v].state = "report"
                 PROVE  errs' < Cardinality(Workers)
    BY DEF ReportNeverBlocks, ErrChanCapacity
  <2>2. v \in Running'
    BY <2>1 DEF Running, Exited
  <2>3. Running' \in SUBSET Workers /\ Running' # {}
    BY <2>2 DEF Running
  <2>4. Cardinality(Running') \in Nat /\ Cardinality(Running') # 0
    BY <2>3, Counted, FS_EmptySet
  <2>5. QED
    BY <1>3, <2>4, Counted DEF CountInv
<1>6. DisjointJobs'
  <2>1. ASSUME NEW v \in Workers, v # w, worker[v].chunk # 0
        PROVE  worker[v].chunk < nextJob /\ worker[v].chunk # worker[w].chunk
    BY <2>1 DEF IInv, PoolInv, DisjointJobs
  <2>2. \A v \in Workers : worker[v].chunk \in Nat
    BY <1>1 DEF IInv, PoolInv, TypeOK
  <2>3. x.chunk # 0 => x.chunk < nextJob'
    BY <1>1
  <2>4. ASSUME NEW v \in Workers, v # w, worker[v].chunk # 0
        PROVE  worker[v].chunk < nextJob' /\ worker[v].chunk # x.chunk
    BY <1>1, <2>1, <2>2, <2>4
  <2>5. ASSUME NEW i \in Workers, NEW j \in Workers, i # j, worker[i].chunk # 0
        PROVE  worker[i].chunk # worker[j].chunk
    BY <2>5 DEF IInv, PoolInv, DisjointJobs
  <2>6. QED
    BY <1>2, <2>3, <2>4, <2>5 DEF DisjointJobs
<1>7. HandInv'
  BY <1>2 DEF IInv, HandInv
<1>8. PhaseInv'
  <2>1. ASSUME errs' = 0, Running' # Workers PROVE nextJob' = count + 1
    <3>1. CASE x = Exited
      BY <2>1, <3>1
    <3>2. CASE x # Exited
      <4>1. Running' = Running
        BY <1>2, <3>2 DEF Running
      <4>2. errs = 0
        BY <2>1, <3>2, <1>1
      <4>3. nextJob = count + 1
        BY <1>1, <2>1, <4>1, <4>2 DEF IInv, PhaseInv
      <4>4. QED
        BY <1>1, <4>3
    <3>3. QED
      BY <3>1, <3>2
  <2>2. QED
    BY <1>1, <2>1 DEF IInv, PhaseInv
<1>9. BodyInv' /\ NilMeansEveryChunk' /\ KeepsToBodies'
  BY <1>1 DEF BodyInv, NilMeansEveryChunk, KeepsToBodies
<1>10. QED
  BY <1>3, <1>4, <1>5, <1>6, <1>7, <1>8, <1>9 DEF IInv, PoolInv

\* Each step of a worker is such a step.
LEMMA WorkerStepKeeps ==
  ASSUME IInv, NEW w \in Workers, Worker(w)
  PROVE  IInv'
<1>1. /\ worker[w].state # "exited"
      /\ UNCHANGED <<Given, pc, result, cancelled>>
  BY DEF Worker, TakeJob, NoMoreJobs, Fetch, FetchSucceeds, FetchFails, Retry,
         AbandonRetry, ReportError
<1>2. worker[w] # Exited
  BY <1>1 DEF Exited
<1>3. /\ pc = "wait"
      /\ worker[w] \in WorkerStates
      /\ worker[w].chunk < nextJob
      /\ nextJob \in Nat /\ 1 <= nextJob /\ nextJob <= count + 1
      /\ count \in Nat /\ downloaded \in Nat /\ errs \in Nat
  BY <1>2, RunningWorker
<1>4. output \in RangedBodies(origin, size, count, Hole)
  BY <1>3 DEF IInv, BodyInv
<1>5. /\ Idle \in WorkerStates /\ Exited \in WorkerStates
      /\ Handed(Idle) = 0 /\ Handed(Exited) = 0
      /\ Idle # Exited
  BY <1>3, PoolAssumption DEF WorkerStates, Idle, Exited, Handed
<1>6. CASE TakeJob(w)
  <2> DEFINE x == [state |-> IF cancelled THEN "report" ELSE "fetch",
                   chunk |-> nextJob, attempt |-> 1]
  <2>1. x \in WorkerStates
    BY <1>3, <1>6, PoolAssumption DEF TakeJob, WorkerStates
  <2>2. worker[w].chunk = 0
    BY <1>6 DEF TakeJob, IInv, HandInv, Idle, Exited
  <2>3. Handed(x) = 1 /\ Handed(worker[w]) = 0
    BY <1>3, <2>2 DEF Handed
  <2>4. /\ x # Exited /\ x.chunk = nextJob /\ x.chunk # 0
        /\ x.state \in {"fetch", "report"}
    BY <1>3 DEF Exited
  <2>5. /\ worker' = [worker EXCEPT ![w] = x]
        /\ nextJob' = nextJob + 1 /\ nextJob <= count
        /\ UNCHANGED <<output, downloaded, errs>>
    BY <1>6 DEF TakeJob
  <2>6. downloaded' + errs' + Handed(x) - nextJob'
          = downloaded + errs + Handed(worker[w]) - nextJob
    BY <1>3, <2>3, <2>5
  <2> HIDE DEF x
  <2>7. QED
    BY <1>1, <1>2, <1>3, <1>4, <2>1, <2>4, <2>5, <2>6, WorkerKeeps
<1>7. CASE NoMoreJobs(w)
  <2>1. worker[w].chunk = 0
    BY <1>7 DEF NoMoreJobs, IInv, HandInv, Idle, Exited
  <2>2. Handed(worker[w]) = 0 /\ Exited.chunk = 0
    BY <2>1 DEF Handed, Exited
  <2>3. nextJob = count + 1
    BY <1>3, <1>7 DEF NoMoreJobs
  <2>4. QED
    BY <1>2, <1>3, <1>4, <1>5, <1>7, <2>2, <2>3, WorkerKeeps DEF NoMoreJobs
<1>8. CASE FetchSucceeds(w)
  <2>1. worker[w].chunk # 0 /\ worker[w].chunk \in 1..count
    BY <1>3, <1>8 DEF FetchSucceeds, IInv, HandInv, WorkerStates, Idle, Exited
  <2>2. output' \in RangedBodies(origin, size, count, Hole)
    BY <1>4, <1>8, <2>1, WriteRanged DEF FetchSucceeds, IInv, PoolInv
  <2>3. Handed(worker[w]) = 1 /\ Idle.chunk = 0
    BY <2>1 DEF Handed, Idle
  <2>4. /\ worker' = [worker EXCEPT ![w] = Idle]
        /\ downloaded' = downloaded + 1
        /\ UNCHANGED <<nextJob, errs>>
    BY <1>8 DEF FetchSucceeds
  <2>5. downloaded' \in Nat
    BY <1>3, <2>4
  <2>6. downloaded' + errs' + Handed(Idle) - nextJob'
          = downloaded + errs + Handed(worker[w]) - nextJob
    BY <1>3, <1>5, <2>3, <2>4
  <2>7. QED
    BY <1>1, <1>2, <1>3, <1>5, <2>2, <2>3, <2>4, <2>5, <2>6, WorkerKeeps
<1>9. CASE FetchFails(w) \/ Retry(w) \/ AbandonRetry(w)
  <2>1. /\ worker[w].chunk # 0
        /\ worker[w].state = "backoff" => worker[w].attempt < MaxRetries
    BY <1>9 DEF FetchFails, Retry, AbandonRetry, IInv, HandInv, Idle, Exited
  <2>2. UNCHANGED <<nextJob, downloaded, errs>>
    BY <1>9 DEF FetchFails, Retry, AbandonRetry
  <2>w. output' \in RangedBodies(origin, size, count, Hole)
    <3>1. CASE output' = output
      BY <1>4, <3>1
    <3>2. CASE output' = WriteAt(worker[w].chunk, Hole)
      <4>1. worker[w].chunk \in 1..count /\ Hole \in Answers(worker[w].chunk)
        BY <1>3, <2>1 DEF WorkerStates, Answers
      <4>2. QED
        BY <1>4, <3>2, <4>1, WriteRanged DEF IInv, PoolInv
    <3>3. QED
      BY <1>9, <3>1, <3>2 DEF FetchFails, Retry, AbandonRetry
  <2>3. ASSUME NEW x \in WorkerStates,
               worker' = [worker EXCEPT ![w] = x],
               x.state \in {"fetch", "backoff", "report"},
               x.chunk = worker[w].chunk,
               x.state = "backoff" => x.attempt < MaxRetries
        PROVE  IInv'
    <3>1. x # Exited /\ Handed(x) = Handed(worker[w]) /\ Handed(x) \in Nat
      BY <2>1, <2>3 DEF Exited, Handed
    <3>3. downloaded' + errs' + Handed(x) - nextJob'
            = downloaded + errs + Handed(worker[w]) - nextJob
      BY <2>2, <3>1
    <3>4. QED
      BY <1>1, <1>2, <1>3, <2>1, <2>2, <2>3, <2>w, <3>1, <3>3, WorkerKeeps
  <2>4. CASE FetchFails(w)
    <3> DEFINE x == [worker[w] EXCEPT !.state =
                       IF worker[w].attempt < MaxRetries
                       THEN "backoff" ELSE "report"]
    <3>1. worker' = [worker EXCEPT ![w] = x]
      BY <2>4 DEF FetchFails
    <3>2. x \in WorkerStates /\ x.chunk = worker[w].chunk
          /\ x.attempt = worker[w].attempt
          /\ x.state = IF worker[w].attempt < MaxRetries
                       THEN "backoff" ELSE "report"
      BY <1>3 DEF WorkerStates
    <3>3. /\ x.state \in {"fetch", "backoff", "report"}
          /\ x.state = "backoff" => x.attempt < MaxRetries
      BY <3>2
    <3> HIDE DEF x
    <3>4. QED
      BY <2>3, <3>1, <3>2, <3>3
  <2>5. CASE Retry(w)
    <3> DEFINE x == [worker[w] EXCEPT !.state = "fetch",
                                      !.attempt = @ + 1]
    <3>1. worker' = [worker EXCEPT ![w] = x]
      BY <2>5 DEF Retry, IInv, PoolInv, TypeOK
    <3>2. worker[w].attempt + 1 \in 0..MaxRetries
      BY <1>3, <2>1, <2>5, PoolAssumption DEF Retry, WorkerStates
    <3>3. x \in WorkerStates /\ x.chunk = worker[w].chunk /\ x.state = "fetch"
      BY <1>3, <3>2 DEF WorkerStates
    <3> HIDE DEF x
    <3>4. QED
      BY <2>3, <3>1, <3>3
  <2>6. CASE AbandonRetry(w)
    <3> DEFINE x == [worker[w] EXCEPT !.state = "report"]
    <3>1. worker' = [worker EXCEPT ![w] = x]
      BY <2>6 DEF AbandonRetry
    <3>2. x \in WorkerStates /\ x.chunk = worker[w].chunk /\ x.state = "report"
      BY <1>3 DEF WorkerStates
    <3> HIDE DEF x
    <3>3. QED
      BY <2>3, <3>1, <3>2
  <2>7. QED
    BY <1>9, <2>4, <2>5, <2>6
<1>10. CASE ReportError(w)
  <2>1. worker[w].chunk # 0
    BY <1>10 DEF ReportError, IInv, HandInv, Idle, Exited
  <2>2. Handed(worker[w]) = 1 /\ Exited.chunk = 0
    BY <2>1 DEF Handed, Exited
  <2>3. /\ worker' = [worker EXCEPT ![w] = Exited]
        /\ errs' = errs + 1
        /\ UNCHANGED <<output, nextJob, downloaded>>
    BY <1>10 DEF ReportError
  <2>4. errs' \in Nat /\ errs' # 0
    BY <1>3, <2>3
  <2>5. downloaded' + errs' + Handed(Exited) - nextJob'
          = downloaded + errs + Handed(worker[w]) - nextJob
    BY <1>3, <1>5, <2>2, <2>3
  <2>6. QED
    BY <1>1, <1>2, <1>3, <1>4, <1>5, <2>2, <2>3, <2>4, <2>5, WorkerKeeps
<1>11. QED
  BY <1>6, <1>7, <1>8, <1>9, <1>10 DEF Worker, Fetch

LEMMA NextIInv == IInv /\ [Next]_vars => IInv'
<1> SUFFICES ASSUME IInv, [Next]_vars PROVE IInv'
  OBVIOUS
<1>1. CASE Main
  BY <1>1, MainKeeps, CreateFileKeeps, JoinKeeps DEF Main
<1>2. CASE \E w \in Workers : Worker(w)
  BY <1>2, WorkerStepKeeps
<1>3. CASE Cancel
  BY <1>3, CancelKeeps
<1>4. CASE UNCHANGED vars
  <2>1. /\ UNCHANGED <<origin, size, count, supportsRange, pc, output, nextJob,
                       worker, downloaded, errs, result, cancelled>>
    BY <1>4 DEF vars
  <2>2. PoolInv' /\ HandInv' /\ CountInv' /\ Running' = Running
    BY <2>1, PoolStill DEF IInv, PoolInv, TypeOK, Metadata, Pool
  <2>3. PhaseInv' /\ BodyInv' /\ NilMeansEveryChunk' /\ KeepsToBodies'
    BY <2>1, <2>2 DEF IInv, PhaseInv, BodyInv, NilMeansEveryChunk, KeepsToBodies
  <2>4. QED
    BY <2>2, <2>3 DEF IInv
<1>5. QED
  BY <1>1, <1>2, <1>3, <1>4 DEF Next

LEMMA PoolInductive == Spec => []IInv
  BY InitIInv, NextIInv, PTL DEF Spec

\* The pool hands every chunk to one worker and keeps room in errChan for every
\* error, whatever the number of workers, chunks and attempts.
THEOREM PoolInvariant == Spec => []PoolInv
  BY PoolInductive, PTL DEF IInv

\* When DownloadFile returns nil after a ranged transfer, every chunk announced
\* was answered: no worker dropped one without reporting an error.
THEOREM NilIsComplete == Spec => []NilMeansEveryChunk
  BY PoolInductive, PTL DEF IInv

\* Whatever size and chunk count the tracker announced, the file is untouched, a
\* prefix of the origin, or made of pieces of the origin and holes: nothing of what
\* the peers left behind survives in it.
THEOREM TransferKeepsToBodies == Spec => []KeepsToBodies
  BY PoolInductive, PTL DEF IInv
===============================================================================
