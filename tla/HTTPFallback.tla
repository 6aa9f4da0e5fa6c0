----------------------------- MODULE HTTPFallback -----------------------------
(***************************************************************************)
(* HTTPFallback.DownloadFile (pkg/client/fallback.go): a HEAD request asks *)
(* whether the CDN honours ranges; if so a pool of workers shares a queue  *)
(* of chunk jobs, retries each request and reports at most one error; if   *)
(* not, one connection copies the body.                                    *)
(*                                                                         *)
(* The CDN answers nondeterministically: in full, in part, with the whole  *)
(* file instead of the range, with an error status, or not at all.  A read *)
(* that ends before the chunk is full counts as success (ErrUnexpectedEOF  *)
(* is let through); only one that yields no byte at all is an error.       *)
(***************************************************************************)
EXTENDS Naturals, Sequences, FiniteSets, Functions, TransferBodies

CONSTANTS
  Workers,      \* parallelConns goroutines
  MaxRetries,   \* attempts per chunk
  Origins,      \* contents the URL may serve
  Announced,    \* <<Size, ChunkCount>> in the metadata, counted in chunks
  Hole,         \* a chunk not written, or written in part
  Leftovers     \* what the peers' attempt may have left in the file

ASSUME PoolAssumption ==
  /\ IsFiniteSet(Workers) /\ Workers # {}
  /\ MaxRetries \in Nat \ {0}
  /\ Announced \subseteq Nat \X Nat
  /\ \A o \in Origins : o \in Seq(Range(o))

VARIABLES
  origin,       \* what the CDN serves
  size, count,  \* metadata.Size and metadata.ChunkCount
  supportsRange, \* the HEAD answer says "Accept-Ranges: bytes"
  pc,           \* where DownloadFile is
  output,       \* the output file
  nextJob,      \* first job still in the jobs channel
  worker,       \* state of each worker
  downloaded,   \* chunks counted as downloaded
  errs,         \* errors buffered in errChan
  result,       \* "none", "nil" or "error"
  cancelled     \* ctx is done

vars == <<origin, size, count, supportsRange, pc, output, nextJob, worker,
          downloaded, errs, result, cancelled>>

Idle == [state |-> "idle", chunk |-> 0, attempt |-> 0]
Exited == [state |-> "exited", chunk |-> 0, attempt |-> 0]

TypeOK ==
  /\ origin \in Origins
  /\ <<size, count>> \in Announced
  /\ supportsRange \in BOOLEAN
  /\ pc \in {"head", "open", "copy", "create", "wait", "done"}
  /\ nextJob \in 1..(count + 1)
  /\ worker \in [Workers ->
       [state: {"idle", "fetch", "backoff", "report", "exited"},
        chunk: 0..count, attempt: 0..MaxRetries]]
  /\ downloaded \in 0..count
  /\ errs \in 0..Cardinality(Workers)
  /\ result \in {"none", "nil", "error"}
  /\ cancelled \in BOOLEAN

Init ==
  /\ origin \in Origins
  /\ \E m \in Announced : size = m[1] /\ count = m[2]
  /\ supportsRange = FALSE
  /\ pc = "head"
  /\ output \in Leftovers
  /\ nextJob = 1
  /\ worker = [w \in Workers |-> Exited]
  /\ downloaded = 0
  /\ errs = 0
  /\ result = "none"
  /\ cancelled = FALSE

Metadata == <<origin, size, count>>
Given == <<Metadata, supportsRange>>
Pool == <<nextJob, worker, downloaded, errs>>

Return(r) == pc' = "done" /\ result' = r

(***************************************************************************)
(* checkRangeSupport                                                       *)
(***************************************************************************)
CheckRangeSupport ==
  /\ pc = "head"
  /\ \/ /\ ~cancelled
        /\ supportsRange' \in BOOLEAN
        /\ pc' = IF supportsRange' THEN "create" ELSE "open"
        /\ UNCHANGED result
     \/ Return("error") /\ UNCHANGED supportsRange
  /\ UNCHANGED <<Metadata, output, Pool, cancelled>>

(***************************************************************************)
(* downloadSingleConnection: the file is created only after a good answer. *)
(***************************************************************************)
OpenBody ==
  /\ pc = "open"
  /\ \/ ~cancelled /\ pc' = "copy" /\ output' = <<>> /\ UNCHANGED result
     \/ Return("error") /\ UNCHANGED output
  /\ UNCHANGED <<Given, Pool, cancelled>>

CopyBuffer ==
  /\ pc = "copy"
  /\ ~cancelled
  /\ Len(output) < Len(origin)
  /\ output' = Append(output, origin[Len(output) + 1])
  /\ UNCHANGED <<Given, pc, Pool, result, cancelled>>

\* The body ends, at its end or, when it has no announced length, anywhere.
CopyEnds ==
  /\ pc = "copy"
  /\ ~cancelled
  /\ Return("nil")
  /\ UNCHANGED <<Given, output, Pool, cancelled>>

CopyFails ==
  /\ pc = "copy"
  /\ Return("error")
  /\ UNCHANGED <<Given, output, Pool, cancelled>>

\* Fault: the file is opened without being truncated first.
ReopenFile ==
  /\ pc = "create"
  /\ pc' = "wait"
  /\ output' = [i \in 1..size |-> IF i <= Len(output) THEN output[i] ELSE Hole]
  /\ worker' = [w \in Workers |-> Idle]
  /\ UNCHANGED <<Given, nextJob, downloaded, errs, result, cancelled>>

(***************************************************************************)
(* downloadParallel: create and truncate the file, queue one job per       *)
(* chunk, close the queue and start the workers.                           *)
(***************************************************************************)
CreateFile ==
  /\ pc = "create"
  /\ pc' = "wait"
  /\ output' = [i \in 1..size |-> Hole]
  /\ worker' = [w \in Workers |-> Idle]
  /\ UNCHANGED <<Given, nextJob, downloaded, errs, result, cancelled>>

CreateFails ==
  /\ pc = "create"
  /\ Return("error")
  /\ output' \in {output, <<>>}
  /\ UNCHANGED <<Given, Pool, cancelled>>

\* Fault: a cancelled worker leaves without telling.
SilentTakeJob(w) ==
  /\ worker[w].state = "idle"
  /\ nextJob <= count
  /\ nextJob' = nextJob + 1
  /\ worker' = [worker EXCEPT ![w] =
       IF cancelled THEN Exited
       ELSE [state |-> "fetch", chunk |-> nextJob, attempt |-> 1]]
  /\ UNCHANGED <<Given, pc, output, downloaded, errs, result, cancelled>>

\* A worker takes the next job and looks at the context first.
TakeJob(w) ==
  /\ worker[w].state = "idle"
  /\ nextJob <= count
  /\ nextJob' = nextJob + 1
  /\ worker' = [worker EXCEPT ![w] =
       [state |-> IF cancelled THEN "report" ELSE "fetch",
        chunk |-> nextJob, attempt |-> 1]]
  /\ UNCHANGED <<Given, pc, output, downloaded, errs, result, cancelled>>

\* The queue is closed and empty.
NoMoreJobs(w) ==
  /\ worker[w].state = "idle"
  /\ nextJob > count
  /\ worker' = [worker EXCEPT ![w] = Exited]
  /\ UNCHANGED <<Given, pc, output, nextJob, downloaded, errs, result,
                 cancelled>>

\* WriteAt: chunk c of the file becomes bytes, and a file that was too short is
\* lengthened as far as there.
WriteAt(c, bytes) ==
  [i \in 1..(IF c <= Len(output) THEN Len(output) ELSE c) |->
     IF i = c THEN bytes
     ELSE IF i <= Len(output) THEN output[i] ELSE Hole]

\* What a request for chunk c writes into the file: the chunk, the first bytes
\* of an answer without range, or less than a chunk.
Answers(c) ==
  {Hole} \cup (IF c <= Len(origin) THEN {origin[c]} ELSE {})
         \cup (IF origin # <<>> THEN {origin[1]} ELSE {})

FetchSucceeds(w) ==
  /\ worker[w].state = "fetch"
  /\ \E bytes \in Answers(worker[w].chunk) :
       output' = WriteAt(worker[w].chunk, bytes)
  /\ downloaded' = downloaded + 1
  /\ worker' = [worker EXCEPT ![w] = Idle]
  /\ UNCHANGED <<Given, pc, nextJob, errs, result, cancelled>>

\* Fault: a failed chunk goes back to the queue.
RequeueFailed(w) ==
  /\ worker[w].state = "fetch"
  /\ nextJob' = worker[w].chunk
  /\ worker' = [worker EXCEPT ![w] = Idle]
  /\ UNCHANGED <<Given, pc, output, downloaded, errs, result, cancelled>>

\* No answer, a bad status, an empty body or a refused write, which may have
\* left a part of the chunk in the file.
FetchFails(w) ==
  /\ worker[w].state = "fetch"
  /\ output' \in {output, WriteAt(worker[w].chunk, Hole)}
  /\ worker' = [worker EXCEPT ![w].state =
       IF worker[w].attempt < MaxRetries THEN "backoff" ELSE "report"]
  /\ UNCHANGED <<Given, pc, nextJob, downloaded, errs, result, cancelled>>

\* The back-off ends with another attempt, or with the context.
Retry(w) ==
  /\ worker[w].state = "backoff"
  /\ worker' = [worker EXCEPT ![w].state = "fetch", ![w].attempt = @ + 1]
  /\ UNCHANGED <<Given, pc, output, nextJob, downloaded, errs, result,
                 cancelled>>

AbandonRetry(w) ==
  /\ worker[w].state = "backoff"
  /\ cancelled
  /\ worker' = [worker EXCEPT ![w].state = "report"]
  /\ UNCHANGED <<Given, pc, output, nextJob, downloaded, errs, result,
                 cancelled>>

\* Fault: room for a single error.
SingleError == 1

ErrChanCapacity == Cardinality(Workers)

\* The error goes into the buffered channel and the worker returns.
ReportError(w) ==
  /\ worker[w].state = "report"
  /\ errs < ErrChanCapacity
  /\ errs' = errs + 1
  /\ worker' = [worker EXCEPT ![w] = Exited]
  /\ UNCHANGED <<Given, pc, output, nextJob, downloaded, result, cancelled>>

\* wg.Wait returns, errChan is closed and its first value, if any, returned.
Join ==
  /\ pc = "wait"
  /\ \A w \in Workers : worker[w] = Exited
  /\ Return(IF errs > 0 THEN "error" ELSE "nil")
  /\ UNCHANGED <<Given, output, Pool, cancelled>>

Cancel ==
  /\ pc # "done"
  /\ ~cancelled
  /\ cancelled' = TRUE
  /\ UNCHANGED <<Given, pc, output, Pool, result>>

Fetch(w) == FetchSucceeds(w) \/ FetchFails(w)

Worker(w) ==
  TakeJob(w) \/ NoMoreJobs(w) \/ Fetch(w) \/ Retry(w) \/ AbandonRetry(w)
  \/ ReportError(w)

Main ==
  CheckRangeSupport \/ OpenBody \/ CopyBuffer \/ CopyEnds \/ CopyFails
  \/ CreateFile \/ CreateFails \/ Join

Next == Main \/ (\E w \in Workers : Worker(w)) \/ Cancel

Spec == Init /\ [][Next]_vars

(***************************************************************************)
(* http.Client.Timeout bounds every request and the back-off is a timer,   *)
(* so every goroutine keeps taking steps until it returns.                 *)
(***************************************************************************)
FairSpec == Spec /\ WF_vars(Main) /\ \A w \in Workers : WF_vars(Worker(w))

(***************************************************************************)
(* Properties                                                              *)
(***************************************************************************)

\* A nil error means that every announced chunk was answered by some request:
\* no worker left a job behind without reporting an error.
NilMeansEveryChunk ==
  result = "nil" /\ supportsRange => downloaded = count

\* Every error has room in errChan: main waits for the workers before it reads
\* the channel, so a worker that had to wait for room would wait forever.
ReportNeverBlocks ==
  \A w \in Workers : worker[w].state = "report" => errs < ErrChanCapacity

\* Two workers never hold the same chunk, and no job in the queue is one already
\* taken: WriteAt on the shared file needs no lock, and a chunk is fetched once.
DisjointJobs ==
  \A i, j \in Workers :
    worker[i].chunk # 0 =>
      /\ worker[i].chunk < nextJob
      /\ worker[i].chunk = worker[j].chunk => i = j

\* The pool as a whole: its types, its bounded channel of errors and its jobs
\* (fallback.go:157-249).
PoolInv == TypeOK /\ ReportNeverBlocks /\ DisjointJobs

\* The file is what HybridDownload assumes of a transfer: untouched, or one of
\* TransferBodies' results, with nothing of the peers' attempt in it.
KeepsToBodies ==
  /\ result = "nil" => output \in HTTPBodies(origin, size, count, Hole)
  /\ result = "error" =>
       output \in Leftovers \cup HTTPBodies(origin, size, count, Hole)

\* The call returns: no worker waits for main while main waits for it.
Returns == <>(pc = "done")

===============================================================================
