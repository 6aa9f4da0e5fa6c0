---------------------------- MODULE HybridDownload ----------------------------
(***************************************************************************)
(* One call of Downloader.DownloadFile (pkg/client/downloader.go): peers   *)
(* are looked up at the tracker or in the DHT, chunks are fetched from     *)
(* them through Bitswap, the file is reassembled, and when any of this     *)
(* fails the whole file is fetched over HTTP; the result is verified       *)
(* against the requested hash and one metrics entry is written.            *)
(*                                                                         *)
(* A chunk content stands for its bytes, its hash and its CID at once, a   *)
(* file for the sequence of its chunks and for its hash.  Sizes count      *)
(* chunks.  The tracker, the DHT, the peers, the CDN and the disk answer   *)
(* nondeterministically; time is abstracted to "the timer may fire now".   *)
(***************************************************************************)
EXTENDS Naturals, Sequences, FiniteSets, Functions, TransferBodies

CONSTANTS
  Chunks,     \* chunk contents
  Damaged,    \* a chunk-sized hole, or a chunk only partly written
  Files,      \* contents that may be requested or served by the CDN
  Records,    \* metadata the tracker may hold for the requested hash
  Peers       \* peers that may be found

Metadata == [size: Nat, chunkSize: {0, 1}, count: Nat,
             chunks: Seq(Chunks), url: BOOLEAN]

\* A file content: damaged chunks never hash to a requested file.
Content == Seq(Chunks \cup {Damaged})

\* RegisterFile in pkg/tracker/handler.go refuses an empty fallback URL, and
\* asks for nothing else but the hash.
ASSUME ConstantsAssumption ==
  /\ Damaged \notin Chunks
  /\ Files \subseteq Seq(Chunks)
  /\ Records \subseteq Metadata
  /\ \A r \in Records : r.url
  /\ IsFiniteSet(Peers)

VARIABLES
  requested,      \* the file asked for (Metadata.Hash)
  pc,             \* where DownloadFile is
  meta,           \* state.Metadata
  candidates,     \* peers returned by findPeers
  received,       \* keys of receivedBlocks
  output,         \* content of OutputPath
  usingFallback,  \* state.UsingFallback
  cancelled,      \* the caller's context is done
  collector,      \* state.MetricsCollector
  unmeasured,     \* the size of the file the CDN delivered could not be read
  entries         \* entries appended to the metrics file for this request

vars == <<requested, pc, meta, candidates, received, output, usingFallback,
          cancelled, collector, unmeasured, entries>>

Terminal == {"complete", "failed", "panicked"}

\* What handleDownload knows when the tracker did not answer it.
NoMetadata == [size |-> 0, chunkSize |-> 0, count |-> 0,
               chunks |-> <<>>, url |-> FALSE]

Collector == [p2p: Nat, http: Nat, lost: Nat]

Entry == [success: BOOLEAN, protocol: {"p2p", "http"},
          p2p: Nat, http: Nat, lost: Nat]

TypeOK ==
  /\ requested \in Files
  /\ pc \in {"discover", "connect", "request", "receive", "reassemble",
             "fallback", "http", "verify"} \cup Terminal
  /\ meta \in Metadata
  /\ candidates \subseteq Peers
  /\ received \subseteq Chunks
  /\ output \in Content
  /\ usingFallback \in BOOLEAN
  /\ cancelled \in BOOLEAN
  /\ collector \in Collector
  /\ unmeasured \in BOOLEAN
  /\ entries \in Seq(Entry)

(***************************************************************************)
(* DownloadFile is entered with what its caller could learn: nothing but   *)
(* the hash, or a record the tracker returned a moment earlier.            *)
(***************************************************************************)
Init ==
  /\ requested \in Files
  /\ pc = "discover"
  /\ meta \in Records \cup {NoMetadata}
  /\ candidates = {}
  /\ received = {}
  /\ output = <<>>
  /\ usingFallback = FALSE
  /\ cancelled = FALSE
  /\ collector = [p2p |-> 0, http |-> 0, lost |-> 0]
  /\ unmeasured = FALSE
  /\ entries = <<>>

\* The tracker's answer replaces all but a known fallback URL.
Adopt(r) == meta' = [r EXCEPT !.url = r.url \/ meta.url]

\* Fault: the switch to HTTP is not noted in the state.
UnmarkedFallback == pc' = "fallback" /\ UNCHANGED usingFallback

\* downloadP2P returns an error and DownloadFile turns to HTTP.
P2PFails ==
  /\ pc' = "fallback"
  /\ usingFallback' = TRUE

\* GenerateMetrics and AddMetrics with the collector's value c.
WriteEntry(ok, c) ==
  entries' = Append(entries,
    [success |-> ok, protocol |-> IF c.http > 0 THEN "http" ELSE "p2p",
     p2p |-> c.p2p, http |-> c.http, lost |-> c.lost])

\* DownloadFile returns an error.
Fail ==
  /\ pc' = "failed"
  /\ WriteEntry(FALSE, collector)

(***************************************************************************)
(* findPeers.  A tracker that answers is believed, and the DHT is asked    *)
(* only when it does not: then no metadata comes with the peers.           *)
(***************************************************************************)
AfterDiscovery(found) ==
  /\ candidates' = found
  /\ IF found = {} THEN P2PFails ELSE pc' = "connect" /\ UNCHANGED usingFallback
  /\ UNCHANGED <<requested, received, output, cancelled, collector,
                 unmeasured, entries>>

TrackerAnswers ==
  /\ pc = "discover"
  /\ ~cancelled
  /\ \E r \in Records, found \in SUBSET Peers :
       Adopt(r) /\ AfterDiscovery(found)

TrackerUnreachable ==
  /\ pc = "discover"
  /\ \E found \in SUBSET Peers :
       /\ cancelled => found = {}
       /\ AfterDiscovery(found)
  /\ UNCHANGED meta

(***************************************************************************)
(* connectToPeers dials every candidate and counts those it reached;       *)
(* GetBlocks then asks Bitswap for every chunk of the metadata at once.    *)
(***************************************************************************)
ConnectToPeers ==
  /\ pc = "connect"
  /\ \E connected \in SUBSET candidates :
       IF connected = {} THEN P2PFails
       ELSE pc' = "request" /\ UNCHANGED usingFallback
  /\ UNCHANGED <<requested, meta, candidates, received, output, cancelled,
                 collector, unmeasured, entries>>

RequestBlocks ==
  /\ pc = "request"
  /\ \/ pc' = "receive" /\ UNCHANGED usingFallback
     \/ P2PFails
  /\ UNCHANGED <<requested, meta, candidates, received, output, cancelled,
                 collector, unmeasured, entries>>

(***************************************************************************)
(* The receive loop.  receivedBlocks is keyed by CID and compared in size  *)
(* with the list of CIDs; Bitswap delivers each distinct block once and    *)
(* closes the channel after the last one.                                  *)
(***************************************************************************)
\* Fault: the blocks held are compared with the distinct blocks asked for.
DistinctComplete(got) == got = Range(meta.chunks)

Complete(got) == Cardinality(got) = Len(meta.chunks)

ReceiveBlock(b) ==
  /\ pc = "receive"
  /\ b \in Range(meta.chunks) \ received
  /\ received' = received \cup {b}
  /\ collector' = [collector EXCEPT !.p2p = @ + 1]
  /\ pc' = IF Complete(received') THEN "reassemble" ELSE "receive"
  /\ UNCHANGED <<requested, meta, candidates, output, usingFallback,
                 cancelled, unmeasured, entries>>

ChannelClosed ==
  /\ pc = "receive"
  /\ Range(meta.chunks) \subseteq received
  /\ IF Complete(received)
     THEN pc' = "reassemble" /\ UNCHANGED usingFallback
     ELSE P2PFails
  /\ UNCHANGED <<requested, meta, candidates, received, output, cancelled,
                 collector, unmeasured, entries>>

\* The blocks asked for and not received.
Missing == Len(meta.chunks) - Cardinality(received)

\* noProgressTimer: every block still missing counts as a lost packet.
NoProgress ==
  /\ pc = "receive"
  /\ collector' = [collector EXCEPT !.lost = @ + Missing]
  /\ P2PFails
  /\ UNCHANGED <<requested, meta, candidates, received, output, cancelled,
                 unmeasured, entries>>

\* downloadCtx is done: the caller cancelled, or p2pTimeout ran out.
ContextDone ==
  /\ pc = "receive"
  /\ P2PFails
  /\ UNCHANGED <<requested, meta, candidates, received, output, cancelled,
                 collector, unmeasured, entries>>

(***************************************************************************)
(* reassembleFile truncates the file and writes the chunks in order; it    *)
(* stops at a chunk it does not hold, or when the disk refuses a write.    *)
(***************************************************************************)
Reassemble ==
  /\ pc = "reassemble"
  /\ \E n \in 0..Len(meta.chunks) :
       /\ \A i \in 1..n : meta.chunks[i] \in received
       /\ output' = SubSeq(meta.chunks, 1, n)
       /\ IF n = Len(meta.chunks)
          THEN pc' = "verify" /\ UNCHANGED usingFallback
          ELSE P2PFails
  /\ UNCHANGED <<requested, meta, candidates, received, cancelled, collector,
                 unmeasured, entries>>

\* The output file cannot be created.
ReassembleRefused ==
  /\ pc = "reassemble"
  /\ P2PFails
  /\ UNCHANGED <<requested, meta, candidates, received, output, cancelled,
                 collector, unmeasured, entries>>

(***************************************************************************)
(* downloadHTTP.  Metadata without a size is asked for again first.        *)
(***************************************************************************)
PrepareHTTP ==
  /\ pc = "fallback"
  /\ \/ meta.size # 0 /\ UNCHANGED meta
     \/ meta.size = 0 /\ UNCHANGED meta
     \/ meta.size = 0 /\ ~cancelled /\ \E r \in Records : Adopt(r)
  /\ IF meta'.url THEN pc' = "http" /\ UNCHANGED entries ELSE Fail
  /\ UNCHANGED <<requested, candidates, received, output, usingFallback,
                 cancelled, collector, unmeasured>>

\* What the fallback may leave in the file, given what the metadata announces.
Bodies(origin) == HTTPBodies(origin, meta.size, meta.count, Damaged)

\* Fault: a file without chunks records none.
UnflooredHTTPChunks == IF meta.count > 0 THEN meta.count ELSE meta.size

\* Chunks recorded for a whole file over HTTP; 1 when the count is unknown
\* and the size is 0.
HTTPChunks ==
  IF meta.count > 0 THEN meta.count
  ELSE IF meta.size > 0 THEN meta.size ELSE 1

\* An unknown count is computed by dividing by the chunk size.
DividesByZero == meta.count = 0 /\ meta.size > 0 /\ meta.chunkSize = 0

HTTPSucceeds ==
  /\ pc = "http"
  /\ ~cancelled
  /\ \E origin \in Files : output' \in Bodies(origin)
  /\ IF DividesByZero
     THEN pc' = "panicked" /\ UNCHANGED collector
     ELSE /\ pc' = "verify"
          /\ collector' = [collector EXCEPT !.http = @ + HTTPChunks]
  /\ UNCHANGED <<requested, meta, candidates, received, usingFallback,
                 cancelled, unmeasured, entries>>

\* os.Stat fails on the file just written: no chunk of it is recorded.
HTTPUnmeasured ==
  /\ pc = "http"
  /\ ~cancelled
  /\ \E origin \in Files : output' \in Bodies(origin)
  /\ pc' = "verify"
  /\ unmeasured' = TRUE
  /\ UNCHANGED <<requested, meta, candidates, received, usingFallback,
                 cancelled, collector, entries>>

\* The HEAD request, a chunk or the disk failed: before or after the output
\* file was truncated.
HTTPFails ==
  /\ pc = "http"
  /\ \/ UNCHANGED output
     \/ \E origin \in Files : output' \in Bodies(origin)
  /\ Fail
  /\ UNCHANGED <<requested, meta, candidates, received, usingFallback,
                 cancelled, collector, unmeasured>>

\* Fault: the length of the output is checked instead of its hash.
VerifyLength ==
  /\ pc = "verify"
  /\ \/ /\ Len(output) = Len(requested)
        /\ pc' = "complete"
        /\ WriteEntry(TRUE, collector)
     \/ Fail
  /\ UNCHANGED <<requested, meta, candidates, received, output, usingFallback,
                 cancelled, collector, unmeasured>>

(***************************************************************************)
(* VerifyDownload hashes the output file, whichever transport wrote it; a  *)
(* file that cannot be read fails as one whose hash differs does.          *)
(***************************************************************************)
Verify ==
  /\ pc = "verify"
  /\ \/ /\ output = requested
        /\ pc' = "complete"
        /\ WriteEntry(TRUE, collector)
     \/ Fail
  /\ UNCHANGED <<requested, meta, candidates, received, output, usingFallback,
                 cancelled, collector, unmeasured>>

\* A newer request for the file, or the daemon's shutdown, cancels the context.
Cancel ==
  /\ pc \notin Terminal
  /\ ~cancelled
  /\ cancelled' = TRUE
  /\ UNCHANGED <<requested, pc, meta, candidates, received, output,
                 usingFallback, collector, unmeasured, entries>>

Discover == TrackerAnswers \/ TrackerUnreachable

Receive == \E b \in Chunks : ReceiveBlock(b)

Transfer == HTTPSucceeds \/ HTTPUnmeasured \/ HTTPFails

\* Fault: the timer is armed by the first block only.
GiveUpAfterFirstBlock == received # {} /\ NoProgress

GiveUp == NoProgress \/ ContextDone

Next ==
  \/ Discover \/ ConnectToPeers \/ RequestBlocks
  \/ Receive \/ ChannelClosed \/ GiveUp
  \/ Reassemble \/ ReassembleRefused
  \/ PrepareHTTP \/ Transfer \/ Verify \/ Cancel

Spec == Init /\ [][Next]_vars

(***************************************************************************)
(* Every call DownloadFile blocks on has a deadline (30 s for the tracker, *)
(* a DHT lookup, a dial or an HTTP request, noProgressWindow between two   *)
(* blocks) and a goroutine is eventually scheduled.  Nothing is assumed of *)
(* the peers: Receive is not fair.                                         *)
(***************************************************************************)
Fairness ==
  /\ WF_vars(Discover)
  /\ WF_vars(ConnectToPeers)
  /\ WF_vars(RequestBlocks)
  /\ WF_vars(ChannelClosed)
  /\ WF_vars(GiveUp)
  /\ WF_vars(Reassemble \/ ReassembleRefused)
  /\ WF_vars(PrepareHTTP)
  /\ WF_vars(Transfer)
  /\ WF_vars(Verify)

FairSpec == Spec /\ Fairness

(***************************************************************************)
(* Properties                                                              *)
(***************************************************************************)

\* DownloadFile keeps the promise of VerifiedDelivery: one switch to HTTP,
\* success only over the requested bytes, nothing written after the outcome.
Delivery == INSTANCE VerifiedDelivery WITH
  Contents  <- Content,
  wanted    <- requested,
  content   <- output,
  transport <- IF usingFallback THEN "http" ELSE "p2p",
  outcome   <- IF pc = "complete" THEN "complete"
               ELSE IF pc \in {"failed", "panicked"} THEN "failed"
               ELSE "running"

DeliversVerified == Delivery!Spec

\* A chunk list with a repeated chunk can never be completed from peers, even
\* when every block arrived: receivedBlocks counts it once, the CIDs twice.
RepeatedChunksForceHTTP ==
  (pc \in {"verify", "complete"} /\ ~usingFallback) =>
    IsInjective(meta.chunks)

\* Exactly one metrics entry is written, and of a delivered file it says "http"
\* exactly when the CDN delivered it and its size could then be read (the empty
\* file included), with as many chunks from peers as the file has when they did.
\* A file from the CDN that os.Stat fails on (downloader.go:370-371) is entered
\* as one from peers: that much of the entry is not to be relied on.
EntryMatchesTransfer ==
  /\ pc \notin Terminal => entries = <<>>
  /\ pc = "complete" =>
       /\ Len(entries) = 1
       /\ entries[1].success
       /\ entries[1].protocol =
            IF usingFallback /\ ~unmeasured THEN "http" ELSE "p2p"
       /\ ~usingFallback => entries[1].p2p = Len(output) /\ entries[1].lost = 0
  /\ pc = "failed" => Len(entries) = 1 /\ ~entries[1].success

(***************************************************************************)
(* The inductive invariant behind them.                                    *)
(***************************************************************************)

\* The peers' phase is over exactly from the moment HTTP is turned to.
PhaseInv ==
  /\ pc \in {"discover", "connect", "request", "receive", "reassemble"} =>
       ~usingFallback
  /\ pc \in {"fallback", "http"} => usingFallback

\* receivedBlocks holds requested blocks only, and all of them, each asked for
\* once, when the file is written from it.
ReceivedInv ==
  ~usingFallback =>
    /\ pc \in {"discover", "connect", "request"} => received = {}
    /\ received \subseteq Range(meta.chunks)
    /\ pc \in {"reassemble", "verify", "complete"} => Complete(received)
    /\ pc \in {"verify", "complete"} => output = meta.chunks

\* The collector counts each received block once, losses only when peers are
\* given up, and HTTP chunks exactly when a file came from the CDN and its size
\* could be read.
CollectorInv ==
  /\ ~usingFallback =>
       /\ collector.p2p = Cardinality(received)
       /\ collector.http = 0
       /\ collector.lost = 0
       /\ ~unmeasured
  /\ pc \in {"fallback", "http"} => collector.http = 0 /\ ~unmeasured
  /\ usingFallback /\ pc \in {"verify", "complete"} =>
       (collector.http > 0 <=> ~unmeasured)

DownloadInv ==
  TypeOK /\ PhaseInv /\ ReceivedInv /\ CollectorInv /\ EntryMatchesTransfer

\* Every call ends, even when peers accept connections and then send nothing.
Termination == <>(pc \in Terminal)
===============================================================================
