------------------------- MODULE HybridDownloadProofs -------------------------
(***************************************************************************)
(* Proofs about HybridDownload: its inductive invariant, the properties    *)
(* that follow from it, and that it implements VerifiedDelivery, for every *)
(* value of the constants.                                                 *)
(***************************************************************************)
EXTENDS HybridDownload, FiniteSetTheorems, SequenceTheorems, TLAPS

(***************************************************************************)
(* Facts about sequences and counting                                      *)
(***************************************************************************)

\* The chunks of a file form a finite set, no larger than the file.
LEMMA RangeFinite ==
  ASSUME NEW S, NEW s \in Seq(S)
  PROVE  /\ IsFiniteSet(Range(s))
         /\ Cardinality(Range(s)) <= Len(s)
         /\ Cardinality(Range(s)) = Len(s) => IsInjective(s)
         /\ Range(s) \subseteq S
<1>1. /\ Len(s) \in Nat
      /\ DOMAIN s = 1..Len(s)
      /\ s \in [1..Len(s) -> S]
  BY LenProperties
<1>2. s \in Surjection(1..Len(s), Range(s))
  BY <1>1 DEF Surjection, Range
<1>3. IsFiniteSet(1..Len(s)) /\ Cardinality(1..Len(s)) = Len(s)
  BY <1>1, FS_Interval
<1>4. /\ IsFiniteSet(Range(s))
      /\ Cardinality(Range(s)) <= Len(s)
      /\ Cardinality(Range(s)) = Len(s) => s \in Injection(1..Len(s), Range(s))
  BY <1>2, <1>3, FS_Surjection
<1>5. QED
  BY <1>1, <1>4 DEF Injection, Range

\* As many distinct blocks as positions: no position repeats another's block.
LEMMA CountedOnce ==
  ASSUME NEW S, NEW s \in Seq(S), NEW got \in SUBSET Range(s),
         Cardinality(got) = Len(s)
  PROVE  IsInjective(s)
<1>1. IsFiniteSet(Range(s)) /\ Cardinality(Range(s)) <= Len(s)
  BY RangeFinite
<1>2. Cardinality(got) <= Cardinality(Range(s))
  BY <1>1, FS_Subset
<1>3. Cardinality(Range(s)) \in Nat /\ Len(s) \in Nat
  BY <1>1, FS_CardinalityType, LenProperties
<1>4. Cardinality(Range(s)) = Len(s)
  BY <1>1, <1>2, <1>3
<1>5. QED
  BY <1>4, RangeFinite

\* Writing the first n chunks gives a content; all of them, the file.
LEMMA PrefixIsContent ==
  ASSUME NEW s \in Seq(Chunks), NEW n \in 0..Len(s)
  PROVE  /\ SubSeq(s, 1, n) \in Content
         /\ n = Len(s) => SubSeq(s, 1, n) = s
<1>1. Len(s) \in Nat /\ \A i \in 1..n : s[i] \in Chunks \cup {Damaged}
  BY LenProperties
<1>2. SubSeq(s, 1, n) \in Seq(Chunks \cup {Damaged})
  BY <1>1, SubSeqProperties
<1>3. SubSeq(s, 1, Len(s)) = s
  BY SubSeqFull
<1>4. QED
  BY <1>2, <1>3 DEF Content

\* Whatever an HTTP transfer leaves in the file is a content.
LEMMA BodiesAreContent ==
  ASSUME TypeOK, NEW origin \in Files, NEW body \in Bodies(origin)
  PROVE  body \in Content
<1>1. origin \in Seq(Chunks) /\ meta.size \in Nat /\ meta.count \in Nat
  BY ConstantsAssumption DEF TypeOK, Metadata
<1>2. Range(origin) \subseteq Chunks
  BY <1>1, RangeFinite
<1>3. CASE \E n \in 0..Len(origin) : body = SubSeq(origin, 1, n)
  BY <1>1, <1>3, PrefixIsContent
<1>4. CASE \E n \in Nat : body \in [1..n -> Range(origin) \cup {Damaged}]
  <2>1. PICK n \in Nat : body \in [1..n -> Range(origin) \cup {Damaged}]
    BY <1>4
  <2>2. body \in [1..n -> Chunks \cup {Damaged}]
    BY <1>2, <2>1
  <2>3. QED
    BY <2>1, <2>2 DEF Content
<1>5. QED
  BY <1>1, <1>3, <1>4
  DEF Bodies, HTTPBodies, PrefixBodies, RangedBodies, Lengths

\* The tracker's answer is metadata, with the fallback URL known.
LEMMA AdoptedIsMetadata ==
  ASSUME NEW r \in Records, meta \in Metadata, Adopt(r)
  PROVE  meta' \in Metadata
<1>1. r \in Metadata
  BY ConstantsAssumption
<1>2. QED
  BY <1>1 DEF Adopt, Metadata

\* An entry is appended, and it is a well-formed one.
LEMMA EntryAppended ==
  ASSUME NEW ok \in BOOLEAN, NEW c \in Collector, entries \in Seq(Entry),
         WriteEntry(ok, c)
  PROVE  /\ entries' \in Seq(Entry)
         /\ Len(entries') = Len(entries) + 1
         /\ entries = <<>> =>
              /\ Len(entries') = 1
              /\ entries'[1].success = ok
              /\ entries'[1].protocol = IF c.http > 0 THEN "http" ELSE "p2p"
              /\ entries'[1].p2p = c.p2p
              /\ entries'[1].lost = c.lost
<1> DEFINE e == [success |-> ok,
                 protocol |-> IF c.http > 0 THEN "http" ELSE "p2p",
                 p2p |-> c.p2p, http |-> c.http, lost |-> c.lost]
<1>1. e \in Entry
  BY DEF Entry, Collector
<1>2. entries' = Append(entries, e)
  BY DEF WriteEntry
<1>3. /\ Append(entries, e) \in Seq(Entry)
      /\ Len(Append(entries, e)) = Len(entries) + 1
      /\ Append(entries, e)[Len(entries) + 1] = e
  BY <1>1, AppendProperties
<1>4. entries = <<>> => Len(entries) = 0
  BY EmptySeq
<1>5. /\ e.success = ok /\ e.p2p = c.p2p /\ e.lost = c.lost
      /\ e.protocol = IF c.http > 0 THEN "http" ELSE "p2p"
  OBVIOUS
<1> HIDE DEF e
<1>6. QED
  BY <1>2, <1>3, <1>4, <1>5

(***************************************************************************)
(* The inductive invariant                                                 *)
(***************************************************************************)

LEMMA InitDownloadInv == Init => DownloadInv
<1> SUFFICES ASSUME Init PROVE DownloadInv
  OBVIOUS
<1>1. NoMetadata \in Metadata
  BY EmptySeq DEF NoMetadata, Metadata
<1>2. TypeOK
  BY <1>1, ConstantsAssumption, EmptySeq
  DEF Init, TypeOK, Terminal, Content, Collector
<1>3. Cardinality({}) = 0
  BY FS_EmptySet
<1>4. PhaseInv /\ ReceivedInv /\ CollectorInv /\ EntryMatchesTransfer
  BY <1>3 DEF Init, PhaseInv, ReceivedInv, CollectorInv, EntryMatchesTransfer,
              Terminal
<1>5. QED
  BY <1>2, <1>4 DEF DownloadInv

\* Giving the peers up keeps the invariant, whatever they left behind.
LEMMA PeersGivenUp ==
  ASSUME DownloadInv, P2PFails, UNCHANGED <<unmeasured, entries>>, TypeOK',
         pc \in {"discover", "connect", "request", "receive", "reassemble"},
         collector'.http = collector.http
  PROVE  DownloadInv'
BY DEF DownloadInv, P2PFails, PhaseInv, ReceivedInv, CollectorInv,
       EntryMatchesTransfer, Terminal

\* Failing after the peers were given up keeps it too: one entry is written.
LEMMA FailKeepsInv ==
  ASSUME DownloadInv, Fail, pc \notin Terminal, usingFallback,
         UNCHANGED <<usingFallback, collector, unmeasured>>,
         requested' \in Files, meta' \in Metadata, candidates' \subseteq Peers,
         received' \subseteq Chunks, output' \in Content, cancelled' \in BOOLEAN
  PROVE  DownloadInv'
<1>1. /\ entries = <<>>
      /\ entries \in Seq(Entry)
      /\ collector \in Collector
      /\ usingFallback \in BOOLEAN /\ unmeasured \in BOOLEAN
  BY DEF DownloadInv, TypeOK, EntryMatchesTransfer
<1>2. WriteEntry(FALSE, collector)
  BY DEF Fail
<1>3. /\ entries' \in Seq(Entry)
      /\ Len(entries') = 1
      /\ entries'[1].success = FALSE
  BY <1>1, <1>2, EntryAppended
<1>5. TypeOK'
  BY <1>1, <1>3 DEF Fail, TypeOK, Terminal
<1>6. (PhaseInv /\ ReceivedInv /\ CollectorInv)'
  BY DEF Fail, PhaseInv, ReceivedInv, CollectorInv
<1>7. EntryMatchesTransfer'
  BY <1>3 DEF Fail, EntryMatchesTransfer, Terminal
<1>8. QED
  BY <1>5, <1>6, <1>7 DEF DownloadInv

LEMMA NextDownloadInv == DownloadInv /\ [Next]_vars => DownloadInv'
<1> SUFFICES ASSUME DownloadInv, [Next]_vars PROVE DownloadInv'
  OBVIOUS
<1> USE DEF Terminal
<1>0. /\ TypeOK /\ PhaseInv /\ ReceivedInv /\ CollectorInv
      /\ EntryMatchesTransfer
      /\ meta \in Metadata
      /\ meta.chunks \in Seq(Chunks)
      /\ Len(meta.chunks) \in Nat
      /\ meta.count \in Nat /\ meta.size \in Nat
      /\ collector \in Collector
      /\ collector.p2p \in Nat /\ collector.http \in Nat
      /\ collector.lost \in Nat
      /\ entries \in Seq(Entry)
      /\ pc \notin Terminal => entries = <<>>
  BY LenProperties
  DEF DownloadInv, TypeOK, Metadata, Collector, EntryMatchesTransfer
<1>r. ~usingFallback => /\ received \subseteq Range(meta.chunks)
                        /\ IsFiniteSet(received)
                        /\ Cardinality(received) \in Nat
                        /\ Cardinality(received) <= Len(meta.chunks)
  <2>1. /\ IsFiniteSet(Range(meta.chunks))
        /\ Cardinality(Range(meta.chunks)) <= Len(meta.chunks)
        /\ Cardinality(Range(meta.chunks)) \in Nat
    BY <1>0, RangeFinite, FS_CardinalityType
  <2>2. ASSUME ~usingFallback
        PROVE  /\ IsFiniteSet(received)
               /\ Cardinality(received) <= Cardinality(Range(meta.chunks))
               /\ Cardinality(received) \in Nat
    BY <1>0, <2>1, <2>2, FS_Subset, FS_CardinalityType DEF ReceivedInv
  <2>3. QED
    BY <1>0, <2>1, <2>2 DEF ReceivedInv
<1>1. ASSUME NEW found \in SUBSET Peers, AfterDiscovery(found),
             pc = "discover", meta' \in Metadata
      PROVE  DownloadInv'
  <2>1. TypeOK'
    BY <1>0, <1>1 DEF AfterDiscovery, P2PFails, TypeOK
  <2>2. CASE found = {}
    BY <1>1, <2>1, <2>2, PeersGivenUp DEF AfterDiscovery
  <2>3. CASE found # {}
    <3>1. /\ pc' = "connect"
          /\ UNCHANGED <<usingFallback, received, collector, unmeasured,
                         entries>>
      BY <1>1, <2>3 DEF AfterDiscovery
    <3>2. (PhaseInv /\ ReceivedInv /\ CollectorInv /\ EntryMatchesTransfer)'
      BY <1>0, <1>1, <3>1
      DEF PhaseInv, ReceivedInv, CollectorInv, EntryMatchesTransfer
    <3>3. QED
      BY <2>1, <3>2 DEF DownloadInv
  <2>4. QED
    BY <2>2, <2>3
<1>2. CASE TrackerAnswers
  <2>1. PICK r \in Records, found \in SUBSET Peers :
          Adopt(r) /\ AfterDiscovery(found)
    BY <1>2 DEF TrackerAnswers
  <2>2. meta' \in Metadata
    BY <1>0, <2>1, AdoptedIsMetadata
  <2>3. QED
    BY <1>1, <1>2, <2>1, <2>2 DEF TrackerAnswers
<1>3. CASE TrackerUnreachable
  BY <1>0, <1>1, <1>3 DEF TrackerUnreachable
<1>4. CASE ConnectToPeers \/ RequestBlocks
  <2>1. TypeOK'
    BY <1>0, <1>4 DEF ConnectToPeers, RequestBlocks, P2PFails, TypeOK
  <2>2. CASE P2PFails
    BY <1>4, <2>1, <2>2, PeersGivenUp DEF ConnectToPeers, RequestBlocks
  <2>3. CASE ~P2PFails
    <3>1. /\ pc \in {"connect", "request"}
          /\ pc' \in {"request", "receive"}
          /\ UNCHANGED <<meta, usingFallback, received, collector, unmeasured,
                         entries>>
      BY <1>4, <2>3 DEF ConnectToPeers, RequestBlocks
    <3>2. (PhaseInv /\ ReceivedInv /\ CollectorInv /\ EntryMatchesTransfer)'
      BY <1>0, <3>1
      DEF PhaseInv, ReceivedInv, CollectorInv, EntryMatchesTransfer, Range
    <3>3. QED
      BY <2>1, <3>2 DEF DownloadInv
  <2>4. QED
    BY <2>2, <2>3
<1>5. ASSUME NEW b \in Chunks, ReceiveBlock(b) PROVE DownloadInv'
  <2>1. ~usingFallback
    BY <1>0, <1>5 DEF ReceiveBlock, PhaseInv
  <2>2. /\ pc = "receive"
        /\ pc' = IF Complete(received') THEN "reassemble" ELSE "receive"
        /\ b \in Range(meta.chunks) /\ b \notin received
        /\ received' = received \cup {b}
        /\ collector' = [collector EXCEPT !.p2p = @ + 1]
        /\ UNCHANGED <<requested, meta, candidates, output, usingFallback,
                       cancelled, unmeasured, entries>>
    BY <1>5 DEF ReceiveBlock
  <2>3. Cardinality(received') = Cardinality(received) + 1
    BY <1>r, <2>1, <2>2, FS_AddElement
  <2>4. /\ collector' \in Collector
        /\ collector'.p2p = collector.p2p + 1
        /\ collector'.http = collector.http
        /\ collector'.lost = collector.lost
    BY <1>0, <2>2 DEF Collector
  <2>5. TypeOK'
    BY <1>0, <2>2, <2>4 DEF TypeOK
  <2>6. (PhaseInv /\ EntryMatchesTransfer)'
    BY <1>0, <2>1, <2>2 DEF PhaseInv, EntryMatchesTransfer
  <2>7. ReceivedInv'
    BY <1>r, <2>1, <2>2 DEF ReceivedInv, Complete
  <2>8. CollectorInv'
    BY <1>0, <2>1, <2>2, <2>3, <2>4 DEF CollectorInv
  <2>9. QED
    BY <2>5, <2>6, <2>7, <2>8 DEF DownloadInv
<1>6. CASE ChannelClosed
  <2>1. TypeOK'
    BY <1>0, <1>6 DEF ChannelClosed, P2PFails, TypeOK
  <2>2. CASE Complete(received)
    <3>1. /\ pc = "receive" /\ pc' = "reassemble"
          /\ UNCHANGED <<meta, usingFallback, received, collector, unmeasured,
                         entries>>
      BY <1>6, <2>2 DEF ChannelClosed
    <3>2. (PhaseInv /\ ReceivedInv /\ CollectorInv /\ EntryMatchesTransfer)'
      BY <1>0, <2>2, <3>1 DEF PhaseInv, ReceivedInv, CollectorInv,
                              EntryMatchesTransfer, Complete
    <3>3. QED
      BY <2>1, <3>2 DEF DownloadInv
  <2>3. CASE ~Complete(received)
    BY <1>6, <2>1, <2>3, PeersGivenUp DEF ChannelClosed
  <2>4. QED
    BY <2>2, <2>3
<1>7. CASE NoProgress
  <2>1. ~usingFallback
    BY <1>0, <1>7 DEF NoProgress, PhaseInv
  <2>2. collector' \in Collector
    <3> DEFINE lost == Len(meta.chunks) - Cardinality(received)
    <3>1. lost \in Nat
      BY <1>0, <1>r, <2>1
    <3>2. collector' = [collector EXCEPT !.lost = @ + lost]
      BY <1>7 DEF NoProgress, Missing
    <3> HIDE DEF lost
    <3>3. QED
      BY <1>0, <3>1, <3>2 DEF Collector
  <2>3. TypeOK'
    BY <1>0, <1>7, <2>2 DEF NoProgress, P2PFails, TypeOK
  <2>4. QED
    BY <1>7, <2>3, PeersGivenUp DEF NoProgress
<1>8. CASE ContextDone \/ ReassembleRefused
  <2>1. TypeOK'
    BY <1>0, <1>8 DEF ContextDone, ReassembleRefused, P2PFails, TypeOK
  <2>2. QED
    BY <1>8, <2>1, PeersGivenUp DEF ContextDone, ReassembleRefused
<1>9. CASE Reassemble
  <2>1. PICK n \in 0..Len(meta.chunks) :
          /\ output' = SubSeq(meta.chunks, 1, n)
          /\ IF n = Len(meta.chunks)
             THEN pc' = "verify" /\ UNCHANGED usingFallback
             ELSE P2PFails
    BY <1>9 DEF Reassemble
  <2>2. output' \in Content /\ (n = Len(meta.chunks) => output' = meta.chunks)
    BY <1>0, <2>1, PrefixIsContent
  <2>3. /\ pc = "reassemble"
        /\ UNCHANGED <<requested, meta, candidates, received, cancelled,
                       collector, unmeasured, entries>>
    BY <1>9 DEF Reassemble
  <2>4. TypeOK'
    BY <1>0, <2>1, <2>2, <2>3 DEF P2PFails, TypeOK
  <2>5. CASE n = Len(meta.chunks)
    <3>1. ~usingFallback /\ Complete(received)
      BY <1>0, <2>3 DEF PhaseInv, ReceivedInv
    <3>2. /\ pc' = "verify" /\ UNCHANGED usingFallback
          /\ output' = meta.chunks
      BY <2>1, <2>2, <2>5
    <3>3. (PhaseInv /\ CollectorInv /\ EntryMatchesTransfer)'
      BY <1>0, <2>3, <3>1, <3>2
      DEF PhaseInv, CollectorInv, EntryMatchesTransfer
    <3>4. ReceivedInv'
      BY <1>0, <2>3, <3>1, <3>2 DEF ReceivedInv, Complete
    <3>5. QED
      BY <2>4, <3>3, <3>4 DEF DownloadInv
  <2>6. CASE n # Len(meta.chunks)
    BY <2>1, <2>3, <2>4, <2>6, PeersGivenUp
  <2>7. QED
    BY <2>5, <2>6
<1>10. CASE PrepareHTTP
  <2>1. /\ pc = "fallback" /\ usingFallback
        /\ UNCHANGED <<requested, candidates, received, output,
                       usingFallback, cancelled, collector, unmeasured>>
        /\ IF meta'.url THEN pc' = "http" /\ UNCHANGED entries ELSE Fail
    BY <1>0, <1>10 DEF PrepareHTTP, PhaseInv
  <2>2. meta' \in Metadata
    <3>1. CASE UNCHANGED meta
      BY <1>0, <3>1
    <3>2. CASE \E r \in Records : Adopt(r)
      BY <1>0, <3>2, AdoptedIsMetadata
    <3>3. QED
      BY <1>10, <3>1, <3>2 DEF PrepareHTTP
  <2>3. CASE meta'.url
    <3>1. TypeOK'
      BY <1>0, <2>1, <2>2, <2>3 DEF TypeOK
    <3>2. (PhaseInv /\ ReceivedInv /\ CollectorInv /\ EntryMatchesTransfer)'
      BY <1>0, <2>1, <2>3
      DEF PhaseInv, ReceivedInv, CollectorInv, EntryMatchesTransfer
    <3>3. QED
      BY <3>1, <3>2 DEF DownloadInv
  <2>4. CASE ~meta'.url
    <3>1. /\ requested' \in Files /\ candidates' \subseteq Peers
          /\ received' \subseteq Chunks /\ output' \in Content
          /\ cancelled' \in BOOLEAN
      BY <1>0, <2>1 DEF TypeOK
    <3>2. QED
      BY <2>1, <2>2, <2>4, <3>1, FailKeepsInv
  <2>5. QED
    BY <2>3, <2>4
<1>11. CASE HTTPSucceeds
  <2>1. /\ pc = "http" /\ usingFallback
        /\ UNCHANGED <<requested, meta, candidates, received, usingFallback,
                       cancelled, unmeasured, entries>>
        /\ IF DividesByZero
           THEN pc' = "panicked" /\ UNCHANGED collector
           ELSE /\ pc' = "verify"
                /\ collector' = [collector EXCEPT !.http = @ + HTTPChunks]
    BY <1>0, <1>11 DEF HTTPSucceeds, PhaseInv
  <2>2. output' \in Content
    BY <1>0, <1>11, BodiesAreContent DEF HTTPSucceeds
  <2>3. HTTPChunks \in Nat /\ HTTPChunks > 0
    BY <1>0 DEF HTTPChunks
  <2>4. /\ collector' \in Collector
        /\ pc' = "verify" => collector'.http > 0
    BY <1>0, <2>1, <2>3 DEF Collector
  <2>5. TypeOK'
    BY <1>0, <2>1, <2>2, <2>4 DEF TypeOK
  <2>6. (PhaseInv /\ ReceivedInv /\ CollectorInv /\ EntryMatchesTransfer)'
    BY <1>0, <2>1, <2>4
    DEF PhaseInv, ReceivedInv, CollectorInv, EntryMatchesTransfer
  <2>7. QED
    BY <2>5, <2>6 DEF DownloadInv
<1>12. CASE HTTPUnmeasured
  <2>1. /\ pc = "http" /\ usingFallback /\ pc' = "verify" /\ unmeasured'
        /\ UNCHANGED <<requested, meta, candidates, received, usingFallback,
                       cancelled, collector, entries>>
        /\ unmeasured' \in BOOLEAN
        /\ collector.http = 0
    BY <1>0, <1>12 DEF HTTPUnmeasured, PhaseInv, CollectorInv
  <2>2. output' \in Content
    BY <1>0, <1>12, BodiesAreContent DEF HTTPUnmeasured
  <2>3. TypeOK'
    BY <1>0, <2>1, <2>2 DEF TypeOK
  <2>4. (PhaseInv /\ ReceivedInv /\ CollectorInv /\ EntryMatchesTransfer)'
    BY <1>0, <2>1
    DEF PhaseInv, ReceivedInv, CollectorInv, EntryMatchesTransfer
  <2>5. QED
    BY <2>3, <2>4 DEF DownloadInv
<1>13. CASE HTTPFails
  <2>1. /\ pc = "http" /\ usingFallback /\ Fail
        /\ UNCHANGED <<requested, meta, candidates, received, usingFallback,
                       cancelled, collector, unmeasured>>
    BY <1>0, <1>13 DEF HTTPFails, PhaseInv
  <2>2. output' \in Content
    BY <1>0, <1>13, BodiesAreContent DEF HTTPFails, TypeOK
  <2>3. /\ requested' \in Files /\ candidates' \subseteq Peers
        /\ meta' \in Metadata /\ received' \subseteq Chunks
        /\ cancelled' \in BOOLEAN
    BY <1>0, <2>1 DEF TypeOK
  <2>4. QED
    BY <2>1, <2>2, <2>3, FailKeepsInv
<1>14. CASE Verify
  <2>1. /\ pc = "verify"
        /\ UNCHANGED <<requested, meta, candidates, received, output,
                       usingFallback, cancelled, collector, unmeasured>>
        /\ entries = <<>>
    BY <1>0, <1>14 DEF Verify
  <2>2. PICK ok \in BOOLEAN :
          /\ pc' = IF ok THEN "complete" ELSE "failed"
          /\ WriteEntry(ok, collector)
    BY <1>14 DEF Verify, Fail
  <2>3. /\ entries' \in Seq(Entry)
        /\ Len(entries') = 1
        /\ entries'[1].success = ok
        /\ entries'[1].protocol = IF collector.http > 0 THEN "http" ELSE "p2p"
        /\ entries'[1].p2p = collector.p2p
        /\ entries'[1].lost = collector.lost
    BY <1>0, <2>1, <2>2, EntryAppended
  <2>4. TypeOK'
    BY <1>0, <2>1, <2>2, <2>3 DEF TypeOK
  <2>5. (PhaseInv /\ ReceivedInv /\ CollectorInv)'
    BY <1>0, <2>1, <2>2 DEF PhaseInv, ReceivedInv, CollectorInv, Complete
  <2>6. ~usingFallback =>
          /\ entries'[1].p2p = Len(output)
          /\ entries'[1].lost = 0
          /\ entries'[1].protocol = "p2p"
    BY <1>0, <2>1, <2>3 DEF ReceivedInv, CollectorInv, Complete
  <2>7. usingFallback =>
          entries'[1].protocol = IF ~unmeasured THEN "http" ELSE "p2p"
    BY <1>0, <2>1, <2>3 DEF CollectorInv
  <2>8. EntryMatchesTransfer'
    BY <2>1, <2>2, <2>3, <2>6, <2>7 DEF EntryMatchesTransfer
  <2>9. QED
    BY <2>4, <2>5, <2>8 DEF DownloadInv
<1>15. CASE Cancel
  BY <1>0, <1>15 DEF Cancel, TypeOK, PhaseInv, ReceivedInv, CollectorInv,
                     EntryMatchesTransfer, DownloadInv, Complete
<1>16. CASE UNCHANGED vars
  BY <1>0, <1>16 DEF vars, TypeOK, PhaseInv, ReceivedInv, CollectorInv,
                     EntryMatchesTransfer, DownloadInv, Complete
<1>17. QED
  BY <1>2, <1>3, <1>4, <1>5, <1>6, <1>7, <1>8, <1>9, <1>10, <1>11, <1>12,
     <1>13, <1>14, <1>15, <1>16
  DEF Next, Discover, Receive, GiveUp, Transfer

\* The invariant holds of every behaviour.
THEOREM DownloadInvariant == Spec => []DownloadInv
<1>1. DownloadInv /\ [Next]_vars => DownloadInv'
  BY NextDownloadInv
<1>2. QED
  BY InitDownloadInv, <1>1, PTL DEF Spec

(***************************************************************************)
(* What follows from it                                                    *)
(***************************************************************************)

\* State variables keep their types: in particular the collector's counters
\* never go below zero and the output only ever holds file contents.
THEOREM TypeCorrect == Spec => []TypeOK
<1>1. DownloadInv => TypeOK
  BY DEF DownloadInv
<1>2. QED
  BY DownloadInvariant, <1>1, PTL

\* A file with a repeated chunk is never completed by peers, because
\* receivedBlocks is keyed by CID and its size compared with the CID list's.
THEOREM RepeatedChunks == Spec => []RepeatedChunksForceHTTP
<1>1. ASSUME DownloadInv PROVE RepeatedChunksForceHTTP
  <2>1. SUFFICES ASSUME pc \in {"verify", "complete"}, ~usingFallback
                 PROVE  IsInjective(meta.chunks)
    BY DEF RepeatedChunksForceHTTP, IsInjective
  <2>2. meta.chunks \in Seq(Chunks)
    BY <1>1 DEF DownloadInv, TypeOK, Metadata
  <2>3. /\ received \subseteq Range(meta.chunks)
        /\ Cardinality(received) = Len(meta.chunks)
    BY <1>1, <2>1 DEF DownloadInv, ReceivedInv, Complete
  <2>4. QED
    BY <2>2, <2>3, CountedOnce
<1>2. QED
  BY DownloadInvariant, <1>1, PTL

\* A call writes one metrics entry, and that of a delivered file says "http"
\* exactly when the CDN delivered it and its size could be read afterwards.
THEOREM TruthfulEntries == Spec => []EntryMatchesTransfer
<1>1. DownloadInv => EntryMatchesTransfer
  BY DEF DownloadInv
<1>2. QED
  BY DownloadInvariant, <1>1, PTL

\* DownloadFile implements VerifiedDelivery: success only over the requested
\* bytes, a single switch of transport, and a final outcome.
THEOREM DeliveryImplemented == Spec => DeliversVerified
<1>1. Init => Delivery!Init
  <2> SUFFICES ASSUME Init PROVE Delivery!Init
    OBVIOUS
  <2>1. requested \in Content
    BY ConstantsAssumption DEF Init, Content
  <2>2. output \in Content
    BY EmptySeq DEF Init, Content
  <2>3. QED
    BY <2>1, <2>2 DEF Init, Delivery!Init
<1>2. DownloadInv /\ DownloadInv' /\ [Next]_vars => [Delivery!Next]_(Delivery!vars)
  <2> SUFFICES ASSUME DownloadInv, DownloadInv', [Next]_vars
               PROVE  [Delivery!Next]_(Delivery!vars)
    OBVIOUS
  <2> USE DEF Delivery!vars, Terminal
  <2>0. output' \in Content /\ PhaseInv /\ usingFallback \in BOOLEAN
    BY DEF DownloadInv, TypeOK
  <2>1. ASSUME pc \in {"discover", "connect", "request", "receive",
                       "reassemble"},
               P2PFails, UNCHANGED requested
        PROVE  Delivery!Switch
    BY <2>0, <2>1 DEF P2PFails, PhaseInv, Delivery!Switch
  <2>2. CASE Discover \/ ConnectToPeers \/ RequestBlocks
    <3>1. /\ pc \in {"discover", "connect", "request"}
          /\ UNCHANGED <<requested, output>>
          /\ \/ P2PFails
             \/ /\ UNCHANGED usingFallback
                /\ pc' \in {"connect", "request", "receive"}
      BY <2>2 DEF Discover, TrackerAnswers, TrackerUnreachable, AfterDiscovery,
                  ConnectToPeers, RequestBlocks
    <3>2. QED
      BY <2>1, <3>1 DEF Delivery!Next
  <2>3. CASE Receive \/ ChannelClosed \/ GiveUp
    <3>1. /\ pc = "receive"
          /\ UNCHANGED <<requested, output>>
          /\ \/ P2PFails
             \/ /\ UNCHANGED usingFallback
                /\ pc' \in {"receive", "reassemble"}
      BY <2>3 DEF Receive, ReceiveBlock, ChannelClosed, GiveUp, NoProgress,
                  ContextDone
    <3>2. QED
      BY <2>1, <3>1 DEF Delivery!Next
  <2>4. CASE Reassemble \/ ReassembleRefused
    <3>1. /\ pc = "reassemble"
          /\ UNCHANGED requested
          /\ \/ P2PFails
             \/ pc' = "verify" /\ UNCHANGED usingFallback
      BY <2>4 DEF Reassemble, ReassembleRefused
    <3>2. CASE P2PFails
      BY <2>1, <3>1, <3>2 DEF Delivery!Next
    <3>3. CASE pc' = "verify" /\ UNCHANGED usingFallback
      BY <2>0, <3>1, <3>3 DEF Delivery!Next, Delivery!Write
    <3>4. QED
      BY <3>1, <3>2, <3>3 DEF Delivery!Next
  <2>5. CASE PrepareHTTP
    <3>1. /\ pc = "fallback"
          /\ pc' \in {"http", "failed"}
          /\ UNCHANGED <<requested, output, usingFallback>>
      BY <2>5 DEF PrepareHTTP, Fail
    <3>2. CASE pc' = "http"
      BY <3>1, <3>2
    <3>3. CASE pc' = "failed"
      BY <2>0, <3>1, <3>3 DEF Delivery!Next, Delivery!Abandon
    <3>4. QED
      BY <3>1, <3>2, <3>3
  <2>6. CASE Transfer
    <3>1. /\ pc = "http"
          /\ pc' \in {"verify", "panicked", "failed"}
          /\ UNCHANGED <<requested, usingFallback>>
      BY <2>6 DEF Transfer, HTTPSucceeds, HTTPUnmeasured, HTTPFails, Fail
    <3>2. CASE pc' = "verify"
      BY <2>0, <3>1, <3>2 DEF Delivery!Next, Delivery!Write
    <3>3. CASE pc' \in {"panicked", "failed"}
      BY <2>0, <3>1, <3>3 DEF Delivery!Next, Delivery!Abandon
    <3>4. QED
      BY <3>1, <3>2, <3>3
  <2>7. CASE Verify
    <3>1. /\ pc = "verify"
          /\ \/ pc' = "complete" /\ output = requested
             \/ pc' = "failed"
          /\ UNCHANGED <<requested, output, usingFallback>>
      BY <2>7 DEF Verify, Fail
    <3>2. QED
      BY <2>0, <3>1 DEF Delivery!Next, Delivery!Deliver, Delivery!Abandon
  <2>8. CASE Cancel \/ UNCHANGED vars
    BY <2>8 DEF Cancel, vars
  <2>9. QED
    BY <2>2, <2>3, <2>4, <2>5, <2>6, <2>7, <2>8 DEF Next
<1>3. QED
  BY <1>1, <1>2, DownloadInvariant, PTL DEF Spec, DeliversVerified, Delivery!Spec

===============================================================================
