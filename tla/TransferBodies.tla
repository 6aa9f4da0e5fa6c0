---------------------------- MODULE TransferBodies ----------------------------
(***************************************************************************)
(* What an HTTP transfer may leave in the output file, whether it reports  *)
(* success or not.  HybridDownload assumes it of the fallback and          *)
(* HTTPFallback is shown to keep to it.                                    *)
(***************************************************************************)
EXTENDS Naturals, Sequences, Functions

\* One connection appends the body in order and may be cut short.
PrefixBodies(origin) == {SubSeq(origin, 1, n) : n \in 0..Len(origin)}

\* A chunk announced beyond the announced size lengthens the file when it is
\* written, so the file ends at the size or at one of these chunks.
Lengths(size, count) == {size} \cup size..count

\* Range workers fill a file truncated to the announced size; a chunk that was
\* not fetched, or only in part, is a hole, and one whose answer ignored the
\* Range header holds the first bytes of the origin.
RangedBody(body, origin, count, hole) ==
  \A i \in 1..Len(body) :
    \/ body[i] = hole
    \/ /\ i <= count
       /\ \/ i <= Len(origin) /\ body[i] = origin[i]
          \/ origin # <<>> /\ body[i] = origin[1]

RangedBodies(origin, size, count, hole) ==
  UNION {{body \in [1..n -> Range(origin) \cup {hole}] :
            RangedBody(body, origin, count, hole)} : n \in Lengths(size, count)}

HTTPBodies(origin, size, count, hole) ==
  PrefixBodies(origin) \cup RangedBodies(origin, size, count, hole)

===============================================================================
