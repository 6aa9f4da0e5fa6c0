--------------------------- MODULE MCHybridDownload ---------------------------
(* A small instance of HybridDownload. *)
EXTENDS HybridDownload

CONSTANTS a, b

\* Two different chunks, the same chunk twice, and the empty file.
MCFiles == {<<a, b>>, <<a, a>>, <<>>}

\* What a seeder registers for content f.
Registered(f) == [size |-> Len(f), chunkSize |-> 1, count |-> Len(f),
                  chunks |-> f, url |-> TRUE]

\* Records of every content (the tracker does not check that a record fits the
\* hash), one without its chunk list, one with more chunks than its size holds,
\* and one with nothing but size and URL.
MCRecords ==
  {Registered(f) : f \in MCFiles \cup {<<b, a>>}}
  \cup {[Registered(<<a, b>>) EXCEPT !.chunks = <<>>],
        [Registered(<<a, b>>) EXCEPT !.size = 1],
        [size |-> 2, chunkSize |-> 0, count |-> 0, chunks |-> <<>>,
         url |-> TRUE]}

===============================================================================
