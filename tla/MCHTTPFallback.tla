---------------------------- MODULE MCHTTPFallback ----------------------------
(* A small instance of HTTPFallback. *)
EXTENDS HTTPFallback

CONSTANTS a, b, c

\* The file the metadata announces, and another one, shorter.
MCOrigins == {<<a, b, c>>, <<a, b>>}

\* Announced with its chunk count, registered without it, and with a count that
\* goes beyond the size (the tracker compares neither with the other).
MCAnnounced == {<<3, 3>>, <<3, 0>>, <<1, 3>>}

\* Nothing, or a longer file from peers.
MCLeftovers == {<<>>, <<b, b, b, b>>}

===============================================================================
