------------------------------- MODULE MCSeeding -------------------------------
(* A small instance of Seeding: the content a has the chunk k1.                *)
EXTENDS Seeding, TLC

CONSTANTS a, k1

MCChunksOf == [c \in Contents |-> IF c = a THEN {k1} ELSE {}]
===============================================================================
