----------------------------- MODULE MCRunQueue -----------------------------
(* RunQueue for TLC: two Ps with four-slot rings; the first one's is full,   *)
(* so that a put overflows and a thief takes a batch.                        *)
EXTENDS RunQueue
CONSTANTS p1, p2, g1, g2, g3, g4, g5, g6

MCLoaded == <<g2, g3, g4, g5>>
=============================================================================
