---------------------------- MODULE MCWaitGroup -----------------------------
(* WaitGroup for TLC: two callers, two workers that are spawned again and     *)
(* again, a two-bit counter.                                                  *)
EXTENDS WaitGroup
CONSTANTS c1, c2, k1, k2
=============================================================================
