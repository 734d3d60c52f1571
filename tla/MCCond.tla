------------------------------- MODULE MCCond -------------------------------
(* Cond for TLC: three goroutines that wait and notify without bound, and       *)
(* three-bit tickets, so that the counters wrap again and again.               *)
EXTENDS Cond
CONSTANTS g1, g2, g3
=============================================================================
