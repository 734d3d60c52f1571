------------------------------- MODULE MCOnce -------------------------------
(* Once for TLC: four goroutines that call Do any number of times.             *)
EXTENDS Once
CONSTANTS g1, g2, g3, g4
=============================================================================
