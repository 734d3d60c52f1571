----------------------------- MODULE MCRWMutex ------------------------------
(* RWMutex for TLC: four goroutines, each a reader or a writer at any time,  *)
(* and no bound on how often.                                                 *)
EXTENDS RWMutex
CONSTANTS g1, g2, g3, g4
=============================================================================
