------------------------------- MODULE MCMutex ------------------------------
(* Mutex for TLC: three goroutines, no bound on the number of lock cycles.   *)
EXTENDS Mutex
CONSTANTS g1, g2, g3
=============================================================================
