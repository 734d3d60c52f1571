--------------------------- MODULE MCLockFreeRing ---------------------------
(* LockFreeRing for TLC: three threads on two slots, so that laps overlap.   *)
EXTENDS LockFreeRing
CONSTANTS t1, t2, t3
=============================================================================
