----------------------------- MODULE MCTimers ------------------------------
(* Timers for TLC: a Timer, a Ticker and sleeping goroutines.                 *)
EXTENDS Timers
CONSTANTS t1, t2
=============================================================================
