------------------------------ MODULE MCIdle -------------------------------
(* Idle for TLC: two threads and two shards.  The Ps of both threads have the *)
(* same shard, as two of more than MAX_SHARDS Ps may, so that a claim goes on *)
(* to the second shard.  Before netpoll::init a thread that is idle sleeps on *)
(* its note, after it in its epoll_wait, and a thread that went to sleep      *)
(* before may still be on its note.                                           *)
EXTENDS Idle
CONSTANTS m0, m1, g1, g2, s0, s1
MCShardOf == [m \in M |-> s0]
MCNextShard == [s \in Shard |-> IF s = s0 THEN s1 ELSE s0]
=============================================================================
