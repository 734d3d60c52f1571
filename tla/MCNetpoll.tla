----------------------------- MODULE MCNetpoll -----------------------------
(* Netpoll for TLC.  MCNetpoll.cfg: one direction of two connections, one of  *)
(* them with a controller, and the memory of one PollDesc, which therefore    *)
(* the second connection takes over from the first; a poller, sysmon's        *)
(* deadlines, one epoll shard.  MCNetpoll_deadline.cfg: one connection, two   *)
(* shards, two PollDescs.                                                     *)
EXTENDS Netpoll
CONSTANTS c1, c2, p1, p2, m1
=============================================================================
