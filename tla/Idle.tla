-------------------------------- MODULE Idle --------------------------------
(***************************************************************************)
(* How threads (Ms) go idle and how a producer of work wakes one           *)
(* (sched/scheduler.rs, note.rs, and the shard claims and breaks of        *)
(* netpoll/mod.rs).  A thread that finds nothing to run claims a netpoll   *)
(* shard and blocks in its epoll_wait, or, when there is no free shard,    *)
(* puts itself on MIDLE and sleeps on its note.  A producer pushes, then   *)
(* pops a thread off MIDLE or breaks one claimed shard.                    *)
(*                                                                         *)
(* A step is one atomic access, one critical section, or one call that     *)
(* makes a single such access.  Queues are sets: RunQueue has their order  *)
(* and the steps of a steal.  Each M has its P for good, under its name.   *)
(***************************************************************************)
EXTENDS FiniteSets, Naturals

CONSTANTS M, G, Shard,
          ShardOf,       \* the shard of each M's P
          NextShard,     \* the shards in their order, the first after the last
          Main,          \* the M whose id is 0
          Main_g,        \* the goroutine of main
          Locker,        \* bound: the goroutines that call LockOSThread
          Sysmon, None

ASSUME IdleAssumption ==
    /\ Main \in M /\ Main_g \in G /\ Locker \subseteq G /\ Sysmon \notin M
    /\ None \notin M \cup G \cup Shard /\ ShardOf \in [M -> Shard]
    /\ NextShard \in [Shard -> Shard]
    /\ IsFiniteSet(G)

Proc == M \cup {Sysmon}

VARIABLES
    local, glob,           \* the run queue of each P; SCHED.runq
    status, locked,        \* each goroutine: its state; the M that it is locked to
    run,                   \* m.curg
    midle, key,            \* MIDLE; the note of each M
    nshards,               \* is NSHARDS set, that is: has netpoll::init run?
    claimed, wake_sig, efd,\* each shard: its poller's claim; a break is in flight; its eventfd is readable
    events,                \* each shard: goroutines whose descriptors are ready
    pc, r,                 \* control state of each Proc; the local variables of its calls
    fatal, exited          \* a note was signalled twice; main has called Exit

queues == <<local, glob>>
gs == <<status, locked>>
notes == <<midle, key, fatal>>
shards == <<nshards, claimed, wake_sig, efd, events>>
vars == <<queues, gs, run, notes, shards, pc, r, exited>>

Init ==
    /\ local = [m \in M |-> IF m = Main THEN {Main_g} ELSE {}] /\ glob = {}
    /\ status = [g \in G |-> IF g = Main_g THEN "runnable" ELSE "dead"]
    /\ locked = [g \in G |-> None] /\ run = [m \in M |-> None]
    /\ midle = {} /\ key = [m \in M |-> FALSE]
    /\ nshards = FALSE
    /\ claimed = [s \in Shard |-> FALSE] /\ wake_sig = [s \in Shard |-> FALSE]
    /\ efd = [s \in Shard |-> FALSE] /\ events = [s \in Shard |-> {}]
    /\ pc = [p \in Proc |-> IF p = Sysmon THEN "tick" ELSE "find"]
    /\ r = [p \in Proc |-> [head |-> None, tail |-> {}, to |-> None, s |-> None]]
    /\ fatal = FALSE /\ exited = FALSE

Goto(p, l) == pc' = [pc EXCEPT ![p] = l]
Live == Cardinality({g \in G : status[g] # "dead"})       \* LIVE_G_COUNT
Status(g, x) == status' = [status EXCEPT ![g] = x]

-----------------------------------------------------------------------------
(* A producer.                                                             *)

\* Where a Proc goes on after it has made a goroutine runnable: with the rest of what a
\* poll returned, then the head of it, or with the goroutine that it runs.
Back(p, tail) ==
    IF tail # {} THEN "tail"
    ELSE IF p = Sysmon THEN "tick"
    ELSE IF r[p].head # None THEN "execute"
    ELSE IF run[p] # None THEN "run" ELSE "find"
Return(p) == Goto(p, Back(p, r[p].tail)) /\ r' = [r EXCEPT ![p].to = None, ![p].s = None]

\* goready and newproc: enqueue_runnable's push.  The owner of a locked goroutine is woken
\* before the others.
FirstWake_Idle(g) == "wake"
FirstWake(g) == IF locked[g] = None THEN "wake" ELSE "owner"
Enqueue(p, g) ==
    /\ Status(g, "runnable")
    /\ IF locked[g] = None /\ p \in M
       THEN local' = [local EXCEPT ![p] = @ \cup {g}] /\ UNCHANGED glob
       ELSE glob' = glob \cup {g} /\ UNCHANGED local
    /\ r' = [r EXCEPT ![p].to = locked[g], ![p].tail = @ \ {g}]
    /\ Goto(p, FirstWake(g))
    /\ UNCHANGED <<locked, run, notes, shards, exited>>

\* wake_locked_m: take the owner off MIDLE.
Unlisted_Stays(m) == midle
Unlisted(m) == midle \ {m}
WakeLockedM(p) ==
    /\ pc[p] = "owner"
    /\ midle' = Unlisted(r[p].to)
    /\ Goto(p, IF r[p].to \in midle THEN "signal_owner" ELSE "wake")
    /\ UNCHANGED <<queues, gs, run, key, fatal, shards, r, exited>>

\* Note::wakeup; the second one of a cycle ends the program.
Wakeup(m) ==
    /\ key' = [key EXCEPT ![m] = TRUE]
    /\ fatal' = (fatal \/ key[m])
    /\ UNCHANGED midle
SignalOwner(p) ==
    /\ pc[p] = "signal_owner" /\ Wakeup(r[p].to) /\ Goto(p, "wake")
    /\ UNCHANGED <<queues, gs, run, shards, r, exited>>

\* wake_idle_m: pop a thread off MIDLE; without one, break one claimed shard.
WakeIdleM(p) ==
    /\ pc[p] = "wake"
    /\ \/ \E m \in midle : /\ midle' = midle \ {m} /\ Goto(p, "signal")
                           /\ r' = [r EXCEPT ![p].to = m]
       \/ midle = {} /\ Goto(p, "break") /\ r' = [r EXCEPT ![p].to = None] /\ UNCHANGED midle
    /\ UNCHANGED <<queues, gs, run, key, fatal, shards, exited>>
Signal(p) ==
    /\ pc[p] = "signal" /\ Wakeup(r[p].to) /\ Return(p)
    /\ UNCHANGED <<queues, gs, run, shards, exited>>

\* break_one_claimed, and break_shard of the shard it finds: breaks coalesce in wake_sig.
Claimed == {s \in Shard : nshards /\ claimed[s]}
BreakOneClaimed(p) ==
    /\ pc[p] = "break"
    /\ \/ \E s \in Claimed :
             /\ wake_sig' = [wake_sig EXCEPT ![s] = TRUE]
             /\ IF wake_sig[s] THEN Return(p)
                               ELSE Goto(p, "write") /\ r' = [r EXCEPT ![p].s = s]
       \/ Claimed = {} /\ Return(p) /\ UNCHANGED wake_sig
    /\ UNCHANGED <<queues, gs, run, notes, nshards, claimed, efd, events, exited>>
BreakWrite(p) ==
    /\ pc[p] = "write"
    /\ efd' = [efd EXCEPT ![r[p].s] = TRUE] /\ Return(p)
    /\ UNCHANGED <<queues, gs, run, notes, nshards, claimed, wake_sig, events, exited>>

\* The rest of what a poll returned.
Tail(p) == pc[p] = "tail" /\ \E g \in r[p].tail : Enqueue(p, g)

Produce(p) ==
    \/ WakeLockedM(p) \/ SignalOwner(p) \/ WakeIdleM(p) \/ Signal(p)
    \/ BreakOneClaimed(p) \/ BreakWrite(p) \/ Tail(p)

-----------------------------------------------------------------------------
(* schedule_loop.                                                          *)

Execute(m, g) ==
    /\ run' = [run EXCEPT ![m] = g] /\ Status(g, "running") /\ Goto(m, "run")

\* What the queues offer m, in the order of find_runnable.
Own(m) == {g \in glob : locked[g] = m}
Global(m) == {g \in glob : locked[g] \in {None, m}}
Stealable(m) == {p \in M \ {m} : local[p] # {}}
NothingFor(m) == Global(m) = {} /\ local[m] = {} /\ Stealable(m) = {}

TakeLocal(m) == \E g \in local[m] :
    /\ Own(m) = {}
    /\ local' = [local EXCEPT ![m] = @ \ {g}] /\ UNCHANGED glob /\ Execute(m, g)
TakeGlobal(m) == \E g \in IF Own(m) # {} THEN Own(m) ELSE Global(m) :
    /\ Own(m) # {} \/ local[m] = {}
    /\ glob' = glob \ {g} /\ UNCHANGED local /\ Execute(m, g)

\* steal_work: half of the victim's queue, of which one is run.
Steal(m) == \E p \in Stealable(m), g \in G : \E S \in SUBSET (local[p] \ {g}) :
    /\ Global(m) = {} /\ local[m] = {} /\ g \in local[p]
    /\ Cardinality(S) + 1 = Cardinality(local[p]) - Cardinality(local[p]) \div 2
    /\ local' = [local EXCEPT ![p] = @ \ (S \cup {g}), ![m] = S] /\ UNCHANGED glob
    /\ Execute(m, g)

FindRunnable(m) ==
    /\ pc[m] = "find"
    /\ \/ TakeLocal(m) \/ TakeGlobal(m) \/ Steal(m)
       \/ NothingFor(m) /\ Goto(m, "poll") /\ UNCHANGED <<queues, status, run>>
    /\ UNCHANGED <<locked, notes, shards, r, exited>>

\* What a poll of s returns: a head to execute, and a tail to make runnable.
Poll(p, s) ==
    /\ events' = [events EXCEPT ![s] = {}]
    /\ \/ events[s] = {} /\ UNCHANGED r
       \/ \E g \in events[s] :
             r' = [r EXCEPT ![p].head = IF p = Sysmon THEN None ELSE g,
                            ![p].tail = IF p = Sysmon THEN events[s] ELSE events[s] \ {g}]

\* poll_netpoll_take_one: a look at m's shard, which leaves the eventfd alone.  If it finds
\* nothing: maybe_exit_main_m after the spin, then has_local_or_global_work.
HasWork == glob # {} \/ \E p \in M : local[p] # {}
PollNetpollTakeOne(m) ==
    /\ pc[m] = "poll" /\ Poll(m, ShardOf[m])
    /\ Goto(m, IF r'[m].tail # {} THEN "tail" ELSE IF r'[m].head # None THEN "execute"
               ELSE IF HasWork THEN "find" ELSE "claim")
    /\ exited' = (events[ShardOf[m]] = {} /\ Live = 0 /\ m = Main)
    /\ UNCHANGED <<queues, gs, run, notes, nshards, claimed, wake_sig, efd>>

ExecuteHead(m) ==
    /\ pc[m] = "execute" /\ Execute(m, r[m].head)
    /\ r' = [r EXCEPT ![m].head = None]
    /\ UNCHANGED <<queues, locked, notes, shards, exited>>

\* try_claim_shard: one shard after the other, m's own first; park_m_idle when the last
\* of them is taken, whatever was released behind the scan.
NextTry(m) == IF r[m].s = None THEN ShardOf[m] ELSE NextShard[r[m].s]
TryClaimShard(m) ==
    LET s == NextTry(m)
        last == NextShard[s] = ShardOf[m] IN
    /\ pc[m] = "claim"
    /\ \/ /\ nshards /\ ~claimed[s]
          /\ claimed' = [claimed EXCEPT ![s] = TRUE]
          /\ r' = [r EXCEPT ![m].s = s] /\ Goto(m, "recheck")
       \/ /\ nshards /\ claimed[s] /\ ~last
          /\ r' = [r EXCEPT ![m].s = s] /\ UNCHANGED <<pc, claimed>>
       \/ /\ nshards => claimed[s] /\ last
          /\ r' = [r EXCEPT ![m].s = None] /\ Goto(m, "park") /\ UNCHANGED claimed
    /\ UNCHANGED <<queues, gs, run, notes, nshards, wake_sig, efd, events, exited>>

\* block_as_netpoller: look again after the claim, block, release the shard.
StillWork_Unchecked == FALSE
StillWork == HasWork
BlockAsNetpoller(m) ==
    /\ pc[m] = "recheck"
    /\ IF StillWork THEN claimed' = [claimed EXCEPT ![r[m].s] = FALSE] /\ Return(m)
                    ELSE Goto(m, "epoll") /\ UNCHANGED <<claimed, r>>
    /\ UNCHANGED <<queues, gs, run, notes, nshards, wake_sig, efd, events, exited>>

\* epoll_wait returns with what is there, after NETPOLL_BLOCK_MS with nothing.  A break is
\* taken out of the eventfd, then wake_sig is cleared.
Pending(s) == efd[s] \/ events[s] # {}
PollShard(m) ==
    LET s == r[m].s IN
    /\ pc[m] = "epoll" /\ Poll(m, s)
    /\ efd' = [efd EXCEPT ![s] = FALSE]
    /\ Goto(m, IF efd[s] THEN "drained" ELSE "release")
    /\ UNCHANGED <<queues, gs, run, notes, nshards, claimed, wake_sig, exited>>
PollShardSig(m) ==
    /\ pc[m] = "drained" /\ Goto(m, "release")
    /\ wake_sig' = [wake_sig EXCEPT ![r[m].s] = FALSE]
    /\ UNCHANGED <<queues, gs, run, notes, nshards, claimed, efd, events, r, exited>>
ReleaseShard(m) ==
    /\ pc[m] = "release"
    /\ claimed' = [claimed EXCEPT ![r[m].s] = FALSE]
    /\ Return(m)
    /\ UNCHANGED <<queues, gs, run, notes, nshards, wake_sig, efd, events, exited>>

\* park_m_idle: the decision and the push are one critical section of MIDLE.
MayPark == ~HasWork /\ Live # 0
ParkMIdle(m) ==
    /\ pc[m] = "park"
    /\ \/ ~MayPark /\ Goto(m, "find") /\ UNCHANGED <<midle, key>>
       \/ /\ MayPark /\ Goto(m, "sleep")
          /\ key' = [key EXCEPT ![m] = FALSE] /\ midle' = midle \cup {m}
    /\ UNCHANGED <<queues, gs, run, fatal, shards, r, exited>>
NoteSleep(m) ==
    /\ pc[m] = "sleep" /\ key[m] /\ Goto(m, "find")
    /\ UNCHANGED <<queues, gs, run, notes, shards, r, exited>>

ScheduleLoop(m) ==
    \/ FindRunnable(m) \/ PollNetpollTakeOne(m) \/ ExecuteHead(m)
    \/ TryClaimShard(m) \/ BlockAsNetpoller(m) \/ PollShard(m) \/ PollShardSig(m)
    \/ ReleaseShard(m) \/ ParkMIdle(m) \/ NoteSleep(m)

-----------------------------------------------------------------------------
(* The running goroutine.                                                  *)

Running(m) == pc[m] = "run"

\* go!() of a goroutine, or goready of one that waits.
Newproc(m) == \E g \in G \ {Main_g} : Running(m) /\ status[g] = "dead" /\ Enqueue(m, g)
Goready(m) == \E g \in G : Running(m) /\ status[g] = "waiting" /\ Enqueue(m, g)

\* park_m
Park(m) ==
    /\ Running(m) /\ Status(run[m], "waiting")
    /\ run' = [run EXCEPT ![m] = None] /\ Goto(m, "find")
    /\ UNCHANGED <<queues, locked, notes, shards, r, exited>>

\* gosched_m: to the global queue.
Gosched(m) ==
    /\ Running(m) /\ Status(run[m], "runnable")
    /\ run' = [run EXCEPT ![m] = None] /\ glob' = glob \cup {run[m]}
    /\ r' = [r EXCEPT ![m].to = locked[run[m]]]
    /\ Goto(m, FirstWake(run[m]))
    /\ UNCHANGED <<local, locked, notes, shards, exited>>

\* goexit0: the last one out wakes everybody.
WakesAll == Live' = 0
Goexit(m) ==
    /\ Running(m) /\ Status(run[m], "dead")
    /\ locked' = [locked EXCEPT ![run[m]] = None]
    /\ run' = [run EXCEPT ![m] = None] /\ Goto(m, IF WakesAll THEN "wake_all" ELSE "find")
    /\ UNCHANGED <<queues, notes, shards, r, exited>>
WakeAllIdleM(m) ==
    /\ pc[m] = "wake_all"
    /\ \/ \E n \in midle : /\ midle' = midle \ {n} /\ Goto(m, "signal_all")
                           /\ r' = [r EXCEPT ![m].to = n]
       \/ midle = {} /\ Return(m) /\ UNCHANGED midle
    /\ UNCHANGED <<queues, gs, run, key, fatal, shards, exited>>
SignalAll(m) ==
    /\ pc[m] = "signal_all" /\ Wakeup(r[m].to) /\ Goto(m, "wake_all")
    /\ UNCHANGED <<queues, gs, run, shards, r, exited>>

\* main returns, with Exit.
MainReturns(m) ==
    /\ Running(m) /\ run[m] = Main_g /\ exited' = TRUE
    /\ UNCHANGED <<queues, gs, run, notes, shards, pc, r>>

\* lock_os_thread, unlock_os_thread
LockOSThread(m) ==
    /\ Running(m) /\ run[m] \in Locker /\ locked[run[m]] = None
    /\ locked' = [locked EXCEPT ![run[m]] = m]
    /\ UNCHANGED <<queues, status, run, notes, shards, pc, r, exited>>
UnlockOSThread(m) ==
    /\ Running(m) /\ locked[run[m]] = m
    /\ locked' = [locked EXCEPT ![run[m]] = None]
    /\ UNCHANGED <<queues, status, run, notes, shards, pc, r, exited>>

\* The first socket: netpoll::init.
NetpollInit(m) ==
    /\ Running(m) /\ ~nshards /\ nshards' = TRUE
    /\ UNCHANGED <<queues, gs, run, notes, claimed, wake_sig, efd, events, pc, r, exited>>

Goroutine(m) ==
    \/ Newproc(m) \/ Goready(m) \/ Park(m) \/ Gosched(m) \/ Goexit(m) \/ MainReturns(m)
    \/ LockOSThread(m) \/ UnlockOSThread(m) \/ NetpollInit(m)

-----------------------------------------------------------------------------
(* sysmon, which has no P, and the kernel.                                 *)

\* A timer is due, or a sweep of the shards returns goroutines.
SysmonTimer == \E g \in G :
    pc[Sysmon] = "tick" /\ status[g] = "waiting" /\ Enqueue(Sysmon, g)
SysmonPoll == \E s \in Shard :
    /\ pc[Sysmon] = "tick" /\ events[s] # {} /\ Poll(Sysmon, s) /\ Goto(Sysmon, "tail")
    /\ UNCHANGED <<queues, gs, run, notes, nshards, claimed, wake_sig, efd, exited>>

\* A descriptor on which g is parked becomes ready.
Readable == \E g \in G, s \in Shard :
    /\ nshards /\ status[g] = "waiting" /\ Status(g, "io")
    /\ events' = [events EXCEPT ![s] = @ \cup {g}]
    /\ UNCHANGED <<queues, locked, run, notes, nshards, claimed, wake_sig, efd, pc, r, exited>>

-----------------------------------------------------------------------------
Thread(m) == ScheduleLoop(m) \/ Produce(m) \/ WakeAllIdleM(m) \/ SignalAll(m)

\* Exit, and the fatal error of a note, end the program.
Next ==
    /\ ~fatal /\ ~exited
    /\ \/ \E m \in M : Thread(m) \/ Goroutine(m)
       \/ SysmonTimer \/ SysmonPoll \/ Produce(Sysmon) \/ Readable

Spec == Init /\ [][Next]_vars

-----------------------------------------------------------------------------
\* A note is signalled at most once in a park cycle, whoever takes its thread off MIDLE:
\* wake_idle_m, wake_locked_m or wake_all_idle_m (note.rs: a second wakeup is fatal).
NoDoubleWakeup == ~fatal

\* The threads never all sleep over a runnable goroutine, nor the main thread over the end
\* of the last one.  With nobody in the middle of a wakeup and no thread about to wake, the
\* queues are empty and main is not on its note for good: no break was swallowed by
\* wake_sig, and no thread went to sleep on a look that was older than the push.
Asleep(m) == \/ pc[m] = "sleep" /\ ~key[m]
             \/ pc[m] = "epoll" /\ ~Pending(r[m].s)
NoSleepOverWork ==
    (\A m \in M : Asleep(m)) /\ pc[Sysmon] = "tick" =>
        ~HasWork /\ (Live = 0 => pc[Main] # "sleep")

\* A thread does not stay on its note, where nothing times out, over a goroutine that only
\* it may run: it is off MIDLE or about to be taken off, however it and the push, or a
\* wake_idle_m that popped it meanwhile, were interleaved.  (In epoll_wait, where
\* wake_locked_m cannot reach it, it may sleep over one until the poll times out.)
WakingOf(m) == \E p \in Proc :
    r[p].to = m /\ pc[p] \in {"owner", "signal_owner", "signal", "signal_all"}
OwnerAwake == \A m \in M : pc[m] = "sleep" /\ ~key[m] /\ Own(m) # {} => WakingOf(m)
=============================================================================
