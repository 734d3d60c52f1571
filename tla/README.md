# goish: a TLA+ model of the runtime's concurrency

goish is a Rust library that gives Rust programs Go's runtime and standard library:
goroutines on their own stacks, an M:N scheduler, channels and `select!`, the `sync`
package, a netpoller, timers, and ports of many sequential packages. This directory
models the part that no test pins down, the concurrent core, in TLA+. TLC checks the
modules on small instances; TLAPS proves the channels and `select!`, the ring, the idle
protocol, the netpoller, the timers, and `Mutex`, `RWMutex`, `WaitGroup`, `Cond` and
`Once` for any number of goroutines.

Paths below are relative to `src/src/`.

## 1. Inventory

| Component | Source | State | Operations | What makes it correct |
|---|---|---|---|---|
| channels, `select!` | `gochan.rs`, `select_macro.rs`, parking in `runtime/sched/scheduler.rs` | per channel: closed flag, buffer, two queues of stack-allocated sudogs, a spin lock; per goroutine: the `done` word of its select | Send, Recv, Close, tries, select in three passes | FIFO, at most one case of a select fires, no missed rendezvous, no pointer into a dead frame, no circular lock wait |
| channel buffer ring | `runtime/lockfree_ring.rs` | head, tail, a sequence number and a value per slot | `try_send`, `try_recv` | linearisable bounded FIFO, exclusive slots |
| semaphore | `sync/sema.rs` | credit, queue of parked goroutines | `acquire`, `release`, `release_n` | a release is never lost |
| Mutex | `sync/mutex.rs` | a word (locked bit, waiter count), a semaphore | Lock, TryLock, Unlock | exclusion, exact count, no stranded waiter |
| RWMutex | `sync/rwmutex.rs` | `reader_count`, `reader_wait`, two semaphores, a mutex | RLock, RUnlock, Lock, Unlock, tries | writers exclude, nobody starves |
| WaitGroup | `sync/waitgroup.rs` | a word (counter, waiters), a semaphore | Add, Done, Go, Wait, drop | Wait returns at zero, and does return |
| Cond, notify list | `sync/cond.rs`, `sync/notifylist.rs` | `wait`, `notify` tickets, a list | Wait, Signal, Broadcast | FIFO by ticket, no lost notification |
| Once | `sync/once.rs` | `done`, a mutex | Do | f runs once; Do returns after f |
| run queues | `runtime/sched/p.rs`, `scheduler.rs` | per P: ring, head, tail, `runnext`; the global queue | put, overflow, get, steal, yield | every runnable goroutine is queued exactly once |
| idle threads, LockOSThread | `scheduler.rs`, `runtime/note.rs`, `runtime/netpoll/mod.rs` | MIDLE, a note per M, shard claims, `wake_sig`, `locked_m` | find work, park, wake, claim, break, lock | the threads never all sleep over work; a note is signalled once; a locked goroutine's thread is woken |
| netpoller | `runtime/netpoll/mod.rs`, `net/mod.rs` | per descriptor `rg`, `wg`, deadlines, `fdseq`; registry; shards; the `pd` pointer of a connection | ensure_pd, open, close, block, unblock, deadlines, poll | an event or deadline wakes exactly the parked goroutine, no edge is lost |
| timers, sysmon | `runtime/sysmon.rs`, `time/sleep.rs`, `time/tick.rs` | heap of sleepers, a token per timer, a Ticker's flag and period, sysmon's futex | Sleep, NewTimer, AfterFunc, NewTicker, Stop, Reset, fire | one waker per sleeper, a stopped timer does not fire, sysmon oversleeps a deadline by no more than its round takes |
| context | `context/context.rs` | tree of contexts | cancel, derive | cancellation reaches every descendant |
| panic, recover, defer | `runtime/mod.rs`, `defer.rs` | defer chain of a goroutine | panic, recover, Goexit | deferred calls run; frames are abandoned, not unwound |

How they interact. A blocking operation registers a sudog or a semaphore waiter and
calls `gopark`; on the thread's own stack `park_m` marks the goroutine waiting and only
then runs a commit function that releases the locks. A peer that completes the
operation calls `goready`, which puts the goroutine on the waker's P. `Mutex`,
`RWMutex` and `WaitGroup` park on `Sema`; `Once` and `RWMutex` use `Mutex`; `Cond` uses
its own list and any `Locker`. Channels keep their buffer in a `LockFreeRing`, always
under the channel's lock. Threads take goroutines from their P, the global queue, other
Ps and the netpoller; without any they block in the `epoll_wait` of a shard they have
claimed, or on their note. A Read that meets EAGAIN parks on its poll descriptor, which
whoever polls (an idle thread, a searching one, sysmon) takes it off again. sysmon is a
thread without a P: it fires deadlines and timers, and readies what it wakes through the
global queue.

What is hard here: words updated by compare-and-swap that carry two facts each;
ownership that is handed over by a wake-up instead of being taken; wake-ups that come
between a registration and the park; select commit code that runs while the goroutine
whose frame it reads is already running elsewhere; tickets, ring indices and counters
that wrap; rings read by thieves while their owner writes; panics that abandon frames
with locks held; a deadline or a Close that comes between a look and a park; heap entries
that outlive what they were for; threads that go to sleep on an old look at the queues. The `hazards` of `PROJECT.json` list them line by line.

Left out for good: stacks and their growth, the context switch, signals, the
allocator's address arithmetic, profiling, language types and the sequential library
ports. They are address arithmetic, I/O or pure functions with little control to check.

## 2. Modules

| Module | Models | Grain of a step |
|---|---|---|
| `ChanSpec` | what channels and select promise: an operation is pending, fires atomically once, returns | one operation |
| `GoChan` | `gochan.rs`, `select_macro.rs` and the two commit functions | one critical section of a channel, one lock or unlock of a select |
| `RingSpec` | a bounded FIFO queue | one operation |
| `LockFreeRing` | `lockfree_ring.rs` | one atomic access |
| `Sema` | `sema.rs`, operators on a semaphore value; each is one critical section | – |
| `Mutex`, `RWMutex`, `WaitGroup`, `Once` | the files of the same name | one atomic access, or one semaphore call |
| `CondSpec` | a condition variable: a queue of waiters and a set of notified ones | one operation |
| `Cond` | `cond.rs` and `notifylist.rs` | one atomic access, or one critical section of the list |
| `RunQueue` | `p.rs` queues, global queue and dispatch of `scheduler.rs` | one atomic access of a shared word |
| `Netpoll` | `netpoll/mod.rs` under Read, Write, Accept, Close and the deadline setters of `net/mod.rs` | one atomic access, one critical section of the registry, one system call |
| `Timers` | the timer heap and loop of `sysmon.rs` under `time/sleep.rs` and `time/tick.rs` | one critical section of the heap, one atomic access, one `goready` |
| `Idle` | going idle and waking in `scheduler.rs`, `note.rs` and the shards of `netpoll/mod.rs` | one atomic access or critical section; one look at the queues |
| `GoChan_proofs`, `LockFreeRing_proofs`, `Idle_proofs`, `Netpoll_proofs`, `Timers_proofs`, `RWMutex_proofs`, `Mutex_proofs` | theorems about the modules they are named after | – |
| `Sync_proofs` | theorems about `Once`, `WaitGroup` and `Cond`, whose constants and variables are named apart for this | – |
| `MC…` | values for the constants | – |

Correspondence, where it is not plain from the names:

* **GoChan.** A select's pass 1 and 2 (`lock`, poll, `register`) run under all its
  channel locks, which are taken one by one in address order; the channel's number
  stands for the address. `parked` is the state after `gopark`; `commit[g]` is the set
  of locks that the commit function has still to release, step by step, while others
  may already have woken `g`. `woken` and `pass3` are the cancellation of the other
  cases. A peer claims a sudog through the select's `done` word (`try_claim_sudog`).
  A receive from a full buffer takes the oldest element and moves a parked sender's
  value in. The macro expands receive cases before send cases, and the operations in
  `MCGoChan` are written in that order. Reachable user-visible panics end the model
  (`fatal`); the panics that only a broken implementation can reach have their own names.
* **LockFreeRing.** Values are `<<thread, operation>>`, so that reordering shows. The
  weak compare-exchange may fail without cause (`SendLost`, `RecvLost`).
* **Mutex, RWMutex, WaitGroup.** A word that the code packs into an integer is a
  record or two numbers; the counter of `WaitGroup` keeps its width and wraps.
* **Cond.** Tickets are modulo 2^TicketWidth, with `TicketWidth = 3` in place of 32. `ListAdd`
  hands out a ticket only while every Wait in progress is within half of the range
  (`CloseBy`): `less` compares no further, and in the code half of the range is 2^31
  Waits that overtake one.
* **Once.** The mutex is atomic here (`Mutex` shows that this is what it gives);
  `Abandon` is a body whose frames the runtime discards: `runtime/mod.rs`'s panic
  handler jumps to `on_g_panic_aborted`, and no `Drop` runs.
* **RunQueue.** A P stands for the thread bound to it. `r[p]` holds the local variables
  of the call in progress. A goroutine that parks or exits becomes `waiting` and may be
  made runnable again. Stealing visits victims in any order, which covers the random
  permutation; its emptiness pre-check is read in one step, because a stale answer only
  changes whom the thief tries. Atomics are sequentially consistent.
* **Netpoll.** One goroutine per connection and direction (`IO`), and one that sets
  deadlines and closes (`Ctl`). `word` is `rg` or `wg`: NIL, READY, WAIT, or the parked
  goroutine. `pc = "park"` is the time between the WAIT and the commit function on g0,
  which may find that the park is off. An event names a slot and a tag, as in the code;
  `Lookup` and `Deliver` are two steps, with the descriptor held between them. `unblock`
  and the `goready` of whom it returned are one step (nobody else can reach that
  goroutine). The shard of a new registration is any (the code counts round robin over all
  opens), and a free slot is any, not the last freed. sysmon's sweep is one of the
  pollers. `Allocated` is the memory somebody owns (an Arc of the registry, of a
  connection, of ensure_pd before it installs or of Close after it has taken the pointer
  out, of a poller, of sysmon's list). A goroutine inside `block` or `set_deadline` owns
  nothing: it has a plain reference (`net/mod.rs:789`), so `Open` may take the memory
  from under it, and the ghost `reused` records that this happened. Until then freed
  memory keeps its contents, which is an assumption about the allocator. Fd numbers are
  not reused. `missed` is a
  ghost: the goroutines whose deadline had expired when they set WAIT. Left out: the
  client-disconnect watch, EINTR and ECONNABORTED, which only retry, and `n == 0` of Write.
* **Timers.** sysmon reads the clock once a round (`sysmon.rs:474`), before it polls the
  shards and pops the heap. Deadlines are kept as the time they were away at that reading
  (`left`), and `late` is the time since; so there is no bound on the clock. `Pop` and
  `NapFor` compare with the old reading, the nap is that long from now, and `EndNap` is the
  end of the nap with the sample of the futex counter and the next reading. A sleeper
  reads the clock in `Park`, before the heap's lock, and pushes in `Push`. The heap is a sequence ordered by deadline, with equal deadlines in any order.
  A token and the goroutine made for it have one name; it is free for reuse once the
  goroutine is dead and no entry and no object refers to it. The
  end of a park is the look at the token's state and, in a Ticker, at `stopped`.
  `goready`'s debug assertion, "target G is not parked", is `broken`, and ends the model.
  `call` and `upc` are the call of the user who owns the object; Stop and Reset do not
  overlap (Reset takes `&mut self`).
* **Idle.** Queues are sets: their order and the races inside them are `RunQueue`'s. The
  looks of `find_runnable` at the queues are one step, and so is a steal, a scan of all
  queues, and `break_one_claimed`'s load and swap; a claim tries one shard a step, in the
  order `NextShard`, and does not see what is released behind it; the look at the shard and the check
  that follows a poll of nothing are one step. An M keeps its P for good, as in the code.
  `head` and `tail` are what a poll returned. LockOSThread has no nesting count. `Live` is
  LIVE_G_COUNT. The 10 ms timeout of the poll is a return of `PollShard` with nothing; no
  property relies on it.

## 3. Runs

| Run | Instance | Properties |
|---|---|---|
| `chan` | 3 goroutines, an unbuffered and a one-slot channel, 5 operations drawn from selects (default, nil case, both directions, one channel twice), sends, receives, a try and Close | `NoMissedRendezvous`, `NoDanglingSudog`, `CommitFrameAlive`, `NoInternalPanic`, `ImplementsChanSpec`, `OperationsReturn` |
| `ring` | 3 threads, 2 slots, 2 calls each: three laps | `SlotExclusive`, `ImplementsRingSpec`, `HonestFailure`, `CallReturns` |
| `mutex` | 3 goroutines, unbounded | `MutualExclusion`, `OneOwner`, `WaitersExact`, `RegisteredGetsLock` |
| `rwmutex` | 4 goroutines, unbounded | `Exclusion`, `NoLostSignal`, `AnnouncedGetsIn` |
| `waitgroup` | 2 callers, 2 workers, 2-bit counter, unbounded | `NoStrandedWaiter`, `WaitMeansZero`, `ZeroReleases` |
| `cond` | 3 goroutines, 3-bit tickets, unbounded | `ParkedIsReachable`, `ImplementsCondSpec`, `NoLostNotification`, `NotifiedReturns` |
| `once` | 4 goroutines, unbounded | `ReturnsAfterF`, `DoReturnsOrAbandoned` |
| `runqueue` | 2 Ps with 4-slot rings, one of them full, 6 goroutines, 3-bit indices, 2 wake-ups or yields | `ExactlyOnce`, `RingBounded` |
| `netpoll` | one direction of 2 connections, one of which is given deadlines and closed, memory for one descriptor, a poller, a shard, a clock of one tick, unbounded | `WordOwner`, `NoLostReadiness`, `StrandedOnlyInWindow`, `FiresOnlyDue`, `ReadableReturns` |
| `netpoll_deadline` | one direction of one connection, its controller, a poller of 2 shards, 2 descriptors, a clock of one tick; **violated** | `ExpiredWakes` |
| `timers` | 2 tokens, durations 0 and 1, naps of at most 2, rounds of at most 1 (`MaxScan`), 2 heap entries, one Reset of the Ticker, unbounded | `OnlyResetBreaks`, `StopPreventsFire`, `OversleepsByScan`, `SleeperWakes` |
| `idle` | 2 threads whose Ps share a shard of 2, 2 goroutines of which one locks its thread, sysmon, unbounded | `NoDoubleWakeup`, `NoSleepOverWork`, `OwnerAwake` |

The runs do not list `TypeOK` where the proofs have it; it is a definition to switch on
when a module is changed.

Why the bounds are enough to be interesting. Two selects and a third party are what it
takes for one select to be claimed on two channels at once, for a lock cycle, and for a
goroutine to start its next select while the commit of the last one is still unlocking.
Two slots and six ring operations make laps overlap and slots be reused. Three
goroutines give a mutex an owner, a registered waiter and a barger. Two waiters and a
notifier draw and enqueue tickets in different orders, and three-bit tickets wrap
within one behaviour. A full four-slot ring overflows on the next put and gives a
thief a batch of two, of which one is published again; the ring starts at index 3 of 8,
so that its tail wraps. Two connections and memory for one descriptor make the second
take over what the first has freed, with its goroutine still inside `block` or gone; a
registration during Close needs no second descriptor. The
second connection gets no deadline and is not closed (`Controlled`), which keeps the
run at a quarter of a million states. What this instance does not reach is the loser of
ensure_pd's race, for which two descriptors and two shards are needed: `netpoll_deadline`
has them, and the theorems cover it for all constants, all but `ReadableReturns`. The two
directions of a connection share only the
descriptor's life, so one is enough; one tick separates due from not due. Two heap entries
are a stale one and a live one; durations shorter than a nap, counted from a reading of the
clock that is up to one tick old, put deadlines before, at and after its end. Two threads give a waker, a sleeper and sysmon between them; with
two shards a thread may be on its note from before `netpoll::init`, or in its poll. Their Ps
have one shard, as two of more than MAX_SHARDS Ps have, so that a claim goes on to the other.
`Idle` needs the locked goroutine and one other that takes its thread away.

Fairness. `WF` of the steps inside a call: the operating system schedules threads, and
a goroutine between two blocking points runs on (the runtime preempts by signal).
`Unlock` and `Done` are fair: critical sections and tasks end. `SF` stands for facts
of another component: a goroutine waiting for a mutex gets it (`RegisteredGetsLock`),
and a weak compare-exchange whose operand matches again and again succeeds in the end.
In `Netpoll`, a poller delivers what it fetched (`WF`), and every shard is fetched again and
again (`SF`): sysmon sweeps all shards in every round, at most 10 ms apart. sysmon's own
steps and the clock are fair in `Netpoll` and `Timers`. `Idle` states safety only.
No fairness is assumed of new calls. Runs whose goroutines may all stop (bounded
operations, everyone parked on a channel, an abandoned Once, an exit or a failed assertion) do not check deadlock; the
mutex, the RWMutex, the WaitGroup and the netpoll runs do.

Every property is shown to be sensitive: for each there is a variant of a modelled
definition, such as `HandOff_DropsBit` or `StillArmed_Unchecked`, under which TLC
finds it violated.

## 4. Where the code differs from what it says

Shown by a run:

* **A deadline that expires during `block` wakes nobody** (`netpoll_deadline`).
  `block` looks at the deadline, then sets NIL -> WAIT and parks. If
  `fire_expired_deadlines` or Close's `set_deadline(-1)` runs in between, `unblock` finds
  NIL and does nothing; the deadline is -1 from then on, which no scan picks up again, and
  the goroutine parks. `netpoll/mod.rs:1063-1064` promises that the parker wakes, and
  Close (`net/mod.rs:858-862`) and the listener's Close (`net/mod.rs:288-294`) rely on it.
  A new deadline, data, or another Close is needed to get the goroutine out; after Close
  there is none of these. `StrandedOnlyInWindow` says that this window, and the
  re-registration below, are the only ways to be stranded.

Seen while modelling:

* **A descriptor is freed under the goroutine that waits on it.** Close expires the
  deadline, which readies the parker, and drops the last Arc (`net/mod.rs:857-865`), while
  the parker has yet to run `gpp.swap` (`netpoll/mod.rs:703`). `net/mod.rs:309-313` knows
  of the race. If another connection's `open` gets the memory first and its goroutine has
  parked, the swap takes that goroutine off the word and panics "corrupted polldesc";
  before the swap to WAIT, at "double wait", the comment calls a stale G "impossible"
  (`netpoll/mod.rs:687-690`). The instance of `netpoll` contains both the reuse
  (`reused`) and the panic: with `pc[g] # "panic"` as an invariant TLC finds it. What
  `WordOwner`, `NoLostReadiness`, `StrandedOnlyInWindow` and `ReadableReturns` say, they
  say until such a reuse; a reference held by the goroutine inside `block` would make
  them unconditional. `FiresOnlyDue` holds in any case.
* **sysmon naps past a deadline by the length of its round.** It naps for the difference
  of the deadline and a `now` read before `poll_all`, the netpoll deadlines and all pops
  (`sysmon.rs:474`, `543-547`). `OversleepsByScan` is the bound.
* **ensure_pd during Close.** A Read that meets EAGAIN after Close has taken the `pd`
  pointer and before it has closed the fd registers a new descriptor and parks on it;
  `close(2)` delivers nothing, and no deadline is set on the new descriptor. This is the
  disjunct `my[g] = pd[g[1]]` of `StrandedOnlyInWindow`.
* **ensure_pd's race.** Two first calls on a connection may register in the same shard;
  the loser's `EPOLL_CTL_ADD` fails with EEXIST, and if the winner has not installed its
  pointer yet the loser's Read returns its EAGAIN as an error (`EnsureReload`).
* **`fdseq` starts at 1 in every descriptor**, so the tag does not tell a stale event from
  one for the next user of the slot: the effect is a spurious READY, which `block`'s
  callers absorb by trying again.
* **Ticker.Reset of a running Ticker** cancels the park and arms the same token again,
  while the old entry is still in the heap. When that comes due it wins the swap: sysmon
  readies a goroutine that need not be parked (`goready`'s assertion, and "Exactly one of
  the two transitions out of ARMED happens", `sysmon.rs:89-93`), or ticks early.
  `OnlyResetBreaks` says that nothing else does this.
* **Ticker.Stop, then Reset** before the old loop has looked at the shared `stopped` flag
  leaves two loops that tick. A tick can also be sent after Stop has returned.
* **A locked goroutine that waited for a socket** is dispatched by whichever thread polled
  (`poll_netpoll_take_one`, `block_as_netpoller`), although "only this M may remove it"
  (`scheduler.rs:2012-2013`). And `wake_locked_m` does not reach an owner that blocks in
  `epoll_wait`: it may take the poll's 10 ms.
* **`LockFreeRing` of capacity 1** accepts a second `try_send`, although "Returns
  `Err(v)` if full" and "Minimum capacity is 1": the sequence number of a published slot,
  `tail + 1`, is that of a free slot for the next ticket. Channels check their length
  under the lock and are not affected.
* **`WaitGroup::Add`** says "Negative counter panics", but the counter is extracted from a
  `u64` by a logical shift and is never negative.
* **`Once::Do`** says that a panicking f aborts the process. The panic can be recovered,
  which leaves the mutex of the Once locked; later calls of Do park for ever.
  `DoReturnsOrAbandoned` states what does hold.

## 5. Proofs

The theorems hold for every value of the constants that the assumptions allow; the
assumptions are named, sit in the module that declares the constants, and TLC evaluates
them in the module's run.

| module | theorems | assumed |
|---|---|---|
| `GoChan_proofs` | `RendezvousMade` (`NoMissedRendezvous`), `SudogsAlive` (`NoDanglingSudog`), `FrameOutlivesCommit` (`CommitFrameAlive`), `PanicsAreThePrograms` (`NoInternalPanic`), `Refinement` (`ImplementsChanSpec`), `TypeCorrect` | `ConstAssumption`: what a select, a Send, a Recv and a Close look like, and that `None` is not a value on offer |
| `LockFreeRing_proofs` | `Exclusive` (`SlotExclusive`), `Honest` (`HonestFailure`), `Refinement` (`ImplementsRingSpec`), `TypeCorrect` | `SlotAssumption`, and a capacity of at least 2 |
| `Idle_proofs` | `WorkIsSeen` (`NoSleepOverWork`), `OwnersWoken` (`OwnerAwake`), `WakeupsOnce` (`NoDoubleWakeup`), `TypeCorrect` | `IdleAssumption`: finitely many goroutines |
| `Netpoll_proofs` | `WordsHaveOwners` (`WordOwner`), `ReadinessIsNotLost` (`NoLostReadiness`), `OnlyTheWindowStrands` (`StrandedOnlyInWindow`), `FiresWhatIsDue` (`FiresOnlyDue`), `TypeCorrect` | `NetpollAssumption`: finitely many descriptors, at least one direction, and names that differ from each other. All but `FiresWhatIsDue` speak of the time before memory is reused too early |
| `Timers_proofs` | `GoreadyMeetsParked` (`OnlyResetBreaks`), `StoppedTimersDoNotFire` (`StopPreventsFire`), `SysmonOversleepsByScan` (`OversleepsByScan`), `NothingFiresEarly`, `TypeCorrect` | `TimersAssumption`: durations are natural numbers, `None` is no name |
| `RWMutex_proofs` | `Excludes` (`Exclusion`), `SignalsKept` (`NoLostSignal`), `TypeCorrect` | `RWAssumption`: finitely many goroutines, at most `MaxReaders` |
| `Mutex_proofs` | `MutualExclusion`, `OneOwner`, `WaitersExact`, `TypeOK` | `MutexAssumption`: finitely many goroutines |
| `Sync_proofs` on `Once` | `ReturnedAfterF` (`ReturnsAfterF`), `OnceTypes` | `OnceAssumption`: `NoOwner` is no goroutine |
| `Sync_proofs` on `WaitGroup` | `WaitersAreOwed` (`NoStrandedWaiter`), `WaitReturnsAtZero` (`WaitMeansZero`), `TypeCorrect` | `WGAssumption`: finitely many callers and tasks, and fewer tasks than the counter counts |
| `Sync_proofs` on `Cond` | `ParkedWaitersAreReachable` (`ParkedIsReachable`), `NotificationsAreNotLost` (`NoLostNotification`), `TicketListImplementsCond` (`ImplementsCondSpec`), `CondTypes` | `CondAssumption`: a ticket has at least one bit, with the arithmetic of powers of 2 that the provers do not know; `Nobody` is no goroutine |

**GoChan.** None of the four properties is inductive. What carries them is who holds
which channel's lock at which place of an operation:

    Inv == TypeOK /\ Frames /\ Commits /\ Locked /\ Queues /\ Framed
           /\ Claimed /\ Values /\ Registering /\ Meeting /\ NoInternalPanic

`Locked` says that a lock is held on behalf of g exactly when g's place in its operation
or the commit function of its last park says so; so two goroutines never poll the same
channel at once. `Framed` (a queued sudog is in its owner's frame) and `Commits` say why
a frame outlives those who look into it: a plain operation is woken under its one lock,
hence after its commit is over; pass 3 of a select takes each lock again, so it cannot
pass a channel that the commit has still to unlock. `Registering` keeps what pass 1 found
(not closed, buffer empty or full, nobody to meet but g's own sudogs) true until the last
sudog is queued, for which all the locks held in `Locked` are needed: this is
`NoMissedRendezvous`' induction step. `Meeting` is that property with the debt of a
Close that is still waking spelled out. `Claimed` says that who was woken was claimed
through a case whose sudog is gone, so pass 3 finds a winner; `Values` that a sudog on
offer holds a value; with `Frames` they exclude each internal panic.

`Refinement` shows that `GoChan` implements `ChanSpec`. An operation maps to its
abstract step where its poll fires or where a waker claims its sudog; taking and releasing
locks, registering, committing the park and cancelling stutter. What `Inv` does not say,
and the mapping needs, is

    IInv == Inv /\ \A g : AllQueued /\ OneWinner /\ Offered /\ Settled

Who parks has queued a sudog for every case (`AllQueued`), it is claimed through one case
only (`OneWinner`), until then its send sudogs hold the value of the current operation
(`Offered`), and an operation that leaves by itself did not fail as a sender, as a Close
that is waking has closed its channel (`Settled`). TLC agreed with `IInv` on the instance
of `chan` before it was proved.

**LockFreeRing.** Each slot of the last lap is in one of four states, `Fills`, `Full`,
`Drains`, `Recycled`, told by its sequence number relative to its ticket and by who is
between claim and publish (`SlotStates`); tickets of different threads differ
(`Tickets`), and a sequence number that a thread has read and not used yet can only have
been overtaken, not undone (`Seen`). `Honest` is an action property: a `try_send`
gives up only while the ring is full or a receive is in flight, a `try_recv` only while it
is empty or a send is in flight. For the refinement
`Data` adds that the slot of a taken ticket holds the sender's value; the claim by
compare-and-swap maps to the abstract step, everything else to stuttering. The capacity
must be at least 2: with a single slot the ring is really broken (section 4).

**Idle.** `NoSleepOverWork` says that work is never left while everybody sleeps. The
invariant accounts for every sleeper: who sleeps unsignalled is on the idle list or
somebody is about to signal it (`Covered`), and nobody is signalled by two wakers or while
it is still listed (`Notes`). A claimed shard has one poller (`Claims`); a break that is
marked in flight is in the eventfd, about to be, or just taken out (`Breaks`), so a poller
is never left in `epoll_wait` by a waker that trusted somebody else's break. While all
sleep over work, sysmon is on its way to wake the right thread (`Attended`); when the last
goroutine has ended, somebody is on its way to wake main (`LastOut`).

**Netpoll.** The invariant takes one word at a time, and has to know who may touch it:

    Inv == TypeOK /\ OneConn /\ Holding /\ Registry /\ Single /\ Control /\ WordsIn
           /\ Agree /\ Telling /\ Awaiting

It holds as long as no memory is taken over that a goroutine still points to
(`~reused => Inv`; `reused` never falls, so every step is taken from a state with `Inv`).
`Agree`, the body of `WordOwner`, is close to inductive. It needs that a descriptor serves one connection
(`OneConn`), and that who has just opened one, or taken one out of its connection to
close it, has it for itself (`Holding`): then no goroutine is in `block` on a descriptor
that is opened again, which is just what `~reused` adds to the code. `Registry` and `Single` say that what epoll reports
can still be looked up with a tag that passes the filter. `Telling` is the induction
hypothesis of `NoLostReadiness`: from EAGAIN on, not only once it is parked, a goroutine's
new readiness is under way or has reached its word. `Awaiting` is that of
`StrandedOnlyInWindow`: whoever is in `block` is on the descriptor of its connection, or
its deadline has expired, or Close is about to expire it, and an expired one that was not
`missed` is about to be unblocked. `OnlyTheWindowStrands` therefore says, for any number of
connections, that the two windows of section 4 are all there are.

**Timers.** Here the strengthening holds only until a Ticker is Reset, and the invariant
says so:

    Inv == TypeOK /\ User /\ Sorted /\ OversleepsByScan /\ (resets = 0 => Core)
    Core == (\A k \in Tok : Life(k)) /\ Heap /\ Wakers

`Life` ties the place of a sleeper to its token's state: who has been woken is no longer
armed, who delivers has fired, and a token with its `g` set and armed belongs to somebody
parked. `Heap` says that a token has one entry at most, and that it is of a committed park
nobody has ended, or of a cancelled one, whose token is never armed again while the entry
is there; this is what Ticker.Reset breaks, and nothing else. `Wakers` says that who
is about to call `goready` has won the token of somebody parked. `Sorted` (all pairs, not
only neighbours) makes the head of the heap the earliest deadline, so that `NothingFiresEarly`
follows (early by the reading sysmon goes by, which is never ahead of the clock). `SysmonOversleepsByScan` and `TypeCorrect` hold with Resets too, and
`StoppedTimersDoNotFire` needs no proviso: a program that has a Timer has no Ticker to
Reset. That `Least`, a CHOOSE, finds a minimum is proved from the well-foundedness of
strict inclusion on the intervals `0..n`.

**RWMutex.** `readerCount` may be read as negative, and a reader that leaves may meet a
writer at any stage. `Counted` ties the count, up to the writer's subtraction, to the
readers inside and on their way; `Owed` says what `readerWait` and the two semaphores
owe, so that the writer is released by exactly the last of the readers it waits for;
`Grants` and `Queued` that a credit has somebody to take it. The bound on the
goroutines is `RW_MAX_READERS` (1 << 30): with more, a count would pass for a pending
writer.

**Mutex.** Mutual exclusion is not inductive by itself: ownership leaves the goroutines during a
hand-off. The unlocker takes a waiter off the count and keeps the locked bit, the
semaphore may hold the ownership as a credit, the waiter may have been woken and not
run yet. The inductive invariant is

    Inv == TypeOK /\ MutualExclusion /\ OneOwner /\ Counted /\ Queued /\ Settled

`OneOwner` says that there is one token, with a goroutine or in the credit, exactly
while the bit is set. `Counted` says that those who have registered and not been served
number the word's count, plus the credit, plus the releases under way; it is what makes
a hand-off safe, because a release then always finds somebody to receive it. `Queued`
ties the semaphore's queue to the parked goroutines, so that who is woken was parked.
`Settled` records what a goroutine about to swap has seen, and that a word without the
bit counts no waiters: a grab or a fast-path lock never meets a waiter. The step
lemmas take one conjunct each and go through the actions one by one; cardinalities are
handled with the finite-set theorems of the library.

**Once.** `ReturnsAfterF` includes that f is entered at most once. It rests on

    OnceInv == OnceTypeOK /\ HeldInside /\ DoneAfterF /\ EnteredOnce

`HeldInside`: the mutex is held by exactly the goroutine between lock and unlock, or by
the one that abandoned f. `EnteredOnce`: once f was entered, either done is set or
somebody is inside with f entered, so that whoever passes the second look finds f not
entered; without the clause for the abandoned goroutine it is not inductive.

**WaitGroup.** `NoStrandedWaiter` is an account of credits, and it is inductive only
together with what the goroutine that reached zero has seen:

    Inv == Types /\ Counted /\ Looked /\ Owed /\ IdleGroup /\ Waker /\ Queue

`Counted`: the counter is the number of tasks, so that it neither wraps nor reaches zero
early; this is where `WGAssumption` is needed. `Owed`: those blocked number the waiters
in the word, the credits of the semaphore and the one release in flight together.
`IdleGroup`: while a credit or a release exists the word is empty; so a Wait that takes
a credit finds the group idle, which is `WaitMeansZero`, and there is only one release.
`Waker`: the waiters of an idle group have a goroutine about to swap the word for zero,
and what it has seen is the word, so that the swap does not fail for all of them; a Wait
cannot register in between, because it registers only at a counter that is not zero
(`Looked`). `Queue` ties the semaphore's queue to the parked goroutines.

**Cond.** Tickets wrap, so nothing about their order is invariant. The invariant speaks
of ages instead, the distance of a ticket behind `wait`, and of `Behind`, that of
`notify`:

    CondInv == CondTypeOK /\ Spaced /\ OneTicket /\ Covered /\ Listed /\ Handed
               /\ Told /\ Promise

`Spaced`: ages and `Behind` stay within half of the range, where `less` decides
correctly; `CloseBy` keeps this. `OneTicket` and `Covered`: the ages 1..`Behind` are
held by exactly one Wait each, so `NotifyOne` finds a holder for the ticket it takes.
`Listed` and `Handed`: a parked goroutine is in the list while it is not notified, and
in one notifier's chain from then until it is readied; this gives `ParkedIsReachable`.
Who is notified and not yet in the list will find its ticket notified (`Already`) and
not park. `Promise` relates those owed a notification to what the notifier has read of
`wait` without the lock: they hold older tickets, so a fast path that finds no ticket
left has left out none of them. For the refinement, the abstract queue is the holders
of the ages `Behind` down to 1 (`AbsByAge`); taking a ticket appends, `NotifyOne`
removes the head, `NotifyAll` empties, taking L again after a notification returns, and
all other steps leave the mapped state alone.

Only model-checked: liveness (`OperationsReturn`, `RegisteredGetsLock` and their like need
fairness and ENABLED, which the prover does not handle); the properties of `RunQueue`.
Those compare ring indices that wrap, for equality: a thief that stalls while a head goes
once around would succeed wrongly, so they hold only as long as nobody is overtaken by a
whole turn, which the bounds of the run imply and no invariant of the code does.

## 6. Not modelled, and the plan

Of the modelled parts: the disconnect watch of a descriptor; forced preemption (sysmon's
scan, the signal); nested LockOSThread; the start of threads. What the properties do not
reach: fairness between the local and the global queues depends on preemption; a batch
that a thief publishes without waking anybody costs parallelism only.

Next, in order:

1. **context** on top of channels and mutexes: cancellation against derivation.
2. Clients: errgroup, singleflight, OnceFunc, Pool, sync.Map.
3. Proofs: `RunQueue`, with a bound on how far a thief is overtaken.

Also outside the models: weak memory (all atomics are sequentially consistent; the code
uses acquire and release orderings throughout), the debug flags that switch off parts
of the scheduler, and asynchronous preemption other than as a yield at any point.
