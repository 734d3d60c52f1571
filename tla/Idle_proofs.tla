---------------------------- MODULE Idle_proofs ----------------------------
(***************************************************************************)
(* Proofs about Idle, for any number of threads, shards and goroutines.    *)
(*                                                                         *)
(* Three facts carry them.  A thread that sleeps on its note is on MIDLE   *)
(* or has exactly one waker, who has taken it off (Notes, Covered).  A     *)
(* claimed shard has exactly one poller, and a break that is marked in     *)
(* wake_sig is in the eventfd, about to be, or just taken out (Claims,     *)
(* Breaks).  When every thread is asleep over a queued goroutine, sysmon   *)
(* is in the middle of a wakeup that still has somebody to reach           *)
(* (Attended).                                                             *)
(***************************************************************************)
EXTENDS Idle, FiniteSetTheorems, TLAPS

Label == {"tick", "find", "poll", "tail", "execute", "run", "owner", "signal_owner", "wake",
          "signal", "break", "write", "claim", "recheck", "epoll", "drained", "release",
          "park", "sleep", "wake_all", "signal_all"}
Local == [head : G \cup {None}, tail : SUBSET G, to : M \cup {None}, s : Shard \cup {None}]

\* Every variable has its type; a thread that runs a goroutine, or is about to, has one.
TypeOK ==
    /\ local \in [M -> SUBSET G] /\ glob \in SUBSET G
    /\ status \in [G -> {"dead", "runnable", "running", "waiting", "io"}]
    /\ locked \in [G -> M \cup {None}] /\ run \in [M -> G \cup {None}]
    /\ midle \in SUBSET M /\ key \in [M -> BOOLEAN]
    /\ nshards \in BOOLEAN /\ claimed \in [Shard -> BOOLEAN]
    /\ wake_sig \in [Shard -> BOOLEAN] /\ efd \in [Shard -> BOOLEAN]
    /\ events \in [Shard -> SUBSET G]
    /\ pc \in [Proc -> Label] /\ r \in [Proc -> Local]
    /\ fatal \in BOOLEAN /\ exited \in BOOLEAN
Busy == \A m \in M : /\ pc[m] = "run" => run[m] \in G
                     /\ pc[m] = "execute" => r[m].head \in G

\* Who is on MIDLE sleeps, unsignalled; so does whom a waker has taken off, and no two
\* wakers have taken off the same thread.
Signalling(p) == pc[p] \in {"signal", "signal_owner", "signal_all"}
Dormant(m) == pc[m] = "sleep" /\ ~key[m]
Notes ==
    /\ pc[Sysmon] # "sleep"
    /\ \A m \in midle : Dormant(m)
    /\ \A p \in Proc : Signalling(p) => /\ r[p].to \in M /\ Dormant(r[p].to)
                                        /\ r[p].to \notin midle
    /\ \A p, q \in Proc : Signalling(p) /\ Signalling(q) /\ r[p].to = r[q].to => p = q

\* Who sleeps unsignalled is on MIDLE, or somebody is about to signal it.
Covered == \A m \in M : Dormant(m) =>
    m \in midle \/ \E p \in Proc : Signalling(p) /\ r[p].to = m

\* A claimed shard has one poller, and who polls a shard has claimed it.
Polling(m) == pc[m] \in {"recheck", "epoll", "drained", "release"}
Claims ==
    /\ ~Polling(Sysmon)
    /\ \A m \in M : Polling(m) => r[m].s \in Shard /\ claimed[r[m].s]
    /\ \A m, n \in M : Polling(m) /\ Polling(n) /\ r[m].s = r[n].s => m = n
    /\ \A s \in Shard : claimed[s] => nshards /\ \E m \in M : Polling(m) /\ r[m].s = s

\* A break that is marked in flight is in the eventfd, about to be, or just taken out.
Breaks ==
    /\ \A p \in Proc : pc[p] = "write" => r[p].s \in Shard
    /\ \A s \in Shard : wake_sig[s] =>
          efd[s] \/ \E p \in Proc : pc[p] \in {"write", "drained"} /\ r[p].s = s

\* Somebody attends to the work while everybody sleeps.
AllAsleep == \A m \in M : Asleep(m)
Attended ==
    AllAsleep /\ HasWork =>
        \/ pc[Sysmon] \in {"tail", "owner", "signal_owner", "wake", "signal"}
        \/ pc[Sysmon] = "break" /\ \E m \in M : pc[m] = "epoll"
        \/ pc[Sysmon] = "write" /\ \E m \in M : pc[m] = "epoll" /\ r[m].s = r[Sysmon].s

\* Somebody attends to main when the last goroutine has ended.
LastOut ==
    Live = 0 /\ Dormant(Main) =>
        \/ \E m \in M : pc[m] \in {"wake_all", "signal_all"}
        \/ \E p \in Proc : Signalling(p) /\ r[p].to = Main

Inv == /\ TypeOK /\ Busy /\ NoDoubleWakeup
       /\ Notes /\ Covered /\ OwnerAwake
       /\ Claims /\ Breaks /\ Attended /\ LastOut

\* A step of p leaves the others where they were.
Frame(p) == \A q \in Proc : q # p => pc'[q] = pc[q] /\ r'[q] = r[q]

-----------------------------------------------------------------------------
(* Types.                                                                  *)

\* The invariant holds initially.
LEMMA InitInv == Init => Inv
<1> SUFFICES ASSUME Init PROVE Inv  OBVIOUS
<1> USE IdleAssumption DEF Init, Proc
<1>1. TypeOK  BY DEF TypeOK, Label, Local
<1>2. Busy  BY DEF Busy
<1>3. Notes /\ Covered /\ NoDoubleWakeup
  BY DEF Notes, Covered, NoDoubleWakeup, Signalling, Dormant
<1>4. Claims /\ Breaks  BY DEF Claims, Breaks, Polling
<1>5. Attended /\ LastOut /\ OwnerAwake
  BY DEF Attended, LastOut, OwnerAwake, AllAsleep, Asleep, Dormant
<1> QED  BY <1>1, <1>2, <1>3, <1>4, <1>5 DEF Inv

\* The local variables after an assignment to one of them.
LEMMA SetTo ==
  ASSUME r \in [Proc -> Local], NEW p \in Proc, NEW x \in M \cup {None},
         r' = [r EXCEPT ![p].to = x]
  PROVE  /\ r' \in [Proc -> Local] /\ r'[p].to = x
         /\ r'[p].head = r[p].head /\ r'[p].tail = r[p].tail /\ r'[p].s = r[p].s
         /\ \A q \in Proc : q # p => r'[q] = r[q]
<1>1. r[p] \in Local  OBVIOUS
<1>2. [r[p] EXCEPT !.to = x] \in Local  BY <1>1 DEF Local
<1>3. r' = [r EXCEPT ![p] = [r[p] EXCEPT !.to = x]]  OBVIOUS
<1>4. r' \in [Proc -> Local] /\ r'[p] = [r[p] EXCEPT !.to = x]  BY <1>2, <1>3
<1>5. \A q \in Proc : q # p => r'[q] = r[q]  BY <1>3
<1> QED  BY <1>1, <1>4, <1>5 DEF Local

\* The same for the shard, and for the head of a poll.
LEMMA SetS ==
  ASSUME r \in [Proc -> Local], NEW p \in Proc, NEW x \in Shard \cup {None},
         r' = [r EXCEPT ![p].s = x]
  PROVE  /\ r' \in [Proc -> Local] /\ r'[p].s = x
         /\ r'[p].head = r[p].head /\ r'[p].tail = r[p].tail /\ r'[p].to = r[p].to
         /\ \A q \in Proc : q # p => r'[q] = r[q]
<1>1. r[p] \in Local  OBVIOUS
<1>2. [r[p] EXCEPT !.s = x] \in Local  BY <1>1 DEF Local
<1>3. r' = [r EXCEPT ![p] = [r[p] EXCEPT !.s = x]]  OBVIOUS
<1>4. r' \in [Proc -> Local] /\ r'[p] = [r[p] EXCEPT !.s = x]  BY <1>2, <1>3
<1>5. \A q \in Proc : q # p => r'[q] = r[q]  BY <1>3
<1> QED  BY <1>1, <1>4, <1>5 DEF Local

\* A thread that executes the head of a poll forgets it.
LEMMA SetHead ==
  ASSUME r \in [Proc -> Local], NEW p \in Proc, r' = [r EXCEPT ![p].head = None]
  PROVE  /\ r' \in [Proc -> Local]
         /\ r'[p].tail = r[p].tail /\ r'[p].to = r[p].to /\ r'[p].s = r[p].s
         /\ \A q \in Proc : q # p => r'[q] = r[q]
<1>1. r[p] \in Local  OBVIOUS
<1>2. [r[p] EXCEPT !.head = None] \in Local  BY <1>1 DEF Local
<1>3. r' = [r EXCEPT ![p] = [r[p] EXCEPT !.head = None]]  OBVIOUS
<1>4. r' \in [Proc -> Local] /\ r'[p] = [r[p] EXCEPT !.head = None]  BY <1>2, <1>3
<1>5. \A q \in Proc : q # p => r'[q] = r[q]  BY <1>3
<1> QED  BY <1>1, <1>4, <1>5 DEF Local

\* Where a process goes on after a wakeup.
LEMMA ReturnEffect ==
  ASSUME TypeOK, NEW p \in Proc, Return(p)
  PROVE  /\ pc' \in [Proc -> Label] /\ r' \in [Proc -> Local]
         /\ pc'[p] \in {"tail", "tick", "execute", "run", "find"}
         /\ pc'[p] = "tick" <=> p = Sysmon /\ r[p].tail = {}
         /\ p # Sysmon /\ pc'[p] = "execute" => r'[p].head # None
         /\ p # Sysmon /\ pc'[p] = "run" => run[p] # None
         /\ r'[p].head = r[p].head /\ r'[p].tail = r[p].tail
         /\ Frame(p)
<1>0. r \in [Proc -> Local] /\ pc \in [Proc -> Label]  BY DEF TypeOK
<1>1. r[p] \in Local  BY <1>0
<1>2. [r[p] EXCEPT !.to = None, !.s = None] \in Local  BY <1>1 DEF Local
<1>3. r' = [r EXCEPT ![p] = [r[p] EXCEPT !.to = None, !.s = None]]  BY DEF Return
<1>4. r' \in [Proc -> Local] /\ r'[p] = [r[p] EXCEPT !.to = None, !.s = None]  BY <1>0, <1>2, <1>3
<1>5. \A q \in Proc : q # p => r'[q] = r[q]  BY <1>0, <1>3
<1>6. r'[p].head = r[p].head /\ r'[p].tail = r[p].tail  BY <1>1, <1>4 DEF Local
<1>7. pc' = [pc EXCEPT ![p] = Back(p, r[p].tail)]  BY DEF Return, Goto
<1> QED  BY <1>0, <1>4, <1>5, <1>6, <1>7, IdleAssumption DEF Back, Label, Frame

\* A step of p keeps the others busy with what they had.
LEMMA BusyFrame ==
  ASSUME TypeOK, Busy, NEW p \in Proc, r' \in [Proc -> Local], run' \in [M -> G \cup {None}],
         Frame(p),
         \A q \in M : q # p => run'[q] = run[q],
         p \in M => /\ pc'[p] = "run" => run'[p] # None
                    /\ pc'[p] = "execute" => r'[p].head # None
  PROVE  Busy'
<1>1. \A q \in M : q \in Proc /\ r'[q].head \in G \cup {None}  BY DEF Proc, Local
<1>2. ASSUME NEW q \in M PROVE (pc'[q] = "run" => run'[q] \in G) /\ (pc'[q] = "execute" => r'[q].head \in G)
  BY <1>1 DEF Busy, Frame
<1> QED  BY <1>2 DEF Busy

\* A return keeps everybody busy.
LEMMA ReturnBusy ==
  ASSUME TypeOK, Busy, NEW p \in Proc, Return(p), UNCHANGED run
  PROVE  pc' \in [Proc -> Label] /\ r' \in [Proc -> Local] /\ Busy' /\ Frame(p)
<1>1. /\ pc' \in [Proc -> Label] /\ r' \in [Proc -> Local] /\ Frame(p)
      /\ p # Sysmon /\ pc'[p] = "execute" => r'[p].head # None
      /\ p # Sysmon /\ pc'[p] = "run" => run[p] # None
  BY ReturnEffect
<1>2. run' \in [M -> G \cup {None}] /\ Sysmon \notin M  BY IdleAssumption DEF TypeOK
<1> QED  BY <1>1, <1>2, BusyFrame

\* A push, and the choice of whom to wake first.
LEMMA EnqueueEffect ==
  ASSUME TypeOK, Busy, NEW p \in Proc, NEW g \in G, Enqueue(p, g)
  PROVE  /\ TypeOK' /\ Busy' /\ Frame(p)
         /\ pc'[p] = FirstWake(g) /\ pc'[p] \in {"wake", "owner"}
         /\ r'[p].to = locked[g] /\ r'[p].head = r[p].head
         /\ \/ local' = [local EXCEPT ![p] = @ \cup {g}] /\ locked[g] = None /\ UNCHANGED glob
            \/ glob' = glob \cup {g} /\ UNCHANGED local
<1> DEFINE t == r[p].tail \ {g}
<1>0. /\ r \in [Proc -> Local] /\ pc \in [Proc -> Label] /\ locked \in [G -> M \cup {None}]
      /\ local \in [M -> SUBSET G] /\ glob \in SUBSET G
  BY DEF TypeOK
<1>1. r[p] \in Local /\ locked[g] \in M \cup {None}  BY <1>0
<1>2. t \in SUBSET G  BY <1>1 DEF Local
<1>3. [r[p] EXCEPT !.to = locked[g], !.tail = t] \in Local  BY <1>1, <1>2 DEF Local
<1>4. r' = [r EXCEPT ![p] = [r[p] EXCEPT !.to = locked[g], !.tail = t]]  BY DEF Enqueue
<1>5. r' \in [Proc -> Local] /\ r'[p] = [r[p] EXCEPT !.to = locked[g], !.tail = t]  BY <1>0, <1>3, <1>4
<1>6. \A q \in Proc : q # p => r'[q] = r[q]  BY <1>0, <1>4
<1>7. r'[p].to = locked[g] /\ r'[p].head = r[p].head  BY <1>1, <1>5 DEF Local
<1>8. /\ pc' \in [Proc -> Label] /\ pc'[p] = FirstWake(g) /\ pc'[p] \in {"wake", "owner"}
      /\ \A q \in Proc : q # p => pc'[q] = pc[q]
  BY <1>0 DEF Enqueue, Goto, FirstWake, Label
<1>9. Frame(p)  BY <1>6, <1>8 DEF Frame
<1>10. local' \in [M -> SUBSET G] /\ glob' \in SUBSET G  BY <1>0 DEF Enqueue
<1>11. status' \in [G -> {"dead", "runnable", "running", "waiting", "io"}]
  BY DEF Enqueue, Status, TypeOK
<1>12. TypeOK'
  BY <1>5, <1>8, <1>10, <1>11 DEF TypeOK, Enqueue, notes, shards
<1>13. Busy'
  <2>1. run' \in [M -> G \cup {None}] /\ UNCHANGED run  BY DEF TypeOK, Enqueue
  <2> QED  BY <1>5, <1>8, <1>9, <2>1, BusyFrame
<1>14. \/ local' = [local EXCEPT ![p] = @ \cup {g}] /\ locked[g] = None /\ UNCHANGED glob
       \/ glob' = glob \cup {g} /\ UNCHANGED local
  BY DEF Enqueue
<1> QED  BY <1>7, <1>8, <1>9, <1>12, <1>13, <1>14

\* The steps of a producer, of threads and of sysmon alike.
LEMMA TypeProduce ==
  ASSUME Inv, NEW p \in Proc, Produce(p)
  PROVE  TypeOK' /\ Busy' /\ Frame(p)
<1> TypeOK /\ Busy /\ (Signalling(p) => r[p].to \in M)  BY DEF Inv, Notes
<1>0. ASSUME Return(p), UNCHANGED run
      PROVE  pc' \in [Proc -> Label] /\ r' \in [Proc -> Local] /\ Busy' /\ Frame(p)
  BY <1>0, ReturnBusy
<1> USE IdleAssumption DEF TypeOK, Goto, queues, gs, notes, shards
<1>1. CASE WakeLockedM(p)
  <2>1. /\ pc' \in [Proc -> Label] /\ pc'[p] \in {"signal_owner", "wake"} /\ Frame(p)
        /\ midle' \in SUBSET M
    BY <1>1 DEF WakeLockedM, Unlisted, Label, Frame
  <2>2. Busy'  BY <1>1, <2>1, BusyFrame DEF WakeLockedM
  <2> QED  BY <1>1, <2>1, <2>2 DEF WakeLockedM
<1>2. CASE SignalOwner(p)
  <2>1. /\ pc' \in [Proc -> Label] /\ pc'[p] = "wake" /\ Frame(p) /\ key' \in [M -> BOOLEAN]
        /\ fatal' \in BOOLEAN
    BY <1>2 DEF SignalOwner, Wakeup, Signalling, Label, Frame
  <2>2. Busy'  BY <1>2, <2>1, BusyFrame DEF SignalOwner
  <2> QED  BY <1>2, <2>1, <2>2 DEF SignalOwner, Wakeup
<1>3. CASE WakeIdleM(p)
  <2>1. PICK x \in M \cup {None} : r' = [r EXCEPT ![p].to = x]  BY <1>3 DEF WakeIdleM
  <2>2. r' \in [Proc -> Local] /\ \A q \in Proc : q # p => r'[q] = r[q]  BY <2>1, SetTo
  <2>3. /\ midle' \in SUBSET M /\ pc' \in [Proc -> Label] /\ pc'[p] \in {"signal", "break"}
        /\ \A q \in Proc : q # p => pc'[q] = pc[q]
    BY <1>3 DEF WakeIdleM, Label
  <2>4. Frame(p)  BY <2>2, <2>3 DEF Frame
  <2>5. Busy'  BY <1>3, <2>2, <2>3, <2>4, BusyFrame DEF WakeIdleM
  <2> QED  BY <1>3, <2>2, <2>3, <2>4, <2>5 DEF WakeIdleM
<1>4. CASE Signal(p)
  <2>1. key' \in [M -> BOOLEAN] /\ fatal' \in BOOLEAN
    BY <1>4 DEF Signal, Wakeup, Signalling
  <2> QED  BY <1>0, <1>4, <2>1 DEF Signal, Wakeup
<1>5. CASE BreakOneClaimed(p)
  <2>1. wake_sig' \in [Shard -> BOOLEAN]  BY <1>5 DEF BreakOneClaimed
  <2>2. CASE Return(p)  BY <1>0, <1>5, <2>1, <2>2 DEF BreakOneClaimed
  <2>3. CASE ~Return(p)
    <3>1. PICK x \in Shard : r' = [r EXCEPT ![p].s = x] /\ Goto(p, "write")
      BY <1>5, <2>3 DEF BreakOneClaimed, Claimed
    <3>2. r' \in [Proc -> Local] /\ \A q \in Proc : q # p => r'[q] = r[q]  BY <3>1, SetS
    <3>3. pc' \in [Proc -> Label] /\ pc'[p] = "write" /\ \A q \in Proc : q # p => pc'[q] = pc[q]
      BY <3>1 DEF Label
    <3>4. Frame(p)  BY <3>2, <3>3 DEF Frame
    <3>5. Busy'  BY <1>5, <3>2, <3>3, <3>4, BusyFrame DEF BreakOneClaimed
    <3> QED  BY <1>5, <2>1, <3>2, <3>3, <3>4, <3>5 DEF BreakOneClaimed
  <2> QED  BY <2>2, <2>3
<1>6. CASE BreakWrite(p)
  <2>1. efd' \in [Shard -> BOOLEAN]  BY <1>6 DEF BreakWrite
  <2> QED  BY <1>0, <1>6, <2>1 DEF BreakWrite
<1>7. CASE Tail(p)
  <2>1. PICK g \in r[p].tail : Enqueue(p, g)  BY <1>7 DEF Tail
  <2>2. r[p] \in Local  OBVIOUS
  <2>3. g \in G  BY <2>2 DEF Local
  <2> QED  BY <2>1, <2>3, EnqueueEffect
<1> QED  BY <1>1, <1>2, <1>3, <1>4, <1>5, <1>6, <1>7 DEF Produce

\* What a poll leaves in the local variables.
LEMMA PollEffect ==
  ASSUME TypeOK, NEW p \in Proc, NEW s \in Shard, Poll(p, s)
  PROVE  /\ r' \in [Proc -> Local] /\ events' \in [Shard -> SUBSET G]
         /\ r'[p].to = r[p].to /\ r'[p].s = r[p].s
         /\ \A q \in Proc : q # p => r'[q] = r[q]
<1>1. r \in [Proc -> Local] /\ events \in [Shard -> SUBSET G]  BY DEF TypeOK
<1>2. events' \in [Shard -> SUBSET G]  BY <1>1 DEF Poll
<1>3. CASE UNCHANGED r  BY <1>1, <1>2, <1>3
<1>4. CASE ~UNCHANGED r
  <2>1. PICK g \in events[s] :
             r' = [r EXCEPT ![p].head = IF p = Sysmon THEN None ELSE g,
                            ![p].tail = IF p = Sysmon THEN events[s] ELSE events[s] \ {g}]
    BY <1>4 DEF Poll
  <2> DEFINE h == IF p = Sysmon THEN None ELSE g
             t == IF p = Sysmon THEN events[s] ELSE events[s] \ {g}
  <2>2. h \in G \cup {None} /\ t \in SUBSET G  BY <1>1
  <2>3. r[p] \in Local  BY <1>1
  <2>4. r' = [r EXCEPT ![p] = [r[p] EXCEPT !.head = h, !.tail = t]]  BY <2>1
  <2> HIDE DEF h, t
  <2>5. [r[p] EXCEPT !.head = h, !.tail = t] \in Local  BY <2>2, <2>3 DEF Local
  <2>6. r' \in [Proc -> Local] /\ r'[p] = [r[p] EXCEPT !.head = h, !.tail = t]
    BY <1>1, <2>4, <2>5
  <2>7. \A q \in Proc : q # p => r'[q] = r[q]  BY <1>1, <2>4
  <2> QED  BY <1>2, <2>3, <2>6, <2>7 DEF Local
<1> QED  BY <1>3, <1>4

\* The steps of the scheduling loop.
LEMMA TypeSchedule ==
  ASSUME Inv, NEW m \in M, ScheduleLoop(m)
  PROVE  TypeOK' /\ Busy' /\ Frame(m)
<1> TypeOK /\ Busy /\ m \in Proc /\ (Polling(m) => r[m].s \in Shard)  BY DEF Inv, Claims, Proc
<1>0. ASSUME Return(m), UNCHANGED run
      PROVE  pc' \in [Proc -> Label] /\ r' \in [Proc -> Local] /\ Busy' /\ Frame(m)
  BY <1>0, ReturnBusy
<1>x. ASSUME NEW g \in G, Execute(m, g), UNCHANGED r
      PROVE  /\ pc' \in [Proc -> Label] /\ Busy' /\ Frame(m) /\ run' \in [M -> G \cup {None}]
             /\ status' \in [G -> {"dead", "runnable", "running", "waiting", "io"}]
  <2>1. /\ pc' \in [Proc -> Label] /\ run' \in [M -> G \cup {None}] /\ run'[m] = g
        /\ \A q \in M : q # m => run'[q] = run[q]
        /\ status' \in [G -> {"dead", "runnable", "running", "waiting", "io"}]
        /\ pc'[m] = "run" /\ Frame(m)
    BY <1>x DEF Execute, Status, Goto, Label, TypeOK, Frame
  <2>2. g # None  BY IdleAssumption
  <2>3. r' \in [Proc -> Local]  BY <1>x DEF TypeOK
  <2> QED  BY <2>1, <2>2, <2>3, BusyFrame
<1> USE IdleAssumption DEF TypeOK, Goto, queues, gs, notes, shards
<1>1. CASE FindRunnable(m)
  <2>1. CASE TakeLocal(m)
    <3>1. PICK g \in local[m] :
             local' = [local EXCEPT ![m] = @ \ {g}] /\ UNCHANGED glob /\ Execute(m, g)
      BY <2>1 DEF TakeLocal
    <3>2. local' \in [M -> SUBSET G] /\ g \in G  BY <3>1
    <3> QED  BY <1>1, <1>x, <3>1, <3>2 DEF FindRunnable
  <2>2. CASE TakeGlobal(m)
    <3>1. PICK g \in glob : glob' = glob \ {g} /\ UNCHANGED local /\ Execute(m, g)
      BY <2>2 DEF TakeGlobal, Own, Global
    <3>2. glob' \in SUBSET G /\ g \in G  BY <3>1
    <3> QED  BY <1>1, <1>x, <3>1, <3>2 DEF FindRunnable
  <2>3. CASE Steal(m)
    <3>1. PICK p \in Stealable(m), g \in G : \E S \in SUBSET (local[p] \ {g}) :
             /\ local' = [local EXCEPT ![p] = @ \ (S \cup {g}), ![m] = S] /\ UNCHANGED glob
             /\ Execute(m, g)
      BY <2>3 DEF Steal
    <3>2. local' \in [M -> SUBSET G]  BY <3>1 DEF Stealable
    <3> QED  BY <1>1, <1>x, <3>1, <3>2 DEF FindRunnable
  <2>4. CASE Goto(m, "poll") /\ UNCHANGED <<queues, status, run>>
    <3>1. pc' \in [Proc -> Label] /\ pc'[m] = "poll" /\ Frame(m)
      BY <1>1, <2>4 DEF FindRunnable, Label, Frame
    <3>2. Busy'  BY <1>1, <2>4, <3>1, BusyFrame DEF FindRunnable
    <3> QED  BY <1>1, <2>4, <3>1, <3>2 DEF FindRunnable
  <2> QED  BY <1>1, <2>1, <2>2, <2>3, <2>4 DEF FindRunnable
<1>2. CASE PollNetpollTakeOne(m)
  <2>1. Poll(m, ShardOf[m]) /\ ShardOf[m] \in Shard  BY <1>2 DEF PollNetpollTakeOne
  <2>2. /\ r' \in [Proc -> Local] /\ events' \in [Shard -> SUBSET G]
        /\ \A q \in Proc : q # m => r'[q] = r[q]
    BY <2>1, PollEffect
  <2>3. /\ pc' \in [Proc -> Label] /\ \A q \in Proc : q # m => pc'[q] = pc[q]
        /\ pc'[m] # "run" /\ (pc'[m] = "execute" => r'[m].head # None)
    BY <1>2 DEF PollNetpollTakeOne, Label
  <2>4. Frame(m)  BY <2>2, <2>3 DEF Frame
  <2>5. Busy'  BY <1>2, <2>2, <2>3, <2>4, BusyFrame DEF PollNetpollTakeOne
  <2>6. exited' \in BOOLEAN  BY <1>2 DEF PollNetpollTakeOne
  <2> QED  BY <1>2, <2>2, <2>3, <2>4, <2>5, <2>6 DEF PollNetpollTakeOne
<1>3. CASE ExecuteHead(m)
  <2>1. /\ r' \in [Proc -> Local] /\ \A q \in Proc : q # m => r'[q] = r[q]
    BY <1>3, SetHead DEF ExecuteHead
  <2>2. r[m].head \in G  BY <1>3 DEF ExecuteHead, Busy
  <2>3. /\ pc' \in [Proc -> Label] /\ run' \in [M -> G \cup {None}] /\ run'[m] # None
        /\ \A q \in M : q # m => run'[q] = run[q]
        /\ status' \in [G -> {"dead", "runnable", "running", "waiting", "io"}]
        /\ pc'[m] = "run" /\ \A q \in Proc : q # m => pc'[q] = pc[q]
    BY <1>3, <2>2 DEF ExecuteHead, Execute, Status, Label
  <2>4. Frame(m)  BY <2>1, <2>3 DEF Frame
  <2>5. Busy'  BY <2>1, <2>3, <2>4, BusyFrame
  <2> QED  BY <1>3, <2>1, <2>3, <2>4, <2>5 DEF ExecuteHead
<1>4. CASE TryClaimShard(m)
  <2>0. NextTry(m) \in Shard
    <3>1. r[m] \in Local  OBVIOUS
    <3>2. r[m].s \in Shard \cup {None}  BY <3>1 DEF Local
    <3> QED  BY <3>2 DEF NextTry
  <2>1. PICK x \in Shard \cup {None} : r' = [r EXCEPT ![m].s = x]
    BY <1>4, <2>0 DEF TryClaimShard
  <2>2. r' \in [Proc -> Local] /\ \A q \in Proc : q # m => r'[q] = r[q]
    BY <2>1, SetS
  <2>3. /\ pc' \in [Proc -> Label] /\ pc'[m] \in {"claim", "park", "recheck"}
        /\ \A q \in Proc : q # m => pc'[q] = pc[q]
        /\ claimed' \in [Shard -> BOOLEAN]
    BY <1>4, <2>0 DEF TryClaimShard, Label
  <2>4. Frame(m)  BY <2>2, <2>3 DEF Frame
  <2>5. Busy'  BY <1>4, <2>2, <2>3, <2>4, BusyFrame DEF TryClaimShard
  <2> QED  BY <1>4, <2>2, <2>3, <2>4, <2>5 DEF TryClaimShard
<1>5. CASE BlockAsNetpoller(m)
  <2>1. claimed' \in [Shard -> BOOLEAN]  BY <1>5 DEF BlockAsNetpoller
  <2>2. CASE Return(m)  BY <1>0, <1>5, <2>1, <2>2 DEF BlockAsNetpoller
  <2>3. CASE Goto(m, "epoll") /\ UNCHANGED r
    <3>1. pc' \in [Proc -> Label] /\ pc'[m] = "epoll" /\ Frame(m)
      BY <2>3 DEF Label, Frame
    <3>2. Busy'  BY <1>5, <2>3, <3>1, BusyFrame DEF BlockAsNetpoller
    <3> QED  BY <1>5, <2>1, <2>3, <3>1, <3>2 DEF BlockAsNetpoller
  <2> QED  BY <1>5, <2>2, <2>3 DEF BlockAsNetpoller
<1>6. CASE PollShard(m)
  <2>1. r[m].s \in Shard  BY <1>6 DEF PollShard, Polling
  <2>2. /\ r' \in [Proc -> Local] /\ events' \in [Shard -> SUBSET G]
        /\ \A q \in Proc : q # m => r'[q] = r[q]
    BY <1>6, <2>1, PollEffect DEF PollShard
  <2>3. /\ pc' \in [Proc -> Label] /\ \A q \in Proc : q # m => pc'[q] = pc[q]
        /\ pc'[m] \in {"drained", "release"} /\ efd' \in [Shard -> BOOLEAN]
    BY <1>6 DEF PollShard, Label
  <2>4. Frame(m)  BY <2>2, <2>3 DEF Frame
  <2>5. Busy'  BY <1>6, <2>2, <2>3, <2>4, BusyFrame DEF PollShard
  <2> QED  BY <1>6, <2>2, <2>3, <2>4, <2>5 DEF PollShard
<1>7. CASE PollShardSig(m)
  <2>1. pc' \in [Proc -> Label] /\ pc'[m] = "release" /\ Frame(m) /\ wake_sig' \in [Shard -> BOOLEAN]
    BY <1>7 DEF PollShardSig, Label, Frame
  <2>2. Busy'  BY <1>7, <2>1, BusyFrame DEF PollShardSig
  <2> QED  BY <1>7, <2>1, <2>2 DEF PollShardSig
<1>8. CASE ReleaseShard(m)
  <2>1. claimed' \in [Shard -> BOOLEAN]  BY <1>8 DEF ReleaseShard
  <2> QED  BY <1>0, <1>8, <2>1 DEF ReleaseShard
<1>9. CASE ParkMIdle(m)
  <2>1. /\ pc' \in [Proc -> Label] /\ pc'[m] \in {"find", "sleep"} /\ Frame(m)
        /\ key' \in [M -> BOOLEAN] /\ midle' \in SUBSET M
    BY <1>9 DEF ParkMIdle, Label, Frame
  <2>2. Busy'  BY <1>9, <2>1, BusyFrame DEF ParkMIdle
  <2> QED  BY <1>9, <2>1, <2>2 DEF ParkMIdle
<1>10. CASE NoteSleep(m)
  <2>1. pc' \in [Proc -> Label] /\ pc'[m] = "find" /\ Frame(m)
    BY <1>10 DEF NoteSleep, Label, Frame
  <2>2. Busy'  BY <1>10, <2>1, BusyFrame DEF NoteSleep
  <2> QED  BY <1>10, <2>1, <2>2 DEF NoteSleep
<1> QED  BY <1>1, <1>2, <1>3, <1>4, <1>5, <1>6, <1>7, <1>8, <1>9, <1>10 DEF ScheduleLoop

\* The steps of the running goroutine, and the wakeup of everybody.
LEMMA TypeGoroutine ==
  ASSUME Inv, NEW m \in M, Goroutine(m) \/ WakeAllIdleM(m) \/ SignalAll(m)
  PROVE  TypeOK' /\ Busy' /\ Frame(m)
<1> TypeOK /\ Busy /\ m \in Proc /\ (Signalling(m) => r[m].to \in M)  BY DEF Inv, Notes, Proc
<1>0. ASSUME Return(m), UNCHANGED run
      PROVE  pc' \in [Proc -> Label] /\ r' \in [Proc -> Local] /\ Busy' /\ Frame(m)
  BY <1>0, ReturnBusy
<1>1. CASE Newproc(m)  BY <1>1, EnqueueEffect DEF Newproc
<1>2. CASE Goready(m)  BY <1>2, EnqueueEffect DEF Goready
<1> USE IdleAssumption DEF TypeOK, Goto, queues, gs, notes, shards
<1>3. CASE Park(m)
  <2>1. /\ pc' \in [Proc -> Label] /\ pc'[m] = "find" /\ Frame(m)
        /\ run' \in [M -> G \cup {None}] /\ \A q \in M : q # m => run'[q] = run[q]
        /\ status' \in [G -> {"dead", "runnable", "running", "waiting", "io"}]
    BY <1>3 DEF Park, Status, Label, Frame
  <2>2. Busy'  BY <1>3, <2>1, BusyFrame DEF Park
  <2> QED  BY <1>3, <2>1, <2>2 DEF Park
<1>4. CASE Gosched(m)
  <2>1. run[m] \in G /\ locked[run[m]] \in M \cup {None}  BY <1>4 DEF Gosched, Running, Busy
  <2>2. r' \in [Proc -> Local] /\ \A q \in Proc : q # m => r'[q] = r[q]
    BY <1>4, <2>1, SetTo DEF Gosched
  <2>3. /\ pc' \in [Proc -> Label] /\ pc'[m] \in {"wake", "owner"}
        /\ \A q \in Proc : q # m => pc'[q] = pc[q]
        /\ run' \in [M -> G \cup {None}] /\ \A q \in M : q # m => run'[q] = run[q]
        /\ status' \in [G -> {"dead", "runnable", "running", "waiting", "io"}]
        /\ glob' \in SUBSET G
    BY <1>4, <2>1 DEF Gosched, Status, FirstWake, Label
  <2>4. Frame(m)  BY <2>2, <2>3 DEF Frame
  <2>5. Busy'  BY <2>2, <2>3, <2>4, BusyFrame
  <2> QED  BY <1>4, <2>2, <2>3, <2>4, <2>5 DEF Gosched
<1>5. CASE Goexit(m)
  <2>1. /\ pc' \in [Proc -> Label] /\ pc'[m] \in {"find", "wake_all"} /\ Frame(m)
        /\ run' \in [M -> G \cup {None}] /\ \A q \in M : q # m => run'[q] = run[q]
        /\ status' \in [G -> {"dead", "runnable", "running", "waiting", "io"}]
        /\ locked' \in [G -> M \cup {None}]
    BY <1>5 DEF Goexit, Status, Label, Frame
  <2>2. Busy'  BY <1>5, <2>1, BusyFrame DEF Goexit
  <2> QED  BY <1>5, <2>1, <2>2 DEF Goexit
<1>6. CASE MainReturns(m)  BY <1>6 DEF MainReturns, Busy, Frame
<1>7. CASE LockOSThread(m)  BY <1>7 DEF LockOSThread, Busy, Frame
<1>8. CASE UnlockOSThread(m)  BY <1>8 DEF UnlockOSThread, Busy, Frame
<1>9. CASE NetpollInit(m)  BY <1>9 DEF NetpollInit, Busy, Frame
<1>10. CASE WakeAllIdleM(m)
  <2>1. CASE Return(m)  BY <1>0, <1>10, <2>1 DEF WakeAllIdleM
  <2>2. CASE ~Return(m)
    <3>1. PICK n \in midle : /\ midle' = midle \ {n} /\ Goto(m, "signal_all")
                             /\ r' = [r EXCEPT ![m].to = n]
      BY <1>10, <2>2 DEF WakeAllIdleM
    <3>2. r' \in [Proc -> Local] /\ \A q \in Proc : q # m => r'[q] = r[q]  BY <3>1, SetTo
    <3>3. /\ pc' \in [Proc -> Label] /\ pc'[m] = "signal_all" /\ midle' \in SUBSET M
          /\ \A q \in Proc : q # m => pc'[q] = pc[q]
      BY <3>1 DEF Label
    <3>4. Frame(m)  BY <3>2, <3>3 DEF Frame
    <3>5. Busy'  BY <1>10, <3>2, <3>3, <3>4, BusyFrame DEF WakeAllIdleM
    <3> QED  BY <1>10, <3>2, <3>3, <3>4, <3>5 DEF WakeAllIdleM
  <2> QED  BY <2>1, <2>2
<1>11. CASE SignalAll(m)
  <2>1. /\ pc' \in [Proc -> Label] /\ pc'[m] = "wake_all" /\ Frame(m) /\ key' \in [M -> BOOLEAN]
        /\ fatal' \in BOOLEAN
    BY <1>11 DEF SignalAll, Wakeup, Signalling, Label, Frame
  <2>2. Busy'  BY <1>11, <2>1, BusyFrame DEF SignalAll
  <2> QED  BY <1>11, <2>1, <2>2 DEF SignalAll, Wakeup
<1> QED  BY <1>1, <1>2, <1>3, <1>4, <1>5, <1>6, <1>7, <1>8, <1>9, <1>10, <1>11 DEF Goroutine

\* The steps of sysmon and of the kernel.
LEMMA TypeSysmon ==
  ASSUME Inv, SysmonTimer \/ SysmonPoll \/ Readable
  PROVE  TypeOK' /\ Busy' /\ Frame(Sysmon)
<1> TypeOK /\ Busy /\ Sysmon \in Proc  BY DEF Inv, Proc
<1>1. CASE SysmonTimer  BY <1>1, EnqueueEffect DEF SysmonTimer
<1> USE IdleAssumption DEF TypeOK, Goto, queues, gs, notes, shards
<1>2. CASE SysmonPoll
  <2>1. PICK s \in Shard : Poll(Sysmon, s) /\ Goto(Sysmon, "tail")  BY <1>2 DEF SysmonPoll
  <2>2. /\ r' \in [Proc -> Local] /\ events' \in [Shard -> SUBSET G]
        /\ \A q \in Proc : q # Sysmon => r'[q] = r[q]
    BY <2>1, PollEffect
  <2>3. pc' \in [Proc -> Label] /\ \A q \in Proc : q # Sysmon => pc'[q] = pc[q]
    BY <2>1 DEF Label
  <2>4. Frame(Sysmon)  BY <2>2, <2>3 DEF Frame
  <2>5. Busy'  BY <1>2, <2>2, <2>3, <2>4, BusyFrame DEF SysmonPoll
  <2> QED  BY <1>2, <2>2, <2>3, <2>4, <2>5 DEF SysmonPoll
<1>3. CASE Readable
  <2>1. /\ status' \in [G -> {"dead", "runnable", "running", "waiting", "io"}]
        /\ events' \in [Shard -> SUBSET G]
    BY <1>3 DEF Readable, Status
  <2> QED  BY <1>3, <2>1 DEF Readable, Busy, Frame
<1> QED  BY <1>1, <1>2, <1>3

\* Types, and what the busy threads are busy with.
LEMMA StepType == ASSUME Inv, [Next]_vars PROVE TypeOK' /\ Busy'
<1>1. CASE Next
  BY <1>1, TypeProduce, TypeSchedule, TypeGoroutine, TypeSysmon DEF Next, Thread, Proc
<1>2. CASE UNCHANGED vars
  BY <1>2 DEF vars, queues, gs, notes, shards, Inv, TypeOK, Busy
<1> QED  BY <1>1, <1>2

-----------------------------------------------------------------------------
(* Notes and their wakers.                                                 *)

NotesInv == Notes /\ Covered /\ NoDoubleWakeup

\* A step that has to do with nobody's note.
LEMMA NotesFrame ==
  ASSUME Inv, NEW p \in Proc, Frame(p), UNCHANGED notes,
         ~Signalling(p), ~Signalling(p)', pc[p] # "sleep" \/ key[p], pc'[p] # "sleep"
  PROVE  NotesInv' /\ \A m \in M : Dormant(m)' <=> Dormant(m)
<1> Notes /\ Covered /\ NoDoubleWakeup /\ midle \in SUBSET M  BY DEF Inv, TypeOK
<1>0. M \subseteq Proc /\ Sysmon \in Proc  BY DEF Proc
<1>1. \A q \in Proc : q # p => pc'[q] = pc[q] /\ r'[q].to = r[q].to /\ (Signalling(q)' <=> Signalling(q))
  BY DEF Frame, Signalling
<1>2. \A m \in M : Dormant(m)' <=> Dormant(m)
  BY <1>0, <1>1 DEF Dormant, notes
<1>3. UNCHANGED midle /\ UNCHANGED fatal  BY DEF notes
<1>4. Notes'
  <2>1. (pc[Sysmon] # "sleep")'  BY <1>0, <1>1 DEF Notes
  <2>2. (\A m \in midle : Dormant(m))'  BY <1>2, <1>3 DEF Notes
  <2>3. \A q \in Proc : Signalling(q)' => Signalling(q) /\ r'[q].to = r[q].to  BY <1>1
  <2>4. (\A q \in Proc : Signalling(q) => /\ r[q].to \in M /\ Dormant(r[q].to)
                                          /\ r[q].to \notin midle)'
    <3> SUFFICES ASSUME NEW q \in Proc, Signalling(q)'
                 PROVE  (r[q].to \in M /\ Dormant(r[q].to) /\ r[q].to \notin midle)'
      OBVIOUS
    <3>1. r[q].to \in M /\ Dormant(r[q].to) /\ r[q].to \notin midle /\ r'[q].to = r[q].to
      BY <2>3 DEF Notes
    <3>2. PICK x \in M : x = r[q].to /\ Dormant(x)'  BY <1>2, <3>1
    <3> QED  BY <1>3, <3>1, <3>2 DEF Dormant
  <2>5. \A a, b \in Proc : Signalling(a)' /\ Signalling(b)' /\ r'[a].to = r'[b].to => a = b
    BY <2>3 DEF Notes
  <2> QED  BY <2>1, <2>2, <2>4, <2>5 DEF Notes
<1>5. Covered'
  <2> SUFFICES ASSUME NEW m \in M, Dormant(m)', m \notin midle
               PROVE  \E q \in Proc : Signalling(q)' /\ r'[q].to = m
    BY <1>3 DEF Covered
  <2>1. PICK q \in Proc : Signalling(q) /\ r[q].to = m  BY <1>2 DEF Covered
  <2>2. q # p  BY <2>1
  <2> QED  BY <1>1, <2>1, <2>2
<1> QED  BY <1>2, <1>3, <1>4, <1>5 DEF NotesInv, NoDoubleWakeup

\* A waker takes m off MIDLE and is the only one to signal it.
LEMMA TakeOff ==
  ASSUME Inv, NEW p \in Proc, Frame(p), NEW m \in midle, midle' = midle \ {m},
         UNCHANGED <<key, fatal>>, ~Signalling(p), Signalling(p)', pc[p] # "sleep", r'[p].to = m
  PROVE  NotesInv' /\ \A n \in M : Dormant(n)' <=> Dormant(n)
<1> Notes /\ Covered /\ NoDoubleWakeup /\ m \in M /\ midle \in SUBSET M  BY DEF Inv, TypeOK
<1>0. M \subseteq Proc /\ Sysmon \in Proc  BY DEF Proc
<1>1. \A q \in Proc : q # p => pc'[q] = pc[q] /\ r'[q].to = r[q].to /\ (Signalling(q)' <=> Signalling(q))
  BY DEF Frame, Signalling
<1>2. pc'[p] # "sleep"  BY DEF Signalling
<1>3. \A n \in M : Dormant(n)' <=> Dormant(n)
  BY <1>0, <1>1, <1>2 DEF Dormant
<1>4. \A q \in Proc : q # p /\ Signalling(q) => r[q].to # m  BY DEF Notes
<1>5. Notes'
  <2>1. (pc[Sysmon] # "sleep")'  BY <1>0, <1>1, <1>2 DEF Notes
  <2>2. (\A n \in midle : Dormant(n))'  BY <1>3 DEF Notes
  <2>3. (\A q \in Proc : Signalling(q) => /\ r[q].to \in M /\ Dormant(r[q].to)
                                          /\ r[q].to \notin midle)'
    <3> SUFFICES ASSUME NEW q \in Proc, Signalling(q)'
                 PROVE  (r[q].to \in M /\ Dormant(r[q].to) /\ r[q].to \notin midle)'
      OBVIOUS
    <3>1. PICK x \in M : x = r'[q].to /\ Dormant(x) /\ x \notin midle'
      BY <1>1, <1>4 DEF Notes
    <3>2. Dormant(x)'  BY <1>3, <3>1
    <3> QED  BY <3>1, <3>2 DEF Dormant
  <2>4. \A a, b \in Proc : Signalling(a)' /\ Signalling(b)' /\ r'[a].to = r'[b].to => a = b
    BY <1>1, <1>4 DEF Notes
  <2> QED  BY <2>1, <2>2, <2>3, <2>4 DEF Notes
<1>6. Covered'
  <2> SUFFICES ASSUME NEW n \in M, Dormant(n)', n \notin midle'
               PROVE  \E q \in Proc : Signalling(q)' /\ r'[q].to = n
    BY DEF Covered
  <2>1. CASE n = m  BY <2>1
  <2>2. CASE n # m
    <3>1. PICK q \in Proc : Signalling(q) /\ r[q].to = n  BY <1>3, <2>2 DEF Covered
    <3> QED  BY <1>1, <3>1
  <2> QED  BY <2>1, <2>2
<1> QED  BY <1>3, <1>5, <1>6 DEF NotesInv, NoDoubleWakeup

\* The waker signals the note, which was not signalled before.
LEMMA SignalNote ==
  ASSUME Inv, NEW p \in Proc, Frame(p), Wakeup(r[p].to), Signalling(p), ~Signalling(p)',
         pc'[p] # "sleep"
  PROVE  /\ NotesInv'
         /\ \A n \in M : Dormant(n)' <=> Dormant(n) /\ n # r[p].to
<1> Notes /\ Covered /\ NoDoubleWakeup /\ key \in [M -> BOOLEAN] /\ midle \in SUBSET M
  BY DEF Inv, TypeOK
<1>0. M \subseteq Proc /\ Sysmon \in Proc  BY DEF Proc
<1>1. \A q \in Proc : q # p => pc'[q] = pc[q] /\ r'[q].to = r[q].to /\ (Signalling(q)' <=> Signalling(q))
  BY DEF Frame, Signalling
<1> DEFINE x == r[p].to
<1>2. x \in M /\ Dormant(x) /\ x \notin midle  BY DEF Notes
<1>3. x # p  BY <1>2 DEF Dormant, Signalling
<1>4. /\ UNCHANGED midle /\ key' = [key EXCEPT ![x] = TRUE] /\ fatal' = (fatal \/ key[x])
  BY DEF Wakeup
<1>5. pc[p] # "sleep"  BY DEF Signalling
<1>6. \A n \in M : Dormant(n)' <=> Dormant(n) /\ n # x
  BY <1>0, <1>1, <1>4, <1>5 DEF Dormant
<1>7. ~fatal'  BY <1>2, <1>4 DEF Dormant, NoDoubleWakeup
<1>8. \A q \in Proc : Signalling(q)' => q # p /\ Signalling(q) /\ r'[q].to = r[q].to /\ r[q].to # x
  BY <1>1 DEF Notes
<1>9. Notes'
  <2>1. (pc[Sysmon] # "sleep")'  BY <1>0, <1>1 DEF Notes
  <2>2. (\A n \in midle : Dormant(n))'  BY <1>2, <1>4, <1>6 DEF Notes
  <2>3. (\A q \in Proc : Signalling(q) => /\ r[q].to \in M /\ Dormant(r[q].to)
                                          /\ r[q].to \notin midle)'
    <3> SUFFICES ASSUME NEW q \in Proc, Signalling(q)'
                 PROVE  (r[q].to \in M /\ Dormant(r[q].to) /\ r[q].to \notin midle)'
      OBVIOUS
    <3>1. PICK y \in M : y = r'[q].to /\ Dormant(y) /\ y \notin midle' /\ y # x
      BY <1>4, <1>8 DEF Notes
    <3>2. Dormant(y)'  BY <1>6, <3>1
    <3> QED  BY <3>1, <3>2 DEF Dormant
  <2>4. \A a, b \in Proc : Signalling(a)' /\ Signalling(b)' /\ r'[a].to = r'[b].to => a = b
    BY <1>8 DEF Notes
  <2> QED  BY <2>1, <2>2, <2>3, <2>4 DEF Notes
<1>10. Covered'
  <2> SUFFICES ASSUME NEW n \in M, Dormant(n)', n \notin midle'
               PROVE  \E q \in Proc : Signalling(q)' /\ r'[q].to = n
    BY DEF Covered
  <2>1. n # x /\ Dormant(n)  BY <1>6
  <2>2. PICK q \in Proc : Signalling(q) /\ r[q].to = n  BY <1>4, <2>1 DEF Covered
  <2>3. q # p  BY <2>1, <2>2
  <2> QED  BY <1>1, <2>2, <2>3
<1> QED  BY <1>6, <1>7, <1>9, <1>10 DEF NotesInv, NoDoubleWakeup

\* A step of p that touches no note and is not part of a wakeup; what it adds to the
\* global queue for a locked goroutine's thread, it goes on to wake that thread for.
Waker == {"owner", "signal_owner", "signal", "signal_all"}
Neutral(p) ==
    /\ Frame(p) /\ UNCHANGED notes
    /\ pc[p] \notin Waker \cup {"sleep", "wake_all"}
    /\ pc'[p] \notin {"sleep", "signal_owner", "signal", "signal_all"}
    /\ \A n \in M, g \in G : g \in glob' /\ locked'[g] = n =>
          \/ g \in glob /\ locked[g] = n
          \/ pc'[p] = "owner" /\ r'[p].to = n
          \/ n = p

\* Pushes are neutral.
LEMMA EnqueueNeutral ==
  ASSUME Inv, NEW p \in Proc, NEW g \in G, Enqueue(p, g),
         pc[p] \notin Waker \cup {"sleep", "wake_all"}
  PROVE  Neutral(p)
<1>0. TypeOK /\ Busy  BY DEF Inv
<1>1. /\ Frame(p) /\ pc'[p] = FirstWake(g) /\ pc'[p] \in {"wake", "owner"} /\ r'[p].to = locked[g]
      /\ (glob' = glob \/ glob' = glob \cup {g})
  BY <1>0, EnqueueEffect
<1>2. UNCHANGED notes /\ UNCHANGED locked  BY DEF Enqueue
<1>3. \A n \in M : locked[g] = n => pc'[p] = "owner"  BY <1>1, IdleAssumption DEF FirstWake
<1> QED  BY <1>1, <1>2, <1>3 DEF Neutral

\* The steps of a producer that are not about notes.
LEMMA NeutralProduce ==
  ASSUME Inv, NEW p \in Proc, BreakOneClaimed(p) \/ BreakWrite(p) \/ Tail(p)
  PROVE  Neutral(p)
<1>0. TypeOK /\ pc \in [Proc -> Label]  BY DEF Inv, TypeOK
<1>1. Frame(p)  BY TypeProduce DEF Produce
<1>2. CASE BreakOneClaimed(p) \/ BreakWrite(p)
  <2>1. pc'[p] \in {"write", "tail", "tick", "execute", "run", "find"}
    <3>1. CASE Return(p)  BY <1>0, <3>1, ReturnEffect
    <3>2. CASE Goto(p, "write")  BY <1>0, <3>2 DEF Goto
    <3> QED  BY <1>2, <3>1, <3>2 DEF BreakOneClaimed, BreakWrite
  <2> QED  BY <1>1, <1>2, <2>1 DEF BreakOneClaimed, BreakWrite, Neutral, Waker, queues, gs
<1>3. CASE Tail(p)
  <2>1. PICK g \in r[p].tail : Enqueue(p, g)  BY <1>3 DEF Tail
  <2>2. r[p] \in Local  BY <1>0 DEF TypeOK
  <2>3. g \in G  BY <2>1, <2>2 DEF Local
  <2> QED  BY <1>3, <2>1, <2>3, EnqueueNeutral DEF Tail, Waker
<1> QED  BY <1>2, <1>3

\* The steps of a thread that are not about notes.
LEMMA NeutralThread ==
  ASSUME Inv, NEW m \in M,
         \/ FindRunnable(m) \/ PollNetpollTakeOne(m) \/ ExecuteHead(m) \/ TryClaimShard(m)
         \/ BlockAsNetpoller(m) \/ PollShard(m) \/ PollShardSig(m) \/ ReleaseShard(m)
         \/ Goroutine(m)
  PROVE  Neutral(m)
<1>0. TypeOK /\ Busy /\ pc \in [Proc -> Label] /\ m \in Proc  BY DEF Inv, TypeOK, Proc
<1>1. Frame(m)  BY TypeSchedule, TypeGoroutine DEF ScheduleLoop
<1>2. ASSUME Return(m) PROVE pc'[m] \in {"tail", "tick", "execute", "run", "find"}
  BY <1>0, <1>2, ReturnEffect
<1>3. CASE FindRunnable(m)
  <2>1. pc'[m] \in {"run", "poll"} /\ glob' \subseteq glob
    BY <1>0, <1>3 DEF FindRunnable, TakeLocal, TakeGlobal, Steal, Execute, Goto, queues
  <2> QED  BY <1>1, <1>3, <2>1 DEF FindRunnable, Neutral, Waker
<1>4. CASE PollNetpollTakeOne(m)
  <2>1. pc'[m] \in {"tail", "execute", "find", "claim"}
    BY <1>0, <1>4 DEF PollNetpollTakeOne, Goto
  <2> QED  BY <1>1, <1>4, <2>1 DEF PollNetpollTakeOne, Neutral, Waker, queues, gs
<1>5. CASE ExecuteHead(m)
  BY <1>0, <1>1, <1>5 DEF ExecuteHead, Execute, Goto, Neutral, Waker, queues
<1>6. CASE TryClaimShard(m)
  <2>1. pc'[m] \in {"claim", "recheck", "park"}  BY <1>0, <1>6 DEF TryClaimShard, Goto
  <2> QED  BY <1>1, <1>6, <2>1 DEF TryClaimShard, Neutral, Waker, queues, gs
<1>7. CASE BlockAsNetpoller(m)
  <2>1. pc'[m] \in {"epoll", "tail", "tick", "execute", "run", "find"}
    BY <1>0, <1>2, <1>7 DEF BlockAsNetpoller, Goto
  <2> QED  BY <1>1, <1>7, <2>1 DEF BlockAsNetpoller, Neutral, Waker, queues, gs
<1>8. CASE PollShard(m)
  <2>1. pc'[m] \in {"drained", "release"}  BY <1>0, <1>8 DEF PollShard, Goto
  <2> QED  BY <1>1, <1>8, <2>1 DEF PollShard, Neutral, Waker, queues, gs
<1>9. CASE PollShardSig(m)
  <2>1. pc'[m] = "release"  BY <1>0, <1>9 DEF PollShardSig, Goto
  <2> QED  BY <1>1, <1>9, <2>1 DEF PollShardSig, Neutral, Waker, queues, gs
<1>10. CASE ReleaseShard(m)
  BY <1>1, <1>2, <1>10 DEF ReleaseShard, Neutral, Waker, queues, gs
<1>11. CASE Goroutine(m)
  <2>0. pc[m] = "run"
    BY <1>11 DEF Goroutine, Newproc, Goready, Park, Gosched, Goexit, MainReturns,
                 LockOSThread, UnlockOSThread, NetpollInit, Running
  <2>1. CASE Newproc(m) \/ Goready(m)
    BY <2>0, <2>1, <1>0, EnqueueNeutral DEF Newproc, Goready, Waker
  <2>2. CASE Park(m)
    BY <1>0, <1>1, <2>0, <2>2 DEF Park, Goto, Neutral, Waker, queues
  <2>3. CASE Gosched(m)
    <3>1. run[m] \in G  BY <1>0, <2>0 DEF Busy
    <3>2. locked \in [G -> M \cup {None}] /\ r \in [Proc -> Local]  BY <1>0 DEF TypeOK
    <3>3. /\ pc'[m] = FirstWake(run[m]) /\ glob' = glob \cup {run[m]}
          /\ UNCHANGED locked /\ UNCHANGED notes
      BY <1>0, <2>3 DEF Gosched, Goto
    <3>4. r'[m].to = locked[run[m]]
      BY <1>0, <2>3, <3>1, <3>2, SetTo DEF Gosched
    <3>5. pc'[m] \in {"wake", "owner"} /\ \A n \in M : locked[run[m]] = n => pc'[m] = "owner"
      BY <3>3, IdleAssumption DEF FirstWake
    <3> QED  BY <1>1, <2>0, <3>3, <3>4, <3>5 DEF Neutral, Waker
  <2>4. CASE Goexit(m)
    <3>1. pc'[m] \in {"find", "wake_all"}  BY <1>0, <2>4 DEF Goexit, Goto
    <3>2. \A n \in M, g \in G : locked'[g] = n => locked[g] = n
      <4>1. locked \in [G -> M \cup {None}]  BY <1>0 DEF TypeOK
      <4> QED  BY <2>4, <4>1, IdleAssumption DEF Goexit
    <3> QED  BY <1>1, <2>0, <2>4, <3>1, <3>2 DEF Goexit, Neutral, Waker, queues
  <2>5. CASE MainReturns(m) \/ NetpollInit(m)
    BY <1>1, <2>0, <2>5 DEF MainReturns, NetpollInit, Neutral, Waker, queues, gs, notes
  <2>6. CASE LockOSThread(m) \/ UnlockOSThread(m)
    <3>1. \A n \in M, g \in G : locked'[g] = n => locked[g] = n \/ n = m
      <4>1. locked \in [G -> M \cup {None}]  BY <1>0 DEF TypeOK
      <4> QED  BY <2>6, <4>1, IdleAssumption DEF LockOSThread, UnlockOSThread
    <3>2. UNCHANGED <<pc, glob, notes>>
      BY <2>6 DEF LockOSThread, UnlockOSThread, queues
    <3> QED  BY <1>1, <2>0, <3>1, <3>2 DEF Neutral, Waker
  <2> QED  BY <1>11, <2>1, <2>2, <2>3, <2>4, <2>5, <2>6 DEF Goroutine
<1> QED  BY <1>3, <1>4, <1>5, <1>6, <1>7, <1>8, <1>9, <1>10, <1>11

\* The steps of sysmon.
LEMMA NeutralSysmon == ASSUME Inv, SysmonTimer \/ SysmonPoll PROVE Neutral(Sysmon)
<1>0. TypeOK /\ pc \in [Proc -> Label] /\ Sysmon \in Proc  BY DEF Inv, TypeOK, Proc
<1>1. CASE SysmonTimer  BY <1>0, <1>1, EnqueueNeutral DEF SysmonTimer, Waker
<1>2. CASE SysmonPoll
  <2>1. Frame(Sysmon)  BY <1>2, TypeSysmon
  <2>2. pc'[Sysmon] = "tail"  BY <1>0, <1>2 DEF SysmonPoll, Goto
  <2> QED  BY <1>2, <2>1, <2>2 DEF SysmonPoll, Neutral, Waker, queues, gs
<1> QED  BY <1>1, <1>2

\* A neutral step keeps the notes in order and no owner asleep.
LEMMA NeutralNotes ==
  ASSUME Inv, TypeOK', NEW p \in Proc, Neutral(p)
  PROVE  NotesInv' /\ OwnerAwake' /\ \A m \in M : Dormant(m)' <=> Dormant(m)
<1>0. OwnerAwake /\ M \subseteq Proc  BY DEF Inv, Proc
<1>1. /\ Frame(p) /\ UNCHANGED notes /\ pc[p] \notin Waker /\ pc[p] # "sleep"
      /\ pc'[p] # "sleep" /\ ~Signalling(p) /\ ~Signalling(p)'
  BY DEF Neutral, Waker, Signalling
<1>2. NotesInv' /\ \A m \in M : Dormant(m)' <=> Dormant(m)  BY <1>1, NotesFrame
<1>3. \A q \in Proc : q # p => pc'[q] = pc[q] /\ r'[q] = r[q]  BY <1>1 DEF Frame
<1>4. ASSUME NEW m \in M, pc'[m] = "sleep", ~key'[m], Own(m)' # {} PROVE WakingOf(m)'
  <2>1. Dormant(m) /\ m # p  BY <1>1, <1>2, <1>4 DEF Dormant
  <2>2. PICK g : g \in glob' /\ locked'[g] = m  BY <1>4 DEF Own
  <2>3. CASE g \in glob /\ locked[g] = m
    <3>1. WakingOf(m)  BY <1>0, <2>1, <2>3 DEF OwnerAwake, Own, Dormant
    <3>2. PICK q \in Proc : r[q].to = m /\ pc[q] \in Waker  BY <3>1 DEF WakingOf, Waker
    <3> QED  BY <1>1, <1>3, <3>2 DEF WakingOf, Waker
  <2>4. CASE pc'[p] = "owner" /\ r'[p].to = m  BY <2>4 DEF WakingOf
  <2>5. g \in G  BY <2>2 DEF TypeOK
  <2> QED  BY <2>1, <2>2, <2>3, <2>4, <2>5 DEF Neutral
<1> QED  BY <1>2, <1>4 DEF OwnerAwake

\* A step of p that leaves the queues alone, and no thread asleep that p was waking.
LEMMA OwnerFrame ==
  ASSUME Inv, NEW p \in Proc, Frame(p), UNCHANGED <<glob, locked>>,
         \A m \in M : Dormant(m)' => Dormant(m),
         \A m \in M : Dormant(m)' /\ pc[p] \in Waker /\ r[p].to = m => WakingOf(m)'
  PROVE  OwnerAwake'
<1>1. \A q \in Proc : q # p => pc'[q] = pc[q] /\ r'[q] = r[q]  BY DEF Frame
<1>2. ASSUME NEW m \in M, pc'[m] = "sleep", ~key'[m], Own(m)' # {} PROVE WakingOf(m)'
  <2>1. Dormant(m)' /\ Dormant(m)  BY <1>2 DEF Dormant
  <2>2. Own(m) # {}  BY <1>2 DEF Own
  <2>3. WakingOf(m)  BY <2>1, <2>2 DEF Inv, OwnerAwake, Dormant
  <2>4. PICK q \in Proc : r[q].to = m /\ pc[q] \in Waker  BY <2>3 DEF WakingOf, Waker
  <2>5. CASE q = p  BY <2>1, <2>4, <2>5
  <2>6. CASE q # p  BY <1>1, <2>4, <2>6 DEF WakingOf, Waker
  <2> QED  BY <2>5, <2>6
<1> QED  BY <1>2 DEF OwnerAwake

\* The steps of a waker.
LEMMA WakerNotes ==
  ASSUME Inv, NEW p \in Proc, Frame(p),
         \/ WakeLockedM(p) \/ SignalOwner(p) \/ WakeIdleM(p) \/ Signal(p)
         \/ WakeAllIdleM(p) \/ SignalAll(p)
  PROVE  NotesInv' /\ OwnerAwake'
<1>0. /\ TypeOK /\ pc \in [Proc -> Label] /\ r \in [Proc -> Local] /\ midle \in SUBSET M
      /\ Covered
  BY DEF Inv, TypeOK
<1>1. UNCHANGED <<glob, locked>>
  BY DEF WakeLockedM, SignalOwner, WakeIdleM, Signal, WakeAllIdleM, SignalAll, queues, gs
<1>2. ASSUME Return(p) PROVE pc'[p] \in {"tail", "tick", "execute", "run", "find"}
  BY <1>0, <1>2, ReturnEffect
<1>3. CASE WakeLockedM(p)
  <2>1. /\ pc[p] = "owner" /\ midle' = midle \ {r[p].to} /\ UNCHANGED <<key, fatal, r>>
        /\ pc'[p] = IF r[p].to \in midle THEN "signal_owner" ELSE "wake"
    BY <1>0, <1>3 DEF WakeLockedM, Goto, Unlisted
  <2>2. CASE r[p].to \in midle
    <3>1. NotesInv' /\ \A n \in M : Dormant(n)' <=> Dormant(n)
      BY <2>1, <2>2, TakeOff DEF Signalling
    <3>2. OwnerAwake'
      BY <1>1, <2>1, <2>2, <3>1, OwnerFrame DEF WakingOf
    <3> QED  BY <3>1, <3>2
  <2>3. CASE r[p].to \notin midle
    <3>1. NotesInv' /\ \A n \in M : Dormant(n)' <=> Dormant(n)
      BY <2>1, <2>3, NotesFrame DEF Signalling, notes
    <3>2. ASSUME NEW m \in M, Dormant(m)', r[p].to = m PROVE WakingOf(m)'
      <4>1. PICK q \in Proc : Signalling(q) /\ r[q].to = m
        BY <1>0, <2>3, <3>1, <3>2 DEF Covered
      <4>2. q # p  BY <2>1, <4>1 DEF Signalling
      <4> QED  BY <4>1, <4>2 DEF WakingOf, Signalling, Frame
    <3>3. OwnerAwake'  BY <1>1, <3>1, <3>2, OwnerFrame
    <3> QED  BY <3>1, <3>3
  <2> QED  BY <2>2, <2>3
<1>4. CASE SignalOwner(p) \/ Signal(p) \/ SignalAll(p)
  <2>1. Signalling(p) /\ Wakeup(r[p].to) /\ pc[p] \in Waker
    BY <1>4 DEF SignalOwner, Signal, SignalAll, Signalling, Waker
  <2>2. pc'[p] \in {"wake", "wake_all", "tail", "tick", "execute", "run", "find"}
    BY <1>0, <1>2, <1>4 DEF SignalOwner, Signal, SignalAll, Goto
  <2>3. NotesInv' /\ \A n \in M : Dormant(n)' <=> Dormant(n) /\ n # r[p].to
    BY <2>1, <2>2, SignalNote DEF Signalling
  <2>4. OwnerAwake'  BY <1>1, <2>3, OwnerFrame
  <2> QED  BY <2>3, <2>4
<1>5. CASE WakeIdleM(p) \/ WakeAllIdleM(p)
  <2>0. pc[p] \in {"wake", "wake_all"} /\ UNCHANGED <<key, fatal>>
    BY <1>5 DEF WakeIdleM, WakeAllIdleM
  <2>1. CASE \E n \in midle : /\ midle' = midle \ {n} /\ pc'[p] \in {"signal", "signal_all"}
                              /\ r' = [r EXCEPT ![p].to = n]
    <3>1. PICK n \in midle : /\ midle' = midle \ {n} /\ pc'[p] \in {"signal", "signal_all"}
                             /\ r' = [r EXCEPT ![p].to = n]
      BY <2>1
    <3>2. r'[p].to = n  BY <1>0, <3>1, SetTo
    <3>3. NotesInv' /\ \A m \in M : Dormant(m)' <=> Dormant(m)
      BY <2>0, <3>1, <3>2, TakeOff DEF Signalling
    <3>4. OwnerAwake'  BY <1>1, <2>0, <3>3, OwnerFrame DEF Waker
    <3> QED  BY <3>3, <3>4
  <2>2. CASE UNCHANGED midle /\ pc'[p] \in {"break", "tail", "tick", "execute", "run", "find"}
    <3>1. NotesInv' /\ \A n \in M : Dormant(n)' <=> Dormant(n)
      BY <2>0, <2>2, NotesFrame DEF Signalling, notes
    <3>2. OwnerAwake'  BY <1>1, <2>0, <3>1, OwnerFrame DEF Waker
    <3> QED  BY <3>1, <3>2
  <2> QED  BY <1>0, <1>2, <1>5, <2>1, <2>2 DEF WakeIdleM, WakeAllIdleM, Goto
<1> QED  BY <1>3, <1>4, <1>5

\* A thread goes to sleep only over empty queues, and wakes only when it is signalled.
LEMMA SleepNotes ==
  ASSUME Inv, NEW m \in M, ParkMIdle(m) \/ NoteSleep(m)
  PROVE  NotesInv' /\ OwnerAwake'
<1>0. /\ TypeOK /\ pc \in [Proc -> Label] /\ key \in [M -> BOOLEAN] /\ midle \in SUBSET M
      /\ Notes /\ Covered /\ NoDoubleWakeup /\ m \in Proc /\ m # Sysmon /\ Sysmon \in Proc
      /\ M \subseteq Proc
  BY IdleAssumption DEF Inv, TypeOK, Proc
<1>1. UNCHANGED <<glob, locked, fatal, r>>
  BY DEF ParkMIdle, NoteSleep, queues, gs, notes
<1>2. Frame(m)  BY TypeSchedule DEF ScheduleLoop
<1>3. CASE UNCHANGED notes /\ pc'[m] = "find" /\ (pc[m] # "sleep" \/ key[m]) /\ pc[m] \in {"park", "sleep"}
  <2>1. NotesInv' /\ \A n \in M : Dormant(n)' <=> Dormant(n)
    BY <1>0, <1>2, <1>3, NotesFrame DEF Signalling
  <2>2. OwnerAwake'  BY <1>0, <1>1, <1>2, <1>3, <2>1, OwnerFrame DEF Waker
  <2> QED  BY <2>1, <2>2
<1>4. CASE /\ pc[m] = "park" /\ pc'[m] = "sleep" /\ ~HasWork
           /\ key' = [key EXCEPT ![m] = FALSE] /\ midle' = midle \cup {m}
  <2>1. \A q \in Proc : /\ q # m => pc'[q] = pc[q]
                        /\ Signalling(q)' <=> Signalling(q)
    BY <1>2, <1>4 DEF Frame, Signalling
  <2>2. \A n \in M : Dormant(n)' <=> Dormant(n) \/ n = m
    BY <1>0, <1>4, <2>1 DEF Dormant
  <2>3. ~Dormant(m)  BY <1>4 DEF Dormant
  <2>4. Notes'
    <3>1. (pc[Sysmon] # "sleep")'  BY <1>0, <2>1 DEF Notes
    <3>2. (\A n \in midle : Dormant(n))'  BY <1>0, <1>4, <2>2 DEF Notes
    <3>3. (\A q \in Proc : Signalling(q) => /\ r[q].to \in M /\ Dormant(r[q].to)
                                            /\ r[q].to \notin midle)'
      <4> SUFFICES ASSUME NEW q \in Proc, Signalling(q)'
                   PROVE  (r[q].to \in M /\ Dormant(r[q].to) /\ r[q].to \notin midle)'
        OBVIOUS
      <4>1. PICK x \in M : x = r[q].to /\ Dormant(x) /\ x \notin midle
        BY <1>0, <2>1 DEF Notes
      <4>2. Dormant(x)' /\ x # m  BY <2>2, <2>3, <4>1
      <4> QED  BY <1>1, <1>4, <4>1, <4>2 DEF Dormant
    <3>4. \A a, b \in Proc : Signalling(a)' /\ Signalling(b)' /\ r'[a].to = r'[b].to => a = b
      BY <1>0, <1>1, <2>1 DEF Notes
    <3> QED  BY <3>1, <3>2, <3>3, <3>4 DEF Notes
  <2>5. Covered'
    <3> SUFFICES ASSUME NEW n \in M, Dormant(n)', n \notin midle'
                 PROVE  \E q \in Proc : Signalling(q)' /\ r'[q].to = n
      BY DEF Covered
    <3>1. Dormant(n) /\ n \notin midle  BY <1>4, <2>2
    <3> QED  BY <1>0, <1>1, <2>1, <3>1 DEF Covered
  <2>6. OwnerAwake'
    <3>1. glob' = {}  BY <1>1, <1>4 DEF HasWork
    <3> QED  BY <3>1 DEF OwnerAwake, Own
  <2> QED  BY <1>0, <1>1, <2>4, <2>5, <2>6 DEF NotesInv, NoDoubleWakeup
<1> QED  BY <1>0, <1>3, <1>4 DEF ParkMIdle, NoteSleep, MayPark, Goto, notes

\* Every step.
LEMMA StepNotes == ASSUME Inv, [Next]_vars PROVE NotesInv' /\ OwnerAwake'
<1>0. M \subseteq Proc /\ Sysmon \in Proc /\ TypeOK'  BY StepType DEF Proc
<1>1. ASSUME NEW p \in Proc, Produce(p) PROVE NotesInv' /\ OwnerAwake'
  <2>1. CASE BreakOneClaimed(p) \/ BreakWrite(p) \/ Tail(p)
    BY <1>0, <2>1, NeutralProduce, NeutralNotes
  <2>2. CASE WakeLockedM(p) \/ SignalOwner(p) \/ WakeIdleM(p) \/ Signal(p)
    BY <1>1, <2>2, TypeProduce, WakerNotes
  <2> QED  BY <1>1, <2>1, <2>2 DEF Produce
<1>2. ASSUME NEW m \in M, Thread(m) \/ Goroutine(m) PROVE NotesInv' /\ OwnerAwake'
  <2>1. CASE Produce(m)  BY <1>0, <1>1, <2>1
  <2>2. CASE WakeAllIdleM(m) \/ SignalAll(m)
    BY <1>0, <2>2, TypeGoroutine, WakerNotes
  <2>3. CASE ParkMIdle(m) \/ NoteSleep(m)  BY <2>3, SleepNotes
  <2>4. CASE \/ FindRunnable(m) \/ PollNetpollTakeOne(m) \/ ExecuteHead(m) \/ TryClaimShard(m)
             \/ BlockAsNetpoller(m) \/ PollShard(m) \/ PollShardSig(m) \/ ReleaseShard(m)
             \/ Goroutine(m)
    BY <1>0, <2>4, NeutralThread, NeutralNotes
  <2> QED  BY <1>2, <2>1, <2>2, <2>3, <2>4 DEF Thread, ScheduleLoop
<1>3. CASE SysmonTimer \/ SysmonPoll  BY <1>0, <1>3, NeutralSysmon, NeutralNotes
<1>4. CASE UNCHANGED <<pc, r, glob, locked, notes>>
  BY <1>4 DEF Inv, NotesInv, Notes, Covered, NoDoubleWakeup, OwnerAwake, Signalling, Dormant,
              WakingOf, Own, notes
<1>5. Readable \/ UNCHANGED vars => UNCHANGED <<pc, r, glob, locked, notes>>
  BY DEF Readable, vars, queues, gs
<1> QED  BY <1>0, <1>1, <1>2, <1>3, <1>4, <1>5 DEF Next

-----------------------------------------------------------------------------
(* Shards, their pollers and their breaks.                                 *)

\* A step that neither claims nor releases.
LEMMA ClaimsFrame ==
  ASSUME Inv, NEW p \in Proc, Frame(p), nshards => nshards', UNCHANGED claimed,
         Polling(p)' <=> Polling(p), Polling(p) => r'[p].s = r[p].s
  PROVE  Claims'
<1>0. Claims /\ M \subseteq Proc /\ Sysmon \in Proc  BY DEF Inv, Proc
<1>1. \A q \in Proc : (Polling(q)' <=> Polling(q)) /\ (Polling(q) => r'[q].s = r[q].s)
  BY DEF Frame, Polling
<1> QED  BY <1>0, <1>1 DEF Claims

\* A step that neither marks nor takes a break.
LEMMA BreaksFrame ==
  ASSUME Inv, NEW p \in Proc, Frame(p), UNCHANGED <<wake_sig, efd>>,
         pc[p] \notin {"write", "drained"}, pc'[p] # "write"
  PROVE  Breaks'
<1>0. Breaks  BY DEF Inv
<1>1. \A q \in Proc : q # p => pc'[q] = pc[q] /\ r'[q] = r[q]  BY DEF Frame
<1> QED  BY <1>0, <1>1 DEF Breaks

\* A poller gives its shard back.
LEMMA Release ==
  ASSUME Inv, NEW m \in M, Frame(m), Polling(m), ~Polling(m)', UNCHANGED nshards,
         claimed' = [claimed EXCEPT ![r[m].s] = FALSE]
  PROVE  Claims'
<1>0. /\ Claims /\ M \subseteq Proc /\ Sysmon \in Proc /\ m # Sysmon
      /\ claimed \in [Shard -> BOOLEAN]
  BY IdleAssumption DEF Inv, TypeOK, Proc
<1>1. \A q \in Proc : q # m => (Polling(q)' <=> Polling(q)) /\ r'[q].s = r[q].s
  BY DEF Frame, Polling
<1>2. r[m].s \in Shard  BY <1>0 DEF Claims
<1>3. \A q \in M : Polling(q)' => q # m /\ Polling(q) /\ r'[q].s = r[q].s /\ r[q].s # r[m].s
  BY <1>0, <1>1 DEF Claims
<1>4. ~Polling(Sysmon)'  BY <1>0, <1>1 DEF Claims
<1>5. \A q \in M : Polling(q)' => r'[q].s \in Shard /\ claimed'[r'[q].s]
  BY <1>0, <1>2, <1>3 DEF Claims
<1>6. \A a, b \in M : Polling(a)' /\ Polling(b)' /\ r'[a].s = r'[b].s => a = b
  BY <1>0, <1>3 DEF Claims
<1>7. ASSUME NEW s \in Shard, claimed'[s] PROVE nshards' /\ \E q \in M : Polling(q)' /\ r'[q].s = s
  <2>1. s # r[m].s /\ claimed[s]  BY <1>0, <1>2, <1>7
  <2>2. PICK q \in M : Polling(q) /\ r[q].s = s  BY <1>0, <2>1 DEF Claims
  <2>3. q # m /\ q \in Proc  BY <1>0, <2>1, <2>2
  <2> QED  BY <1>0, <1>1, <2>1, <2>2, <2>3 DEF Claims
<1> QED  BY <1>4, <1>5, <1>6, <1>7 DEF Claims

\* What a step leaves alone that has to do with no shard.
Away == {"recheck", "epoll", "drained", "release", "write"}

\* Such a step keeps the claims of the shards and the breaks.
LEMMA AwayFrame ==
  ASSUME Inv, NEW p \in Proc, Frame(p), nshards => nshards', UNCHANGED <<claimed, wake_sig, efd>>,
         pc[p] \notin Away, pc'[p] \notin Away
  PROVE  Claims' /\ Breaks'
<1>1. ~Polling(p) /\ ~Polling(p)' /\ pc[p] \notin {"write", "drained"} /\ pc'[p] # "write"
  BY DEF Polling, Away
<1> QED  BY <1>1, ClaimsFrame, BreaksFrame

\* The steps of a producer: a break is marked before the eventfd is written.
LEMMA ShardsProduce == ASSUME Inv, NEW p \in Proc, Produce(p) PROVE Claims' /\ Breaks'
<1>0. /\ TypeOK /\ pc \in [Proc -> Label] /\ r \in [Proc -> Local] /\ Breaks
      /\ wake_sig \in [Shard -> BOOLEAN] /\ efd \in [Shard -> BOOLEAN] /\ Busy
  BY DEF Inv, TypeOK
<1>1. Frame(p)  BY TypeProduce
<1>2. \A q \in Proc : q # p => pc'[q] = pc[q] /\ r'[q] = r[q]  BY <1>1 DEF Frame
<1>r. ASSUME Return(p) PROVE pc'[p] \in {"tail", "tick", "execute", "run", "find"}
  BY <1>0, <1>r, ReturnEffect
<1>3. CASE WakeLockedM(p) \/ SignalOwner(p) \/ WakeIdleM(p) \/ Signal(p)
  <2>1. /\ pc[p] \in {"owner", "signal_owner", "wake", "signal"}
        /\ pc'[p] \in {"signal_owner", "wake", "signal", "break",
                       "tail", "tick", "execute", "run", "find"}
    BY <1>0, <1>3, <1>r DEF WakeLockedM, SignalOwner, WakeIdleM, Signal, Goto
  <2>2. UNCHANGED shards
    BY <1>3 DEF WakeLockedM, SignalOwner, WakeIdleM, Signal
  <2> QED  BY <1>1, <2>1, <2>2, AwayFrame DEF Away, shards
<1>4. CASE Tail(p)
  <2>1. PICK g \in r[p].tail : Enqueue(p, g)  BY <1>4 DEF Tail
  <2>2. r[p] \in Local  BY <1>0
  <2>3. g \in G  BY <2>1, <2>2 DEF Local
  <2>4. pc'[p] \in {"wake", "owner"}  BY <1>0, <2>1, <2>3, EnqueueEffect
  <2> QED  BY <1>1, <1>4, <2>1, <2>4, AwayFrame DEF Away, shards, Tail, Enqueue
<1>5. CASE BreakOneClaimed(p)
  <2>0. UNCHANGED <<nshards, claimed, efd>> /\ pc[p] = "break"  BY <1>5 DEF BreakOneClaimed
  <2>1. CASE Return(p)
    <3>1. wake_sig' = wake_sig  
      <4>1. CASE UNCHANGED wake_sig  BY <4>1
      <4>2. CASE ~UNCHANGED wake_sig
        <5>1. PICK s \in Shard : wake_sig' = [wake_sig EXCEPT ![s] = TRUE] /\
                                 IF wake_sig[s] THEN Return(p) ELSE Goto(p, "write")
          BY <1>5, <4>2 DEF BreakOneClaimed, Claimed
        <5>2. pc'[p] # "write"  BY <1>r, <2>1
        <5>3. wake_sig[s]  BY <1>0, <5>1, <5>2 DEF Goto
        <5> QED  BY <1>0, <5>1, <5>3
      <4> QED  BY <4>1, <4>2
    <3> QED  BY <1>1, <1>r, <2>0, <2>1, <3>1, AwayFrame DEF Away
  <2>2. CASE ~Return(p)
    <3>1. PICK s \in Shard : /\ wake_sig' = [wake_sig EXCEPT ![s] = TRUE]
                             /\ Goto(p, "write") /\ r' = [r EXCEPT ![p].s = s]
      BY <1>5, <2>2 DEF BreakOneClaimed, Claimed
    <3>2. pc'[p] = "write" /\ r'[p].s = s  BY <1>0, <3>1, SetS DEF Goto
    <3>3. Claims'  BY <1>1, <2>0, <3>2, ClaimsFrame DEF Polling
    <3>4. Breaks'  BY <1>0, <1>2, <2>0, <3>1, <3>2 DEF Breaks
    <3> QED  BY <3>3, <3>4
  <2> QED  BY <2>1, <2>2
<1>6. CASE BreakWrite(p)
  <2>1. /\ UNCHANGED <<nshards, claimed, wake_sig>> /\ pc[p] = "write" /\ r[p].s \in Shard
        /\ efd' = [efd EXCEPT ![r[p].s] = TRUE]
    BY <1>0, <1>6 DEF BreakWrite, Breaks
  <2>2. pc'[p] \in {"tail", "tick", "execute", "run", "find"}  BY <1>6, <1>r DEF BreakWrite
  <2>3. Claims'  BY <1>1, <2>1, <2>2, ClaimsFrame DEF Polling
  <2>4. Breaks'  BY <1>0, <1>2, <2>1, <2>2 DEF Breaks
  <2> QED  BY <2>3, <2>4
<1> QED  BY <1>3, <1>4, <1>5, <1>6 DEF Produce

\* The steps of the scheduling loop: the eventfd is emptied before the mark is cleared.
LEMMA ShardsSchedule == ASSUME Inv, NEW m \in M, ScheduleLoop(m) PROVE Claims' /\ Breaks'
<1>0. /\ TypeOK /\ pc \in [Proc -> Label] /\ r \in [Proc -> Local] /\ Breaks /\ Claims
      /\ wake_sig \in [Shard -> BOOLEAN] /\ efd \in [Shard -> BOOLEAN] /\ nshards \in BOOLEAN
      /\ claimed \in [Shard -> BOOLEAN] /\ m \in Proc /\ M \subseteq Proc
      /\ Sysmon \in Proc /\ m # Sysmon
  BY IdleAssumption DEF Inv, TypeOK, Proc
<1>1. Frame(m)  BY TypeSchedule
<1>2. \A q \in Proc : q # m => pc'[q] = pc[q] /\ r'[q] = r[q]  BY <1>1 DEF Frame
<1>r. ASSUME Return(m) PROVE pc'[m] \in {"tail", "tick", "execute", "run", "find"}
  BY <1>0, <1>r, ReturnEffect
<1>3. CASE \/ FindRunnable(m) \/ PollNetpollTakeOne(m) \/ ExecuteHead(m)
           \/ ParkMIdle(m) \/ NoteSleep(m)
  <2>1. /\ pc[m] \in {"find", "poll", "execute", "park", "sleep"}
        /\ UNCHANGED <<nshards, claimed, wake_sig, efd>>
    BY <1>3 DEF FindRunnable, PollNetpollTakeOne, ExecuteHead, ParkMIdle, NoteSleep, shards
  <2>2. pc'[m] \in {"run", "poll", "tail", "execute", "find", "claim", "sleep"}
    BY <1>0, <1>3 DEF FindRunnable, TakeLocal, TakeGlobal, Steal, PollNetpollTakeOne,
                      ExecuteHead, Execute, ParkMIdle, NoteSleep, Goto
  <2> QED  BY <1>0, <1>1, <2>1, <2>2, AwayFrame DEF Away
<1>4. CASE TryClaimShard(m)
  <2>0. pc[m] = "claim" /\ UNCHANGED <<nshards, wake_sig, efd>>  BY <1>4 DEF TryClaimShard
  <2>s. NextTry(m) \in Shard
    <3>1. r[m] \in Local  BY <1>0
    <3>2. r[m].s \in Shard \cup {None}  BY <3>1 DEF Local
    <3> QED  BY <3>2, IdleAssumption DEF NextTry
  <2>1. CASE UNCHANGED claimed /\ pc'[m] \in {"claim", "park"}
    BY <1>0, <1>1, <2>0, <2>1, AwayFrame DEF Away
  <2>2. CASE \E s \in Shard : /\ nshards /\ ~claimed[s]
                              /\ claimed' = [claimed EXCEPT ![s] = TRUE]
                              /\ r' = [r EXCEPT ![m].s = s] /\ Goto(m, "recheck")
    <3>1. PICK s \in Shard : /\ nshards /\ ~claimed[s]
                             /\ claimed' = [claimed EXCEPT ![s] = TRUE]
                             /\ r' = [r EXCEPT ![m].s = s] /\ Goto(m, "recheck")
      BY <2>2
    <3>2. pc'[m] = "recheck" /\ r'[m].s = s  BY <1>0, <3>1, SetS DEF Goto
    <3>3. \A q \in Proc : q # m => (Polling(q)' <=> Polling(q)) /\ r'[q].s = r[q].s
      BY <1>2 DEF Polling
    <3>4. Polling(m)' /\ ~Polling(m)  BY <2>0, <3>2 DEF Polling
    <3>5. Claims'
      <4>1. \A q \in M : q # m /\ Polling(q)' => r'[q].s # s
        BY <1>0, <3>1, <3>3 DEF Claims
      <4>2. ~Polling(Sysmon)'  BY <1>0, <3>3 DEF Claims
      <4>3. \A q \in M : Polling(q)' => r'[q].s \in Shard /\ claimed'[r'[q].s]
        BY <1>0, <3>1, <3>2, <3>3 DEF Claims
      <4>4. \A a, b \in M : Polling(a)' /\ Polling(b)' /\ r'[a].s = r'[b].s => a = b
        BY <1>0, <3>2, <3>3, <4>1 DEF Claims
      <4>5. \A t \in Shard : claimed'[t] => nshards' /\ \E q \in M : Polling(q)' /\ r'[q].s = t
        <5> SUFFICES ASSUME NEW t \in Shard, claimed'[t]
                     PROVE  nshards' /\ \E q \in M : Polling(q)' /\ r'[q].s = t
          OBVIOUS
        <5>1. CASE t = s  BY <2>0, <3>1, <3>2, <3>4, <5>1
        <5>2. CASE t # s
          <6>1. PICK q \in M : Polling(q) /\ r[q].s = t  BY <1>0, <3>1, <5>2 DEF Claims
          <6> QED  BY <1>0, <2>0, <3>1, <3>3, <3>4, <6>1
        <5> QED  BY <5>1, <5>2
      <4> QED  BY <4>2, <4>3, <4>4, <4>5 DEF Claims
    <3>6. Breaks'  BY <1>0, <1>1, <2>0, <3>2, BreaksFrame
    <3> QED  BY <3>5, <3>6
  <2>3. \/ UNCHANGED claimed /\ pc'[m] \in {"claim", "park"}
        \/ /\ nshards /\ ~claimed[NextTry(m)]
           /\ claimed' = [claimed EXCEPT ![NextTry(m)] = TRUE]
           /\ r' = [r EXCEPT ![m].s = NextTry(m)] /\ Goto(m, "recheck")
    BY <1>0, <1>4 DEF TryClaimShard, Goto
  <2> QED  BY <2>s, <2>1, <2>2, <2>3
<1>5. CASE BlockAsNetpoller(m)
  <2>0. pc[m] = "recheck" /\ UNCHANGED <<nshards, wake_sig, efd>>  BY <1>5 DEF BlockAsNetpoller
  <2>1. CASE Return(m) /\ claimed' = [claimed EXCEPT ![r[m].s] = FALSE]
    <3>1. ~Polling(m)' /\ Polling(m) /\ pc'[m] # "write"  BY <1>r, <2>0, <2>1 DEF Polling
    <3> QED  BY <1>0, <1>1, <2>0, <2>1, <3>1, Release, BreaksFrame
  <2>2. CASE Goto(m, "epoll") /\ UNCHANGED <<claimed, r>>
    <3>1. pc'[m] = "epoll" /\ Polling(m)' /\ Polling(m)  BY <1>0, <2>0, <2>2 DEF Polling, Goto
    <3>2. Claims'  BY <1>0, <1>1, <2>0, <2>2, <3>1, ClaimsFrame
    <3>3. Breaks'  BY <1>0, <1>1, <2>0, <2>2, <3>1, BreaksFrame
    <3> QED  BY <3>2, <3>3
  <2> QED  BY <1>5, <2>1, <2>2 DEF BlockAsNetpoller
<1>6. CASE PollShard(m)
  <2>1. Polling(m) /\ r[m].s \in Shard  BY <1>0, <1>6 DEF PollShard, Polling, Claims
  <2>2. /\ pc[m] = "epoll" /\ UNCHANGED <<nshards, claimed, wake_sig>>
        /\ efd' = [efd EXCEPT ![r[m].s] = FALSE]
        /\ pc'[m] = IF efd[r[m].s] THEN "drained" ELSE "release"
    BY <1>0, <1>6 DEF PollShard, Goto
  <2>3. r'[m].s = r[m].s  BY <1>0, <1>6, <2>1, PollEffect DEF PollShard
  <2>4. Claims'  BY <1>0, <1>1, <2>1, <2>2, <2>3, ClaimsFrame DEF Polling
  <2>5. Breaks'  BY <1>0, <1>2, <2>1, <2>2, <2>3 DEF Breaks
  <2> QED  BY <2>4, <2>5
<1>7. CASE PollShardSig(m)
  <2>1. Polling(m) /\ r[m].s \in Shard  BY <1>0, <1>7 DEF PollShardSig, Polling, Claims
  <2>2. /\ pc[m] = "drained" /\ UNCHANGED <<nshards, claimed, efd, r>>
        /\ wake_sig' = [wake_sig EXCEPT ![r[m].s] = FALSE] /\ pc'[m] = "release"
    BY <1>0, <1>7 DEF PollShardSig, Goto
  <2>3. Claims'  BY <1>0, <1>1, <2>1, <2>2, ClaimsFrame DEF Polling
  <2>4. Breaks'  BY <1>0, <1>2, <2>1, <2>2 DEF Breaks
  <2> QED  BY <2>3, <2>4
<1>8. CASE ReleaseShard(m)
  <2>1. /\ pc[m] = "release" /\ claimed' = [claimed EXCEPT ![r[m].s] = FALSE]
        /\ UNCHANGED <<nshards, wake_sig, efd>> /\ Return(m)
    BY <1>8 DEF ReleaseShard
  <2>2. ~Polling(m)' /\ Polling(m) /\ pc'[m] # "write"  BY <1>r, <2>1 DEF Polling
  <2> QED  BY <1>0, <1>1, <2>1, <2>2, Release, BreaksFrame
<1> QED  BY <1>3, <1>4, <1>5, <1>6, <1>7, <1>8 DEF ScheduleLoop

\* Every step.
LEMMA StepShards == ASSUME Inv, [Next]_vars PROVE Claims' /\ Breaks'
<1>0. /\ M \subseteq Proc /\ Sysmon \in Proc /\ TypeOK /\ Busy /\ pc \in [Proc -> Label]
      /\ Claims /\ Breaks
  BY DEF Proc, Inv, TypeOK
<1>1. ASSUME NEW m \in M, Goroutine(m) \/ WakeAllIdleM(m) \/ SignalAll(m) PROVE Claims' /\ Breaks'
  <2>1. Frame(m)  BY <1>1, TypeGoroutine
  <2>r. ASSUME Return(m) PROVE pc'[m] \in {"tail", "tick", "execute", "run", "find"}
    BY <1>0, <2>r, ReturnEffect
  <2>2. ASSUME NEW g \in G, Enqueue(m, g) PROVE pc'[m] \in {"wake", "owner"}
    BY <1>0, <2>2, EnqueueEffect
  <2>3. /\ pc[m] \in {"run", "wake_all", "signal_all"}
        /\ (nshards => nshards') /\ UNCHANGED <<claimed, wake_sig, efd>>
    <3>1. CASE Newproc(m) \/ Goready(m)
      <4>1. pc[m] = "run" /\ UNCHANGED shards
        BY <3>1 DEF Newproc, Goready, Running, Enqueue
      <4> QED  BY <4>1 DEF shards
    <3>2. CASE Park(m) \/ Gosched(m) \/ Goexit(m) \/ MainReturns(m)
      BY <3>2 DEF Park, Gosched, Goexit, MainReturns, Running, shards
    <3>3. CASE LockOSThread(m) \/ UnlockOSThread(m) \/ NetpollInit(m)
      BY <3>3 DEF LockOSThread, UnlockOSThread, NetpollInit, Running, shards
    <3>4. CASE WakeAllIdleM(m) \/ SignalAll(m)
      BY <3>4 DEF WakeAllIdleM, SignalAll, shards
    <3> QED  BY <1>1, <3>1, <3>2, <3>3, <3>4 DEF Goroutine
  <2>4. pc'[m] \in {"run", "wake", "owner", "find", "wake_all", "signal_all",
                    "tail", "tick", "execute"}
    <3>1. CASE Newproc(m) \/ Goready(m)  BY <2>2, <3>1 DEF Newproc, Goready
    <3>2. CASE ~(Newproc(m) \/ Goready(m))
      BY <1>0, <1>1, <2>r, <2>3, <3>2
      DEF Goroutine, Park, Gosched, Goexit, MainReturns, FirstWake,
          LockOSThread, UnlockOSThread, NetpollInit, Running, WakeAllIdleM, SignalAll, Goto
    <3> QED  BY <3>1, <3>2
  <2> QED  BY <1>0, <2>1, <2>3, <2>4, AwayFrame DEF Away
<1>2. CASE SysmonTimer \/ SysmonPoll
  <2>1. Frame(Sysmon) /\ pc[Sysmon] = "tick" /\ UNCHANGED <<nshards, claimed, wake_sig, efd>>
    BY <1>2, TypeSysmon DEF SysmonTimer, SysmonPoll, Enqueue, shards
  <2>2. pc'[Sysmon] \in {"wake", "owner", "tail"}
    BY <1>0, <1>2, EnqueueEffect DEF SysmonTimer, SysmonPoll, Goto
  <2> QED  BY <1>0, <2>1, <2>2, AwayFrame DEF Away
<1>3. CASE UNCHANGED <<pc, r, nshards, claimed, wake_sig, efd>>
  BY <1>0, <1>3 DEF Claims, Breaks, Polling
<1>4. Readable \/ UNCHANGED vars => UNCHANGED <<pc, r, nshards, claimed, wake_sig, efd>>
  BY DEF Readable, vars, shards
<1> QED  BY <1>0, <1>1, <1>2, <1>3, <1>4, ShardsProduce, ShardsSchedule DEF Next, Thread

-----------------------------------------------------------------------------
(* Nobody sleeps over work.                                                *)

\* Where the steps of a thread end: in sleep or in epoll_wait only over empty queues.
LEMMA ThreadAwake ==
  ASSUME Inv, NEW m \in M, Thread(m) \/ Goroutine(m)
  PROVE  pc'[m] \notin {"sleep", "epoll"} \/ ~HasWork'
<1>0. TypeOK /\ Busy /\ pc \in [Proc -> Label] /\ r \in [Proc -> Local] /\ m \in Proc
  BY DEF Inv, TypeOK, Proc
<1>r. ASSUME Return(m) PROVE pc'[m] \notin {"sleep", "epoll"}
  BY <1>0, <1>r, ReturnEffect
<1>e. ASSUME NEW g \in G, Enqueue(m, g) PROVE pc'[m] \notin {"sleep", "epoll"}
  BY <1>0, <1>e, EnqueueEffect
<1>1. CASE ParkMIdle(m) \/ BlockAsNetpoller(m)
  <2>1. UNCHANGED <<local, glob>>  BY <1>1 DEF ParkMIdle, BlockAsNetpoller, queues
  <2>2. HasWork' <=> HasWork  BY <2>1 DEF HasWork
  <2> QED  BY <1>0, <1>1, <1>r, <2>2 DEF ParkMIdle, BlockAsNetpoller, MayPark, StillWork, Goto
<1>2. CASE \/ FindRunnable(m) \/ PollNetpollTakeOne(m) \/ ExecuteHead(m) \/ TryClaimShard(m)
           \/ PollShard(m) \/ PollShardSig(m) \/ ReleaseShard(m) \/ NoteSleep(m)
  BY <1>0, <1>2, <1>r
  DEF FindRunnable, TakeLocal, TakeGlobal, Steal, Execute, PollNetpollTakeOne, ExecuteHead,
      TryClaimShard, PollShard, PollShardSig, ReleaseShard, NoteSleep, Goto
<1>3. CASE Produce(m)
  <2>1. CASE Tail(m)
    <3>1. PICK g \in r[m].tail : Enqueue(m, g)  BY <2>1 DEF Tail
    <3>2. r[m] \in Local  BY <1>0
    <3>3. g \in G  BY <3>1, <3>2 DEF Local
    <3> QED  BY <1>e, <3>1, <3>3
  <2>2. CASE ~Tail(m)
    BY <1>0, <1>3, <1>r, <2>2
    DEF Produce, WakeLockedM, SignalOwner, WakeIdleM, Signal, BreakOneClaimed, BreakWrite, Goto
  <2> QED  BY <2>1, <2>2
<1>4. CASE Goroutine(m)
  <2>1. CASE Newproc(m) \/ Goready(m)  BY <1>e, <2>1 DEF Newproc, Goready
  <2>2. CASE ~(Newproc(m) \/ Goready(m))
    BY <1>0, <1>4, <2>2
    DEF Goroutine, Park, Gosched, Goexit, MainReturns, FirstWake, LockOSThread,
        UnlockOSThread, NetpollInit, Running, Goto
  <2> QED  BY <2>1, <2>2
<1>5. CASE WakeAllIdleM(m) \/ SignalAll(m)
  BY <1>0, <1>5, <1>r DEF WakeAllIdleM, SignalAll, Goto
<1> QED  BY <1>1, <1>2, <1>3, <1>4, <1>5 DEF Thread, ScheduleLoop

\* A step of sysmon that wakes nobody leaves asleep at most who was asleep.
LEMMA StillAsleep ==
  ASSUME Inv, Frame(Sysmon), \A m \in M : key[m] => key'[m],
         \A s \in Shard : Pending(s) => Pending(s)', AllAsleep'
  PROVE  AllAsleep
<1>0. /\ M \subseteq Proc /\ Sysmon \notin M /\ key \in [M -> BOOLEAN] /\ r \in [Proc -> Local]
      /\ Claims
  BY IdleAssumption DEF Inv, TypeOK, Proc
<1>1. \A m \in M : pc'[m] = pc[m] /\ r'[m] = r[m]  BY <1>0 DEF Frame
<1>2. ASSUME NEW m \in M PROVE Asleep(m)
  <2>1. CASE pc'[m] = "sleep" /\ ~key'[m]  BY <1>1, <2>1 DEF Asleep
  <2>2. CASE pc'[m] = "epoll" /\ ~Pending(r[m].s)'
    <3>1. pc[m] = "epoll" /\ r'[m].s = r[m].s  BY <1>1, <2>2
    <3>2. r[m].s \in Shard  BY <1>0, <3>1 DEF Claims, Polling
    <3>3. PICK s \in Shard : s = r[m].s  BY <3>2
    <3>4. ~Pending(s)'  BY <2>2, <3>1, <3>3 DEF Pending
    <3>5. ~Pending(s)  BY <3>4
    <3> QED  BY <3>1, <3>3, <3>5 DEF Asleep
  <2>3. Asleep(m)'  BY DEF AllAsleep
  <2> QED  BY <2>1, <2>2, <2>3 DEF Asleep
<1> QED  BY <1>2 DEF AllAsleep

\* The steps of sysmon's wakeups.
LEMMA SysmonAttends == ASSUME Inv, Produce(Sysmon) PROVE Attended'
<1> SUFFICES ASSUME AllAsleep', HasWork'
             PROVE  (\/ pc[Sysmon] \in {"tail", "owner", "signal_owner", "wake", "signal"}
                     \/ pc[Sysmon] = "break" /\ \E m \in M : pc[m] = "epoll"
                     \/ pc[Sysmon] = "write" /\ \E m \in M : pc[m] = "epoll" /\ r[m].s = r[Sysmon].s)'
  BY DEF Attended
<1>0. /\ TypeOK /\ Busy /\ pc \in [Proc -> Label] /\ r \in [Proc -> Local] /\ Sysmon \in Proc
      /\ M \subseteq Proc /\ Sysmon \notin M /\ key \in [M -> BOOLEAN] /\ Main \in M
      /\ efd \in [Shard -> BOOLEAN] /\ Claims /\ Breaks /\ Covered /\ Notes /\ Attended
  BY IdleAssumption DEF Inv, TypeOK, Proc
<1>1. Frame(Sysmon)  BY <1>0, TypeProduce
<1>2. \A m \in M : pc'[m] = pc[m] /\ r'[m] = r[m]  BY <1>0, <1>1 DEF Frame
<1>3. \A m \in M : pc[m] \in {"sleep", "epoll"}  BY <1>2 DEF AllAsleep, Asleep
<1>4. CASE WakeLockedM(Sysmon) \/ SignalOwner(Sysmon)
  BY <1>0, <1>4 DEF WakeLockedM, SignalOwner, Goto
<1>5. CASE Tail(Sysmon)
  <2>1. PICK g \in r[Sysmon].tail : Enqueue(Sysmon, g)  BY <1>5 DEF Tail
  <2>2. r[Sysmon] \in Local  BY <1>0
  <2>3. g \in G  BY <2>1, <2>2 DEF Local
  <2>4. pc'[Sysmon] \in {"wake", "owner"}  BY <1>0, <2>1, <2>3, EnqueueEffect
  <2> QED  BY <2>4
<1>6. CASE WakeIdleM(Sysmon)
  <2>1. CASE pc'[Sysmon] = "signal"  BY <2>1
  <2>2. CASE midle = {} /\ pc'[Sysmon] = "break"
    <3>1. pc[Main] # "sleep"
      <4>1. SUFFICES ASSUME pc[Main] = "sleep" PROVE FALSE  OBVIOUS
      <4>2. ~key'[Main]  BY <1>0, <1>2, <4>1 DEF AllAsleep, Asleep
      <4>3. Dormant(Main)  BY <1>6, <4>1, <4>2 DEF WakeIdleM, Dormant
      <4>4. PICK p \in Proc : Signalling(p)  BY <1>0, <2>2, <4>3 DEF Covered
      <4>5. p = Sysmon  BY <1>3, <4>4 DEF Signalling, Proc
      <4> QED  BY <1>6, <4>4, <4>5 DEF WakeIdleM, Signalling
    <3> QED  BY <1>0, <1>2, <1>3, <2>2, <3>1
  <2> QED  BY <1>0, <1>6, <2>1, <2>2 DEF WakeIdleM, Goto
<1>7. CASE Signal(Sysmon)
  <2>1. Signalling(Sysmon) /\ Wakeup(r[Sysmon].to)  BY <1>7 DEF Signal, Signalling
  <2>2. PICK x \in M : x = r[Sysmon].to /\ Dormant(x)  BY <1>0, <2>1 DEF Notes
  <2>3. pc'[x] = "sleep" /\ key'[x]  BY <1>0, <1>2, <2>1, <2>2 DEF Wakeup, Dormant
  <2> QED  BY <2>3 DEF AllAsleep, Asleep
<1>8. CASE BreakOneClaimed(Sysmon)
  <2>0. UNCHANGED <<local, glob, key, efd, events>> /\ pc[Sysmon] = "break"
    BY <1>8 DEF BreakOneClaimed, queues, notes
  <2>1. AllAsleep  BY <1>1, <2>0, StillAsleep DEF Pending
  <2>2. HasWork  BY <2>0 DEF HasWork
  <2>3. PICK m \in M : pc[m] = "epoll"  BY <1>0, <2>0, <2>1, <2>2 DEF Attended
  <2>4. r[m].s \in Claimed  BY <1>0, <2>3 DEF Claims, Claimed, Polling
  <2>5. PICK s \in Claimed : /\ wake_sig' = [wake_sig EXCEPT ![s] = TRUE]
                             /\ IF wake_sig[s] THEN Return(Sysmon)
                                ELSE Goto(Sysmon, "write") /\ r' = [r EXCEPT ![Sysmon].s = s]
    BY <1>8, <2>4 DEF BreakOneClaimed
  <2>6. PICK n \in M : Polling(n) /\ r[n].s = s  BY <1>0, <2>5 DEF Claims, Claimed
  <2>7. pc[n] = "epoll"  BY <1>3, <2>6 DEF Polling
  <2>8. ~efd[s]  BY <2>1, <2>6, <2>7 DEF AllAsleep, Asleep, Pending
  <2>9. ~wake_sig[s]
    <3>1. \A p \in Proc : pc[p] \notin {"write", "drained"}  BY <1>3, <2>0 DEF Proc
    <3> QED  BY <1>0, <2>5, <2>8, <3>1 DEF Breaks, Claimed
  <2>10. pc'[Sysmon] = "write" /\ r'[Sysmon].s = s
    BY <1>0, <2>5, <2>9, SetS DEF Goto, Claimed
  <2> QED  BY <1>2, <2>6, <2>7, <2>10
<1>9. CASE BreakWrite(Sysmon)
  <2>0. /\ UNCHANGED <<local, glob, key, events>> /\ pc[Sysmon] = "write"
        /\ efd' = [efd EXCEPT ![r[Sysmon].s] = TRUE]
    BY <1>9 DEF BreakWrite, queues, notes
  <2>1. AllAsleep  BY <1>0, <1>1, <2>0, StillAsleep DEF Pending
  <2>2. HasWork  BY <2>0 DEF HasWork
  <2>3. PICK m \in M : pc[m] = "epoll" /\ r[m].s = r[Sysmon].s
    BY <1>0, <2>0, <2>1, <2>2 DEF Attended
  <2>4. r[m].s \in Shard  BY <1>0, <2>3 DEF Claims, Polling
  <2>5. pc'[m] = "epoll" /\ efd'[r'[m].s]  BY <1>0, <1>2, <2>0, <2>3, <2>4
  <2> QED  BY <2>5 DEF AllAsleep, Asleep, Pending
<1> QED  BY <1>4, <1>5, <1>6, <1>7, <1>8, <1>9 DEF Produce

\* Every step.
LEMMA StepAttended == ASSUME Inv, [Next]_vars PROVE Attended'
<1>0. /\ TypeOK /\ Busy /\ pc \in [Proc -> Label] /\ Sysmon \in Proc /\ Attended
      /\ events \in [Shard -> SUBSET G]
  BY DEF Inv, TypeOK, Proc
<1>1. CASE \E m \in M : Thread(m) \/ Goroutine(m)
  <2>1. PICK m \in M : pc'[m] \notin {"sleep", "epoll"} \/ ~HasWork'  BY <1>1, ThreadAwake
  <2> QED  BY <2>1 DEF Attended, AllAsleep, Asleep
<1>2. CASE SysmonTimer \/ SysmonPoll
  <2>1. pc'[Sysmon] \in {"wake", "owner", "tail"}
    BY <1>0, <1>2, EnqueueEffect DEF SysmonTimer, SysmonPoll, Goto
  <2> QED  BY <2>1 DEF Attended
<1>3. CASE Produce(Sysmon)  BY <1>3, SysmonAttends
<1>4. CASE Readable
  <2>1. UNCHANGED <<pc, r, local, glob, key, efd>>
    BY <1>4 DEF Readable, queues, notes
  <2>2. \A s \in Shard : events[s] # {} => events'[s] # {}  BY <1>0, <1>4 DEF Readable
  <2>3. Frame(Sysmon)  BY <2>1 DEF Frame
  <2>4. AllAsleep' => AllAsleep  BY <2>1, <2>2, <2>3, StillAsleep DEF Pending
  <2>5. HasWork' <=> HasWork  BY <2>1 DEF HasWork
  <2> QED  BY <1>0, <2>1, <2>4, <2>5 DEF Attended
<1>5. CASE UNCHANGED vars
  BY <1>0, <1>5 DEF vars, queues, notes, shards, Attended, AllAsleep, Asleep, Pending, HasWork
<1> QED  BY <1>1, <1>2, <1>3, <1>4, <1>5 DEF Next

-----------------------------------------------------------------------------
(* The last goroutine.                                                     *)

\* LIVE_G_COUNT is zero exactly when every goroutine has ended, before and after a step.
LEMMA NoneLive ==
  /\ Live = 0 <=> \A g \in G : status[g] = "dead"
  /\ Live' = 0 <=> \A g \in G : status'[g] = "dead"
<1>1. ASSUME NEW f PROVE Cardinality({g \in G : f[g] # "dead"}) = 0 <=> \A g \in G : f[g] = "dead"
  <2> DEFINE L == {g \in G : f[g] # "dead"}
  <2>1. IsFiniteSet(L)  BY IdleAssumption, FS_Subset
  <2>2. Cardinality(L) = 0 <=> L = {}  BY <2>1, FS_EmptySet
  <2> QED  BY <2>2
<1> QED  BY <1>1 DEF Live

\* A goroutine that changes its state without ending is alive.
LEMMA Alive ==
  ASSUME TypeOK, NEW g \in G, NEW x, x # "dead", Status(g, x)
  PROVE  Live' # 0
<1>1. status'[g] = x  BY DEF Status, TypeOK
<1> QED  BY <1>1, NoneLive

\* A step of p that ends no goroutine, does not put main to sleep, and gives up a wakeup of
\* everybody only when there is nobody left on MIDLE.
LEMMA LastOutFrame ==
  ASSUME Inv, NEW p \in Proc, Frame(p), UNCHANGED status,
         Dormant(Main)' => Dormant(Main),
         pc[p] \in {"wake_all", "signal_all"} => pc'[p] \in {"wake_all", "signal_all"} \/ midle = {},
         Signalling(p) /\ r[p].to = Main => ~Dormant(Main)'
  PROVE  LastOut'
<1> SUFFICES ASSUME Live' = 0, Dormant(Main)'
             PROVE  (\/ \E m \in M : pc[m] \in {"wake_all", "signal_all"}
                     \/ \E q \in Proc : Signalling(q) /\ r[q].to = Main)'
  BY DEF LastOut
<1>0. Main \in M /\ Covered /\ LastOut /\ M \subseteq Proc  BY IdleAssumption DEF Inv, Proc
<1>1. Live = 0  BY NoneLive
<1>2. \A q \in Proc : q # p => pc'[q] = pc[q] /\ r'[q] = r[q]  BY DEF Frame
<1>3. CASE \E q \in Proc : Signalling(q) /\ r[q].to = Main
  <2>1. PICK q \in Proc : Signalling(q) /\ r[q].to = Main  BY <1>3
  <2>2. q # p  BY <2>1
  <2> QED  BY <1>2, <2>1, <2>2 DEF Signalling
<1>4. CASE \E m \in M : pc[m] \in {"wake_all", "signal_all"}
  <2>1. PICK m \in M : pc[m] \in {"wake_all", "signal_all"}  BY <1>4
  <2>2. CASE midle = {}  BY <1>0, <1>3, <2>2 DEF Covered
  <2>3. CASE midle # {}  BY <1>0, <1>2, <2>1, <2>3
  <2> QED  BY <2>2, <2>3
<1> QED  BY <1>0, <1>1, <1>3, <1>4 DEF LastOut

\* The steps of a thread that have nothing to do with notes: the last one to end wakes all.
LEMMA StatusStep ==
  ASSUME Inv, NEW m \in M,
         \/ FindRunnable(m) \/ PollNetpollTakeOne(m) \/ ExecuteHead(m) \/ TryClaimShard(m)
         \/ BlockAsNetpoller(m) \/ PollShard(m) \/ PollShardSig(m) \/ ReleaseShard(m)
         \/ Goroutine(m)
  PROVE  UNCHANGED status \/ Live' # 0 \/ pc'[m] = "wake_all"
<1>0. /\ TypeOK /\ Busy /\ pc \in [Proc -> Label] /\ m \in Proc
      /\ local \in [M -> SUBSET G] /\ glob \in SUBSET G
  BY DEF Inv, TypeOK, Proc
<1>1. CASE FindRunnable(m)
  <2>1. (\E g \in G : Status(g, "running")) \/ UNCHANGED status
    <3>1. CASE TakeLocal(m)  BY <1>0, <3>1 DEF TakeLocal, Execute
    <3>2. CASE TakeGlobal(m)  BY <1>0, <3>2 DEF TakeGlobal, Execute, Own, Global
    <3>3. CASE Steal(m)  BY <3>3 DEF Steal, Execute
    <3> QED  BY <1>1, <3>1, <3>2, <3>3 DEF FindRunnable
  <2> QED  BY <1>0, <2>1, Alive
<1>2. CASE ExecuteHead(m)
  <2>1. r[m].head \in G /\ Status(r[m].head, "running")
    BY <1>0, <1>2 DEF ExecuteHead, Execute, Busy
  <2> QED  BY <1>0, <2>1, Alive
<1>3. CASE \/ PollNetpollTakeOne(m) \/ TryClaimShard(m) \/ BlockAsNetpoller(m) \/ PollShard(m)
           \/ PollShardSig(m) \/ ReleaseShard(m)
  BY <1>3 DEF PollNetpollTakeOne, TryClaimShard, BlockAsNetpoller, PollShard, PollShardSig,
              ReleaseShard, gs
<1>4. CASE Goroutine(m)
  <2>1. CASE Newproc(m) \/ Goready(m)
    <3>1. PICK g \in G : Status(g, "runnable")  BY <2>1 DEF Newproc, Goready, Enqueue
    <3> QED  BY <1>0, <3>1, Alive
  <2>2. CASE Park(m) \/ Gosched(m)
    <3>1. run[m] \in G /\ (Status(run[m], "waiting") \/ Status(run[m], "runnable"))
      BY <1>0, <2>2 DEF Park, Gosched, Running, Busy
    <3> QED  BY <1>0, <3>1, Alive
  <2>3. CASE Goexit(m)  BY <1>0, <2>3 DEF Goexit, WakesAll, Goto
  <2>4. CASE MainReturns(m) \/ LockOSThread(m) \/ UnlockOSThread(m) \/ NetpollInit(m)
    BY <2>4 DEF MainReturns, LockOSThread, UnlockOSThread, NetpollInit, gs
  <2> QED  BY <1>4, <2>1, <2>2, <2>3, <2>4 DEF Goroutine
<1> QED  BY <1>1, <1>2, <1>3, <1>4

\* Every step.
LEMMA StepLastOut == ASSUME Inv, [Next]_vars PROVE LastOut'
<1>0. /\ TypeOK /\ Busy /\ TypeOK' /\ pc \in [Proc -> Label] /\ r \in [Proc -> Local]
      /\ M \subseteq Proc /\ Sysmon \in Proc /\ Main \in M /\ key \in [M -> BOOLEAN]
      /\ Notes /\ LastOut
  BY StepType, IdleAssumption DEF Inv, TypeOK, Proc
<1>1. ASSUME NEW p \in Proc, Neutral(p),
             UNCHANGED status \/ Live' # 0 \/ (p \in M /\ pc'[p] = "wake_all")
      PROVE  LastOut'
  <2>1. CASE UNCHANGED status
    <3>1. \A m \in M : Dormant(m)' <=> Dormant(m)  BY <1>0, <1>1, NeutralNotes
    <3>2. Frame(p) /\ ~Signalling(p) /\ pc[p] \notin {"wake_all", "signal_all"}
      BY <1>1 DEF Neutral, Waker, Signalling
    <3> QED  BY <1>0, <2>1, <3>1, <3>2, LastOutFrame
  <2>2. CASE Live' # 0 \/ (p \in M /\ pc'[p] = "wake_all")  BY <2>2 DEF LastOut
  <2> QED  BY <1>1, <2>1, <2>2
<1>2. ASSUME NEW p \in Proc, Frame(p), WakeLockedM(p) \/ SignalOwner(p) \/ WakeIdleM(p) \/ Signal(p)
                                         \/ WakeAllIdleM(p) \/ SignalAll(p)
      PROVE  LastOut'
  <2>1. UNCHANGED status
    BY <1>2 DEF WakeLockedM, SignalOwner, WakeIdleM, Signal, WakeAllIdleM, SignalAll, gs
  <2>2. pc'[p] # "sleep"
    <3>1. CASE Return(p)  BY <1>0, <3>1, ReturnEffect
    <3> QED  BY <1>0, <1>2, <3>1
             DEF WakeLockedM, SignalOwner, WakeIdleM, Signal, WakeAllIdleM, SignalAll, Goto
  <2>3. pc[p] \in {"wake_all", "signal_all"} => pc'[p] \in {"wake_all", "signal_all"} \/ midle = {}
    BY <1>0, <1>2 DEF WakeLockedM, SignalOwner, WakeIdleM, Signal, WakeAllIdleM, SignalAll, Goto
  <2>4. CASE Signalling(p)
    <3>1. PICK x \in M : x = r[p].to  BY <1>0, <2>4 DEF Notes
    <3>2. key' = [key EXCEPT ![x] = TRUE]
      BY <1>2, <2>4, <3>1 DEF WakeLockedM, SignalOwner, WakeIdleM, Signal, WakeAllIdleM,
                              SignalAll, Wakeup, Signalling
    <3>3. key'[x] /\ \A m \in M : key[m] => key'[m]  BY <1>0, <3>2
    <3>4. Dormant(Main)' => Dormant(Main)  BY <1>0, <1>2, <2>2, <3>3 DEF Dormant, Frame
    <3> QED  BY <1>2, <2>1, <2>3, <3>1, <3>3, <3>4, LastOutFrame DEF Dormant
  <2>5. CASE ~Signalling(p)
    <3>1. UNCHANGED key
      BY <1>2, <2>5 DEF WakeLockedM, SignalOwner, WakeIdleM, Signal, WakeAllIdleM, SignalAll,
                        Signalling
    <3>2. Dormant(Main)' => Dormant(Main)  BY <1>0, <1>2, <2>2, <3>1 DEF Dormant, Frame
    <3> QED  BY <1>2, <2>1, <2>3, <2>5, <3>2, LastOutFrame
  <2> QED  BY <2>4, <2>5
<1>3. ASSUME NEW m \in M, ParkMIdle(m) \/ NoteSleep(m) PROVE LastOut'
  <2>1. Frame(m) /\ UNCHANGED status /\ pc[m] \in {"park", "sleep"}
    BY <1>3, TypeSchedule DEF ScheduleLoop, ParkMIdle, NoteSleep, gs
  <2>2. CASE pc'[m] = "find" /\ UNCHANGED key
    <3>1. Dormant(Main)' => Dormant(Main)  BY <1>0, <2>1, <2>2 DEF Dormant, Frame
    <3> QED  BY <1>0, <2>1, <2>2, <3>1, LastOutFrame DEF Signalling
  <2>3. CASE Live # 0
    <3>1. Live' # 0  BY <2>1, <2>3, NoneLive
    <3> QED  BY <3>1 DEF LastOut
  <2> QED  BY <1>0, <1>3, <2>2, <2>3 DEF ParkMIdle, NoteSleep, MayPark, Goto, notes
<1>4. ASSUME NEW p \in Proc, Produce(p) PROVE LastOut'
  <2>1. CASE BreakOneClaimed(p) \/ BreakWrite(p)
    <3>1. UNCHANGED status  BY <2>1 DEF BreakOneClaimed, BreakWrite, gs
    <3>2. Neutral(p)  BY <2>1, NeutralProduce
    <3> QED  BY <1>1, <3>1, <3>2
  <2>2. CASE Tail(p)
    <3>1. PICK g \in r[p].tail : Enqueue(p, g)  BY <2>2 DEF Tail
    <3>2. r[p] \in Local  BY <1>0
    <3>3. g \in G /\ Status(g, "runnable")  BY <3>1, <3>2 DEF Local, Enqueue
    <3>4. Live' # 0  BY <1>0, <3>3, Alive
    <3> QED  BY <3>4 DEF LastOut
  <2>3. CASE WakeLockedM(p) \/ SignalOwner(p) \/ WakeIdleM(p) \/ Signal(p)
    BY <1>2, <1>4, <2>3, TypeProduce
  <2> QED  BY <1>4, <2>1, <2>2, <2>3 DEF Produce
<1>5. ASSUME NEW m \in M, Thread(m) \/ Goroutine(m) PROVE LastOut'
  <2>1. CASE Produce(m)  BY <1>0, <1>4, <2>1
  <2>2. CASE WakeAllIdleM(m) \/ SignalAll(m)  BY <1>0, <1>2, <2>2, TypeGoroutine
  <2>3. CASE ParkMIdle(m) \/ NoteSleep(m)  BY <1>3, <2>3
  <2>4. CASE \/ FindRunnable(m) \/ PollNetpollTakeOne(m) \/ ExecuteHead(m) \/ TryClaimShard(m)
             \/ BlockAsNetpoller(m) \/ PollShard(m) \/ PollShardSig(m) \/ ReleaseShard(m)
             \/ Goroutine(m)
    <3>1. Neutral(m)  BY <2>4, NeutralThread
    <3>2. UNCHANGED status \/ Live' # 0 \/ pc'[m] = "wake_all"  BY <2>4, StatusStep
    <3> QED  BY <1>0, <1>1, <3>1, <3>2
  <2> QED  BY <1>5, <2>1, <2>2, <2>3, <2>4 DEF Thread, ScheduleLoop
<1>6. CASE SysmonTimer \/ Readable
  <2>1. PICK g \in G, x \in {"runnable", "io"} : Status(g, x)
    BY <1>6 DEF SysmonTimer, Readable, Enqueue
  <2>2. Live' # 0  BY <1>0, <2>1, Alive
  <2> QED  BY <2>2 DEF LastOut
<1>7. CASE SysmonPoll
  <2>1. UNCHANGED status  BY <1>7 DEF SysmonPoll, gs
  <2>2. Neutral(Sysmon)  BY <1>7, NeutralSysmon
  <2> QED  BY <1>0, <1>1, <2>1, <2>2
<1>8. CASE UNCHANGED vars
  <2>1. UNCHANGED <<pc, r, key, status>>  BY <1>8 DEF vars, gs, notes
  <2>2. Live' = Live  BY <2>1 DEF Live
  <2> QED  BY <1>0, <2>1, <2>2 DEF LastOut, Dormant, Signalling
<1> QED  BY <1>0, <1>4, <1>5, <1>6, <1>7, <1>8 DEF Next

-----------------------------------------------------------------------------
(* The theorems.                                                           *)

\* The invariant is inductive.
LEMMA InvInductive == Spec => []Inv
<1>1. Inv /\ [Next]_vars => Inv'
  <2> SUFFICES ASSUME Inv, [Next]_vars PROVE Inv'  OBVIOUS
  <2> QED  BY StepType, StepNotes, StepShards, StepAttended, StepLastOut DEF Inv, NotesInv
<1> QED  BY <1>1, InitInv, PTL DEF Spec

\* Every variable keeps its type: in particular a thread that is in the run state has a
\* goroutine, and a poll is of a shard.
THEOREM TypeCorrect == Spec => []TypeOK
<1>1. Inv => TypeOK  BY DEF Inv
<1> QED  BY <1>1, InvInductive, PTL

\* However wake_idle_m, wake_locked_m and wake_all_idle_m are interleaved, no note is
\* signalled twice in a park cycle, which note.rs makes fatal.
THEOREM WakeupsOnce == Spec => []NoDoubleWakeup
<1>1. Inv => NoDoubleWakeup  BY DEF Inv
<1> QED  BY <1>1, InvInductive, PTL

\* A thread never stays on its note over a goroutine that only it may run.
THEOREM OwnersWoken == Spec => []OwnerAwake
<1>1. Inv => OwnerAwake  BY DEF Inv
<1> QED  BY <1>1, InvInductive, PTL

\* The threads never all sleep over a runnable goroutine, nor main over the end of the last
\* one, whatever the number of threads, shards and goroutines.
THEOREM WorkIsSeen == Spec => []NoSleepOverWork
<1>1. Inv => NoSleepOverWork
  <2> SUFFICES ASSUME Inv, \A m \in M : Asleep(m), pc[Sysmon] = "tick"
               PROVE  ~HasWork /\ (Live = 0 => pc[Main] # "sleep")
    BY DEF NoSleepOverWork
  <2>1. ~HasWork  BY DEF Inv, Attended, AllAsleep
  <2>2. ASSUME Live = 0, pc[Main] = "sleep" PROVE FALSE
    <3>1. Dormant(Main)  BY <2>2, IdleAssumption DEF Asleep, Dormant
    <3>2. \A p \in Proc : pc[p] \in {"sleep", "epoll", "tick"}  BY DEF Asleep, Proc
    <3>3. M \subseteq Proc  BY DEF Proc
    <3> QED  BY <2>2, <3>1, <3>2, <3>3 DEF Inv, LastOut, Signalling
  <2> QED  BY <2>1, <2>2
<1> QED  BY <1>1, InvInductive, PTL
=============================================================================
