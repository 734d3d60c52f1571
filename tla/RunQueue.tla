------------------------------ MODULE RunQueue ------------------------------
(***************************************************************************)
(* The runnable set of the scheduler: per P a single-producer ring with a  *)
(* runnext slot, from which other Ps steal (sched/p.rs), and one global    *)
(* queue under the SCHED lock (sched/scheduler.rs).  A P stands for the M  *)
(* bound to it.  A step is one atomic access of a word that another P may  *)
(* touch, or one critical section of SCHED; reads of words that only this  *)
(* P writes join the step before them.                                     *)
(***************************************************************************)
EXTENDS Integers, Sequences, FiniteSets

CONSTANTS P, G, None,
          Main,         \* the goroutine that runs at boot
          Size,         \* LOCAL_RUNQ_SIZE
          Width,        \* bits of runqhead and runqtail: 32 in the code
          Start,        \* runqhead at the start: 0 after boot, any value later on
          Loaded,       \* what main has already put on its P's ring at the start
          MaxReady      \* bound: how often goroutines are made runnable

ASSUME RunQueueAssumption ==
    /\ Main \in G /\ None \notin G
    /\ Size \in Nat /\ Size % 2 = 0 /\ Size > 0
    /\ Width \in Nat /\ 2^Width % Size = 0
    /\ Start \in 0..(2^Width - 1) /\ MaxReady \in Nat
    /\ Loaded \in Seq(G \ {Main}) /\ Len(Loaded) <= Size
    /\ \A i, j \in DOMAIN Loaded : Loaded[i] = Loaded[j] => i = j

VARIABLES
    head, tail, runq,   \* the ring of each P
    runnext,
    glob,               \* SCHED.runq
    run,                \* run[p]: the goroutine p executes
    status,             \* GStatus of each goroutine; dead and unborn ones count as waiting
    pc,
    r,                  \* r[p]: the local variables of the call p is in
    made                \* how often a goroutine was made runnable

queueVars == <<head, tail, runq, runnext, glob>>
vars == <<queueVars, run, status, pc, r, made>>

Wrap(n) == n % 2^Width
Slot(n) == n % Size
Boot    == CHOOSE p \in P : TRUE
Regs == [g |-> None, h |-> 0, t |-> 0, n |-> 0, i |-> 0, next |-> None,
         of |-> Boot, snipe |-> FALSE]

LoadedAt(s) == {i \in DOMAIN Loaded : Slot(Start + i - 1) = s}

Init ==
    /\ head = [p \in P |-> Start]
    /\ tail = [p \in P |-> IF p = Boot THEN Wrap(Start + Len(Loaded)) ELSE Start]
    /\ runq = [p \in P |-> [s \in 0..(Size - 1) |->
                 IF p = Boot /\ LoadedAt(s) # {} THEN Loaded[CHOOSE i \in LoadedAt(s) : TRUE]
                                                ELSE None]]
    /\ runnext = [p \in P |-> None]
    /\ glob = << >>
    /\ run  = [p \in P |-> IF p = Boot THEN Main ELSE None]
    /\ status = [g \in G |-> IF g = Main THEN "running"
                             ELSE IF \E i \in DOMAIN Loaded : Loaded[i] = g THEN "runnable"
                             ELSE "waiting"]
    /\ pc   = [p \in P |-> IF p = Boot THEN "run" ELSE "find"]
    /\ r    = [p \in P |-> Regs]
    /\ made = 0

Goto(p, l)  == pc' = [pc EXCEPT ![p] = l]
Set(p, rec) == r' = [r EXCEPT ![p] = rec]

-----------------------------------------------------------------------------
(* enqueue_runnable: the goroutine on p makes g runnable.                  *)

Awake(g) == /\ status[g] = "waiting" /\ made < MaxReady
            /\ made' = made + 1
            /\ status' = [status EXCEPT ![g] = "runnable"]

\* newproc (next = FALSE) and goready (next = TRUE).
Ready(p, g, next) ==
    /\ pc[p] = "run"
    /\ Awake(g)
    /\ Set(p, [Regs EXCEPT !.g = g])
    /\ Goto(p, IF next THEN "put" ELSE "putring")
    /\ UNCHANGED <<queueVars, run>>

\* A waker without a P (sysmon) pushes to the global queue.
ReadyNoP(g) ==
    /\ Awake(g)
    /\ glob' = Append(glob, g)
    /\ UNCHANGED <<head, tail, runq, runnext, run, pc, r>>

\* runqput, next: load runnext ...
PutLoad(p) ==
    /\ pc[p] = "put"
    /\ Set(p, [r[p] EXCEPT !.next = runnext[p]]) /\ Goto(p, "putnext")
    /\ UNCHANGED <<queueVars, run, status, made>>

\* ... and swap g in; whom it kicks out goes to the ring.
PutSwap(p) ==
    /\ pc[p] = "putnext"
    /\ IF runnext[p] = r[p].next
       THEN /\ runnext' = [runnext EXCEPT ![p] = r[p].g]
            /\ Set(p, IF r[p].next = None THEN Regs ELSE [Regs EXCEPT !.g = r[p].next])
            /\ Goto(p, IF r[p].next = None THEN "run" ELSE "putring")
       ELSE Goto(p, "put") /\ UNCHANGED <<runnext, r>>
    /\ UNCHANGED <<head, tail, runq, glob, run, status, made>>

\* Load runqhead; there is room, or half of the ring has to be spilled.
HasRoom_OffByOne(p) == Wrap(tail[p] - head[p]) <= Size
HasRoom(p) == Wrap(tail[p] - head[p]) < Size
PutRing(p) ==
    /\ pc[p] = "putring"
    /\ Set(p, [r[p] EXCEPT !.h = head[p]])
    /\ Goto(p, IF HasRoom(p) THEN "putwrite" ELSE "putslow")
    /\ UNCHANGED <<queueVars, run, status, made>>

\* Write the slot, then publish it by storing runqtail.
PutWrite(p) ==
    /\ pc[p] = "putwrite"
    /\ runq' = [runq EXCEPT ![p][Slot(tail[p])] = r[p].g]
    /\ Goto(p, "putpub")
    /\ UNCHANGED <<head, tail, runnext, glob, run, status, r, made>>
PutPublish(p) ==
    /\ pc[p] = "putpub"
    /\ tail' = [tail EXCEPT ![p] = Wrap(@ + 1)]
    /\ Set(p, Regs) /\ Goto(p, "run")
    /\ UNCHANGED <<head, runq, runnext, glob, run, status, made>>

\* runqputslow: claim the older half by a swap of runqhead; if a thief moved it,
\* start over.
SpillClaimed_NoCompare(p) == TRUE
SpillClaimed(p) == head[p] = r[p].h
PutSlow(p) ==
    /\ pc[p] = "putslow"
    /\ IF SpillClaimed(p)
       THEN /\ head' = [head EXCEPT ![p] = Wrap(r[p].h + Size \div 2)]
            /\ Set(p, [r[p] EXCEPT !.n = Size \div 2]) /\ Goto(p, "spill")
       ELSE Goto(p, "putring") /\ UNCHANGED <<head, r>>
    /\ UNCHANGED <<tail, runq, runnext, glob, run, status, made>>

\* globrunqput_batch: the copies, then g.
Spill(p) ==
    /\ pc[p] = "spill"
    /\ glob' = Append(glob \o [i \in 1..r[p].n |-> runq[p][Slot(r[p].h + i - 1)]], r[p].g)
    /\ Set(p, Regs) /\ Goto(p, "run")
    /\ UNCHANGED <<head, tail, runq, runnext, run, status, made>>

-----------------------------------------------------------------------------
(* The running goroutine yields, or parks or exits.                        *)

\* gosched_m: behind everyone else, on the global queue.
Gosched(p) ==
    /\ pc[p] = "run" /\ made < MaxReady
    /\ made' = made + 1
    /\ status' = [status EXCEPT ![run[p]] = "runnable"]
    /\ glob' = Append(glob, run[p])
    /\ run' = [run EXCEPT ![p] = None] /\ Goto(p, "find")
    /\ UNCHANGED <<head, tail, runq, runnext, r>>

\* park_m and goexit0.
Leave(p) ==
    /\ pc[p] = "run"
    /\ status' = [status EXCEPT ![run[p]] = "waiting"]
    /\ run' = [run EXCEPT ![p] = None] /\ Goto(p, "find")
    /\ UNCHANGED <<queueVars, r, made>>

-----------------------------------------------------------------------------
(* find_runnable: own P, global queue, another P.                          *)

Execute(p, g) == /\ run' = [run EXCEPT ![p] = g]
                 /\ status' = [status EXCEPT ![g] = "running"]
                 /\ Set(p, Regs) /\ Goto(p, "run")

\* runqget: load runnext ...
GetLoad(p) ==
    /\ pc[p] = "find"
    /\ Set(p, [Regs EXCEPT !.next = runnext[p]])
    /\ Goto(p, IF runnext[p] = None THEN "getring" ELSE "getnext")
    /\ UNCHANGED <<queueVars, run, status, made>>

\* ... and swap it out, once; then the ring.
NextTaken(p, of) == runnext[of] = r[p].next
GetNext(p) ==
    /\ pc[p] = "getnext"
    /\ IF NextTaken(p, p)
       THEN /\ runnext' = [runnext EXCEPT ![p] = None]
            /\ Execute(p, r[p].next)
       ELSE Goto(p, "getring") /\ UNCHANGED <<runnext, r, run, status>>
    /\ UNCHANGED <<head, tail, runq, glob, made>>

GetRing(p) ==
    /\ pc[p] = "getring"
    /\ IF head[p] = tail[p] THEN Set(p, Regs) /\ Goto(p, "glob")
       ELSE /\ Set(p, [Regs EXCEPT !.h = head[p], !.g = runq[p][Slot(head[p])]])
            /\ Goto(p, "getclaim")
    /\ UNCHANGED <<queueVars, run, status, made>>

GetClaimed(p) == head[p] = r[p].h
GetClaim(p) ==
    /\ pc[p] = "getclaim"
    /\ IF ~GetClaimed(p) THEN Goto(p, "getring") /\ UNCHANGED <<head, run, status, r>>
       ELSE /\ head' = [head EXCEPT ![p] = Wrap(r[p].h + 1)]
            /\ IF r[p].g = None THEN Goto(p, "getring") /\ UNCHANGED <<run, status, r>>
                                ELSE Execute(p, r[p].g)
    /\ UNCHANGED <<tail, runq, runnext, glob, made>>

\* globrunqget_one.
GlobGet(p) ==
    /\ pc[p] = "glob"
    /\ IF glob = << >> THEN Goto(p, "steal") /\ UNCHANGED <<glob, run, status, r>>
                       ELSE glob' = Tail(glob) /\ Execute(p, Head(glob))
    /\ UNCHANGED <<head, tail, runq, runnext, made>>

\* steal_work: try the Ps that do not look empty, in any order; the last round may
\* take a runnext too.  When nothing is found, back to the dispatch loop.
Steal(p) ==
    /\ pc[p] = "steal"
    /\ \/ \E of \in P \ {p}, snipe \in BOOLEAN :
             /\ head[of] # tail[of] \/ runnext[of] # None
             /\ Set(p, [Regs EXCEPT !.of = of, !.snipe = snipe, !.t = tail[p]])
             /\ Goto(p, "grab")
       \/ Goto(p, "find") /\ UNCHANGED r
    /\ UNCHANGED <<queueVars, run, status, made>>

\* runqgrab: load the victim's runqhead ...
Grab(p) ==
    /\ pc[p] = "grab"
    /\ Set(p, [r[p] EXCEPT !.h = head[r[p].of]]) /\ Goto(p, "grabtail")
    /\ UNCHANGED <<queueVars, run, status, made>>

\* ... then its runqtail, and size the batch: half, rounded up; too much means
\* that the two loads do not belong together.
TornBatch(n) == n > Size \div 2
Half(n) == n - n \div 2
GrabTail(p) == LET of == r[p].of  n == Half(Wrap(tail[of] - r[p].h)) IN
    /\ pc[p] = "grabtail"
    /\ IF n = 0 /\ r[p].snipe THEN Goto(p, "grabnext") /\ UNCHANGED r
       ELSE IF n = 0 THEN Set(p, Regs) /\ Goto(p, "steal")
       ELSE IF TornBatch(n) THEN Goto(p, "grab") /\ UNCHANGED r
       ELSE Set(p, [r[p] EXCEPT !.n = n, !.i = 0]) /\ Goto(p, "copy")
    /\ UNCHANGED <<queueVars, run, status, made>>

\* An empty ring, in the last round: load the victim's runnext ...
GrabNext(p) == LET next == runnext[r[p].of] IN
    /\ pc[p] = "grabnext"
    /\ IF next = None THEN Set(p, Regs) /\ Goto(p, "steal")
                      ELSE Set(p, [r[p] EXCEPT !.next = next]) /\ Goto(p, "snipe")
    /\ UNCHANGED <<queueVars, run, status, made>>

\* ... and swap it out.
Snipe(p) == LET of == r[p].of IN
    /\ pc[p] = "snipe"
    /\ IF NextTaken(p, of)
       THEN /\ runnext' = [runnext EXCEPT ![of] = None]
            /\ runq' = [runq EXCEPT ![p][Slot(r[p].t)] = r[p].next]
            /\ Set(p, [r[p] EXCEPT !.n = 1]) /\ Goto(p, "grabbed")
       ELSE Goto(p, "grab") /\ UNCHANGED <<runnext, runq, r>>
    /\ UNCHANGED <<head, tail, glob, run, status, made>>

\* Copy the batch, slot by slot, behind the own tail, where nobody looks.
Copy(p) ==
    /\ pc[p] = "copy" /\ r[p].i < r[p].n
    /\ runq' = [runq EXCEPT ![p][Slot(r[p].t + r[p].i)] = runq[r[p].of][Slot(r[p].h + r[p].i)]]
    /\ Set(p, [r[p] EXCEPT !.i = @ + 1])
    /\ UNCHANGED <<head, tail, runnext, glob, run, status, pc, made>>

\* Commit by a swap of the victim's runqhead, or start over.
GrabClaimed(p) == head[r[p].of] = r[p].h
GrabClaim(p) ==
    /\ pc[p] = "copy" /\ r[p].i = r[p].n
    /\ IF GrabClaimed(p)
       THEN /\ head' = [head EXCEPT ![r[p].of] = Wrap(r[p].h + r[p].n)]
            /\ Goto(p, "grabbed")
       ELSE Goto(p, "grab") /\ UNCHANGED head
    /\ UNCHANGED <<tail, runq, runnext, glob, run, status, r, made>>

\* runqsteal: run the last of the batch, publish the others.
Kept(n) == n - 1
Stolen(p) == LET n == r[p].n IN
    /\ pc[p] = "grabbed"
    /\ tail' = [tail EXCEPT ![p] = Wrap(@ + Kept(n))]
    /\ Execute(p, runq[p][Slot(r[p].t + n - 1)])
    /\ UNCHANGED <<head, runq, runnext, glob, made>>

-----------------------------------------------------------------------------
Put(p)  == PutLoad(p) \/ PutSwap(p) \/ PutRing(p) \/ PutWrite(p) \/ PutPublish(p)
           \/ PutSlow(p) \/ Spill(p)
Find(p) == \/ GetLoad(p) \/ GetNext(p) \/ GetRing(p) \/ GetClaim(p) \/ GlobGet(p)
           \/ Steal(p) \/ Grab(p) \/ GrabTail(p) \/ GrabNext(p) \/ Snipe(p) \/ Copy(p)
           \/ GrabClaim(p) \/ Stolen(p)

Next == \/ \E p \in P, g \in G, next \in BOOLEAN : Ready(p, g, next)
        \/ \E g \in G : ReadyNoP(g)
        \/ \E p \in P : Gosched(p) \/ Leave(p) \/ Put(p) \/ Find(p)

Spec == Init /\ [][Next]_vars

-----------------------------------------------------------------------------
(* Properties.                                                             *)

InGoroutine == {"run", "put", "putnext", "putring", "putwrite", "putpub", "putslow", "spill"}

\* Every variable has its type, and a P runs a goroutine exactly outside find_runnable.
TypeOK ==
    /\ head \in [P -> 0..(2^Width - 1)] /\ tail \in [P -> 0..(2^Width - 1)]
    /\ runq \in [P -> [0..(Size - 1) -> G \cup {None}]]
    /\ runnext \in [P -> G \cup {None}]
    /\ glob \in Seq(G)
    /\ run \in [P -> G \cup {None}]
    /\ status \in [G -> {"waiting", "runnable", "running"}]
    /\ \A p \in P : (run[p] = None) = (pc[p] \notin InGoroutine)

\* Where g is queued, or held by a P between two queues.
Held(p) == IF pc[p] \in {"put", "putnext", "putring", "putwrite", "putpub", "putslow"}
           THEN <<r[p].g>>
           ELSE IF pc[p] = "spill"
           THEN Append([i \in 1..r[p].n |-> runq[p][Slot(r[p].h + i - 1)]], r[p].g)
           ELSE IF pc[p] = "grabbed"
           THEN [i \in 1..r[p].n |-> runq[p][Slot(r[p].t + i - 1)]]
           ELSE << >>
Ring(p) == [i \in 1..Wrap(tail[p] - head[p]) |-> runq[p][Slot(head[p] + i - 1)]]
At(s, g) == {i \in DOMAIN s : s[i] = g}
Places(g) == {<<"global", None, i>> : i \in At(glob, g)} \cup UNION {
       {<<"ring", p, i>> : i \in At(Ring(p), g)} \cup {<<"hand", p, i>> : i \in At(Held(p), g)}
       \cup {<<"next", p, i>> : i \in At(<<runnext[p]>>, g)} : p \in P}

\* No goroutine is lost and none is queued twice, whatever thieves, the owner's
\* overflow and runnext kicks do to the same ring: a runnable goroutine is in
\* exactly one place, any other in none.  So it is dispatched once for each time it is
\* made runnable.
ExactlyOnce == \A g \in G :
    Cardinality(Places(g)) = IF status[g] = "runnable" THEN 1 ELSE 0

\* The ring never holds more than Size goroutines: what runqputslow's and
\* runqsteal's assertions claim, although head and tail are never read together.
RingBounded == \A p \in P :
    /\ Wrap(tail[p] - head[p]) <= Size
    /\ pc[p] = "putslow" => Wrap(tail[p] - r[p].h) = Size
    /\ pc[p] = "grabbed" => Wrap(tail[p] - head[p]) + r[p].n - 1 < Size
=============================================================================
