------------------------------ MODULE WaitGroup -----------------------------
(***************************************************************************)
(* sync.WaitGroup (sync/waitgroup.rs): one 64-bit word holding the task    *)
(* counter (high half) and the waiter count (low half), and a semaphore.   *)
(* A step is one atomic access of the word or one critical section of the  *)
(* semaphore.  Callers call Go, Add(0) and Wait; a worker is a goroutine   *)
(* that Go spawns, and it ends with Done.                                  *)
(*                                                                         *)
(* The callers keep sync.WaitGroup's contract: a task is added to an idle  *)
(* group only while nobody waits.                                          *)
(***************************************************************************)
EXTENDS Sema, FiniteSets

CONSTANTS Callers, Workers,
          Width           \* bits of the counter half of the word: 32 in the code

\* The tasks that run at a time fit into the counter.
ASSUME WGAssumption ==
    /\ Width \in Nat \ {0} /\ 2^Width \in Nat
    /\ IsFiniteSet(Callers) /\ IsFiniteSet(Workers) /\ Callers \cap Workers = {}
    /\ Cardinality(Workers) < 2^Width

G == Callers \cup Workers

VARIABLES counter, waiters,   \* the two halves of the word
          sema,
          pc,
          seen,               \* seen[g]: the word g loaded or computed
          net,                \* the sum of all deltas, without overflow (not in the code)
          fatal

vars == <<counter, waiters, sema, pc, seen, net, fatal>>

Zero == [counter |-> 0, waiters |-> 0]

Init ==
    /\ counter = 0 /\ waiters = 0
    /\ sema = NewSema
    /\ pc   = [g \in G |-> IF g \in Callers THEN "idle" ELSE "unborn"]
    /\ seen = [g \in G |-> Zero]
    /\ net  = 0
    /\ fatal = FALSE

Goto(g, l)   == pc' = [pc EXCEPT ![g] = l]
Swap(g, c, n) == /\ counter = seen[g].counter /\ waiters = seen[g].waiters
                 /\ counter' = c /\ waiters' = n
Home(g) == IF g \in Callers THEN "idle" ELSE "unborn"

-----------------------------------------------------------------------------
(* Add.                                                                    *)

\* `(new_state >> 32) as i64`: the shift is logical, the half word stays unsigned.
AsI64(c) == c

\* fetch_add, and what Add does with the new state: a negative counter is fatal;
\* a counter of zero with waiters has to wake them.
WakesAll_AtOne(c, n) == c <= 1 /\ n > 0
WakesAll(c, n) == c = 0 /\ n > 0
Add(g, delta, after) == LET c == (counter + delta) % 2^Width IN
    /\ counter' = c
    /\ net' = net + delta
    /\ fatal' = (AsI64(c) < 0)
    /\ IF WakesAll(c, waiters)
       THEN /\ seen' = [seen EXCEPT ![g] = [counter |-> c, waiters |-> waiters]]
            /\ Goto(g, "zero")
       ELSE /\ pc' = after
            /\ UNCHANGED seen
    /\ UNCHANGED <<waiters, sema>>

\* The unique winner of this swap wakes; the loser returns.
WonZero(g) == Swap(g, 0, 0)
AddZeroSwap(g) ==
    /\ ~fatal /\ pc[g] = "zero"
    /\ \/ WonZero(g) /\ Goto(g, "release")
       \/ /\ ~(counter = seen[g].counter /\ waiters = seen[g].waiters)
          /\ UNCHANGED <<counter, waiters>> /\ Goto(g, Home(g))
    /\ UNCHANGED <<sema, seen, net, fatal>>

\* One critical section of sema.release_n(waiters).
LeftAfter_One(n) == 0
LeftAfter(n) == n - 1
AddRelease(g) == LET left == seen[g].waiters IN
    /\ ~fatal /\ pc[g] = "release"
    /\ IF Wakes(sema)
       THEN /\ sema' = Released(sema)
            /\ seen' = [seen EXCEPT ![g].waiters = LeftAfter(left)]
            /\ pc' = [pc EXCEPT ![Wakee(sema)] = "idle",
                                ![g] = IF LeftAfter(left) = 0 THEN Home(g) ELSE "release"]
       ELSE /\ sema' = Credited(sema, left)
            /\ seen' = [seen EXCEPT ![g] = Zero]
            /\ Goto(g, Home(g))
    /\ UNCHANGED <<counter, waiters, net, fatal>>

\* Go: Add(1), then newproc; the caller may itself be a worker of the group.
Waits == {g \in G : pc[g] \in {"load", "register", "acquire", "parked"}}
Go(g, k) ==
    /\ ~fatal /\ pc[g] \in {"idle", "task"} /\ pc[k] = "unborn"
    /\ counter # 0 \/ Waits = {}
    /\ Add(g, 1, [pc EXCEPT ![k] = "task"])

AddNothing(g) ==
    /\ ~fatal /\ pc[g] = "idle"
    /\ Add(g, 0, pc)

\* The deferred Done of a worker, run when its body returns or panics.
Done(k) ==
    /\ ~fatal /\ pc[k] = "task"
    /\ Add(k, -1, [pc EXCEPT ![k] = "unborn"])

-----------------------------------------------------------------------------
(* Wait; dropping the WaitGroup is a Wait too.                             *)

Wait(g) ==
    /\ ~fatal /\ pc[g] = "idle" /\ Goto(g, "load")
    /\ UNCHANGED <<counter, waiters, sema, seen, net, fatal>>

WaitLoad(g) ==
    /\ ~fatal /\ pc[g] = "load"
    /\ seen' = [seen EXCEPT ![g] = [counter |-> counter, waiters |-> waiters]]
    /\ Goto(g, IF AsI64(counter) = 0 THEN "idle" ELSE "register")
    /\ UNCHANGED <<counter, waiters, sema, net, fatal>>

Registered_NoCompare(g) == waiters' = waiters + 1 /\ UNCHANGED counter
Registered(g) == Swap(g, seen[g].counter, seen[g].waiters + 1)
WaitRegister(g) ==
    /\ ~fatal /\ pc[g] = "register"
    /\ \/ Registered(g) /\ Goto(g, "acquire")
       \/ /\ ~(counter = seen[g].counter /\ waiters = seen[g].waiters)
          /\ UNCHANGED <<counter, waiters>> /\ Goto(g, "load")
    /\ UNCHANGED <<sema, seen, net, fatal>>

WaitAcquire(g) ==
    /\ ~fatal /\ pc[g] = "acquire"
    /\ IF HasCredit(sema) THEN sema' = Consumed(sema) /\ Goto(g, "idle")
                          ELSE sema' = Joined(sema, g) /\ Goto(g, "parked")
    /\ UNCHANGED <<counter, waiters, seen, net, fatal>>

-----------------------------------------------------------------------------
Step(g) == \/ AddZeroSwap(g) \/ AddRelease(g)
           \/ WaitLoad(g) \/ WaitRegister(g) \/ WaitAcquire(g)

Next == \/ \E g \in G : Step(g)
        \/ \E g \in Callers : AddNothing(g) \/ Wait(g)
        \/ \E g \in G, k \in Workers : g # k /\ Go(g, k)
        \/ \E k \in Workers : Done(k)

\* Calls run on, and worker bodies end.
Fairness == /\ \A g \in G : WF_vars(Step(g))
            /\ \A k \in Workers : WF_vars(Done(k))
Spec == Init /\ [][Next]_vars /\ Fairness

-----------------------------------------------------------------------------
(* Properties.                                                             *)

\* Every variable has its type, and no more waiters are registered than wait.
TypeOK ==
    /\ counter \in 0..(2^Width - 1)
    /\ waiters \in 0..Cardinality(Callers)
    /\ sema \in [credit : 0..Cardinality(Callers), q : Seq(Callers)]
    /\ pc \in [G -> {"idle", "unborn", "task", "zero", "release", "load", "register",
                     "acquire", "parked"}]
    /\ seen \in [G -> [counter : Nat, waiters : Nat]]
    /\ net \in Int /\ fatal \in BOOLEAN

\* A blocked Wait returns only when every task added before is done: what the
\* borrows captured by Go's closures rely on, through the drop of the WaitGroup.
WaitMeansZero == [][\A g \in Callers :
    pc[g] \in {"load", "acquire", "parked"} /\ pc'[g] = "idle" => net = 0]_vars

\* Every registered waiter is still counted in the word, or covered by a credit or
\* by the one release in flight; and waiters of an idle group have their waker.
Blocked == {g \in G : pc[g] \in {"acquire", "parked"}}
Releasing == {g \in G : pc[g] = "release"}
InFlight == IF Releasing = {} THEN 0 ELSE seen[CHOOSE g \in Releasing : TRUE].waiters
NoStrandedWaiter ==
    /\ \A g, h \in Releasing : g = h
    /\ Cardinality(Blocked) = waiters + sema.credit + InFlight
    /\ counter = 0 /\ waiters > 0 => \E g \in G : pc[g] = "zero"

\* Once the counter reaches zero every call of Wait returns.
ZeroReleases == \A g \in Callers : g \in Waits /\ counter = 0 ~> pc[g] = "idle"
=============================================================================
