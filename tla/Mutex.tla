-------------------------------- MODULE Mutex -------------------------------
(***************************************************************************)
(* sync.Mutex (sync/mutex.rs): a state word -- a locked bit and a count of *)
(* registered waiters -- updated by compare-and-swap, and a semaphore on   *)
(* which registered waiters park.  Unlock with waiters hands the mutex     *)
(* over: the locked bit stays set and the semaphore carries the ownership. *)
(* A step below is one atomic access of the state word or one operation of *)
(* the semaphore.                                                          *)
(***************************************************************************)
EXTENDS Sema, FiniteSets

CONSTANT G      \* goroutines, each locking and unlocking as it likes

ASSUME MutexAssumption == IsFiniteSet(G)

VARIABLES
    st,         \* the state word: locked bit and waiter count
    sema,
    pc,
    old         \* old[g]: the state word lock_slow / unlock_slow loaded

vars == <<st, sema, pc, old>>

Word == [locked : BOOLEAN, waiters : Nat]
Free == [locked |-> FALSE, waiters |-> 0]
Held == [locked |-> TRUE,  waiters |-> 0]

Init ==
    /\ st   = Free
    /\ sema = NewSema
    /\ pc   = [g \in G |-> "idle"]
    /\ old  = [g \in G |-> Free]

Goto(g, l) == pc' = [pc EXCEPT ![g] = l]
CAS(g, new) == st = old[g] /\ st' = new

-----------------------------------------------------------------------------
\* Lock / LockManual: the fast path swaps an idle word for a held one.
Lock(g) ==
    /\ pc[g] = "idle"
    /\ IF st = Free THEN st' = Held /\ Goto(g, "cs")
                    ELSE UNCHANGED st /\ Goto(g, "slow")
    /\ UNCHANGED <<sema, old>>

\* TryLock / TryLockManual: the same swap, and no second attempt.
TryLock(g) ==
    /\ pc[g] = "idle" /\ st = Free
    /\ st' = Held /\ Goto(g, "cs")
    /\ UNCHANGED <<sema, old>>

\* lock_slow: load the word and decide between grabbing it and registering.
LockLoad(g) ==
    /\ pc[g] = "slow"
    /\ old' = [old EXCEPT ![g] = st]
    /\ Goto(g, IF st.locked THEN "register" ELSE "grab")
    /\ UNCHANGED <<st, sema>>

Take_NoCompare(g) == st' = [old[g] EXCEPT !.locked = TRUE]
Take(g) == CAS(g, [old[g] EXCEPT !.locked = TRUE])
Grab(g) ==
    /\ pc[g] = "grab"
    /\ \/ Take(g) /\ Goto(g, "cs")
       \/ st # old[g] /\ UNCHANGED st /\ Goto(g, "slow")
    /\ UNCHANGED <<sema, old>>

Register(g) ==
    /\ pc[g] = "register"
    /\ \/ CAS(g, [old[g] EXCEPT !.waiters = @ + 1]) /\ Goto(g, "acquire")
       \/ st # old[g] /\ UNCHANGED st /\ Goto(g, "slow")
    /\ UNCHANGED <<sema, old>>

\* sema.acquire; its return is the hand-off, there is no second look at the word.
Acquire(g) ==
    /\ pc[g] = "acquire"
    /\ IF HasCredit(sema) THEN sema' = Consumed(sema) /\ Goto(g, "cs")
                          ELSE sema' = Joined(sema, g) /\ Goto(g, "parked")
    /\ UNCHANGED <<st, old>>

Resume(g) ==
    /\ pc[g] = "woken" /\ Goto(g, "cs")
    /\ UNCHANGED <<st, sema, old>>

-----------------------------------------------------------------------------
\* Unlock, and the drop of a MutexGuard.
Unlock(g) ==
    /\ pc[g] = "cs"
    /\ IF st = Held THEN st' = Free /\ Goto(g, "idle")
                    ELSE UNCHANGED st /\ Goto(g, "uslow")
    /\ UNCHANGED <<sema, old>>

\* unlock_slow: load; an unlocked word is fatal.
UnlockLoad(g) ==
    /\ pc[g] = "uslow"
    /\ old' = [old EXCEPT ![g] = st]
    /\ Goto(g, IF ~st.locked THEN "fatal" ELSE "uswap")
    /\ UNCHANGED <<st, sema>>

\* What unlock_slow swaps in when waiters are registered: one waiter less, and the
\* locked bit still set on behalf of the one about to be woken.
HandOff_DropsBit(w) == [w EXCEPT !.waiters = @ - 1, !.locked = FALSE]
HandOff_KeepsCount(w) == w
HandOff(w) == [w EXCEPT !.waiters = @ - 1]

UnlockSwap(g) ==
    /\ pc[g] = "uswap"
    /\ IF st # old[g] THEN UNCHANGED st /\ Goto(g, "uslow")
       ELSE IF old[g].waiters = 0 THEN st' = Free /\ Goto(g, "idle")
       ELSE st' = HandOff(old[g]) /\ Goto(g, "release")
    /\ UNCHANGED <<sema, old>>

\* sema.release: wake the oldest waiter, or leave a credit for one that has
\* registered and not parked yet.
Release(g) ==
    /\ pc[g] = "release"
    /\ sema' = Released(sema)
    /\ pc' = IF Wakes(sema) THEN [pc EXCEPT ![g] = "idle", ![Wakee(sema)] = "woken"]
                            ELSE [pc EXCEPT ![g] = "idle"]
    /\ UNCHANGED <<st, old>>

-----------------------------------------------------------------------------
LockStep(g)   == LockLoad(g) \/ Grab(g) \/ Register(g) \/ Acquire(g) \/ Resume(g)
UnlockStep(g) == Unlock(g) \/ UnlockLoad(g) \/ UnlockSwap(g) \/ Release(g)

Next == \E g \in G : Lock(g) \/ TryLock(g) \/ LockStep(g) \/ UnlockStep(g)

\* Goroutines inside Lock or Unlock keep running, and critical sections end.
Fairness == \A g \in G : WF_vars(LockStep(g)) /\ WF_vars(UnlockStep(g))
Spec == Init /\ [][Next]_vars /\ Fairness

-----------------------------------------------------------------------------
(* Properties.                                                             *)

PC == {"idle", "slow", "grab", "register", "acquire", "parked", "woken", "cs",
       "uslow", "uswap", "release", "fatal"}

\* Every variable has its type; the semaphore never holds two credits, because
\* two would be two owners.
TypeOK ==
    /\ st \in Word
    /\ sema \in [credit : Nat, q : Seq(G)]
    /\ sema.credit <= 1
    /\ pc \in [G -> PC]
    /\ old \in [G -> Word]

\* At most one goroutine is between the return of Lock and the end of Unlock, and
\* the Unlock of an owner never finds the mutex unlocked.
Owning == {"cs", "uslow", "uswap"}
MutualExclusion ==
    /\ \A g, h \in G : pc[g] \in Owning /\ pc[h] \in Owning => g = h
    /\ \A g \in G : pc[g] # "fatal"

\* Those who hold the mutex or carry its ownership to the next holder.
Holders == {g \in G : pc[g] \in {"cs", "uslow", "uswap", "release", "woken"}}

\* Ownership is one token.  The locked bit is set exactly while the token is with
\* one goroutine (a holder, the unlocker about to release, the waiter just woken)
\* or is the semaphore's credit; it is never in two places, and never lost.
OneOwner ==
    /\ \A g, h \in Holders : g = h
    /\ sema.credit = 1 => Holders = {}
    /\ st.locked <=> (Holders # {} \/ sema.credit = 1)

Waiting   == {g \in G : pc[g] \in {"acquire", "parked"}}
Releasing == {g \in G : pc[g] = "release"}

Counted == Cardinality(Waiting) = st.waiters + sema.credit + Cardinality(Releasing)
Queued  == /\ \A k \in DOMAIN sema.q : pc[sema.q[k]] = "parked"
           /\ \A g \in G : pc[g] = "parked" => \E k \in DOMAIN sema.q : sema.q[k] = g
           /\ \A i, j \in DOMAIN sema.q : sema.q[i] = sema.q[j] => i = j

\* The waiter count is exact: registered waiters are those counted in the state
\* word, plus the one a hand-off in flight (between unlock's swap and the
\* waiter's return) is about to serve, and the queue holds each parked one once.
\* A miscount leaves a goroutine parked on a free mutex, or a credit that lets
\* two goroutines in.
WaitersExact == Counted /\ Queued /\ (Waiting # {} => st.locked)

\* Hand-off is first in, first out and cannot be barged: a goroutine that has
\* registered gets the mutex, however often others call Lock.
RegisteredGetsLock == \A g \in G : pc[g] = "acquire" ~> pc[g] = "cs"
=============================================================================
