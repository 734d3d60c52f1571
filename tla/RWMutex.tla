------------------------------- MODULE RWMutex ------------------------------
(***************************************************************************)
(* sync.RWMutex (sync/rwmutex.rs): readers count themselves in             *)
(* reader_count; a writer subtracts MaxReaders, so that a negative count   *)
(* tells readers of a pending writer, and waits for the readers it found.  *)
(* A step is one atomic access or one semaphore operation.  The mutex w    *)
(* between writers is taken here as what Mutex is shown to be: one owner,  *)
(* and a waiter that is not overtaken for ever.  A goroutine woken from a  *)
(* semaphore continues behind its acquire at once.                         *)
(***************************************************************************)
EXTENDS Sema, FiniteSets

CONSTANTS G,            \* goroutines
          MaxReaders,   \* RW_MAX_READERS
          None

ASSUME RWAssumption ==
    /\ MaxReaders \in Nat /\ None \notin G
    /\ IsFiniteSet(G) /\ Cardinality(G) <= MaxReaders

VARIABLES w,                          \* owner of the writers' mutex, or None
          writerSem, readerSem,
          readerCount, readerWait,
          pc,
          num                         \* num[g]: c, r_active or left, a local of g

vars == <<w, writerSem, readerSem, readerCount, readerWait, pc, num>>

Init ==
    /\ w = None
    /\ writerSem = NewSema /\ readerSem = NewSema
    /\ readerCount = 0 /\ readerWait = 0
    /\ pc  = [g \in G |-> "idle"]
    /\ num = [g \in G |-> 0]

Goto(g, l) == pc' = [pc EXCEPT ![g] = l]
Keep(g, n) == num' = [num EXCEPT ![g] = n]

-----------------------------------------------------------------------------
(* Readers.                                                                *)

RLock(g) ==
    /\ pc[g] = "idle"
    /\ readerCount' = readerCount + 1
    /\ Goto(g, IF readerCount < 0 THEN "rAcquire" ELSE "reading")
    /\ UNCHANGED <<w, writerSem, readerSem, readerWait, num>>

RAcquire(g) ==
    /\ pc[g] = "rAcquire"
    /\ IF HasCredit(readerSem) THEN readerSem' = Consumed(readerSem) /\ Goto(g, "reading")
                               ELSE readerSem' = Joined(readerSem, g) /\ Goto(g, "rParked")
    /\ UNCHANGED <<w, writerSem, readerCount, readerWait, num>>

\* TryRLock: load, give up on a pending writer, else compare-and-swap; a lost
\* swap loads again.
TryRLock(g) ==
    /\ pc[g] = "idle" /\ Goto(g, "tryRLoad")
    /\ UNCHANGED <<w, writerSem, readerSem, readerCount, readerWait, num>>

TryRLoad(g) ==
    /\ pc[g] = "tryRLoad"
    /\ IF readerCount < 0 THEN UNCHANGED num /\ Goto(g, "idle")
                          ELSE Keep(g, readerCount) /\ Goto(g, "tryRSwap")
    /\ UNCHANGED <<w, writerSem, readerSem, readerCount, readerWait>>

TryRSwap(g) ==
    /\ pc[g] = "tryRSwap"
    /\ Keep(g, 0)
    /\ IF readerCount = num[g] THEN readerCount' = num[g] + 1 /\ Goto(g, "reading")
                               ELSE UNCHANGED readerCount /\ Goto(g, "tryRLoad")
    /\ UNCHANGED <<w, writerSem, readerSem, readerWait>>

\* RUnlock, and the check for an unlocked RWMutex in r_unlock_slow.
RUnlock(g) ==
    /\ pc[g] = "reading"
    /\ readerCount' = readerCount - 1
    /\ Goto(g, IF readerCount - 1 >= 0 THEN "idle"
               ELSE IF readerCount \in {0, -MaxReaders} THEN "fatal" ELSE "rUnlockSlow")
    /\ UNCHANGED <<w, writerSem, readerSem, readerWait, num>>

\* A writer is pending: the last reader it waits for signals it.
LastReader_Early(n) == n = 2
LastReader(n) == n = 1
RUnlockSlow(g) ==
    /\ pc[g] = "rUnlockSlow"
    /\ readerWait' = readerWait - 1
    /\ Goto(g, IF LastReader(readerWait) THEN "wSignal" ELSE "idle")
    /\ UNCHANGED <<w, writerSem, readerSem, readerCount, num>>

WSignal(g) ==
    /\ pc[g] = "wSignal"
    /\ writerSem' = Released(writerSem)
    /\ pc' = IF Wakes(writerSem)
             THEN [pc EXCEPT ![g] = "idle", ![Wakee(writerSem)] = "writing"]
             ELSE [pc EXCEPT ![g] = "idle"]
    /\ UNCHANGED <<w, readerSem, readerCount, readerWait, num>>

-----------------------------------------------------------------------------
(* Writers.                                                                *)

\* Lock first takes w.
Lock(g) ==
    /\ pc[g] = "idle" /\ Goto(g, "wLock")
    /\ UNCHANGED <<w, writerSem, readerSem, readerCount, readerWait, num>>

LockW(g) ==
    /\ pc[g] = "wLock" /\ w = None
    /\ w' = g
    /\ Goto(g, "announce")
    /\ UNCHANGED <<writerSem, readerSem, readerCount, readerWait, num>>

\* fetch_sub on reader_count: the old value is the number of active readers.
Announce(g) ==
    /\ pc[g] = "announce"
    /\ readerCount' = readerCount - MaxReaders
    /\ Keep(g, readerCount)
    /\ Goto(g, IF readerCount # 0 THEN "drain" ELSE "writing")
    /\ UNCHANGED <<w, writerSem, readerSem, readerWait>>

\* Readers may have left already: reader_wait may be negative by now.
MustWait(n) == n # 0
Drain(g) ==
    /\ pc[g] = "drain"
    /\ readerWait' = readerWait + num[g]
    /\ Goto(g, IF MustWait(readerWait + num[g]) THEN "wAcquire" ELSE "writing")
    /\ Keep(g, 0)
    /\ UNCHANGED <<w, writerSem, readerSem, readerCount>>

WAcquire(g) ==
    /\ pc[g] = "wAcquire"
    /\ IF HasCredit(writerSem) THEN writerSem' = Consumed(writerSem) /\ Goto(g, "writing")
                               ELSE writerSem' = Joined(writerSem, g) /\ Goto(g, "wParked")
    /\ UNCHANGED <<w, readerSem, readerCount, readerWait, num>>

\* TryLock: TryLockManual on w, then swap 0 for -MaxReaders or give w back.
TryLock(g) ==
    /\ pc[g] = "idle" /\ w = None
    /\ w' = g
    /\ Goto(g, "tryW")
    /\ UNCHANGED <<writerSem, readerSem, readerCount, readerWait, num>>

TrySwap(g) ==
    /\ pc[g] = "tryW"
    /\ IF readerCount = 0 THEN readerCount' = -MaxReaders /\ Goto(g, "writing")
                          ELSE UNCHANGED readerCount /\ Goto(g, "unlockW")
    /\ UNCHANGED <<w, writerSem, readerSem, readerWait, num>>

\* Unlock: readers that queued behind the writer are released, then w.
ToRelease_OneLess(n) == n - 1
ToRelease(n) == n
Unlock(g) == LET r == readerCount + MaxReaders IN
    /\ pc[g] = "writing"
    /\ readerCount' = r
    /\ Keep(g, IF r > 0 THEN ToRelease(r) ELSE 0)
    /\ Goto(g, IF r >= MaxReaders THEN "fatal"
               ELSE IF r > 0 /\ ToRelease(r) > 0 THEN "rRelease" ELSE "unlockW")
    /\ UNCHANGED <<w, writerSem, readerSem, readerWait>>

\* One critical section of reader_sem.release_n.
RRelease(g) ==
    /\ pc[g] = "rRelease"
    /\ IF Wakes(readerSem)
       THEN /\ readerSem' = Released(readerSem)
            /\ Keep(g, num[g] - 1)
            /\ pc' = [pc EXCEPT ![Wakee(readerSem)] = "reading",
                                ![g] = IF num[g] = 1 THEN "unlockW" ELSE "rRelease"]
       ELSE /\ readerSem' = Credited(readerSem, num[g])
            /\ Keep(g, 0)
            /\ Goto(g, "unlockW")
    /\ UNCHANGED <<w, writerSem, readerCount, readerWait>>

UnlockW(g) ==
    /\ pc[g] = "unlockW"
    /\ w' = None
    /\ Goto(g, "idle")
    /\ UNCHANGED <<writerSem, readerSem, readerCount, readerWait, num>>

-----------------------------------------------------------------------------
Step(g) == \/ RAcquire(g) \/ TryRLoad(g) \/ TryRSwap(g) \/ RUnlock(g) \/ RUnlockSlow(g)
           \/ WSignal(g) \/ Announce(g) \/ Drain(g) \/ WAcquire(g) \/ TrySwap(g)
           \/ Unlock(g) \/ RRelease(g) \/ UnlockW(g)

Next == \E g \in G : RLock(g) \/ TryRLock(g) \/ Lock(g) \/ LockW(g) \/ TryLock(g) \/ Step(g)

\* Calls run on and critical sections end; w is granted in the end (RegisteredGetsLock
\* of Mutex), although it is not continuously free.
Fairness == \A g \in G : WF_vars(Step(g)) /\ SF_vars(LockW(g))
Spec == Init /\ [][Next]_vars /\ Fairness

-----------------------------------------------------------------------------
(* Properties.                                                             *)

PC == {"idle", "rAcquire", "rParked", "reading", "tryRLoad", "tryRSwap", "rUnlockSlow", "wSignal", "wLock",
       "announce", "drain", "wAcquire", "wParked", "writing", "tryW", "rRelease", "unlockW",
       "fatal"}

\* Every variable has its type; a semaphore holds at most one credit for the one
\* writer, and one per reader.
TypeOK ==
    /\ w \in G \cup {None}
    /\ writerSem \in [credit : {0, 1}, q : Seq(G)]
    /\ readerSem \in [credit : 0..Cardinality(G), q : Seq(G)]
    /\ readerCount \in Int /\ readerWait \in Int
    /\ pc \in [G -> PC]
    /\ num \in [G -> Int]

\* A writer is alone: no reader is between RLock and RUnlock while a writer is
\* between Lock and Unlock, and no owner's unlock finds the lock unlocked.
At(S) == {g \in G : pc[g] \in S}
Exclusion ==
    /\ \A g \in At({"writing"}) : At({"writing", "reading"}) = {g}
    /\ At({"fatal"}) = {}

\* What the two counters mean.  A waiting writer is owed exactly one signal as long
\* as readers it waits for remain; a parked reader is behind a writer that will
\* release it.  Otherwise somebody sleeps on a lock nobody holds.
Announced == At({"drain", "wAcquire", "wParked", "writing"})
NoLostSignal ==
    /\ readerCount + MaxReaders * Cardinality(Announced) =
          Cardinality(At({"reading", "rAcquire", "rParked"}))
    /\ At({"wAcquire", "wParked"}) # {} =>
          \/ readerWait > 0 /\ At({"reading", "rUnlockSlow", "rAcquire"}) # {}
          \/ At({"wSignal"}) # {} \/ writerSem.credit = 1
    /\ At({"rParked"}) # {} => At({"drain", "wAcquire", "wParked", "writing", "rRelease"}) # {}

\* Nobody starves.  "New readers wait for a pending writer": a writer that has announced
\* itself gets the lock although readers keep coming, and a reader that found a writer
\* pending gets in although writers keep coming.
AnnouncedGetsIn == \A g \in G :
    /\ pc[g] = "announce" ~> pc[g] = "writing"
    /\ pc[g] = "rAcquire" ~> pc[g] = "reading"
=============================================================================
