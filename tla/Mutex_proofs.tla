---------------------------- MODULE Mutex_proofs ----------------------------
(***************************************************************************)
(* Proofs about Mutex, for any finite set of goroutines.  The inductive    *)
(* invariant is the ownership token (OneOwner) together with the exact     *)
(* waiter count; mutual exclusion alone is not inductive, because a        *)
(* hand-off passes through states in which nobody is in the critical       *)
(* section and the mutex is nevertheless taken.                            *)
(***************************************************************************)
EXTENDS Mutex, FiniteSetTheorems, TLAPS

\* What the loaded words promise: a free mutex has no waiters registered, and a
\* goroutine about to grab saw it free, one about to register saw it taken.
Settled ==
    /\ ~st.locked => st.waiters = 0
    /\ \A g \in G : pc[g] = "grab" => ~old[g].locked
    /\ \A g \in G : pc[g] = "register" => old[g].locked

Inv == TypeOK /\ MutualExclusion /\ OneOwner /\ Counted /\ Queued /\ Settled

\* The sets that are counted are finite.
LEMMA FiniteSets ==
  /\ IsFiniteSet(Waiting) /\ Cardinality(Waiting) \in Nat
  /\ IsFiniteSet(Releasing) /\ Cardinality(Releasing) \in Nat
<1>1. Waiting \in SUBSET G /\ Releasing \in SUBSET G  BY DEF Waiting, Releasing
<1> QED  BY <1>1, MutexAssumption, FS_Subset, FS_CardinalityType

\* The words the code swaps in are words.
LEMMA Words == Free \in Word /\ Held \in Word
  BY DEF Free, Held, Word

\* The invariant holds initially.
LEMMA InitInv == Init => Inv
<1> SUFFICES ASSUME Init PROVE Inv  OBVIOUS
<1> USE DEF Init, Free, NewSema
<1>1. TypeOK  BY DEF TypeOK, Word, PC
<1>2. MutualExclusion  BY DEF MutualExclusion, Owning
<1>3. OneOwner  BY DEF OneOwner, Holders
<1>4. Counted
  <2>1. Waiting = {} /\ Releasing = {}  BY DEF Waiting, Releasing
  <2>2. st.waiters = 0 /\ sema.credit = 0  OBVIOUS
  <2> QED  BY <2>1, <2>2, FS_EmptySet DEF Counted
<1>5. Queued  BY DEF Queued
<1>6. Settled  BY DEF Settled
<1> QED  BY <1>1, <1>2, <1>3, <1>4, <1>5, <1>6 DEF Inv

\* A free mutex has no owner, no credit and nobody waiting.
LEMMA FreeMeansAlone ==
  ASSUME Inv, ~st.locked
  PROVE  Holders = {} /\ sema.credit = 0 /\ Waiting = {}
<1>1. Holders = {} /\ sema.credit = 0  BY DEF Inv, OneOwner, TypeOK
<1>2. Releasing = {}  BY <1>1 DEF Holders, Releasing
<1>3. Cardinality(Waiting) = 0
  BY <1>1, <1>2, FS_EmptySet, FiniteSets DEF Inv, Counted, Settled
<1> QED  BY <1>1, <1>3, FS_EmptySet, FiniteSets

\* Every step preserves the types.
LEMMA StepType == Inv /\ [Next]_vars => TypeOK'
<1> SUFFICES ASSUME Inv, [Next]_vars PROVE TypeOK'  OBVIOUS
<1> USE DEF Inv, TypeOK, Goto, PC
<1>1. ASSUME NEW g \in G, Lock(g) \/ TryLock(g) PROVE TypeOK'
  BY <1>1, Words DEF Lock, TryLock
<1>2. ASSUME NEW g \in G, LockLoad(g) PROVE TypeOK'  BY <1>2 DEF LockLoad
<1>3. ASSUME NEW g \in G, Grab(g) PROVE TypeOK'
  <2>1. old[g] \in Word  OBVIOUS
  <2>2. st' \in Word
    <3>1. [old[g] EXCEPT !.locked = TRUE] \in Word  BY <2>1 DEF Word
    <3> QED  BY <1>3, <3>1 DEF Grab, Take, CAS
  <2> QED  BY <1>3, <2>2 DEF Grab
<1>4. ASSUME NEW g \in G, Register(g) PROVE TypeOK'
  <2>1. old[g] \in Word  OBVIOUS
  <2>2. st' \in Word
    <3>1. [old[g] EXCEPT !.waiters = @ + 1] \in Word  BY ONLY <2>1 DEF Word
    <3> QED  BY <1>4, <3>1 DEF Register, CAS
  <2> QED  BY <1>4, <2>2 DEF Register
<1>5. ASSUME NEW g \in G, Acquire(g) PROVE TypeOK'
  BY <1>5 DEF Acquire, HasCredit, Consumed, Joined
<1>6. ASSUME NEW g \in G, Resume(g) PROVE TypeOK'  BY <1>6 DEF Resume
<1>7. ASSUME NEW g \in G, Unlock(g) PROVE TypeOK'  BY <1>7, Words DEF Unlock
<1>8. ASSUME NEW g \in G, UnlockLoad(g) PROVE TypeOK'  BY <1>8 DEF UnlockLoad
<1>9. ASSUME NEW g \in G, UnlockSwap(g) PROVE TypeOK'
  <2>1. old[g] \in Word  OBVIOUS
  <2>2. st' \in Word
    <3>1. old[g].waiters # 0 => HandOff(old[g]) \in Word  BY <2>1 DEF Word, HandOff
    <3> QED  BY <1>9, <3>1, Words DEF UnlockSwap
  <2> QED  BY <1>9, <2>2 DEF UnlockSwap
<1>10. ASSUME NEW g \in G, Release(g) PROVE TypeOK'
  <2>1. g \in Holders  BY <1>10 DEF Release, Holders
  <2>2. sema.credit = 0  BY <2>1 DEF OneOwner
  <2>3. CASE Wakes(sema)
    <3>1. Head(sema.q) \in G /\ Tail(sema.q) \in Seq(G)  BY <2>3 DEF Wakes
    <3> QED  BY <1>10, <2>3, <3>1 DEF Release, Released, Wakee
  <2>4. CASE ~Wakes(sema)  BY <1>10, <2>2, <2>4 DEF Release, Released
  <2> QED  BY <2>3, <2>4
<1>11. CASE UNCHANGED vars  BY <1>11 DEF vars
<1> QED  BY <1>1, <1>2, <1>3, <1>4, <1>5, <1>6, <1>7, <1>8, <1>9, <1>10, <1>11
         DEF Next, LockStep, UnlockStep

\* What a goroutine about to grab saw, and that a free word counts no waiters.
LEMMA StepSettled == Inv /\ [Next]_vars => Settled'
<1> SUFFICES ASSUME Inv, [Next]_vars PROVE Settled'  OBVIOUS
<1> USE DEF Inv, TypeOK, Settled, Goto
<1>1. ASSUME NEW g \in G, Lock(g) \/ TryLock(g) PROVE Settled'
  BY <1>1 DEF Lock, TryLock, Held
<1>2. ASSUME NEW g \in G, LockLoad(g) PROVE Settled'  BY <1>2 DEF LockLoad
<1>3. ASSUME NEW g \in G, Grab(g) PROVE Settled'
  BY <1>3 DEF Grab, Take, CAS, Word
<1>4. ASSUME NEW g \in G, Register(g) PROVE Settled'
  BY <1>4 DEF Register, CAS, Word
<1>5. ASSUME NEW g \in G, Acquire(g) \/ Resume(g) PROVE Settled'  BY <1>5 DEF Acquire, Resume
<1>6. ASSUME NEW g \in G, Unlock(g) \/ UnlockLoad(g) PROVE Settled'
  BY <1>6 DEF Unlock, UnlockLoad, Free
<1>7. ASSUME NEW g \in G, UnlockSwap(g) PROVE Settled'
  <2>1. CASE st # old[g] \/ old[g].waiters = 0
    BY <1>7, <2>1 DEF UnlockSwap, Free
  <2>2. CASE st = old[g] /\ old[g].waiters # 0
    <3>1. g \in Holders  BY <1>7 DEF UnlockSwap, Holders
    <3>2. st.locked  BY <3>1 DEF OneOwner
    <3>3. st'.locked  BY <1>7, <2>2, <3>2 DEF UnlockSwap, HandOff, Word
    <3> QED  BY <1>7, <2>2, <3>3 DEF UnlockSwap
  <2> QED  BY <2>1, <2>2
<1>8. ASSUME NEW g \in G, Release(g) PROVE Settled'
  BY <1>8 DEF Release, Wakes, Wakee
<1>9. CASE UNCHANGED vars  BY <1>9 DEF vars
<1> QED  BY <1>1, <1>2, <1>3, <1>4, <1>5, <1>6, <1>7, <1>8, <1>9
         DEF Next, LockStep, UnlockStep

\* The ownership token is neither copied nor lost.
LEMMA StepOwner == Inv /\ [Next]_vars => OneOwner'
<1> SUFFICES ASSUME Inv, [Next]_vars PROVE OneOwner'  OBVIOUS
<1> USE DEF Inv, TypeOK, OneOwner, Holders, Goto
<1>1. ASSUME NEW g \in G, Lock(g) \/ TryLock(g) PROVE OneOwner'
  BY <1>1 DEF Lock, TryLock, Free, Held
<1>2. ASSUME NEW g \in G, LockLoad(g) PROVE OneOwner'  BY <1>2 DEF LockLoad
<1>3. ASSUME NEW g \in G, Grab(g) PROVE OneOwner'
  <2>1. CASE Take(g) /\ Goto(g, "cs")
    <3>1. pc[g] = "grab" /\ st = old[g]  BY <1>3, <2>1 DEF Grab, Take, CAS
    <3>2. ~old[g].locked  BY <3>1 DEF Settled
    <3>3. old[g] \in Word  OBVIOUS
    <3>4. st'.locked = TRUE  BY <2>1, <3>3 DEF Take, CAS, Word
    <3> QED  BY <1>3, <2>1, <3>1, <3>2, <3>4 DEF Grab
  <2>2. CASE UNCHANGED st /\ Goto(g, "slow")
    <3>1. Holders' = Holders  BY <1>3, <2>2 DEF Grab
    <3> QED  BY <1>3, <2>2, <3>1 DEF Grab
  <2> QED  BY <1>3, <2>1, <2>2 DEF Grab
<1>4. ASSUME NEW g \in G, Register(g) PROVE OneOwner'
  <2>1. Holders' = Holders /\ st'.locked = st.locked  BY <1>4 DEF Register, CAS, Word
  <2> QED  BY <1>4, <2>1 DEF Register
<1>5. ASSUME NEW g \in G, Acquire(g) PROVE OneOwner'
  BY <1>5 DEF Acquire, HasCredit, Consumed, Joined
<1>6. ASSUME NEW g \in G, Resume(g) PROVE OneOwner'
  <2>1. Holders' = Holders  BY <1>6 DEF Resume
  <2> QED  BY <1>6, <2>1 DEF Resume
<1>7. ASSUME NEW g \in G, Unlock(g) PROVE OneOwner'
  <2>1. CASE st = Held  BY <1>7, <2>1 DEF Unlock, Free, Held
  <2>2. CASE st # Held
    <3>1. Holders' = Holders  BY <1>7, <2>2 DEF Unlock
    <3> QED  BY <1>7, <2>2, <3>1 DEF Unlock
  <2> QED  BY <2>1, <2>2
<1>8. ASSUME NEW g \in G, UnlockLoad(g) PROVE OneOwner'  BY <1>8 DEF UnlockLoad
<1>9. ASSUME NEW g \in G, UnlockSwap(g) PROVE OneOwner'
  BY <1>9 DEF UnlockSwap, Free, HandOff, Word
<1>10. ASSUME NEW g \in G, Release(g) PROVE OneOwner'
  BY <1>10 DEF Release, Released, Wakes, Wakee, Queued
<1>11. CASE UNCHANGED vars  BY <1>11 DEF vars
<1> QED  BY <1>1, <1>2, <1>3, <1>4, <1>5, <1>6, <1>7, <1>8, <1>9, <1>10, <1>11
         DEF Next, LockStep, UnlockStep

\* Mutual exclusion is a consequence of the single token.
LEMMA StepExclusion == Inv /\ [Next]_vars => MutualExclusion'
<1> SUFFICES ASSUME Inv, [Next]_vars PROVE MutualExclusion'  OBVIOUS
<1>1. \A g, h \in G : pc'[g] \in Owning /\ pc'[h] \in Owning => g = h
  BY StepOwner DEF OneOwner, Holders, Owning
<1>2. \A g \in G : pc'[g] # "fatal"
  <2> SUFFICES ASSUME NEW h \in G PROVE pc'[h] # "fatal"  OBVIOUS
  <2> USE DEF Inv, TypeOK, MutualExclusion, Goto
  <2>1. ASSUME NEW g \in G, UnlockLoad(g) PROVE pc'[h] # "fatal"
    <3>1. st.locked  BY <2>1 DEF UnlockLoad, OneOwner, Holders
    <3> QED  BY <2>1, <3>1 DEF UnlockLoad
  <2>2. ASSUME NEW g \in G, Lock(g) \/ TryLock(g) \/ LockLoad(g) \/ Grab(g) \/ Register(g)
                            \/ Acquire(g) \/ Resume(g)
        PROVE  pc'[h] # "fatal"
    BY <2>2 DEF Lock, TryLock, LockLoad, Grab, Register, Acquire, Resume
  <2>3. ASSUME NEW g \in G, Unlock(g) \/ UnlockSwap(g) \/ Release(g)
        PROVE  pc'[h] # "fatal"
    BY <2>3 DEF Unlock, UnlockSwap, Release
  <2>4. CASE UNCHANGED vars  BY <2>4 DEF vars
  <2> QED  BY <2>1, <2>2, <2>3, <2>4 DEF Next, LockStep, UnlockStep
<1> QED  BY <1>1, <1>2 DEF MutualExclusion

\* The queue and the parked goroutines stay in step.
LEMMA StepQueued == Inv /\ [Next]_vars => Queued'
<1> SUFFICES ASSUME Inv, [Next]_vars PROVE Queued'  OBVIOUS
<1> USE DEF Inv, TypeOK, Queued, Goto
<1>1. ASSUME NEW g \in G, pc[g] # "parked", sema' = sema,
             NEW l \in PC \ {"parked"}, Goto(g, l)
      PROVE  Queued'
  BY <1>1
<1>2. ASSUME NEW g \in G, Acquire(g) PROVE Queued'
  <2>1. CASE HasCredit(sema)
    <3>1. sema'.q = sema.q  BY <1>2, <2>1 DEF Acquire, Consumed
    <3> QED  BY <1>2, <2>1, <3>1 DEF Acquire
  <2>2. CASE ~HasCredit(sema)
    <3>1. sema'.q = Append(sema.q, g) /\ pc' = [pc EXCEPT ![g] = "parked"] /\ pc[g] = "acquire"
      BY <1>2, <2>2 DEF Acquire, Joined
    <3>2. \A k \in DOMAIN sema.q : sema.q[k] # g  BY <3>1
    <3> DEFINE n == Len(sema.q)
    <3>3. /\ n \in Nat /\ DOMAIN sema.q = 1..n /\ DOMAIN sema'.q = 1..(n+1)
          /\ \A k \in 1..n : sema'.q[k] = sema.q[k]
          /\ sema'.q[n+1] = g
      BY <3>1
    <3>4. ASSUME NEW k \in 1..(n+1) PROVE pc'[sema'.q[k]] = "parked"
      BY <3>1, <3>3
    <3>5. ASSUME NEW h \in G, pc'[h] = "parked" PROVE \E k \in 1..(n+1) : sema'.q[k] = h
      BY <3>1, <3>3, <3>5
    <3>6. ASSUME NEW i \in 1..(n+1), NEW j \in 1..(n+1), sema'.q[i] = sema'.q[j] PROVE i = j
      <4>1. CASE i = n+1 \/ j = n+1  BY <3>2, <3>3, <3>6, <4>1
      <4>2. CASE i \in 1..n /\ j \in 1..n  BY <3>3, <3>6, <4>2
      <4> QED  BY <3>3, <4>1, <4>2
    <3> QED  BY <3>3, <3>4, <3>5, <3>6
  <2> QED  BY <2>1, <2>2
<1>3. ASSUME NEW g \in G, Release(g) PROVE Queued'
  <2>1. CASE Wakes(sema)
    <3>1. sema'.q = Tail(sema.q) /\ pc' = [pc EXCEPT ![g] = "idle", ![Head(sema.q)] = "woken"]
          /\ pc[g] = "release" /\ sema.q # << >>
      BY <1>3, <2>1 DEF Release, Released, Wakes, Wakee
    <3> DEFINE n == Len(sema.q)
    <3>2. /\ n \in Nat \ {0} /\ DOMAIN sema.q = 1..n /\ DOMAIN sema'.q = 1..(n-1)
          /\ \A k \in 1..(n-1) : sema'.q[k] = sema.q[k+1]
          /\ Head(sema.q) = sema.q[1]
      BY <3>1
    <3>3. ASSUME NEW k \in 1..(n-1) PROVE pc'[sema'.q[k]] = "parked"
      BY <3>1, <3>2
    <3>4. ASSUME NEW h \in G, pc'[h] = "parked" PROVE \E k \in 1..(n-1) : sema'.q[k] = h
      <4>1. pc[h] = "parked" /\ h # sema.q[1]  BY <3>1, <3>2, <3>4
      <4>2. PICK k \in 1..n : sema.q[k] = h  BY <4>1, <3>2
      <4>3. k # 1  BY <4>1, <4>2
      <4>4. k-1 \in 1..(n-1) /\ (k-1)+1 = k  BY <4>3, <3>2
      <4>5. sema'.q[k-1] = h  BY <4>2, <4>4, <3>2
      <4> QED  BY <4>4, <4>5
    <3>5. ASSUME NEW i \in 1..(n-1), NEW j \in 1..(n-1), sema'.q[i] = sema'.q[j] PROVE i = j
      BY <3>2, <3>5
    <3> QED  BY <3>2, <3>3, <3>4, <3>5
  <2>2. CASE ~Wakes(sema)
    <3>1. sema'.q = sema.q  BY <1>3, <2>2 DEF Release, Released
    <3> QED  BY <1>3, <2>2, <3>1 DEF Release
  <2> QED  BY <2>1, <2>2
<1>4. CASE UNCHANGED vars  BY <1>4 DEF vars
<1>5. ASSUME NEW g \in G, Lock(g) \/ TryLock(g) \/ LockLoad(g) \/ Grab(g) \/ Register(g) \/ Resume(g)
      PROVE  Queued'
  BY <1>1, <1>5 DEF Lock, TryLock, LockLoad, Grab, Register, Resume, PC
<1>6. ASSUME NEW g \in G, Unlock(g) \/ UnlockLoad(g) \/ UnlockSwap(g) PROVE Queued'
  BY <1>1, <1>6 DEF Unlock, UnlockLoad, UnlockSwap, PC
<1> QED  BY <1>2, <1>3, <1>4, <1>5, <1>6 DEF Next, LockStep, UnlockStep

\* The waiter count stays exact.
LEMMA StepCounted == Inv /\ [Next]_vars => Counted'
<1> SUFFICES ASSUME Inv, [Next]_vars PROVE Counted'  OBVIOUS
<1> USE DEF Inv, TypeOK
<1>1. ASSUME NEW g \in G, NEW l \in PC \ {"acquire", "parked", "release"}, Goto(g, l),
             pc[g] \notin {"acquire", "parked", "release"},
             st'.waiters = st.waiters, sema' = sema
      PROVE  Counted'
  <2>1. Waiting' = Waiting /\ Releasing' = Releasing
    BY <1>1 DEF Goto, Waiting, Releasing
  <2> QED  BY <1>1, <2>1 DEF Counted
<1>2. ASSUME NEW g \in G, Lock(g) \/ TryLock(g) PROVE Counted'
  <2>1. st'.waiters = st.waiters  BY <1>2 DEF Lock, TryLock, Free, Held
  <2> QED  BY <1>1, <1>2, <2>1 DEF Lock, TryLock, PC
<1>3. ASSUME NEW g \in G, Grab(g) PROVE Counted'
  <2>1. st'.waiters = st.waiters  BY <1>3 DEF Grab, Take, CAS, Word
  <2> QED  BY <1>1, <1>3, <2>1 DEF Grab, PC
<1>4. ASSUME NEW g \in G, LockLoad(g) \/ Resume(g) \/ UnlockLoad(g) PROVE Counted'
  BY <1>1, <1>4 DEF LockLoad, Resume, UnlockLoad, PC
<1>5. ASSUME NEW g \in G, Unlock(g) PROVE Counted'
  <2>1. st'.waiters = st.waiters  BY <1>5 DEF Unlock, Free, Held
  <2> QED  BY <1>1, <1>5, <2>1 DEF Unlock, PC
<1>6. ASSUME NEW g \in G, Register(g) PROVE Counted'
  <2>1. CASE st = old[g] /\ Goto(g, "acquire") /\ st' = [old[g] EXCEPT !.waiters = @ + 1]
    <3>1. st'.waiters = st.waiters + 1 /\ sema' = sema  BY <1>6, <2>1 DEF Register, Word
    <3>2. Waiting' = Waiting \cup {g} /\ Releasing' = Releasing /\ g \notin Waiting
      BY <1>6, <2>1 DEF Register, Goto, Waiting, Releasing
    <3>3. Cardinality(Waiting') = Cardinality(Waiting) + 1  BY <3>2, FS_AddElement, FiniteSets
    <3> QED  BY <3>1, <3>2, <3>3, FiniteSets DEF Counted, Word
  <2>2. CASE UNCHANGED st /\ Goto(g, "slow")
    BY <1>1, <1>6, <2>2 DEF Register, PC
  <2> QED  BY <1>6, <2>1, <2>2 DEF Register, CAS
<1>7. ASSUME NEW g \in G, Acquire(g) PROVE Counted'
  <2>1. CASE HasCredit(sema)
    <3>1. sema'.credit = sema.credit - 1  BY <1>7, <2>1 DEF Acquire, Consumed
    <3>2. Waiting' = Waiting \ {g} /\ Releasing' = Releasing /\ g \in Waiting
      BY <1>7, <2>1 DEF Acquire, Goto, Waiting, Releasing
    <3>3. Cardinality(Waiting') = Cardinality(Waiting) - 1  BY <3>2, FS_RemoveElement, FiniteSets
    <3> QED  BY <1>7, <3>1, <3>2, <3>3, FiniteSets DEF Acquire, Counted, Word
  <2>2. CASE ~HasCredit(sema)
    <3>1. sema'.credit = sema.credit  BY <1>7, <2>2 DEF Acquire, Joined
    <3>2. Waiting' = Waiting /\ Releasing' = Releasing
      BY <1>7, <2>2 DEF Acquire, Goto, Waiting, Releasing
    <3> QED  BY <1>7, <3>1, <3>2 DEF Acquire, Counted
  <2> QED  BY <2>1, <2>2
<1>8. ASSUME NEW g \in G, UnlockSwap(g) PROVE Counted'
  <2>1. CASE st = old[g] /\ old[g].waiters # 0
    <3>1. st'.waiters = st.waiters - 1 /\ sema' = sema
      BY <1>8, <2>1 DEF UnlockSwap, HandOff, Word
    <3>2. Waiting' = Waiting /\ Releasing' = Releasing \cup {g} /\ g \notin Releasing
      BY <1>8, <2>1 DEF UnlockSwap, Goto, Waiting, Releasing
    <3>3. Cardinality(Releasing') = Cardinality(Releasing) + 1  BY <3>2, FS_AddElement, FiniteSets
    <3> QED  BY <3>1, <3>2, <3>3, FiniteSets DEF Counted, Word
  <2>2. CASE st # old[g] \/ old[g].waiters = 0
    <3>1. st'.waiters = st.waiters  BY <1>8, <2>2 DEF UnlockSwap, Free
    <3> QED  BY <1>1, <1>8, <2>2, <3>1 DEF UnlockSwap, PC
  <2> QED  BY <2>1, <2>2
<1>9. ASSUME NEW g \in G, Release(g) PROVE Counted'
  <2>1. g \in Releasing  BY <1>9 DEF Release, Releasing
  <2>2. CASE Wakes(sema)
    <3> DEFINE w == Head(sema.q)
    <3>1. w \in G /\ pc[w] = "parked"  BY <2>2 DEF Wakes, Queued
    <3>2. sema'.credit = sema.credit /\ st' = st /\ pc' = [pc EXCEPT ![g] = "idle", ![w] = "woken"]
      BY <1>9, <2>2 DEF Release, Released, Wakee
    <3>3. Waiting' = Waiting \ {w} /\ w \in Waiting /\ Releasing' = Releasing \ {g}
      BY <2>1, <3>1, <3>2 DEF Waiting, Releasing
    <3>4. /\ Cardinality(Waiting') = Cardinality(Waiting) - 1
          /\ Cardinality(Releasing') = Cardinality(Releasing) - 1
      BY <2>1, <3>3, FS_RemoveElement, FiniteSets
    <3> QED  BY <3>2, <3>4, FiniteSets DEF Counted, Word
  <2>3. CASE ~Wakes(sema)
    <3>1. sema'.credit = sema.credit + 1 /\ st' = st /\ pc' = [pc EXCEPT ![g] = "idle"]
      BY <1>9, <2>3 DEF Release, Released
    <3>2. Waiting' = Waiting /\ Releasing' = Releasing \ {g}
      BY <2>1, <3>1 DEF Waiting, Releasing
    <3>3. Cardinality(Releasing') = Cardinality(Releasing) - 1
      BY <2>1, <3>2, FS_RemoveElement, FiniteSets
    <3> QED  BY <3>1, <3>2, <3>3, FiniteSets DEF Counted, Word
  <2> QED  BY <2>2, <2>3
<1>10. CASE UNCHANGED vars  BY <1>10 DEF vars, Counted, Waiting, Releasing
<1> QED  BY <1>2, <1>3, <1>4, <1>5, <1>6, <1>7, <1>8, <1>9, <1>10
         DEF Next, LockStep, UnlockStep

\* The invariant is inductive.
LEMMA StepInv == Inv /\ [Next]_vars => Inv'
BY StepType, StepExclusion, StepOwner, StepCounted, StepQueued, StepSettled DEF Inv

\* The invariant holds in every state of every behaviour.
THEOREM AlwaysInv == Spec => []Inv
BY InitInv, StepInv, PTL DEF Spec

\* Every state has its types, and the semaphore at most one credit.
THEOREM Types == Spec => []TypeOK
<1>1. Inv => TypeOK  BY DEF Inv
<1> QED  BY AlwaysInv, <1>1, PTL

\* sync.Mutex excludes: at most one goroutine is between the return of Lock and
\* the end of Unlock, whatever the number of goroutines and their interleaving.
THEOREM Exclusion == Spec => []MutualExclusion
<1>1. Inv => MutualExclusion  BY DEF Inv
<1> QED  BY AlwaysInv, <1>1, PTL

\* The ownership token is never in two places and never lost.
THEOREM Ownership == Spec => []OneOwner
<1>1. Inv => OneOwner  BY DEF Inv
<1> QED  BY AlwaysInv, <1>1, PTL

\* No waiter is miscounted, and nobody waits on a free mutex.
THEOREM Waiters == Spec => []WaitersExact
<1>1. Inv => WaitersExact
  BY FreeMeansAlone DEF Inv, WaitersExact
<1> QED  BY AlwaysInv, <1>1, PTL
=============================================================================
