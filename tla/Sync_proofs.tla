---------------------------- MODULE Sync_proofs -----------------------------
(***************************************************************************)
(* Theorems about Once, WaitGroup and Cond, for any sets of goroutines, any *)
(* width of the counter that the tasks fit into and any width of a ticket. *)
(*                                                                         *)
(* That f runs once rests on the mutex, which an abandoned body keeps for  *)
(* ever; that Do returns after f rests on the order in which do_slow runs  *)
(* f and sets done.                                                        *)
(*                                                                         *)
(* That a Wait of the group returns only when all tasks are done, and that *)
(* no waiter is lost, rests on an account: who is registered is owed one   *)
(* credit, by the word, the semaphore or the one release in flight, and    *)
(* while anything is owed outside the word the group is idle.              *)
(*                                                                         *)
(* That a notification of Cond is not lost rests on ages: the age of a     *)
(* ticket is its distance behind wait, which does not wrap although the    *)
(* tickets do, and the tickets not yet notified are those whose age is at  *)
(* most the distance of notify behind wait.                                *)
(***************************************************************************)
EXTENDS Once, WaitGroup, Cond, FiniteSetTheorems, SequenceTheorems, TLAPS

-----------------------------------------------------------------------------
(* Once.                                                                   *)

\* The mutex is held from the lock to the unlock, and by an abandoned body.
Inside == {"check", "f", "store", "unlock", "dead"}
HeldInside == \A g \in Doers : at[g] \in Inside <=> m = g

\* done is set after f has returned, and f has been entered only by one who is
\* still inside, or by one who has set done.
DoneAfterF == /\ done => finished
              /\ \A g \in Doers : at[g] \in {"store", "unlock", "return"} => finished
EnteredOnce == /\ runs = 1 => done \/ \E g \in Doers : at[g] \in {"f", "store", "dead"}
               /\ (\E g \in Doers : at[g] \in {"f", "store"}) => ~done /\ runs = 1

OnceInv == OnceTypeOK /\ HeldInside /\ DoneAfterF /\ EnteredOnce

\* The invariant holds initially.
LEMMA OnceInitInv == OnceInit => OnceInv
<1> SUFFICES ASSUME OnceInit  PROVE OnceInv
  OBVIOUS
<1>1. OnceTypeOK
  <2>1. done \in BOOLEAN /\ finished \in BOOLEAN  BY Zenon DEF OnceInit
  <2>2. m \in Doers \cup {NoOwner} /\ runs \in 0..1  BY DEF OnceInit
  <2>3. at \in [Doers -> {"idle", "load", "lock", "check", "f", "store", "unlock", "return", "dead"}]
    BY DEF OnceInit
  <2> QED  BY <2>1, <2>2, <2>3, Zenon DEF OnceTypeOK
<1>2. HeldInside  BY OnceAssumption DEF OnceInit, HeldInside, Inside
<1>3. DoneAfterF  BY DEF OnceInit, DoneAfterF
<1>4. EnteredOnce  BY DEF OnceInit, EnteredOnce
<1> QED  BY <1>1, <1>2, <1>3, <1>4 DEF OnceInv

\* It is inductive: one step per action, under it one per conjunct.
LEMMA OnceStepInv == OnceInv /\ [OnceNext]_onceVars => OnceInv'
<1> SUFFICES ASSUME OnceInv, [OnceNext]_onceVars  PROVE OnceInv'
  OBVIOUS
<1> USE OnceAssumption DEF OnceInv, OnceTypeOK, Moves
<1>1. ASSUME NEW g \in Doers, Do(g) \/ Load(g) \/ Return(g)  PROVE OnceInv'
  <2>1. OnceTypeOK'  BY <1>1 DEF Do, Load, FastDone, Return
  <2>2. HeldInside'  BY <1>1 DEF Do, Load, FastDone, Return, HeldInside, Inside
  <2>3. DoneAfterF'  BY <1>1 DEF Do, Load, FastDone, Return, DoneAfterF
  <2>4. EnteredOnce'  BY <1>1 DEF Do, Load, FastDone, Return, EnteredOnce, HeldInside, Inside
  <2> QED  BY <2>1, <2>2, <2>3, <2>4
<1>2. ASSUME NEW g \in Doers, DoSlow(g)  PROVE OnceInv'
  <2>1. OnceTypeOK'  BY <1>2 DEF DoSlow
  <2>2. HeldInside'  BY <1>2 DEF DoSlow, HeldInside, Inside
  <2>3. DoneAfterF'  BY <1>2 DEF DoSlow, DoneAfterF
  <2>4. EnteredOnce'  BY <1>2 DEF DoSlow, EnteredOnce, HeldInside, Inside
  <2> QED  BY <2>1, <2>2, <2>3, <2>4
<1>3. ASSUME NEW g \in Doers, Check(g)  PROVE OnceInv'
  <2>1. OnceTypeOK'  BY <1>3 DEF Check, Recheck, EnteredOnce, HeldInside, Inside
  <2>2. HeldInside'  BY <1>3 DEF Check, Recheck, HeldInside, Inside
  <2>3. DoneAfterF'  BY <1>3 DEF Check, Recheck, DoneAfterF
  <2>4. EnteredOnce'  BY <1>3 DEF Check, Recheck, EnteredOnce, HeldInside, Inside
  <2> QED  BY <2>1, <2>2, <2>3, <2>4
<1>4. ASSUME NEW g \in Doers, F(g)  PROVE OnceInv'
  <2>1. OnceTypeOK'  BY <1>4 DEF F
  <2>2. HeldInside'  BY <1>4 DEF F, HeldInside, Inside
  <2>3. DoneAfterF'  BY <1>4 DEF F, DoneAfterF
  <2>4. EnteredOnce'  BY <1>4 DEF F, EnteredOnce, HeldInside, Inside
  <2> QED  BY <2>1, <2>2, <2>3, <2>4
<1>5. ASSUME NEW g \in Doers, Abandon(g)  PROVE OnceInv'
  <2>1. OnceTypeOK'  BY <1>5 DEF Abandon
  <2>2. HeldInside'  BY <1>5 DEF Abandon, HeldInside, Inside
  <2>3. DoneAfterF'  BY <1>5 DEF Abandon, DoneAfterF
  <2>4. EnteredOnce'  BY <1>5 DEF Abandon, EnteredOnce, HeldInside, Inside
  <2> QED  BY <2>1, <2>2, <2>3, <2>4
<1>6. ASSUME NEW g \in Doers, Store(g)  PROVE OnceInv'
  <2>1. OnceTypeOK'  BY <1>6 DEF Store
  <2>2. HeldInside'  BY <1>6 DEF Store, HeldInside, Inside
  <2>3. DoneAfterF'  BY <1>6 DEF Store, DoneAfterF
  <2>4. EnteredOnce'  BY <1>6 DEF Store, EnteredOnce, HeldInside, Inside
  <2> QED  BY <2>1, <2>2, <2>3, <2>4
<1>7. ASSUME NEW g \in Doers, Unlock(g)  PROVE OnceInv'
  <2>1. OnceTypeOK'  BY <1>7 DEF Unlock, Freed
  <2>2. HeldInside'  BY <1>7 DEF Unlock, Freed, HeldInside, Inside
  <2>3. DoneAfterF'  BY <1>7 DEF Unlock, Freed, DoneAfterF
  <2>4. EnteredOnce'  BY <1>7 DEF Unlock, Freed, EnteredOnce, HeldInside, Inside
  <2> QED  BY <2>1, <2>2, <2>3, <2>4
<1>8. CASE UNCHANGED onceVars
  BY <1>8 DEF onceVars, HeldInside, DoneAfterF, EnteredOnce
<1> QED  BY <1>1, <1>2, <1>3, <1>4, <1>5, <1>6, <1>7, <1>8 DEF OnceNext, DoStep

\* The invariant holds in every state.
THEOREM OnceAlwaysInv == OnceSpec => []OnceInv
BY OnceInitInv, OnceStepInv, PTL DEF OnceSpec

\* Every variable keeps its type.
THEOREM OnceTypes == OnceSpec => []OnceTypeOK
<1>1. OnceInv => OnceTypeOK  BY DEF OnceInv
<1> QED  BY OnceAlwaysInv, <1>1, PTL

\* However many goroutines call Do, and also when a body is abandoned, f is entered at
\* most once, and no call of Do returns, by the fast path or the slow one, before f has.
THEOREM ReturnedAfterF == OnceSpec => []ReturnsAfterF
<1>1. OnceInv => runs <= 1  BY DEF OnceInv, OnceTypeOK
<1>2. OnceInv => \A g \in Doers : at[g] = "return" => finished  BY DEF OnceInv, DoneAfterF
<1>3. OnceInv => ReturnsAfterF  BY <1>1, <1>2 DEF ReturnsAfterF
<1> QED  BY OnceAlwaysInv, <1>3, PTL

-----------------------------------------------------------------------------
(* WaitGroup: the inductive invariant.                                     *)

CallerLabels == {"idle", "zero", "release", "load", "register", "acquire", "parked"}
WorkerLabels == {"unborn", "task", "zero", "release"}
Word == [counter : Nat, waiters : Nat]

\* The types; only callers wait, and only workers are tasks.
Types ==
    /\ counter \in Nat /\ waiters \in Nat
    /\ sema \in [credit : Nat, q : Seq(Callers)]
    /\ pc \in [G -> CallerLabels \cup WorkerLabels]
    /\ \A g \in Callers : pc[g] \in CallerLabels
    /\ \A k \in Workers : pc[k] \in WorkerLabels
    /\ seen \in [G -> Word]
    /\ net \in Int /\ fatal \in BOOLEAN

\* The counter is the number of tasks.
Tasks == {k \in Workers : pc[k] = "task"}
Counted == counter = Cardinality(Tasks) /\ net = counter

\* What a goroutine has seen that is about to swap or to release.
Looked == \A g \in G :
    /\ pc[g] = "zero" => seen[g].counter = 0 /\ seen[g].waiters > 0
    /\ pc[g] = "register" => seen[g].counter # 0
    /\ pc[g] = "release" => seen[g].waiters > 0

\* Who is registered is owed a credit, once: by the word, the semaphore or a release.
Owed ==
    /\ \A g, h \in Releasing : g = h
    /\ \A g \in Releasing : Cardinality(Blocked) = waiters + sema.credit + seen[g].waiters
    /\ Releasing = {} => Cardinality(Blocked) = waiters + sema.credit

\* Credits are given only to those who wait for an idle group.
IdleGroup == sema.credit > 0 \/ Releasing # {} => counter = 0 /\ waiters = 0

\* Waiters of an idle group have a waker that has seen them.
Waker == counter = 0 /\ waiters > 0 =>
    \E g \in G : pc[g] = "zero" /\ seen[g].counter = 0 /\ seen[g].waiters = waiters

\* The queue of the semaphore.
Queue ==
    /\ \A g \in G : pc[g] = "parked" <=> \E i \in DOMAIN sema.q : sema.q[i] = g
    /\ \A i, j \in DOMAIN sema.q : sema.q[i] = sema.q[j] => i = j
    /\ sema.credit > 0 => sema.q = << >>

Inv == Types /\ Counted /\ Looked /\ Owed /\ IdleGroup /\ Waker /\ Queue

-----------------------------------------------------------------------------
(* Numbers and sets.                                                       *)

\* The counter does not wrap.
LEMMA NoWrap ==
  ASSUME NEW n \in Nat, n <= Cardinality(Workers)
  PROVE  n % 2^Width = n
<1>1. 2^Width \in Nat /\ Cardinality(Workers) < 2^Width /\ Cardinality(Workers) \in Nat
  BY WGAssumption, FS_CardinalityType
<1>2. PICK b \in Nat : b = 2^Width  BY <1>1
<1>3. n < b  BY <1>1, <1>2
<1>4. n % b = n  BY <1>3
<1> QED  BY <1>2, <1>4

\* The sets of goroutines are finite.
LEMMA Finite ==
    /\ IsFiniteSet(G) /\ IsFiniteSet(Blocked) /\ Cardinality(Blocked) \in Nat
    /\ IsFiniteSet(Tasks) /\ Cardinality(Tasks) \in Nat /\ Cardinality(Tasks) <= Cardinality(Workers)
    /\ IsFiniteSet(Workers) /\ Cardinality(Workers) \in Nat
<1>1. IsFiniteSet(Callers) /\ IsFiniteSet(Workers)  BY WGAssumption
<1>2. IsFiniteSet(G)  BY <1>1, FS_Union DEF G
<1>3. Blocked \subseteq G /\ Tasks \subseteq Workers  BY DEF Blocked, Tasks
<1> HIDE DEF Blocked, Tasks
<1>4. IsFiniteSet(Blocked) /\ IsFiniteSet(Tasks)  BY <1>1, <1>2, <1>3, FS_Subset
<1>5. Cardinality(Tasks) <= Cardinality(Workers)  BY <1>1, <1>3, FS_Subset
<1> QED  BY <1>1, <1>2, <1>4, <1>5, FS_CardinalityType

\* A set with one more element.
LEMMA OneMore ==
  ASSUME NEW S, IsFiniteSet(S), NEW x, x \notin S
  PROVE  Cardinality(S \cup {x}) = Cardinality(S) + 1
BY FS_AddElement
\* A set without one of its elements.
LEMMA OneLess ==
  ASSUME NEW S, IsFiniteSet(S), NEW x \in S
  PROVE  Cardinality(S \ {x}) = Cardinality(S) - 1 /\ Cardinality(S) \in Nat \ {0}
<1>1. Cardinality(S \ {x}) = Cardinality(S) - 1  BY FS_RemoveElement
<1>2. Cardinality(S) \in Nat /\ Cardinality(S) # 0  BY FS_CardinalityType, FS_EmptySet
<1> QED  BY <1>1, <1>2

\* Callers and workers are different.
LEMMA Names ==
    /\ Callers \subseteq G /\ Workers \subseteq G
    /\ \A g \in G : g \in Callers <=> g \notin Workers
BY WGAssumption DEF G

\* What Types says of the fields.
LEMMA Fields ==
  ASSUME Types
  PROVE  /\ sema.credit \in Nat /\ sema.q \in Seq(Callers)
         /\ \A g \in G : seen[g].counter \in Nat /\ seen[g].waiters \in Nat
BY DEF Types, Word

\* When nobody waits nothing is owed.
LEMMA NobodyWaits ==
  ASSUME Types, Looked, Owed, Blocked = {}
  PROVE  waiters = 0 /\ sema.credit = 0 /\ Releasing = {}
<1>1. Cardinality(Blocked) = 0  BY FS_EmptySet
<1>2. waiters \in Nat /\ sema.credit \in Nat /\ \A g \in G : seen[g].waiters \in Nat  BY Fields DEF Types
<1>3. Releasing = {}
  <2> SUFFICES ASSUME NEW g \in Releasing PROVE FALSE  OBVIOUS
  <2>1. g \in G /\ seen[g].waiters > 0  BY DEF Releasing, Looked
  <2>2. Cardinality(Blocked) = waiters + sema.credit + seen[g].waiters  BY DEF Owed
  <2> QED  BY <1>1, <1>2, <2>1, <2>2
<1>4. Cardinality(Blocked) = waiters + sema.credit  BY <1>3 DEF Owed
<1> QED  BY <1>1, <1>2, <1>3, <1>4

-----------------------------------------------------------------------------
(* Add.                                                                    *)

\* Go adds a task while the group runs, or while nobody waits.
LEMMA GoStep ==
  ASSUME Inv, NEW g \in G, NEW k \in Workers, g # k, Go(g, k)
  PROVE  Inv'
<1>0. /\ Types /\ Counted /\ Looked /\ Owed /\ IdleGroup /\ Waker /\ Queue
      /\ pc \in [G -> CallerLabels \cup WorkerLabels] /\ counter \in Nat /\ waiters \in Nat
      /\ k \in G /\ k \notin Callers /\ pc[k] = "unborn"
  BY Names DEF Inv, Types, Go
<1>1. Tasks \cup {k} \subseteq Workers /\ k \notin Tasks  BY <1>0 DEF Tasks
<1>2. Cardinality(Tasks \cup {k}) = counter + 1 /\ counter + 1 <= Cardinality(Workers)
  <2> HIDE DEF Tasks
  <2>1. Cardinality(Tasks \cup {k}) = Cardinality(Tasks) + 1  BY <1>1, Finite, OneMore
  <2>2. Cardinality(Tasks \cup {k}) <= Cardinality(Workers)  BY <1>1, Finite, FS_Subset
  <2> QED  BY <1>0, <2>1, <2>2 DEF Counted
<1>3. (counter + 1) % 2^Width = counter + 1  BY <1>0, <1>2, NoWrap
<1>4. /\ counter' = counter + 1 /\ net' = net + 1 /\ pc' = [pc EXCEPT ![k] = "task"]
      /\ UNCHANGED <<seen, waiters, sema>> /\ fatal' = (counter + 1 < 0)
  <2>1. ~WakesAll(counter + 1, waiters)  BY <1>0 DEF WakesAll
  <2> QED  BY <1>3, <2>1 DEF Go, Add, AsI64
<1>5. pc'[k] = "task" /\ \A h \in G : h # k => pc'[h] = pc[h]  BY <1>0, <1>4
<1>6. Tasks' = Tasks \cup {k} /\ Blocked' = Blocked /\ Releasing' = Releasing
  BY <1>0, <1>5, Names DEF Tasks, Blocked, Releasing
<1>7. sema.credit = 0 /\ Releasing = {}
  <2>1. CASE counter # 0  BY <1>0, <2>1, Fields DEF IdleGroup
  <2>2. CASE counter = 0
    <3>1. Blocked = {}  BY <2>2 DEF Go, Waits, Blocked
    <3> QED  BY <1>0, <3>1, NobodyWaits
  <2> QED  BY <2>1, <2>2
<1>8. Types'
  <2>1. pc' \in [G -> CallerLabels \cup WorkerLabels]  BY <1>0, <1>4 DEF WorkerLabels
  <2>2. (\A h \in Callers : pc'[h] \in CallerLabels) /\ (\A h \in Workers : pc'[h] \in WorkerLabels)
    BY <1>0, <1>5, Names DEF Types, WorkerLabels
  <2>3. counter' \in Nat /\ net' \in Int  BY <1>0, <1>4 DEF Types
  <2> QED  BY <1>0, <1>4, <2>1, <2>2, <2>3 DEF Types
<1>9. Counted'  BY <1>0, <1>2, <1>4, <1>6 DEF Counted
<1>10. Looked'  BY <1>0, <1>4, <1>5 DEF Looked
<1>11. Owed'  BY <1>0, <1>4, <1>6 DEF Owed
<1>12. IdleGroup'  BY <1>4, <1>6, <1>7 DEF IdleGroup
<1>13. Waker'  BY <1>0, <1>4 DEF Waker
<1>14. Queue'  BY <1>0, <1>4, <1>5 DEF Queue
<1> QED  BY <1>8, <1>9, <1>10, <1>11, <1>12, <1>13, <1>14 DEF Inv

\* Done takes a task off; the last one sees the waiters.
LEMMA DoneStep ==
  ASSUME Inv, NEW k \in Workers, Done(k)
  PROVE  Inv'
<1>0. /\ Types /\ Counted /\ Looked /\ Owed /\ IdleGroup /\ Waker /\ Queue
      /\ pc \in [G -> CallerLabels \cup WorkerLabels] /\ counter \in Nat /\ waiters \in Nat
      /\ seen \in [G -> Word] /\ net \in Int
      /\ k \in G /\ k \notin Callers /\ pc[k] = "task" /\ k \in Tasks
  BY Names DEF Inv, Types, Done, Tasks
<1>1. Cardinality(Tasks \ {k}) = counter - 1 /\ counter # 0 /\ counter - 1 <= Cardinality(Workers)
  <2> HIDE DEF Tasks
  <2>1. Cardinality(Tasks \ {k}) = Cardinality(Tasks) - 1 /\ Cardinality(Tasks) \in Nat \ {0}
    BY <1>0, Finite, OneLess
  <2> QED  BY <1>0, <2>1, Finite DEF Counted
<1>2. PICK c \in Nat : c = counter - 1  BY <1>0, <1>1
<1>3. (counter + (-1)) % 2^Width = c
  <2>1. c % 2^Width = c  BY <1>1, <1>2, NoWrap
  <2>2. counter + (-1) = c  BY <1>0, <1>2
  <2> QED  BY <2>1, <2>2
<1>4. /\ counter' = c /\ net' = net + (-1) /\ UNCHANGED <<waiters, sema>> /\ fatal' = (c < 0)
      /\ \/ /\ c = 0 /\ waiters > 0 /\ seen' = [seen EXCEPT ![k] = [counter |-> c, waiters |-> waiters]]
            /\ pc' = [pc EXCEPT ![k] = "zero"]
         \/ /\ ~(c = 0 /\ waiters > 0) /\ seen' = seen /\ pc' = [pc EXCEPT ![k] = "unborn"]
  BY <1>3 DEF Done, Add, AsI64, WakesAll, Goto
<1>5. /\ \/ pc'[k] = "zero" /\ c = 0 /\ waiters > 0 /\ seen'[k].counter = 0 /\ seen'[k].waiters = waiters
         \/ pc'[k] = "unborn" /\ ~(c = 0 /\ waiters > 0)
      /\ \A h \in G : h # k => pc'[h] = pc[h] /\ seen'[h] = seen[h]
      /\ seen' \in [G -> Word]
  <2>1. CASE c = 0 /\ waiters > 0  BY <1>0, <1>4, <2>1 DEF Word
  <2>2. CASE ~(c = 0 /\ waiters > 0)  BY <1>0, <1>4, <2>2
  <2> QED  BY <2>1, <2>2
<1>6. Tasks' = Tasks \ {k} /\ Blocked' = Blocked /\ Releasing' = Releasing
  BY <1>0, <1>5, Names DEF Tasks, Blocked, Releasing
<1>7. sema.credit = 0 /\ Releasing = {}  BY <1>0, <1>1, Fields DEF IdleGroup
<1>8. Types'
  <2>1. pc' \in [G -> CallerLabels \cup WorkerLabels]  BY <1>0, <1>4 DEF WorkerLabels
  <2>2. (\A h \in Callers : pc'[h] \in CallerLabels) /\ (\A h \in Workers : pc'[h] \in WorkerLabels)
    BY <1>0, <1>5, Names DEF Types, WorkerLabels
  <2>3. counter' \in Nat /\ net' \in Int  BY <1>0, <1>4
  <2> QED  BY <1>0, <1>4, <1>5, <2>1, <2>2, <2>3 DEF Types
<1>9. Counted'  BY <1>0, <1>1, <1>2, <1>4, <1>6 DEF Counted
<1>10. Looked'  BY <1>0, <1>5 DEF Looked
<1>11. Owed'  BY <1>0, <1>4, <1>6, <1>7 DEF Owed
<1>12. IdleGroup'  BY <1>4, <1>6, <1>7 DEF IdleGroup
<1>13. Waker'  BY <1>0, <1>4, <1>5 DEF Waker
<1>14. Queue'  BY <1>0, <1>4, <1>5 DEF Queue
<1> QED  BY <1>8, <1>9, <1>10, <1>11, <1>12, <1>13, <1>14 DEF Inv

\* Add(0).
LEMMA NothingStep ==
  ASSUME Inv, NEW g \in Callers, AddNothing(g)
  PROVE  Inv'
<1>0. /\ Types /\ Counted /\ Looked /\ Owed /\ IdleGroup /\ Waker /\ Queue
      /\ pc \in [G -> CallerLabels \cup WorkerLabels] /\ counter \in Nat /\ waiters \in Nat
      /\ seen \in [G -> Word] /\ net \in Int
      /\ g \in G /\ g \notin Workers /\ pc[g] = "idle"
  BY Names DEF Inv, Types, AddNothing
<1>1. (counter + 0) % 2^Width = counter
  <2>1. counter % 2^Width = counter  BY <1>0, NoWrap, Finite DEF Counted
  <2> QED  BY <1>0, <2>1
<1>2. /\ counter' = counter /\ net' = net + 0 /\ UNCHANGED <<waiters, sema>> /\ fatal' = (counter < 0)
      /\ \/ /\ counter = 0 /\ waiters > 0 /\ seen' = [seen EXCEPT ![g] = [counter |-> counter, waiters |-> waiters]]
            /\ pc' = [pc EXCEPT ![g] = "zero"]
         \/ seen' = seen /\ pc' = pc
  BY <1>1 DEF AddNothing, Add, AsI64, WakesAll, Goto
<1>3. /\ \/ pc'[g] = "zero" /\ seen'[g].counter = 0 /\ seen'[g].waiters > 0
         \/ pc'[g] = "idle"
      /\ \A h \in G : h # g => pc'[h] = pc[h] /\ seen'[h] = seen[h]
      /\ seen' \in [G -> Word] /\ net' = net
  BY <1>0, <1>2 DEF Word
<1>4. Tasks' = Tasks /\ Blocked' = Blocked /\ Releasing' = Releasing
  BY <1>0, <1>3, Names DEF Tasks, Blocked, Releasing
<1>5. Types'
  <2>1. pc' \in [G -> CallerLabels \cup WorkerLabels]  BY <1>0, <1>2 DEF WorkerLabels
  <2>2. (\A h \in Callers : pc'[h] \in CallerLabels) /\ (\A h \in Workers : pc'[h] \in WorkerLabels)
    BY <1>0, <1>3, Names DEF Types, CallerLabels
  <2> QED  BY <1>0, <1>2, <1>3, <2>1, <2>2 DEF Types
<1>6. Counted'  BY <1>0, <1>2, <1>3, <1>4 DEF Counted
<1>7. Looked'  BY <1>0, <1>3 DEF Looked
<1>8. Owed'
  <2>1. \A h \in Releasing : seen'[h] = seen[h]  BY <1>0, <1>3 DEF Releasing
  <2> QED  BY <1>0, <1>2, <1>4, <2>1 DEF Owed
<1>9. IdleGroup'  BY <1>0, <1>2, <1>4 DEF IdleGroup
<1>10. Waker'
  <2> SUFFICES ASSUME counter = 0, waiters > 0
               PROVE  \E h \in G : pc'[h] = "zero" /\ seen'[h].counter = 0 /\ seen'[h].waiters = waiters
    BY <1>2 DEF Waker
  <2>1. PICK h \in G : pc[h] = "zero" /\ seen[h].counter = 0 /\ seen[h].waiters = waiters  BY <1>0 DEF Waker
  <2> QED  BY <1>0, <1>3, <2>1
<1>11. Queue'  BY <1>0, <1>2, <1>3 DEF Queue
<1> QED  BY <1>5, <1>6, <1>7, <1>8, <1>9, <1>10, <1>11 DEF Inv

\* The place an Add returns to.
LEMMA HomeIs ==
  ASSUME NEW g \in G
  PROVE  /\ g \in Callers => Home(g) = "idle" /\ Home(g) \in CallerLabels
         /\ g \in Workers => Home(g) = "unborn" /\ Home(g) \in WorkerLabels
         /\ Home(g) \in {"idle", "unborn"} /\ Home(g) \in CallerLabels \cup WorkerLabels
BY Names DEF Home, CallerLabels, WorkerLabels

\* The winner of the swap takes the waiters over; the loser returns.
LEMMA ZeroStep ==
  ASSUME Inv, NEW g \in G, AddZeroSwap(g)
  PROVE  Inv'
<1>0. /\ Types /\ Counted /\ Looked /\ Owed /\ IdleGroup /\ Waker /\ Queue
      /\ pc \in [G -> CallerLabels \cup WorkerLabels] /\ counter \in Nat /\ waiters \in Nat
      /\ pc[g] = "zero" /\ seen[g].counter = 0 /\ seen[g].waiters > 0 /\ seen[g].waiters \in Nat
      /\ UNCHANGED <<sema, seen, net, fatal>> /\ sema.credit \in Nat
  BY Fields DEF Inv, Types, AddZeroSwap, Looked
<1>1. CASE WonZero(g) /\ Goto(g, "release")
  <2>1. /\ counter = 0 /\ waiters = seen[g].waiters /\ counter' = 0 /\ waiters' = 0
        /\ pc' = [pc EXCEPT ![g] = "release"]
    BY <1>0, <1>1 DEF WonZero, Swap, Goto
  <2>2. pc'[g] = "release" /\ \A h \in G : h # g => pc'[h] = pc[h]  BY <1>0, <2>1
  <2>3. sema.credit = 0 /\ Releasing = {}  BY <1>0, <2>1 DEF IdleGroup
  <2>4. Tasks' = Tasks /\ Blocked' = Blocked /\ Releasing' = {g}
    BY <1>0, <2>2, <2>3, Names DEF Tasks, Blocked, Releasing
  <2>5. Types'
    <3>1. pc' \in [G -> CallerLabels \cup WorkerLabels]  BY <1>0, <2>1 DEF WorkerLabels
    <3>2. (\A h \in Callers : pc'[h] \in CallerLabels) /\ (\A h \in Workers : pc'[h] \in WorkerLabels)
      BY <1>0, <2>2, Names DEF Types, CallerLabels, WorkerLabels
    <3> QED  BY <1>0, <2>1, <3>1, <3>2 DEF Types
  <2>6. Counted'  BY <1>0, <2>1, <2>4 DEF Counted
  <2>7. Looked'  BY <1>0, <2>2 DEF Looked
  <2>8. Owed'
    <3>1. Cardinality(Blocked) = waiters + sema.credit  BY <1>0, <2>3 DEF Owed
    <3>2. Cardinality(Blocked) = 0 + sema.credit + seen[g].waiters  BY <1>0, <2>1, <2>3, <3>1
    <3> QED  BY <1>0, <2>1, <2>4, <3>2 DEF Owed
  <2>9. IdleGroup' /\ Waker'  BY <2>1 DEF IdleGroup, Waker
  <2>10. Queue'  BY <1>0, <2>2 DEF Queue
  <2> QED  BY <2>5, <2>6, <2>7, <2>8, <2>9, <2>10 DEF Inv
<1>2. CASE /\ ~(counter = seen[g].counter /\ waiters = seen[g].waiters)
           /\ UNCHANGED <<counter, waiters>> /\ Goto(g, Home(g))
  <2>1. pc' = [pc EXCEPT ![g] = Home(g)]  BY <1>2 DEF Goto
  <2>2. pc'[g] = Home(g) /\ \A h \in G : h # g => pc'[h] = pc[h]  BY <1>0, <2>1
  <2>3. Tasks' = Tasks /\ Blocked' = Blocked /\ Releasing' = Releasing
    BY <1>0, <2>2, Names, HomeIs DEF Tasks, Blocked, Releasing
  <2>4. Types'
    <3>1. pc' \in [G -> CallerLabels \cup WorkerLabels]  BY <1>0, <2>1, HomeIs
    <3>2. (\A h \in Callers : pc'[h] \in CallerLabels) /\ (\A h \in Workers : pc'[h] \in WorkerLabels)
      BY <1>0, <2>2, Names, HomeIs DEF Types
    <3> QED  BY <1>0, <1>2, <3>1, <3>2 DEF Types
  <2>5. Counted'  BY <1>0, <1>2, <2>3 DEF Counted
  <2>6. Looked'  BY <1>0, <2>2, HomeIs DEF Looked
  <2>7. Owed' /\ IdleGroup'  BY <1>0, <1>2, <2>3 DEF Owed, IdleGroup
  <2>8. Waker'
    <3> SUFFICES ASSUME counter = 0, waiters > 0
                 PROVE  \E h \in G : pc'[h] = "zero" /\ seen[h].counter = 0 /\ seen[h].waiters = waiters
      BY <1>0, <1>2 DEF Waker
    <3>1. PICK h \in G : pc[h] = "zero" /\ seen[h].counter = 0 /\ seen[h].waiters = waiters  BY <1>0 DEF Waker
    <3>2. h # g  BY <1>0, <1>2, <3>1
    <3> QED  BY <2>2, <3>1, <3>2
  <2>9. Queue'  BY <1>0, <2>2, HomeIs DEF Queue
  <2> QED  BY <2>4, <2>5, <2>6, <2>7, <2>8, <2>9 DEF Inv
<1> QED  BY <1>1, <1>2 DEF AddZeroSwap

\* One critical section of release_n.
LEMMA ReleaseStep ==
  ASSUME Inv, NEW g \in G, AddRelease(g)
  PROVE  Inv'
<1>0. /\ Types /\ Counted /\ Looked /\ Owed /\ IdleGroup /\ Waker /\ Queue
      /\ pc \in [G -> CallerLabels \cup WorkerLabels] /\ counter \in Nat /\ waiters \in Nat
      /\ seen \in [G -> Word]
      /\ pc[g] = "release" /\ seen[g].waiters > 0 /\ seen[g].waiters \in Nat /\ seen[g].counter \in Nat
      /\ UNCHANGED <<counter, waiters, net, fatal>>
      /\ sema \in [credit : Nat, q : Seq(Callers)] /\ sema.credit \in Nat /\ sema.q \in Seq(Callers)
  BY Fields DEF Inv, Types, AddRelease, Looked
<1>1. Releasing = {g} /\ counter = 0 /\ waiters = 0
  <2>1. g \in Releasing  BY <1>0 DEF Releasing
  <2>2. \A h \in Releasing : h = g  BY <1>0, <2>1 DEF Owed
  <2> QED  BY <1>0, <2>1, <2>2 DEF IdleGroup
<1>2. Cardinality(Blocked) = sema.credit + seen[g].waiters
  <2>1. g \in Releasing  BY <1>1
  <2>2. Cardinality(Blocked) = waiters + sema.credit + seen[g].waiters  BY <1>0, <2>1 DEF Owed
  <2> QED  BY <1>0, <1>1, <2>2
<1>3. CASE Wakes(sema)
  <2>1. sema.q # << >>  BY <1>3 DEF Wakes
  <2>2. PICK w \in Callers : w = Head(sema.q) /\ w = sema.q[1] /\ 1 \in DOMAIN sema.q  BY <1>0, <2>1
  <2>3. w \in G /\ pc[w] = "parked" /\ w # g /\ w \notin Workers  BY <1>0, <2>2, Names DEF Queue
  <2>4. sema.credit = 0  BY <1>0, <2>1 DEF Queue
  <2>5. PICK n \in Nat : n = seen[g].waiters - 1  BY <1>0
  <2>6. /\ sema' = [sema EXCEPT !.q = Tail(@)] /\ seen' = [seen EXCEPT ![g].waiters = n]
        /\ pc' = [pc EXCEPT ![w] = "idle", ![g] = IF n = 0 THEN Home(g) ELSE "release"]
    BY <1>3, <2>2, <2>5 DEF AddRelease, Released, Wakee, LeftAfter
  <2>7. /\ pc'[w] = "idle" /\ pc'[g] = (IF n = 0 THEN Home(g) ELSE "release")
        /\ \A h \in G : h # g /\ h # w => pc'[h] = pc[h]
        /\ seen'[g].waiters = n /\ \A h \in G : h # g => seen'[h] = seen[h]
    BY <1>0, <2>3, <2>6
  <2>8. seen' \in [G -> Word]  BY <1>0, <2>6 DEF Word
  <2>9. sema' \in [credit : Nat, q : Seq(Callers)] /\ sema'.credit = 0 /\ sema'.q = Tail(sema.q)
    <3>1. sema'.credit = sema.credit /\ sema'.q = Tail(sema.q) /\ sema' = [credit |-> sema.credit, q |-> Tail(sema.q)]
      BY <1>0, <2>6
    <3>2. Tail(sema.q) \in Seq(Callers)  BY <1>0, <2>1
    <3> QED  BY <1>0, <2>4, <3>1, <3>2
  <2>10. Tasks' = Tasks /\ Blocked' = Blocked \ {w} /\ Releasing' = IF n = 0 THEN {} ELSE {g}
    BY <1>0, <1>1, <2>3, <2>7, Names, HomeIs DEF Tasks, Blocked, Releasing
  <2>11. Cardinality(Blocked \ {w}) = n
    <3>1. w \in Blocked  BY <2>3 DEF Blocked
    <3> HIDE DEF Blocked
    <3>2. Cardinality(Blocked \ {w}) = Cardinality(Blocked) - 1  BY <3>1, Finite, OneLess
    <3> QED  BY <1>0, <1>2, <2>4, <2>5, <3>2
  <2>12. Types'
    <3>1. pc' \in [G -> CallerLabels \cup WorkerLabels]
      <4>1. "idle" \in CallerLabels \cup WorkerLabels /\ "release" \in CallerLabels \cup WorkerLabels
        BY DEF CallerLabels
      <4> QED  BY <1>0, <2>3, <2>6, <4>1, HomeIs
    <3>2. (\A h \in Callers : pc'[h] \in CallerLabels) /\ (\A h \in Workers : pc'[h] \in WorkerLabels)
      <4>1. "idle" \in CallerLabels /\ "release" \in CallerLabels /\ "release" \in WorkerLabels
        BY DEF CallerLabels, WorkerLabels
      <4> QED  BY <1>0, <2>3, <2>7, <4>1, Names, HomeIs DEF Types
    <3> QED  BY <1>0, <2>8, <2>9, <3>1, <3>2 DEF Types
  <2>13. Counted'  BY <1>0, <2>10 DEF Counted
  <2>14. Looked'
    <3> SUFFICES ASSUME NEW h \in G
                 PROVE  /\ pc'[h] = "zero" => seen'[h].counter = 0 /\ seen'[h].waiters > 0
                        /\ pc'[h] = "register" => seen'[h].counter # 0
                        /\ pc'[h] = "release" => seen'[h].waiters > 0
      BY DEF Looked
    <3>1. CASE h = g
      <4>1. CASE n = 0
        <5>1. pc'[h] \in {"idle", "unborn"}  BY <2>7, <3>1, <4>1, HomeIs
        <5> QED  BY <5>1
      <4>2. CASE n # 0
        <5>1. pc'[h] = "release" /\ seen'[h].waiters = n  BY <2>7, <3>1, <4>2
        <5>2. n > 0  BY <4>2
        <5>3. seen'[h].waiters > 0  BY <5>1, <5>2
        <5> QED  BY <5>1, <5>3
      <4> QED  BY <4>1, <4>2
    <3>2. CASE h = w  BY <2>7, <3>2
    <3>3. CASE h # g /\ h # w  BY <1>0, <2>7, <3>3 DEF Looked
    <3> QED  BY <3>1, <3>2, <3>3
  <2>15. Owed'  BY <1>0, <1>1, <2>5, <2>7, <2>9, <2>10, <2>11 DEF Owed
  <2>16. IdleGroup' /\ Waker'  BY <1>0, <1>1 DEF IdleGroup, Waker
  <2>17. Queue'
    <3>1. PICK s \in Seq(Callers) : s = sema.q  BY <1>0
    <3>2. PICK t : t = sema'.q  OBVIOUS
    <3>3. /\ t \in Seq(Callers) /\ DOMAIN t = 1..Len(s) - 1 /\ DOMAIN s = 1..Len(s) /\ Len(s) \in Nat
          /\ \A i \in 1..Len(s) - 1 : t[i] = s[i + 1]
      BY <2>1, <2>9, <3>1, <3>2
    <3>4. \A i, j \in DOMAIN s : s[i] = s[j] => i = j  BY <1>0, <3>1 DEF Queue
    <3>5. \A i, j \in DOMAIN t : t[i] = t[j] => i = j
      <4> SUFFICES ASSUME NEW i \in DOMAIN t, NEW j \in DOMAIN t, t[i] = t[j] PROVE i = j  OBVIOUS
      <4>1. i + 1 \in DOMAIN s /\ j + 1 \in DOMAIN s /\ s[i + 1] = s[j + 1]  BY <3>3
      <4>2. i + 1 = j + 1  BY <3>4, <4>1
      <4> QED  BY <3>3, <4>2
    <3>6. ASSUME NEW h \in G PROVE pc'[h] = "parked" <=> \E i \in DOMAIN t : t[i] = h
      <4>1. pc[h] = "parked" <=> \E i \in DOMAIN s : s[i] = h  BY <1>0, <3>1 DEF Queue
      <4>2. (\E i \in DOMAIN t : t[i] = h) <=> h # w /\ \E i \in DOMAIN s : s[i] = h
        <5>1. ASSUME NEW i \in DOMAIN t, t[i] = h PROVE h # w /\ \E j \in DOMAIN s : s[j] = h
          <6>1. i + 1 \in DOMAIN s /\ s[i + 1] = h /\ i + 1 # 1  BY <3>3, <5>1
          <6> QED  BY <2>2, <3>1, <3>4, <6>1
        <5>2. ASSUME NEW i \in DOMAIN s, s[i] = h, h # w PROVE \E j \in DOMAIN t : t[j] = h
          <6>1. i # 1  BY <2>2, <3>1, <5>2
          <6>2. i - 1 \in DOMAIN t /\ t[i - 1] = h  BY <3>3, <5>2, <6>1
          <6> QED  BY <6>2
        <5> QED  BY <5>1, <5>2
      <4>3. CASE h = g  BY <1>0, <2>3, <2>7, <4>1, <4>2, <4>3, HomeIs
      <4>4. CASE h = w  BY <2>7, <4>2, <4>4
      <4>5. CASE h # g /\ h # w  BY <2>7, <4>1, <4>2, <4>5
      <4> QED  BY <4>3, <4>4, <4>5
    <3> QED  BY <2>9, <3>2, <3>5, <3>6 DEF Queue
  <2> QED  BY <2>12, <2>13, <2>14, <2>15, <2>16, <2>17 DEF Inv
<1>4. CASE ~Wakes(sema)
  <2>1. sema.q = << >>  BY <1>4 DEF Wakes
  <2>2. /\ sema' = [sema EXCEPT !.credit = @ + seen[g].waiters] /\ seen' = [seen EXCEPT ![g] = Zero]
        /\ pc' = [pc EXCEPT ![g] = Home(g)]
    BY <1>4 DEF AddRelease, Credited, Goto
  <2>3. /\ pc'[g] = Home(g) /\ \A h \in G : h # g => pc'[h] = pc[h] /\ seen'[h] = seen[h]
    BY <1>0, <2>2
  <2>4. seen' \in [G -> Word]
    <3>1. Zero \in Word  BY DEF Zero, Word
    <3> QED  BY <1>0, <2>2, <3>1
  <2>5. /\ sema' \in [credit : Nat, q : Seq(Callers)] /\ sema'.credit = sema.credit + seen[g].waiters
        /\ sema'.q = sema.q
    BY <1>0, <2>2
  <2>6. Tasks' = Tasks /\ Blocked' = Blocked /\ Releasing' = {}
    BY <1>0, <1>1, <2>3, Names, HomeIs DEF Tasks, Blocked, Releasing
  <2>7. Types'
    <3>1. pc' \in [G -> CallerLabels \cup WorkerLabels]  BY <1>0, <2>2, HomeIs
    <3>2. (\A h \in Callers : pc'[h] \in CallerLabels) /\ (\A h \in Workers : pc'[h] \in WorkerLabels)
      BY <1>0, <2>3, Names, HomeIs DEF Types
    <3> QED  BY <1>0, <2>4, <2>5, <3>1, <3>2 DEF Types
  <2>8. Counted'  BY <1>0, <2>6 DEF Counted
  <2>9. Looked'  BY <1>0, <2>3, HomeIs DEF Looked
  <2>10. Owed'  BY <1>0, <1>1, <1>2, <2>5, <2>6 DEF Owed
  <2>11. IdleGroup' /\ Waker'  BY <1>0, <1>1 DEF IdleGroup, Waker
  <2>12. Queue'  BY <1>0, <2>1, <2>3, <2>5, HomeIs DEF Queue
  <2> QED  BY <2>7, <2>8, <2>9, <2>10, <2>11, <2>12 DEF Inv
<1> QED  BY <1>3, <1>4

-----------------------------------------------------------------------------
(* Wait.                                                                   *)

\* A Wait starts, or loads the word.
LEMMA LoadStep ==
  ASSUME Inv, NEW g \in Callers, Wait(g) \/ WaitLoad(g)
  PROVE  Inv'
<1>0. /\ Types /\ Counted /\ Looked /\ Owed /\ IdleGroup /\ Waker /\ Queue
      /\ pc \in [G -> CallerLabels \cup WorkerLabels] /\ counter \in Nat /\ waiters \in Nat
      /\ seen \in [G -> Word] /\ g \in G /\ g \notin Workers
      /\ UNCHANGED <<counter, waiters, sema, net, fatal>>
      /\ pc[g] \in {"idle", "load"}
  BY Names DEF Inv, Types, Wait, WaitLoad
<1>1. PICK l \in {"idle", "load", "register"} : pc' = [pc EXCEPT ![g] = l] /\ (l = "register" => counter # 0)
  BY <1>0 DEF Wait, WaitLoad, Goto, AsI64
<1>2. seen' = seen \/ seen' = [seen EXCEPT ![g] = [counter |-> counter, waiters |-> waiters]]
  BY DEF Wait, WaitLoad
<1>3. l = "register" => seen' = [seen EXCEPT ![g] = [counter |-> counter, waiters |-> waiters]]
  BY <1>0, <1>1 DEF Wait, WaitLoad, Goto
<1>4. /\ pc'[g] = l /\ \A h \in G : h # g => pc'[h] = pc[h] /\ seen'[h] = seen[h]
  BY <1>0, <1>1, <1>2
<1>5. l = "register" => seen'[g].counter # 0  BY <1>0, <1>1, <1>3
<1>6. seen' \in [G -> Word]  BY <1>0, <1>2 DEF Word
<1>7. Tasks' = Tasks /\ Blocked' = Blocked /\ Releasing' = Releasing
  BY <1>0, <1>4, Names DEF Tasks, Blocked, Releasing
<1>8. Types'
  <2>1. l \in CallerLabels  BY DEF CallerLabels
  <2>2. pc' \in [G -> CallerLabels \cup WorkerLabels]  BY <1>0, <1>1, <2>1
  <2>3. (\A h \in Callers : pc'[h] \in CallerLabels) /\ (\A h \in Workers : pc'[h] \in WorkerLabels)
    BY <1>0, <1>4, <2>1, Names DEF Types
  <2> QED  BY <1>0, <1>6, <2>2, <2>3 DEF Types
<1>9. Counted'  BY <1>0, <1>7 DEF Counted
<1>10. Looked'  BY <1>0, <1>4, <1>5 DEF Looked
<1>11. Owed'
  <2>1. \A h \in Releasing : seen'[h] = seen[h]  BY <1>0, <1>4 DEF Releasing
  <2> QED  BY <1>0, <1>7, <2>1 DEF Owed
<1>12. IdleGroup'  BY <1>0, <1>7 DEF IdleGroup
<1>13. Waker'
  <2> SUFFICES ASSUME counter = 0, waiters > 0
               PROVE  \E h \in G : pc'[h] = "zero" /\ seen'[h].counter = 0 /\ seen'[h].waiters = waiters
    BY <1>0 DEF Waker
  <2>1. PICK h \in G : pc[h] = "zero" /\ seen[h].counter = 0 /\ seen[h].waiters = waiters  BY <1>0 DEF Waker
  <2> QED  BY <1>0, <1>4, <2>1
<1>14. Queue'  BY <1>0, <1>4 DEF Queue
<1> QED  BY <1>8, <1>9, <1>10, <1>11, <1>12, <1>13, <1>14 DEF Inv

\* A Wait registers in the word, or starts over.
LEMMA RegisterStep ==
  ASSUME Inv, NEW g \in Callers, WaitRegister(g)
  PROVE  Inv'
<1>0. /\ Types /\ Counted /\ Looked /\ Owed /\ IdleGroup /\ Waker /\ Queue
      /\ pc \in [G -> CallerLabels \cup WorkerLabels] /\ counter \in Nat /\ waiters \in Nat
      /\ seen \in [G -> Word] /\ g \in G /\ g \notin Workers /\ pc[g] = "register"
      /\ UNCHANGED <<sema, seen, net, fatal>> /\ sema.credit \in Nat
  BY Names, Fields DEF Inv, Types, WaitRegister
<1>1. CASE Registered(g) /\ Goto(g, "acquire")
  <2>1. /\ counter' = counter /\ waiters' = waiters + 1 /\ counter # 0 /\ pc' = [pc EXCEPT ![g] = "acquire"]
    BY <1>0, <1>1 DEF Registered, Swap, Goto, Looked
  <2>2. pc'[g] = "acquire" /\ \A h \in G : h # g => pc'[h] = pc[h]  BY <1>0, <2>1
  <2>3. sema.credit = 0 /\ Releasing = {}  BY <1>0, <2>1 DEF IdleGroup
  <2>4. Tasks' = Tasks /\ Blocked' = Blocked \cup {g} /\ Releasing' = Releasing /\ g \notin Blocked
    BY <1>0, <2>2, Names DEF Tasks, Blocked, Releasing
  <2>5. Cardinality(Blocked \cup {g}) = waiters + 1
    <3>1. Cardinality(Blocked) = waiters + sema.credit  BY <1>0, <2>3 DEF Owed
    <3> HIDE DEF Blocked
    <3>2. Cardinality(Blocked \cup {g}) = Cardinality(Blocked) + 1  BY <2>4, Finite, OneMore
    <3> QED  BY <1>0, <2>3, <3>1, <3>2
  <2>6. Types'
    <3>1. pc' \in [G -> CallerLabels \cup WorkerLabels]  BY <1>0, <2>1 DEF CallerLabels
    <3>2. (\A h \in Callers : pc'[h] \in CallerLabels) /\ (\A h \in Workers : pc'[h] \in WorkerLabels)
      BY <1>0, <2>2, Names DEF Types, CallerLabels
    <3>3. waiters' \in Nat /\ counter' \in Nat  BY <1>0, <2>1
    <3> QED  BY <1>0, <3>1, <3>2, <3>3 DEF Types
  <2>7. Counted'  BY <1>0, <2>1, <2>4 DEF Counted
  <2>8. Looked'  BY <1>0, <2>2 DEF Looked
  <2>9. Owed'
    <3>1. Cardinality(Blocked') = waiters' + sema'.credit  BY <1>0, <2>1, <2>3, <2>4, <2>5
    <3> QED  BY <2>3, <2>4, <3>1 DEF Owed
  <2>10. IdleGroup' /\ Waker'  BY <1>0, <2>1, <2>3, <2>4 DEF IdleGroup, Waker
  <2>11. Queue'  BY <1>0, <2>2 DEF Queue
  <2> QED  BY <2>6, <2>7, <2>8, <2>9, <2>10, <2>11 DEF Inv
<1>2. CASE UNCHANGED <<counter, waiters>> /\ Goto(g, "load")
  <2>1. pc' = [pc EXCEPT ![g] = "load"]  BY <1>2 DEF Goto
  <2>2. pc'[g] = "load" /\ \A h \in G : h # g => pc'[h] = pc[h]  BY <1>0, <2>1
  <2>3. Tasks' = Tasks /\ Blocked' = Blocked /\ Releasing' = Releasing
    BY <1>0, <2>2, Names DEF Tasks, Blocked, Releasing
  <2>4. Types'
    <3>1. pc' \in [G -> CallerLabels \cup WorkerLabels]  BY <1>0, <2>1 DEF CallerLabels
    <3>2. (\A h \in Callers : pc'[h] \in CallerLabels) /\ (\A h \in Workers : pc'[h] \in WorkerLabels)
      BY <1>0, <2>2, Names DEF Types, CallerLabels
    <3> QED  BY <1>0, <1>2, <3>1, <3>2 DEF Types
  <2>5. Counted'  BY <1>0, <1>2, <2>3 DEF Counted
  <2>6. Looked'  BY <1>0, <2>2 DEF Looked
  <2>7. Owed' /\ IdleGroup'  BY <1>0, <1>2, <2>3 DEF Owed, IdleGroup
  <2>8. Waker'
    <3> SUFFICES ASSUME counter = 0, waiters > 0
                 PROVE  \E h \in G : pc'[h] = "zero" /\ seen[h].counter = 0 /\ seen[h].waiters = waiters
      BY <1>0, <1>2 DEF Waker
    <3>1. PICK h \in G : pc[h] = "zero" /\ seen[h].counter = 0 /\ seen[h].waiters = waiters  BY <1>0 DEF Waker
    <3> QED  BY <1>0, <2>2, <3>1
  <2>9. Queue'  BY <1>0, <2>2 DEF Queue
  <2> QED  BY <2>4, <2>5, <2>6, <2>7, <2>8, <2>9 DEF Inv
<1> QED  BY <1>1, <1>2 DEF WaitRegister

\* A Wait takes a credit and returns, or parks behind the others.
LEMMA AcquireStep ==
  ASSUME Inv, NEW g \in Callers, WaitAcquire(g)
  PROVE  Inv'
<1>0. /\ Types /\ Counted /\ Looked /\ Owed /\ IdleGroup /\ Waker /\ Queue
      /\ pc \in [G -> CallerLabels \cup WorkerLabels] /\ counter \in Nat /\ waiters \in Nat
      /\ seen \in [G -> Word] /\ g \in G /\ g \notin Workers /\ pc[g] = "acquire"
      /\ UNCHANGED <<counter, waiters, seen, net, fatal>>
      /\ sema \in [credit : Nat, q : Seq(Callers)] /\ sema.credit \in Nat /\ sema.q \in Seq(Callers)
  BY Names, Fields DEF Inv, Types, WaitAcquire
<1>1. CASE HasCredit(sema)
  <2>1. sema.credit > 0  BY <1>1 DEF HasCredit
  <2>2. PICK n \in Nat : n = sema.credit - 1  BY <1>0, <2>1
  <2>3. sema' = [sema EXCEPT !.credit = n] /\ pc' = [pc EXCEPT ![g] = "idle"]
    BY <1>1, <2>2 DEF WaitAcquire, Consumed, Goto
  <2>4. pc'[g] = "idle" /\ \A h \in G : h # g => pc'[h] = pc[h]  BY <1>0, <2>3
  <2>5. sema' \in [credit : Nat, q : Seq(Callers)] /\ sema'.credit = n /\ sema'.q = sema.q
    BY <1>0, <2>3
  <2>6. Tasks' = Tasks /\ Blocked' = Blocked \ {g} /\ Releasing' = Releasing /\ g \in Blocked
    BY <1>0, <2>4, Names DEF Tasks, Blocked, Releasing
  <2>7. Cardinality(Blocked') = Cardinality(Blocked) - 1 /\ Cardinality(Blocked) \in Nat
    <3>1. PICK B : B = Blocked  OBVIOUS
    <3>2. IsFiniteSet(B) /\ g \in B  BY <2>6, <3>1, Finite
    <3>3. Cardinality(B \ {g}) = Cardinality(B) - 1 /\ Cardinality(B) \in Nat  BY <3>2, OneLess
    <3> QED  BY <2>6, <3>1, <3>3
  <2>8. Types'
    <3>1. pc' \in [G -> CallerLabels \cup WorkerLabels]  BY <1>0, <2>3 DEF CallerLabels
    <3>2. (\A h \in Callers : pc'[h] \in CallerLabels) /\ (\A h \in Workers : pc'[h] \in WorkerLabels)
      BY <1>0, <2>4, Names DEF Types, CallerLabels
    <3> QED  BY <1>0, <2>5, <3>1, <3>2 DEF Types
  <2>9. Counted'  BY <1>0, <2>6 DEF Counted
  <2>10. Looked'  BY <1>0, <2>4 DEF Looked
  <2>11. Owed'
    <3>1. \A h \in Releasing : h \in G /\ seen[h].waiters \in Nat  BY <1>0, Fields DEF Releasing
    <3>2. ASSUME NEW h \in Releasing PROVE Cardinality(Blocked') = waiters + n + seen[h].waiters
      <4>1. Cardinality(Blocked) = waiters + sema.credit + seen[h].waiters  BY <1>0, <3>2 DEF Owed
      <4> QED  BY <1>0, <2>2, <2>7, <3>1, <4>1
    <3>3. Releasing = {} => Cardinality(Blocked') = waiters + n  BY <1>0, <2>2, <2>7 DEF Owed
    <3>4. \A h, k \in Releasing : h = k  BY <1>0 DEF Owed
    <3> QED  BY <1>0, <2>5, <2>6, <3>2, <3>3, <3>4 DEF Owed
  <2>12. IdleGroup'  BY <1>0, <2>1, <2>5, <2>6 DEF IdleGroup
  <2>13. Waker'  BY <1>0, <2>1 DEF IdleGroup, Waker
  <2>14. Queue'  BY <1>0, <2>1, <2>4, <2>5 DEF Queue
  <2> QED  BY <2>8, <2>9, <2>10, <2>11, <2>12, <2>13, <2>14 DEF Inv
<1>2. CASE ~HasCredit(sema)
  <2>1. sema.credit = 0  BY <1>0, <1>2 DEF HasCredit
  <2>2. sema' = [sema EXCEPT !.q = Append(@, g)] /\ pc' = [pc EXCEPT ![g] = "parked"]
    BY <1>2 DEF WaitAcquire, Joined, Goto
  <2>3. pc'[g] = "parked" /\ \A h \in G : h # g => pc'[h] = pc[h]  BY <1>0, <2>2
  <2>4. sema' \in [credit : Nat, q : Seq(Callers)] /\ sema'.credit = 0 /\ sema'.q = Append(sema.q, g)
    <3>1. sema' = [credit |-> sema.credit, q |-> Append(sema.q, g)]  BY <1>0, <2>2
    <3>2. Append(sema.q, g) \in Seq(Callers)  BY <1>0
    <3> QED  BY <1>0, <2>1, <3>1, <3>2
  <2>5. Tasks' = Tasks /\ Blocked' = Blocked /\ Releasing' = Releasing
    BY <1>0, <2>3, Names DEF Tasks, Blocked, Releasing
  <2>6. Types'
    <3>1. pc' \in [G -> CallerLabels \cup WorkerLabels]  BY <1>0, <2>2 DEF CallerLabels
    <3>2. (\A h \in Callers : pc'[h] \in CallerLabels) /\ (\A h \in Workers : pc'[h] \in WorkerLabels)
      BY <1>0, <2>3, Names DEF Types, CallerLabels
    <3> QED  BY <1>0, <2>4, <3>1, <3>2 DEF Types
  <2>7. Counted'  BY <1>0, <2>5 DEF Counted
  <2>8. Looked'  BY <1>0, <2>3 DEF Looked
  <2>9. Owed' /\ IdleGroup'  BY <1>0, <2>1, <2>4, <2>5 DEF Owed, IdleGroup
  <2>10. Waker'
    <3> SUFFICES ASSUME counter = 0, waiters > 0
                 PROVE  \E h \in G : pc'[h] = "zero" /\ seen[h].counter = 0 /\ seen[h].waiters = waiters
      BY <1>0 DEF Waker
    <3>1. PICK h \in G : pc[h] = "zero" /\ seen[h].counter = 0 /\ seen[h].waiters = waiters  BY <1>0 DEF Waker
    <3> QED  BY <1>0, <2>3, <3>1
  <2>11. Queue'
    <3>1. PICK s \in Seq(Callers) : s = sema.q  BY <1>0
    <3>2. PICK t : t = sema'.q  OBVIOUS
    <3>3. /\ DOMAIN t = 1..Len(s) + 1 /\ DOMAIN s = 1..Len(s) /\ Len(s) \in Nat
          /\ t[Len(s) + 1] = g /\ \A i \in 1..Len(s) : t[i] = s[i]
      BY <2>4, <3>1, <3>2
    <3>4. /\ \A i, j \in DOMAIN s : s[i] = s[j] => i = j
          /\ \A h \in G : pc[h] = "parked" <=> \E i \in DOMAIN s : s[i] = h
      BY <1>0, <3>1 DEF Queue
    <3>5. \A i \in DOMAIN s : s[i] # g  BY <1>0, <3>4
    <3>6. \A i, j \in DOMAIN t : t[i] = t[j] => i = j
      <4> SUFFICES ASSUME NEW i \in DOMAIN t, NEW j \in DOMAIN t, t[i] = t[j] PROVE i = j  OBVIOUS
      <4>1. CASE i \in DOMAIN s /\ j \in DOMAIN s  BY <3>3, <3>4, <4>1
      <4>2. CASE i = Len(s) + 1 \/ j = Len(s) + 1  BY <3>3, <3>5, <4>2
      <4> QED  BY <3>3, <4>1, <4>2
    <3>7. ASSUME NEW h \in G PROVE pc'[h] = "parked" <=> \E i \in DOMAIN t : t[i] = h
      <4>1. CASE h = g  BY <2>3, <3>3, <4>1
      <4>2. CASE h # g
        <5>1. (\E i \in DOMAIN t : t[i] = h) <=> \E i \in DOMAIN s : s[i] = h  BY <3>3, <4>2
        <5> QED  BY <2>3, <3>4, <4>2, <5>1
      <4> QED  BY <4>1, <4>2
    <3>8. sema'.credit = 0  BY <2>4
    <3> QED  BY <3>2, <3>6, <3>7, <3>8 DEF Queue
  <2> QED  BY <2>6, <2>7, <2>8, <2>9, <2>10, <2>11 DEF Inv
<1> QED  BY <1>1, <1>2

-----------------------------------------------------------------------------
(* The theorems.                                                           *)

\* The invariant holds initially.
LEMMA InitInv == Init => Inv
<1> SUFFICES ASSUME Init PROVE Inv  OBVIOUS
<1>1. /\ counter = 0 /\ waiters = 0 /\ net = 0 /\ fatal = FALSE /\ sema = [credit |-> 0, q |-> << >>]
      /\ pc = [g \in G |-> IF g \in Callers THEN "idle" ELSE "unborn"]
      /\ seen = [g \in G |-> Zero]
  BY DEF Init, NewSema
<1>2. \A g \in G : pc[g] = IF g \in Callers THEN "idle" ELSE "unborn"  BY <1>1
<1>3. /\ Tasks = {} /\ Blocked = {} /\ Releasing = {} /\ \A g \in G : pc[g] \in {"idle", "unborn"}
  BY <1>2, Names DEF Tasks, Blocked, Releasing
<1>4. Types
  <2>1. Zero \in Word  BY DEF Zero, Word
  <2>2. seen \in [G -> Word]  BY <1>1, <2>1
  <2>3. sema \in [credit : Nat, q : Seq(Callers)]  BY <1>1
  <2>4. pc \in [G -> CallerLabels \cup WorkerLabels]  BY <1>1 DEF CallerLabels, WorkerLabels
  <2>5. (\A g \in Callers : pc[g] \in CallerLabels) /\ \A k \in Workers : pc[k] \in WorkerLabels
    BY <1>2, Names DEF CallerLabels, WorkerLabels
  <2>6. fatal \in BOOLEAN  BY <1>1, Zenon
  <2>7. counter \in Nat /\ waiters \in Nat /\ net \in Int  BY <1>1
  <2> QED  BY <2>2, <2>3, <2>4, <2>5, <2>6, <2>7, Zenon DEF Types
<1>5. Counted  BY <1>1, <1>3, FS_EmptySet DEF Counted
<1>6. Looked  BY <1>3 DEF Looked
<1>7. Owed  BY <1>1, <1>3, FS_EmptySet DEF Owed
<1>8. IdleGroup /\ Waker  BY <1>1 DEF IdleGroup, Waker
<1>9. Queue  BY <1>1, <1>3 DEF Queue
<1> QED  BY <1>4, <1>5, <1>6, <1>7, <1>8, <1>9 DEF Inv

\* Only callers wait.
LEMMA WaitersCall ==
  ASSUME Types, NEW g \in G, pc[g] \in {"load", "register", "acquire", "parked"}
  PROVE  g \in Callers
BY Names DEF Types, WorkerLabels

\* The invariant is inductive: one step per action.
LEMMA StepInv == Inv /\ [Next]_vars => Inv'
<1> SUFFICES ASSUME Inv, [Next]_vars PROVE Inv'  OBVIOUS
<1>1. ASSUME NEW g \in G, Step(g) PROVE Inv'
  <2>1. Types  BY DEF Inv
  <2>2. WaitLoad(g) \/ WaitRegister(g) \/ WaitAcquire(g) => g \in Callers
    BY <2>1, WaitersCall DEF WaitLoad, WaitRegister, WaitAcquire
  <2> QED  BY <1>1, <2>2, ZeroStep, ReleaseStep, LoadStep, RegisterStep, AcquireStep DEF Step
<1>2. ASSUME NEW g \in Callers, AddNothing(g) \/ Wait(g) PROVE Inv'  BY <1>2, NothingStep, LoadStep
<1>3. ASSUME NEW g \in G, NEW k \in Workers, g # k, Go(g, k) PROVE Inv'  BY <1>3, GoStep
<1>4. ASSUME NEW k \in Workers, Done(k) PROVE Inv'  BY <1>4, DoneStep
<1>5. CASE UNCHANGED vars
  <2>1. Tasks' = Tasks /\ Blocked' = Blocked /\ Releasing' = Releasing
    BY <1>5 DEF vars, Tasks, Blocked, Releasing
  <2> QED  BY <1>5, <2>1 DEF vars, Inv, Types, Counted, Looked, Owed, IdleGroup, Waker, Queue
<1> QED  BY <1>1, <1>2, <1>3, <1>4, <1>5 DEF Next

\* The invariant holds in every state.
THEOREM AlwaysInv == Spec => []Inv
BY InitInv, StepInv, PTL DEF Spec

\* What is in flight is what the one who releases has left.
LEMMA InFlightIs ==
  ASSUME Types, \A g, h \in Releasing : g = h
  PROVE  /\ Releasing = {} => InFlight = 0
         /\ \A g \in Releasing : InFlight = seen[g].waiters
<1>1. Releasing = {} => InFlight = 0  BY DEF InFlight
<1>2. ASSUME NEW g \in Releasing PROVE InFlight = seen[g].waiters
  <2>1. (CHOOSE h \in Releasing : TRUE) \in Releasing  OBVIOUS
  <2>2. (CHOOSE h \in Releasing : TRUE) = g  BY <2>1
  <2> QED  BY <2>2 DEF InFlight
<1> QED  BY <1>1, <1>2

\* Every registered waiter is counted in the word, or covered by a credit or by the one
\* release in flight, and the waiters of an idle group have a waker.
THEOREM WaitersAreOwed == Spec => []NoStrandedWaiter
<1>1. Inv => NoStrandedWaiter
  <2> SUFFICES ASSUME Inv PROVE NoStrandedWaiter  OBVIOUS
  <2>1. Types /\ Owed /\ Waker  BY DEF Inv
  <2>2. \A g, h \in Releasing : g = h  BY <2>1 DEF Owed
  <2>3. Cardinality(Blocked) = waiters + sema.credit + InFlight
    <3>1. CASE Releasing = {}
      <4>1. waiters \in Nat /\ sema.credit \in Nat  BY <2>1, Fields DEF Types
      <4>2. Cardinality(Blocked) = waiters + sema.credit  BY <2>1, <3>1 DEF Owed
      <4>3. InFlight = 0  BY <2>1, <2>2, <3>1, InFlightIs
      <4> QED  BY <4>1, <4>2, <4>3
    <3>2. CASE Releasing # {}
      <4>1. PICK g \in Releasing : TRUE  BY <3>2
      <4>2. Cardinality(Blocked) = waiters + sema.credit + seen[g].waiters  BY <2>1, <4>1 DEF Owed
      <4>3. InFlight = seen[g].waiters  BY <2>1, <2>2, <4>1, InFlightIs
      <4> QED  BY <4>2, <4>3
    <3> QED  BY <3>1, <3>2
  <2>4. counter = 0 /\ waiters > 0 => \E g \in G : pc[g] = "zero"  BY <2>1 DEF Waker
  <2> QED  BY <2>2, <2>3, <2>4 DEF NoStrandedWaiter
<1> QED  BY AlwaysInv, <1>1, PTL

\* The counter never leaves its half of the word, and neither the waiters it registers
\* nor the credits of the semaphore outnumber the callers.
THEOREM TypeCorrect == Spec => []TypeOK
<1>1. Inv => TypeOK
  <2> SUFFICES ASSUME Inv PROVE TypeOK  OBVIOUS
  <2>1. Types /\ Counted /\ Owed  BY DEF Inv
  <2>2. counter \in 0..(2^Width - 1)
    <3>1. PICK b \in Nat : b = 2^Width  BY WGAssumption
    <3>2. counter \in Nat /\ counter <= Cardinality(Workers) /\ Cardinality(Workers) \in Nat /\ Cardinality(Workers) < b
      BY <2>1, <3>1, Finite, WGAssumption DEF Types, Counted
    <3>3. counter \in 0..(b - 1)  BY <3>2
    <3> QED  BY <3>1, <3>3
  <2>3. Cardinality(Blocked) <= Cardinality(Callers) /\ Cardinality(Blocked) \in Nat /\ Cardinality(Callers) \in Nat
    <3>1. Blocked \subseteq Callers  BY <2>1, WaitersCall DEF Blocked
    <3> HIDE DEF Blocked
    <3> QED  BY <3>1, FS_Subset, FS_CardinalityType, WGAssumption
  <2>4. waiters \in Nat /\ sema.credit \in Nat /\ waiters + sema.credit <= Cardinality(Blocked)
    <3>1. waiters \in Nat /\ sema.credit \in Nat  BY <2>1, Fields DEF Types
    <3>2. CASE Releasing = {}  BY <2>1, <3>1, <3>2 DEF Owed
    <3>3. CASE Releasing # {}
      <4>1. PICK g \in Releasing : TRUE  BY <3>3
      <4>2. g \in G /\ seen[g].waiters \in Nat  BY <2>1, Fields DEF Releasing
      <4>3. Cardinality(Blocked) = waiters + sema.credit + seen[g].waiters  BY <2>1 DEF Owed
      <4> QED  BY <3>1, <4>2, <4>3
    <3> QED  BY <3>1, <3>2, <3>3
  <2>5. waiters \in 0..Cardinality(Callers) /\ sema.credit \in 0..Cardinality(Callers)  BY <2>3, <2>4
  <2>6. sema \in [credit : 0..Cardinality(Callers), q : Seq(Callers)]
    <3>1. sema = [credit |-> sema.credit, q |-> sema.q] /\ sema.q \in Seq(Callers)  BY <2>1 DEF Types
    <3> QED  BY <2>5, <3>1
  <2>7. pc \in [G -> {"idle", "unborn", "task", "zero", "release", "load", "register", "acquire", "parked"}]
    BY <2>1 DEF Types, CallerLabels, WorkerLabels
  <2>8. seen \in [G -> [counter : Nat, waiters : Nat]]  BY <2>1 DEF Types, Word
  <2>9. net \in Int /\ fatal \in BOOLEAN  BY <2>1, Zenon DEF Types
  <2> QED  BY <2>2, <2>5, <2>6, <2>7, <2>8, <2>9, Zenon DEF TypeOK
<1> QED  BY AlwaysInv, <1>1, PTL

\* A step ends a Wait only when all tasks are done.
LEMMA WaitEnds ==
  ASSUME Inv, Next, NEW g \in Callers, pc[g] \in {"load", "acquire", "parked"}, pc'[g] = "idle"
  PROVE  net = 0
<1>0. /\ Types /\ Counted /\ Looked /\ Owed /\ IdleGroup /\ Queue /\ g \in G /\ g \notin Workers
      /\ pc \in [G -> CallerLabels \cup WorkerLabels] /\ net = counter
      /\ pc[g] # "idle" /\ pc'[g] # pc[g]
  BY Names DEF Inv, Types, Counted
<1> SUFFICES counter = 0  BY <1>0
<1>1. ASSUME NEW h \in G, WaitLoad(h) PROVE counter = 0
  <2>1. pc' = [pc EXCEPT ![h] = IF counter = 0 THEN "idle" ELSE "register"]  BY <1>1 DEF WaitLoad, Goto, AsI64
  <2> QED  BY <1>0, <2>1
<1>2. ASSUME NEW h \in G, WaitRegister(h) PROVE counter = 0
  <2>1. pc' = [pc EXCEPT ![h] = "acquire"] \/ pc' = [pc EXCEPT ![h] = "load"]  BY <1>2 DEF WaitRegister, Goto
  <2> QED  BY <1>0, <2>1
<1>3. ASSUME NEW h \in G, WaitAcquire(h) PROVE counter = 0
  <2>1. CASE HasCredit(sema)  BY <1>0, <2>1 DEF HasCredit, IdleGroup
  <2>2. CASE ~HasCredit(sema)
    <3>1. pc' = [pc EXCEPT ![h] = "parked"]  BY <1>3, <2>2 DEF WaitAcquire, Goto
    <3> QED  BY <1>0, <3>1
  <2> QED  BY <2>1, <2>2
<1>4. ASSUME NEW h \in G, AddRelease(h) PROVE counter = 0
  <2>1. h \in Releasing  BY <1>4 DEF AddRelease, Releasing
  <2> QED  BY <1>0, <2>1 DEF IdleGroup
<1>5. ASSUME NEW h \in G, AddZeroSwap(h) PROVE counter = 0
  <2>1. pc[h] = "zero" /\ (pc' = [pc EXCEPT ![h] = "release"] \/ pc' = [pc EXCEPT ![h] = Home(h)])
    BY <1>5 DEF AddZeroSwap, Goto
  <2> QED  BY <1>0, <2>1
<1>6. ASSUME NEW h \in Callers, AddNothing(h) \/ Wait(h) PROVE counter = 0
  <2>1. pc[h] = "idle" /\ (pc' = pc \/ pc' = [pc EXCEPT ![h] = "zero"] \/ pc' = [pc EXCEPT ![h] = "load"])
    BY <1>6 DEF AddNothing, Add, Wait, Goto
  <2> QED  BY <1>0, <2>1
<1>7. ASSUME NEW h \in G, NEW k \in Workers, Go(h, k) PROVE counter = 0
  <2>1. pc' = [pc EXCEPT ![k] = "task"] \/ pc' = [pc EXCEPT ![h] = "zero"]  BY <1>7 DEF Go, Add, Goto
  <2> QED  BY <1>0, <2>1
<1>8. ASSUME NEW k \in Workers, Done(k) PROVE counter = 0
  <2>1. pc' = [pc EXCEPT ![k] = "unborn"] \/ pc' = [pc EXCEPT ![k] = "zero"]  BY <1>8 DEF Done, Add, Goto
  <2> QED  BY <1>0, <2>1
<1> QED  BY <1>1, <1>2, <1>3, <1>4, <1>5, <1>6, <1>7, <1>8 DEF Next, Step

\* A blocked Wait, and with it the drop of the WaitGroup, returns only when every task
\* that was added is done.
THEOREM WaitReturnsAtZero == Spec => WaitMeansZero
<1>1. ASSUME Inv, [Next]_vars
      PROVE  [\A g \in Callers : pc[g] \in {"load", "acquire", "parked"} /\ pc'[g] = "idle" => net = 0]_vars
  <2>1. CASE Next  BY <1>1, <2>1, WaitEnds
  <2>2. CASE UNCHANGED vars  BY <2>2
  <2> QED  BY <1>1, <2>1, <2>2
<1> QED  BY AlwaysInv, <1>1, PTL DEF Spec, WaitMeansZero

-----------------------------------------------------------------------------
(* Cond: numbers that wrap.                                                *)

HalfRange == 2^(TicketWidth - 1)

\* The number of tickets is twice the half range.
LEMMA Range2 ==
  /\ HalfRange \in Nat \ {0} /\ 2^TicketWidth = 2 * HalfRange /\ 2^TicketWidth \in Nat
  /\ Tickets = 0..(2 * HalfRange - 1)
<1>1. HalfRange \in Nat \ {0} /\ 2^TicketWidth = 2 * HalfRange  BY CondAssumption DEF HalfRange
<1> HIDE DEF HalfRange
<1> QED  BY <1>1 DEF Tickets

\* What Wrap computes, one turn below and one above the range.
LEMMA WrapIs ==
  ASSUME NEW n \in Int
  PROVE  /\ 0 <= n /\ n < 2 * HalfRange => Wrap(n) = n
         /\ -(2 * HalfRange) <= n /\ n < 0 => Wrap(n) = n + 2 * HalfRange
         /\ 2 * HalfRange <= n /\ n < 4 * HalfRange => Wrap(n) = n - 2 * HalfRange
<1>1. PICK k \in Nat \ {0} : k = HalfRange  BY Range2
<1>2. PICK b \in Nat \ {0} : b = 2 * k  BY <1>1
<1>3. Wrap(n) = n % b  BY <1>1, <1>2, Range2 DEF Wrap
<1>4. 0 <= n /\ n < b => n % b = n  BY <1>2
<1>5. -b <= n /\ n < 0 => n % b = n + b  BY <1>2
<1>6. b <= n /\ n < 2 * b => n % b = n - b  BY <1>2
<1> QED  BY <1>1, <1>2, <1>3, <1>4, <1>5, <1>6

\* The distance from ticket b up to ticket a.
LEMMA DistIs ==
  ASSUME NEW a \in Tickets, NEW b \in Tickets
  PROVE  /\ a >= b => Wrap(a - b) = a - b
         /\ a < b => Wrap(a - b) = a - b + 2 * HalfRange
         /\ Wrap(a - b) \in Tickets /\ (Wrap(a - b) = 0 <=> a = b)
<1>1. PICK k \in Nat \ {0} : k = HalfRange  BY Range2
<1>2. a \in 0..(2 * k - 1) /\ b \in 0..(2 * k - 1) /\ Tickets = 0..(2 * k - 1)  BY <1>1, Range2
<1>3. PICK n \in Int : n = a - b  BY <1>2
<1>4. /\ 0 <= n /\ n < 2 * k => Wrap(n) = n
      /\ -(2 * k) <= n /\ n < 0 => Wrap(n) = n + 2 * k
  BY <1>1, WrapIs
<1>5. PICK d : d = Wrap(n)  OBVIOUS
<1>6. (a >= b => d = a - b) /\ (a < b => d = a - b + 2 * k) /\ d \in 0..(2 * k - 1) /\ (d = 0 <=> a = b)
  BY <1>2, <1>3, <1>4, <1>5
<1> QED  BY <1>1, <1>2, <1>3, <1>5, <1>6

\* The next ticket.
LEMMA SuccIs ==
  ASSUME NEW a \in Tickets
  PROVE  Wrap(a + 1) \in Tickets /\ Wrap(a + 1) = IF a = 2 * HalfRange - 1 THEN 0 ELSE a + 1
<1>1. PICK k \in Nat \ {0} : k = HalfRange  BY Range2
<1>2. a \in 0..(2 * k - 1) /\ Tickets = 0..(2 * k - 1)  BY <1>1, Range2
<1>3. PICK n \in Int : n = a + 1  BY <1>2
<1>4. /\ 0 <= n /\ n < 2 * k => Wrap(n) = n
      /\ 2 * k <= n /\ n < 4 * k => Wrap(n) = n - 2 * k
  BY <1>1, WrapIs
<1>5. PICK d : d = Wrap(n)  OBVIOUS
<1>6. d \in 0..(2 * k - 1) /\ d = IF a = 2 * k - 1 THEN 0 ELSE a + 1  BY <1>2, <1>3, <1>4, <1>5
<1> QED  BY <1>1, <1>2, <1>3, <1>5, <1>6

\* One more ticket makes every distance one longer.
LEMMA OneLonger ==
  ASSUME NEW a \in Tickets, NEW b \in Tickets, Wrap(a - b) < 2 * HalfRange - 1
  PROVE  Wrap(Wrap(a + 1) - b) = Wrap(a - b) + 1
<1>1. PICK k \in Nat \ {0} : k = HalfRange  BY Range2
<1>2. a \in 0..(2 * k - 1) /\ b \in 0..(2 * k - 1)  BY <1>1, Range2
<1>3. PICK c \in Tickets : c = Wrap(a + 1) /\ c = IF a = 2 * k - 1 THEN 0 ELSE a + 1  BY <1>1, SuccIs
<1>4. PICK d \in Tickets : d = Wrap(a - b) /\ (a >= b => d = a - b) /\ (a < b => d = a - b + 2 * k)
  BY <1>1, DistIs
<1>5. PICK e \in Tickets : e = Wrap(c - b) /\ (c >= b => e = c - b) /\ (c < b => e = c - b + 2 * k)
  BY <1>1, DistIs
<1>6. d < 2 * k - 1  BY <1>1, <1>4
<1>7. e = d + 1  BY <1>2, <1>3, <1>4, <1>5, <1>6
<1> QED  BY <1>3, <1>4, <1>5, <1>7

\* Notifying one more ticket brings the distance down by one.
LEMMA OneShorter ==
  ASSUME NEW a \in Tickets, NEW b \in Tickets, a # b
  PROVE  Wrap(a - Wrap(b + 1)) = Wrap(a - b) - 1
<1>1. PICK k \in Nat \ {0} : k = HalfRange  BY Range2
<1>2. a \in 0..(2 * k - 1) /\ b \in 0..(2 * k - 1)  BY <1>1, Range2
<1>3. PICK c \in Tickets : c = Wrap(b + 1) /\ c = IF b = 2 * k - 1 THEN 0 ELSE b + 1  BY <1>1, SuccIs
<1>4. PICK d \in Tickets : d = Wrap(a - b) /\ (a >= b => d = a - b) /\ (a < b => d = a - b + 2 * k)
  BY <1>1, DistIs
<1>5. PICK e \in Tickets : e = Wrap(a - c) /\ (a >= c => e = a - c) /\ (a < c => e = a - c + 2 * k)
  BY <1>1, DistIs
<1>6. e = d - 1  BY <1>2, <1>3, <1>4, <1>5
<1> QED  BY <1>3, <1>4, <1>5, <1>6

\* Tickets at the same distance are the same.
LEMMA SameDist ==
  ASSUME NEW a \in Tickets, NEW b \in Tickets, NEW c \in Tickets, Wrap(a - b) = Wrap(a - c)
  PROVE  b = c
<1>1. PICK k \in Nat \ {0} : k = HalfRange  BY Range2
<1>2. a \in 0..(2 * k - 1) /\ b \in 0..(2 * k - 1) /\ c \in 0..(2 * k - 1)  BY <1>1, Range2
<1>3. PICK d \in Tickets : d = Wrap(a - b) /\ (a >= b => d = a - b) /\ (a < b => d = a - b + 2 * k)
  BY <1>1, DistIs
<1>4. (a >= c => d = a - c) /\ (a < c => d = a - c + 2 * k)  BY <1>1, <1>3, DistIs
<1> QED  BY <1>2, <1>3, <1>4

\* less compares the distances from the newest ticket, as long as both lie within half
\* of the range.
LEMMA LessIs ==
  ASSUME NEW w \in Tickets, NEW t \in Tickets, NEW n \in Tickets,
         Wrap(w - t) \in 1..HalfRange, Wrap(w - n) \in 0..HalfRange
  PROVE  less(t, n) <=> Wrap(w - t) > Wrap(w - n)
<1>1. PICK k \in Nat \ {0} : k = HalfRange  BY Range2
<1>2. w \in 0..(2 * k - 1) /\ t \in 0..(2 * k - 1) /\ n \in 0..(2 * k - 1)  BY <1>1, Range2
<1>3. PICK d \in 1..k : d = Wrap(w - t) /\ (w >= t => d = w - t) /\ (w < t => d = w - t + 2 * k)
  BY <1>1, DistIs
<1>4. PICK e \in 0..k : e = Wrap(w - n) /\ (w >= n => e = w - n) /\ (w < n => e = w - n + 2 * k)
  BY <1>1, DistIs
<1>5. PICK f \in Tickets : f = Wrap(t - n) /\ (t >= n => f = t - n) /\ (t < n => f = t - n + 2 * k)
  BY <1>1, DistIs
<1>6. f >= k <=> d > e  BY <1>2, <1>3, <1>4, <1>5
<1>7. less(t, n) <=> f >= k  BY <1>1, <1>5 DEF less, HalfRange
<1> QED  BY <1>3, <1>4, <1>6, <1>7

\* The ticket i after b, where a is at least i ahead of b.
LEMMA Ahead ==
  ASSUME NEW a \in Tickets, NEW b \in Tickets, NEW i \in Nat, i <= Wrap(a - b)
  PROVE  Wrap(b + i) \in Tickets /\ Wrap(a - Wrap(b + i)) = Wrap(a - b) - i
<1>1. PICK k \in Nat \ {0} : k = HalfRange  BY Range2
<1>2. a \in 0..(2 * k - 1) /\ b \in 0..(2 * k - 1) /\ Tickets = 0..(2 * k - 1)  BY <1>1, Range2
<1>3. PICK d \in Tickets : d = Wrap(a - b) /\ (a >= b => d = a - b) /\ (a < b => d = a - b + 2 * k)
  BY <1>1, DistIs
<1>4. i <= d  BY <1>3
<1>5. PICK n \in Int : n = b + i  BY <1>2
<1>6. PICK c : c = Wrap(n)  OBVIOUS
<1>7. /\ 0 <= n /\ n < 2 * k => c = n
      /\ 2 * k <= n /\ n < 4 * k => c = n - 2 * k
  BY <1>1, <1>6, WrapIs
<1>8. c \in Tickets  BY <1>2, <1>3, <1>4, <1>5, <1>7
<1>9. PICK e \in Tickets : e = Wrap(a - c) /\ (a >= c => e = a - c) /\ (a < c => e = a - c + 2 * k)
  BY <1>1, <1>8, DistIs
<1>10. e = d - i  BY <1>2, <1>3, <1>4, <1>5, <1>7, <1>9
<1> QED  BY <1>3, <1>5, <1>6, <1>8, <1>9, <1>10

-----------------------------------------------------------------------------
(* Cond: the inductive invariant.                                          *)

\* How many tickets are handed out and not notified, and how long ago g took its own.
Behind == Wrap(wait - notify)
age == [g \in Parties |-> Wrap(wait - ticket[g])]

\* The tickets in use, and notify, lie within half of the range below wait.
Spaced == /\ Behind \in 0..HalfRange
          /\ \A g \in Parties : Holds(g) => age[g] \in 1..HalfRange

\* No two Waits hold the same ticket, and each ticket not notified is held by one.
OneTicket == \A g, h \in Parties : Holds(g) /\ Holds(h) /\ age[g] = age[h] => g = h
Covered == \A i \in 1..Behind : \E g \in Parties : Holds(g) /\ age[g] = i

\* The list holds those who are parked and not notified, once.
Listed == /\ \A i \in DOMAIN list : stage[list[i]] = "parked" /\ age[list[i]] <= Behind
          /\ \A i, j \in DOMAIN list : list[i] = list[j] => i = j
          /\ \A g \in Parties : stage[g] = "parked" /\ age[g] <= Behind
                => \E i \in DOMAIN list : list[i] = g

\* The notifiers hold those who are parked and notified, once.
Handed == /\ \A h \in Parties : chain[h] # << >> => stage[h] = "ready"
          /\ \A h \in Parties : \A i \in DOMAIN chain[h] :
                stage[chain[h][i]] = "parked" /\ age[chain[h][i]] > Behind
          /\ \A h, k \in Parties : \A i \in DOMAIN chain[h], j \in DOMAIN chain[k] :
                chain[h][i] = chain[k][j] => h = k /\ i = j
          /\ \A g \in Parties : stage[g] = "parked" /\ age[g] > Behind
                => \E h \in Parties : \E i \in DOMAIN chain[h] : chain[h][i] = g

\* Who is about to return has been notified.
Told == \A g \in Parties : stage[g] = "relock" => age[g] > Behind

\* Those who were pending when g called are in Wait still, with tickets that are older
\* than the one g has seen.
Promise == \A g \in Parties :
    /\ owed[g] # {} => stage[g] \in {"signal", "broadcast", "one", "all"}
    /\ \A h \in owed[g] : /\ Holds(h)
                          /\ stage[g] \in {"signal", "broadcast"} => Wrap(wait - sawWait[g]) < age[h]

CondInv == /\ CondTypeOK /\ Spaced /\ OneTicket /\ Covered /\ Listed /\ Handed /\ Told
           /\ Promise

-----------------------------------------------------------------------------
(* Cond: the steps.                                                        *)

InWait == {"unlock", "wait", "parked", "relock"}
Stages == {"idle", "locked", "unlock", "wait", "parked", "relock", "signal", "broadcast",
           "one", "all", "ready"}

\* What the types say of the pieces.
LEMMA CondPieces ==
  ASSUME CondTypeOK
  PROVE  /\ L \in Parties \cup {Nobody} /\ wait \in Tickets /\ notify \in Tickets /\ list \in Seq(Parties)
         /\ stage \in [Parties -> Stages] /\ ticket \in [Parties -> Tickets]
         /\ sawWait \in [Parties -> Tickets] /\ chain \in [Parties -> Seq(Parties)]
         /\ owed \in [Parties -> SUBSET Parties]
BY DEF CondTypeOK, Stages

\* The invariant without the types and the promise.
Ordered == Spaced /\ OneTicket /\ Covered /\ Listed /\ Handed /\ Told

\* Where the tickets stay the same, so do the distances.
LEMMA SameAges ==
  ASSUME UNCHANGED <<wait, notify, ticket>>
  PROVE  Behind' = Behind /\ age' = age
BY DEF Behind, age

\* The distances are tickets.
LEMMA AgesAre ==
  ASSUME CondTypeOK
  PROVE  /\ Behind \in Tickets /\ Behind \in Nat
         /\ \A g \in Parties : age[g] \in Tickets /\ age[g] \in Nat /\ age[g] = Wrap(wait - ticket[g])
<1>1. wait \in Tickets /\ notify \in Tickets /\ ticket \in [Parties -> Tickets]  BY CondPieces
<1>2. Tickets \subseteq Nat  BY Range2
<1>3. Behind \in Tickets  BY <1>1, DistIs DEF Behind
<1>4. ASSUME NEW g \in Parties PROVE age[g] \in Tickets /\ age[g] = Wrap(wait - ticket[g])
  <2>1. age[g] = Wrap(wait - ticket[g])  BY DEF age
  <2>2. ticket[g] \in Tickets  BY <1>1
  <2> QED  BY <1>1, <2>1, <2>2, DistIs
<1> QED  BY <1>2, <1>3, <1>4

\* A step that moves one goroutine, and neither into nor out of the list.
LEMMA QuietStep ==
  ASSUME CondTypeOK, Ordered, NEW g \in Parties, NEW x, stage' = [stage EXCEPT ![g] = x],
         UNCHANGED <<wait, notify, list, ticket, chain>>,
         stage[g] # "parked", x # "parked", stage[g] \in InWait <=> x \in InWait,
         x = "relock" => age[g] > Behind,
         chain[g] = << >> \/ x = "ready"
  PROVE  Ordered'
<1>1. /\ stage \in [Parties -> Stages] /\ list \in Seq(Parties) /\ chain \in [Parties -> Seq(Parties)]
      /\ Spaced /\ OneTicket /\ Covered /\ Listed /\ Handed /\ Told
  BY CondPieces DEF Ordered
<1>2. Behind' = Behind /\ age' = age  BY SameAges
<1>3. stage'[g] = x /\ \A h \in Parties : h # g => stage'[h] = stage[h]  BY <1>1
<1>4. \A h \in Parties : /\ stage'[h] \in InWait <=> stage[h] \in InWait
                         /\ stage'[h] = "parked" <=> stage[h] = "parked"
  BY <1>3
<1>5. Spaced'  BY <1>1, <1>2, <1>4 DEF Spaced, Holds, InWait
<1>6. OneTicket'  BY <1>1, <1>2, <1>4 DEF OneTicket, Holds, InWait
<1>7. Covered'  BY <1>1, <1>2, <1>4 DEF Covered, Holds, InWait
<1>8. Listed'
  <2>1. \A i \in DOMAIN list : list[i] \in Parties  BY <1>1
  <2> QED  BY <1>1, <1>2, <1>4, <2>1 DEF Listed
<1>9. Handed'
  <2>1. \A h \in Parties : \A i \in DOMAIN chain[h] : chain[h][i] \in Parties
    <3> TAKE h \in Parties
    <3>1. chain[h] \in Seq(Parties)  BY <1>1
    <3> QED  BY <3>1
  <2>2. \A h \in Parties : chain[h] # << >> => stage'[h] = "ready"  BY <1>1, <1>3 DEF Handed
  <2>3. /\ \A h \in Parties : \A i \in DOMAIN chain[h] :
              stage'[chain[h][i]] = "parked" /\ age[chain[h][i]] > Behind
        /\ \A h, k \in Parties : \A i \in DOMAIN chain[h], j \in DOMAIN chain[k] :
              chain[h][i] = chain[k][j] => h = k /\ i = j
        /\ \A h \in Parties : stage'[h] = "parked" /\ age[h] > Behind
              => \E k \in Parties : \E i \in DOMAIN chain[k] : chain[k][i] = h
    BY <1>1, <1>4, <2>1 DEF Handed
  <2>4. chain' = chain  OBVIOUS
  <2> QED  BY <1>2, <2>2, <2>3, <2>4 DEF Handed
<1>10. Told'  BY <1>1, <1>2, <1>3 DEF Told
<1> QED  BY <1>5, <1>6, <1>7, <1>8, <1>9, <1>10 DEF Ordered

\* Of the promises, those of others are left alone by a step that changes neither the
\* tickets nor who is in Wait.
LEMMA KeptPromises ==
  ASSUME CondTypeOK, Promise, NEW g \in Parties, UNCHANGED <<wait, notify, ticket>>,
         \A h \in Parties : stage[h] \in InWait => stage'[h] \in InWait,
         \A h \in Parties : h # g /\ owed[h] # {} => stage'[h] = stage[h],
         \A h \in Parties : h # g => owed'[h] = owed[h] /\ sawWait'[h] = sawWait[h],
         \/ owed'[g] = {}
         \/ /\ owed'[g] = owed[g]
            /\ stage'[g] \in {"one", "all"} \/ (stage'[g] = stage[g] /\ sawWait'[g] = sawWait[g])
  PROVE  Promise'
<1>1. Behind' = Behind /\ age' = age  BY SameAges
<1>2. owed \in [Parties -> SUBSET Parties]  BY CondPieces
<1>3. ASSUME NEW h \in Parties
      PROVE  /\ owed'[h] # {} => stage'[h] \in {"signal", "broadcast", "one", "all"}
             /\ \A k \in owed'[h] : /\ stage'[k] \in InWait
                                    /\ stage'[h] \in {"signal", "broadcast"} => Wrap(wait - sawWait'[h]) < age[k]
  <2>1. /\ owed[h] # {} => stage[h] \in {"signal", "broadcast", "one", "all"}
        /\ \A k \in owed[h] : /\ k \in Parties /\ stage[k] \in InWait
                              /\ stage[h] \in {"signal", "broadcast"} => Wrap(wait - sawWait[h]) < age[k]
    BY <1>2 DEF Promise, Holds, InWait
  <2>2. CASE h # g  BY <2>1, <2>2
  <2>3. CASE h = g  BY <2>1, <2>3
  <2> QED  BY <2>2, <2>3
<1> QED  BY <1>1, <1>3 DEF Promise, Holds, InWait

\* The types after a step that moves one goroutine.
LEMMA TypesAfter ==
  ASSUME CondTypeOK, NEW g \in Parties, NEW x \in Stages, stage' = [stage EXCEPT ![g] = x],
         L' \in Parties \cup {Nobody}, wait' \in Tickets, notify' \in Tickets, list' \in Seq(Parties),
         ticket' \in [Parties -> Tickets], sawWait' \in [Parties -> Tickets],
         chain' \in [Parties -> Seq(Parties)], owed' \in [Parties -> SUBSET Parties]
  PROVE  CondTypeOK'
<1>1. stage \in [Parties -> Stages]  BY CondPieces
<1>2. stage' \in [Parties -> Stages]  BY <1>1
<1> QED  BY <1>2 DEF CondTypeOK, Stages

\* L is released: by Unlock, or by Wait on its way to the list.
LEMMA ReleaseLStep ==
  ASSUME CondInv, NEW g \in Parties, UnlockL(g) \/ WaitUnlock(g)
  PROVE  CondInv'
<1>0. CondTypeOK /\ Ordered /\ Promise  BY DEF CondInv, Ordered
<1>1. /\ L \in Parties \cup {Nobody} /\ wait \in Tickets /\ notify \in Tickets /\ list \in Seq(Parties)
      /\ stage \in [Parties -> Stages] /\ ticket \in [Parties -> Tickets]
      /\ sawWait \in [Parties -> Tickets] /\ chain \in [Parties -> Seq(Parties)]
      /\ owed \in [Parties -> SUBSET Parties]
  BY <1>0, CondPieces
<1>2. L' = Nobody /\ UNCHANGED <<wait, notify, list, ticket, sawWait, chain, owed>>  BY DEF UnlockL, WaitUnlock
<1>3. PICK x \in {"idle", "wait"} : /\ stage' = [stage EXCEPT ![g] = x]
                                    /\ stage[g] = IF x = "idle" THEN "locked" ELSE "unlock"
  BY DEF UnlockL, WaitUnlock, Enter
<1>4. stage'[g] = x /\ \A h \in Parties : h # g => stage'[h] = stage[h]  BY <1>1, <1>3
<1>5. chain[g] = << >> /\ owed[g] = {}  BY <1>0, <1>3 DEF Ordered, Handed, Promise
<1>6. Ordered'
  <2>1. stage[g] # "parked" /\ x # "parked" /\ x # "relock" /\ (stage[g] \in InWait <=> x \in InWait)
    BY <1>3 DEF InWait
  <2> QED  BY <1>0, <1>2, <1>3, <1>5, <2>1, QuietStep
<1>7. Promise'
  <2>1. \A h \in Parties : stage[h] \in InWait => stage'[h] \in InWait  BY <1>3, <1>4 DEF InWait
  <2> QED  BY <1>0, <1>2, <1>4, <1>5, <2>1, KeptPromises
<1>8. CondTypeOK'
  <2>1. x \in Stages  BY DEF Stages
  <2> QED  BY <1>0, <1>1, <1>2, <1>3, <2>1, TypesAfter
<1> QED  BY <1>6, <1>7, <1>8 DEF CondInv, Ordered

\* A notifier starts: it has seen wait, and those who are pending are owed something.
LEMMA NotifyCallStep ==
  ASSUME CondInv, NEW g \in Parties, NEW how \in {"signal", "broadcast"}, Notify(g, how)
  PROVE  CondInv'
<1>0. CondTypeOK /\ Ordered /\ Promise  BY DEF CondInv, Ordered
<1>1. /\ L \in Parties \cup {Nobody} /\ wait \in Tickets /\ notify \in Tickets /\ list \in Seq(Parties)
      /\ stage \in [Parties -> Stages] /\ ticket \in [Parties -> Tickets]
      /\ sawWait \in [Parties -> Tickets] /\ chain \in [Parties -> Seq(Parties)]
      /\ owed \in [Parties -> SUBSET Parties]
  BY <1>0, CondPieces
<1>2. /\ UNCHANGED <<L, wait, notify, list, ticket, chain>> /\ stage' = [stage EXCEPT ![g] = how]
      /\ stage[g] \in {"idle", "locked"} /\ sawWait' = [sawWait EXCEPT ![g] = wait]
      /\ owed' = [owed EXCEPT ![g] = {h \in Parties : Pending(h)}]
  BY DEF Notify, Enter
<1>3. stage'[g] = how /\ \A h \in Parties : h # g => stage'[h] = stage[h]  BY <1>1, <1>2
<1>4. /\ sawWait'[g] = wait /\ owed'[g] = {h \in Parties : Pending(h)}
      /\ \A h \in Parties : h # g => sawWait'[h] = sawWait[h] /\ owed'[h] = owed[h]
  BY <1>1, <1>2
<1>5. chain[g] = << >>  BY <1>0, <1>2 DEF Ordered, Handed
<1>6. Ordered'
  <2>1. stage[g] # "parked" /\ how # "parked" /\ how # "relock" /\ (stage[g] \in InWait <=> how \in InWait)
    BY <1>2 DEF InWait
  <2> QED  BY <1>0, <1>2, <1>5, <2>1, QuietStep
<1>7. Promise'
  <2>1. age' = age  BY <1>2, SameAges
  <2>2. ASSUME NEW h \in Parties
        PROVE  /\ owed'[h] # {} => stage'[h] \in {"signal", "broadcast", "one", "all"}
               /\ \A k \in owed'[h] : /\ stage'[k] \in InWait
                                      /\ stage'[h] \in {"signal", "broadcast"} => Wrap(wait - sawWait'[h]) < age[k]
    <3>1. CASE h # g
      <4>1. /\ owed[h] # {} => stage[h] \in {"signal", "broadcast", "one", "all"}
            /\ \A k \in owed[h] : /\ k \in Parties /\ stage[k] \in InWait
                                  /\ stage[h] \in {"signal", "broadcast"} => Wrap(wait - sawWait[h]) < age[k]
        BY <1>0, <1>1 DEF Promise, Holds, InWait
      <4>2. \A k \in Parties : stage[k] \in InWait => stage'[k] = stage[k]  BY <1>2, <1>3 DEF InWait
      <4> QED  BY <1>3, <1>4, <3>1, <4>1, <4>2
    <3>2. CASE h = g
      <4>1. Wrap(wait - wait) = 0  BY <1>1, DistIs
      <4>2. ASSUME NEW k \in owed'[g] PROVE k \in Parties /\ stage[k] \in InWait /\ age[k] > 0 /\ k # g
        <5>1. k \in Parties /\ Pending(k)  BY <1>4, <4>2
        <5>2. stage[k] \in InWait  BY <5>1 DEF Pending, Holds, InWait
        <5>3. age[k] > 0  BY <1>0, <5>1, <5>2, Range2 DEF Ordered, Spaced, Holds, InWait
        <5> QED  BY <1>2, <5>1, <5>2, <5>3 DEF InWait
      <4> QED  BY <1>3, <1>4, <3>2, <4>1, <4>2
    <3> QED  BY <3>1, <3>2
  <2> QED  BY <1>2, <2>1, <2>2 DEF Promise, Holds, InWait
<1>8. CondTypeOK'
  <2>1. how \in Stages  BY DEF Stages
  <2>2. sawWait' \in [Parties -> Tickets]  BY <1>1, <1>2
  <2>3. owed' \in [Parties -> SUBSET Parties]  BY <1>1, <1>2
  <2> QED  BY <1>0, <1>1, <1>2, <2>1, <2>2, <2>3, TypesAfter
<1> QED  BY <1>6, <1>7, <1>8 DEF CondInv, Ordered

\* Where a notifier goes when it is done.
LEMMA BackIs ==
  ASSUME NEW g
  PROVE  Back(g) \in {"idle", "locked"} /\ Back(g) \in Stages
BY DEF Back, Stages

\* A notifier leaves by the fast path or goes on to the lock; NotifyOne finds no ticket to
\* notify; a notifier has readied the whole of its chain.
LEMMA NotifierMoves ==
  ASSUME CondInv, NEW g \in Parties, NEW x \in {"idle", "locked", "one", "all"},
         stage[g] \in {"signal", "broadcast", "one", "ready"},
         stage' = [stage EXCEPT ![g] = x], UNCHANGED <<L, wait, notify, list, ticket, chain>>,
         chain[g] = << >>,
         sawWait' \in [Parties -> Tickets], \A h \in Parties : h # g => sawWait'[h] = sawWait[h],
         \/ owed' = [owed EXCEPT ![g] = {}]
         \/ owed' = owed /\ (owed[g] = {} \/ x \in {"one", "all"})
  PROVE  CondInv'
<1>0. CondTypeOK /\ Ordered /\ Promise  BY DEF CondInv, Ordered
<1>1. /\ L \in Parties \cup {Nobody} /\ wait \in Tickets /\ notify \in Tickets /\ list \in Seq(Parties)
      /\ stage \in [Parties -> Stages] /\ ticket \in [Parties -> Tickets]
      /\ sawWait \in [Parties -> Tickets] /\ chain \in [Parties -> Seq(Parties)]
      /\ owed \in [Parties -> SUBSET Parties]
  BY <1>0, CondPieces
<1>2. stage'[g] = x /\ \A h \in Parties : h # g => stage'[h] = stage[h]  BY <1>1
<1>3. /\ owed' \in [Parties -> SUBSET Parties] /\ \A h \in Parties : h # g => owed'[h] = owed[h]
      /\ owed'[g] = {} \/ (owed'[g] = owed[g] /\ x \in {"one", "all"})
  BY <1>1
<1>4. Ordered'
  <2>1. stage[g] # "parked" /\ x # "parked" /\ x # "relock" /\ (stage[g] \in InWait <=> x \in InWait)
    BY DEF InWait
  <2> QED  BY <1>0, <2>1, QuietStep
<1>5. Promise'
  <2>1. \A h \in Parties : stage[h] \in InWait => stage'[h] \in InWait  BY <1>2 DEF InWait
  <2> QED  BY <1>0, <1>2, <1>3, <2>1, KeptPromises
<1>6. CondTypeOK'
  <2>1. x \in Stages  BY DEF Stages
  <2> QED  BY <1>0, <1>1, <1>3, <2>1, TypesAfter
<1> QED  BY <1>4, <1>5, <1>6 DEF CondInv, Ordered

\* The fast path, taken or not.
LEMMA FastPathStep ==
  ASSUME CondInv, NEW g \in Parties, FastPath(g)
  PROVE  CondInv'
<1>0. CondTypeOK /\ Ordered  BY DEF CondInv, Ordered
<1>1. /\ stage[g] \in {"signal", "broadcast"} /\ UNCHANGED <<L, wait, notify, list, ticket, chain>>
      /\ sawWait' = [sawWait EXCEPT ![g] = 0]
  BY DEF FastPath
<1>2. \E x \in {"idle", "locked", "one", "all"} :
        /\ stage' = [stage EXCEPT ![g] = x]
        /\ \/ owed' = [owed EXCEPT ![g] = {}]
           \/ owed' = owed /\ x \in {"one", "all"}
  <2>1. CASE NoneNew(g)  BY <2>1, BackIs DEF FastPath, Enter
  <2>2. CASE ~NoneNew(g)
    <3>1. PICK x \in {"one", "all"} : x = IF stage[g] = "signal" THEN "one" ELSE "all"  OBVIOUS
    <3>2. stage' = [stage EXCEPT ![g] = x] /\ owed' = owed  BY <2>2, <3>1 DEF FastPath, Enter
    <3> QED  BY <3>2
  <2> QED  BY <2>1, <2>2
<1>3. sawWait' \in [Parties -> Tickets] /\ \A h \in Parties : h # g => sawWait'[h] = sawWait[h]
  <2>1. sawWait \in [Parties -> Tickets] /\ 0 \in Tickets  BY <1>0, CondPieces, Range2
  <2> QED  BY <1>1, <2>1
<1>4. chain[g] = << >>  BY <1>0, <1>1 DEF Ordered, Handed
<1>5. PICK x \in {"idle", "locked", "one", "all"} :
        /\ stage' = [stage EXCEPT ![g] = x]
        /\ \/ owed' = [owed EXCEPT ![g] = {}]
           \/ owed' = owed /\ x \in {"one", "all"}
  BY <1>2
<1> QED  BY <1>1, <1>3, <1>4, <1>5, NotifierMoves

\* L is taken: by Lock, or by a Wait that has been notified and returns.
LEMMA LockLStep ==
  ASSUME CondInv, NEW g \in Parties, LockL(g)
  PROVE  CondInv'
<1>0. CondTypeOK /\ Ordered /\ Promise  BY DEF CondInv, Ordered
<1>1. /\ L \in Parties \cup {Nobody} /\ wait \in Tickets /\ notify \in Tickets /\ list \in Seq(Parties)
      /\ stage \in [Parties -> Stages] /\ ticket \in [Parties -> Tickets]
      /\ sawWait \in [Parties -> Tickets] /\ chain \in [Parties -> Seq(Parties)]
      /\ owed \in [Parties -> SUBSET Parties] /\ 0 \in Tickets
      /\ Spaced /\ OneTicket /\ Covered /\ Listed /\ Handed /\ Told
  BY <1>0, CondPieces, Range2 DEF Ordered
<1>2. /\ stage[g] \in {"idle", "relock"} /\ L' = g /\ stage' = [stage EXCEPT ![g] = "locked"]
      /\ ticket' = [ticket EXCEPT ![g] = 0] /\ owed' = [h \in Parties |-> owed[h] \ {g}]
      /\ UNCHANGED <<wait, notify, list, sawWait, chain>>
  BY DEF LockL, Enter
<1>3. stage'[g] = "locked" /\ \A h \in Parties : h # g => stage'[h] = stage[h]  BY <1>1, <1>2
<1>4. Behind' = Behind  BY <1>2 DEF Behind
<1>5. \A h \in Parties : h # g => age'[h] = age[h]  BY <1>1, <1>2 DEF age
<1>6. chain[g] = << >> /\ owed[g] = {}  BY <1>0, <1>2 DEF Ordered, Handed, Promise
<1>7. stage'[g] \notin InWait /\ stage'[g] # "parked"  BY <1>3 DEF InWait
<1>8. \A h \in Parties : stage'[h] \in InWait => h # g /\ stage[h] \in InWait /\ age'[h] = age[h]
  BY <1>3, <1>5, <1>7
<1>9. Spaced'  BY <1>1, <1>4, <1>8 DEF Spaced, Holds, InWait
<1>10. OneTicket'  BY <1>1, <1>8 DEF OneTicket, Holds, InWait
<1>11. Covered'
  <2> SUFFICES ASSUME NEW i \in 1..Behind
               PROVE  \E h \in Parties : stage'[h] \in InWait /\ age'[h] = i
    BY <1>4 DEF Covered, Holds, InWait
  <2>1. PICK h \in Parties : stage[h] \in InWait /\ age[h] = i  BY <1>1 DEF Covered, Holds, InWait
  <2>2. h # g
    <3>1. i <= Behind /\ ~(i > Behind)  BY <1>0, AgesAre
    <3> QED  BY <1>1, <1>2, <2>1, <3>1 DEF Told, InWait
  <2> QED  BY <1>3, <1>5, <2>1, <2>2
<1>12. Listed'
  <2>1. \A i \in DOMAIN list : list[i] \in Parties /\ list[i] # g  BY <1>1, <1>2 DEF Listed
  <2>2. \A i \in DOMAIN list : stage'[list[i]] = stage[list[i]] /\ age'[list[i]] = age[list[i]]
    BY <1>3, <1>5, <2>1
  <2>3. \A h \in Parties : stage'[h] = "parked" => h # g /\ stage[h] = "parked" /\ age'[h] = age[h]
    BY <1>3, <1>5, <1>7
  <2>4. Listed /\ list' = list  BY <1>1, <1>2
  <2>5. \A i \in DOMAIN list : stage'[list[i]] = "parked" /\ age'[list[i]] <= Behind  BY <2>2, <2>4 DEF Listed
  <2>6. \A h \in Parties : stage'[h] = "parked" /\ age'[h] <= Behind => \E i \in DOMAIN list : list[i] = h
    BY <2>3, <2>4 DEF Listed
  <2> QED  BY <1>4, <2>4, <2>5, <2>6 DEF Listed
<1>13. Handed'
  <2>1. \A h \in Parties : \A i \in DOMAIN chain[h] : chain[h][i] \in Parties /\ chain[h][i] # g
    <3> TAKE h \in Parties
    <3>1. chain[h] \in Seq(Parties)  BY <1>1
    <3> QED  BY <1>1, <1>2, <3>1 DEF Handed
  <2>2. \A h \in Parties : chain[h] # << >> => stage'[h] = "ready"  BY <1>1, <1>3, <1>6 DEF Handed
  <2>3. /\ \A h \in Parties : \A i \in DOMAIN chain[h] :
              stage'[chain[h][i]] = "parked" /\ age'[chain[h][i]] > Behind
        /\ \A h, k \in Parties : \A i \in DOMAIN chain[h], j \in DOMAIN chain[k] :
              chain[h][i] = chain[k][j] => h = k /\ i = j
    <3>1. \A h \in Parties : \A i \in DOMAIN chain[h] :
            stage'[chain[h][i]] = stage[chain[h][i]] /\ age'[chain[h][i]] = age[chain[h][i]]
      BY <1>3, <1>5, <2>1
    <3>2. Handed  BY <1>1
    <3> QED  BY <3>1, <3>2 DEF Handed
  <2>4. \A h \in Parties : stage'[h] = "parked" /\ age'[h] > Behind
              => \E k \in Parties : \E i \in DOMAIN chain[k] : chain[k][i] = h
    BY <1>1, <1>3, <1>5, <1>7 DEF Handed
  <2>5. chain' = chain  BY <1>2
  <2> QED  BY <1>4, <2>2, <2>3, <2>4, <2>5 DEF Handed
<1>14. Told'
  <2> SUFFICES ASSUME NEW h \in Parties, stage'[h] = "relock" PROVE age'[h] > Behind
    BY <1>4 DEF Told
  <2>1. h # g  BY <1>3
  <2> QED  BY <1>1, <1>3, <1>5, <2>1 DEF Told
<1>15. Promise'
  <2> SUFFICES ASSUME NEW h \in Parties
               PROVE  /\ owed'[h] # {} => stage'[h] \in {"signal", "broadcast", "one", "all"}
                      /\ \A k \in owed'[h] : /\ stage'[k] \in InWait
                                             /\ stage'[h] \in {"signal", "broadcast"} => Wrap(wait - sawWait[h]) < age'[k]
    BY <1>2 DEF Promise, Holds, InWait
  <2>1. owed'[h] = owed[h] \ {g}  BY <1>2
  <2>2. /\ owed[h] # {} => stage[h] \in {"signal", "broadcast", "one", "all"}
        /\ \A k \in owed[h] : /\ k \in Parties /\ stage[k] \in InWait
                              /\ stage[h] \in {"signal", "broadcast"} => Wrap(wait - sawWait[h]) < age[k]
    BY <1>0, <1>1 DEF Promise, Holds, InWait
  <2>3. CASE h = g  BY <1>6, <2>1, <2>3
  <2>4. CASE h # g
    <3>1. stage'[h] = stage[h]  BY <1>3, <2>4
    <3>2. \A k \in owed'[h] : k \in owed[h] /\ k # g /\ k \in Parties  BY <2>1, <2>2
    <3>3. \A k \in owed'[h] : stage'[k] = stage[k] /\ age'[k] = age[k]  BY <1>3, <1>5, <3>2
    <3> QED  BY <2>1, <2>2, <3>1, <3>2, <3>3
  <2> QED  BY <2>3, <2>4
<1>16. CondTypeOK'
  <2>1. "locked" \in Stages  BY DEF Stages
  <2>2. ticket' \in [Parties -> Tickets]  BY <1>1, <1>2
  <2>3. owed' \in [Parties -> SUBSET Parties]  BY <1>1, <1>2
  <2>4. L' \in Parties \cup {Nobody}  BY <1>2
  <2> QED  BY <1>0, <1>1, <1>2, <2>1, <2>2, <2>3, <2>4, TypesAfter
<1> QED  BY <1>9, <1>10, <1>11, <1>12, <1>13, <1>14, <1>15, <1>16 DEF CondInv

\* A Wait takes the next ticket: the others get older by one.
LEMMA ListAddStep ==
  ASSUME CondInv, NEW g \in Parties, ListAdd(g)
  PROVE  /\ CondInv' /\ Behind' = Behind + 1 /\ age'[g] = 1
         /\ \A h \in Parties : stage[h] \in InWait => h # g /\ stage'[h] = stage[h] /\ age'[h] = age[h] + 1
         /\ stage'[g] = "unlock" /\ stage[g] = "locked" /\ \A h \in Parties : h # g => stage'[h] = stage[h]
<1>0. CondTypeOK /\ Ordered /\ Promise  BY DEF CondInv, Ordered
<1>1. /\ L \in Parties \cup {Nobody} /\ wait \in Tickets /\ notify \in Tickets /\ list \in Seq(Parties)
      /\ stage \in [Parties -> Stages] /\ ticket \in [Parties -> Tickets]
      /\ sawWait \in [Parties -> Tickets] /\ chain \in [Parties -> Seq(Parties)]
      /\ owed \in [Parties -> SUBSET Parties]
      /\ Spaced /\ OneTicket /\ Covered /\ Listed /\ Handed /\ Told
  BY <1>0, CondPieces DEF Ordered
<1>2. /\ stage[g] = "locked" /\ CloseBy /\ stage' = [stage EXCEPT ![g] = "unlock"]
      /\ ticket' = [ticket EXCEPT ![g] = wait] /\ wait' = Wrap(wait + 1)
      /\ UNCHANGED <<L, notify, list, sawWait, chain, owed>>
  BY DEF ListAdd, Enter
<1>3. stage'[g] = "unlock" /\ \A h \in Parties : h # g => stage'[h] = stage[h]  BY <1>1, <1>2
<1>4. PICK k \in Nat \ {0} : k = HalfRange  BY Range2
<1>5. /\ Behind \in Nat /\ \A h \in Parties : age[h] \in Nat /\ age[h] \in Tickets /\ age[h] = Wrap(wait - ticket[h])
      /\ Tickets = 0..(2 * k - 1)
  BY <1>0, <1>4, AgesAre, Range2
<1>6. \A h \in Parties : stage[h] \in InWait => h # g /\ age[h] >= 1 /\ age[h] < k - 1
  <2> SUFFICES ASSUME NEW h \in Parties, stage[h] \in InWait PROVE h # g /\ age[h] >= 1 /\ age[h] < k - 1
    OBVIOUS
  <2>1. age[h] >= 1  BY <1>1, <1>4 DEF Spaced, Holds, InWait
  <2>2. age[h] < k - 1  BY <1>2, <1>4, <1>5 DEF CloseBy, Holds, InWait, HalfRange
  <2> QED  BY <1>2, <2>1, <2>2 DEF InWait
<1>7. Behind < k
  <2>1. CASE Behind = 0  BY <1>4, <2>1
  <2>2. CASE Behind > 0
    <3>0. Behind \in 1..Behind /\ Covered  BY <1>1, <1>5, <2>2
    <3>1. PICK h \in Parties : stage[h] \in InWait /\ age[h] = Behind
      BY <3>0 DEF Covered, Holds, InWait
    <3> QED  BY <1>4, <1>5, <1>6, <3>1
  <2> QED  BY <1>5, <2>1, <2>2
<1>8. Behind' = Behind + 1
  <2>1. Behind' = Wrap(Wrap(wait + 1) - notify)  BY <1>2 DEF Behind
  <2>2. Wrap(wait - notify) < 2 * HalfRange - 1  BY <1>4, <1>5, <1>7 DEF Behind
  <2> QED  BY <1>1, <2>1, <2>2, OneLonger DEF Behind
<1>9. ASSUME NEW h \in Parties, stage[h] \in InWait
      PROVE  h # g /\ stage'[h] = stage[h] /\ age'[h] = age[h] + 1
  <2>1. h # g /\ age[h] < k - 1  BY <1>6, <1>9
  <2>2. age'[h] = Wrap(Wrap(wait + 1) - ticket[h])
    <3>1. age'[h] = Wrap(wait' - ticket'[h])  BY DEF age
    <3>2. ticket'[h] = ticket[h]  BY <1>1, <1>2, <2>1
    <3> QED  BY <1>2, <3>1, <3>2
  <2>3. Wrap(wait - ticket[h]) < 2 * HalfRange - 1  BY <1>4, <1>5, <2>1
  <2>4. ticket[h] \in Tickets  BY <1>1
  <2>5. age'[h] = Wrap(wait - ticket[h]) + 1  BY <1>1, <2>2, <2>3, <2>4, OneLonger
  <2> QED  BY <1>3, <1>5, <2>1, <2>5
<1>10. age'[g] = 1
  <2>1. age'[g] = Wrap(wait' - ticket'[g])  BY DEF age
  <2>2. ticket'[g] = wait  BY <1>1, <1>2
  <2>3. age'[g] = Wrap(Wrap(wait + 1) - wait)  BY <1>2, <2>1, <2>2
  <2>4. Wrap(wait - wait) = 0  BY <1>1, DistIs
  <2>5. Wrap(wait - wait) < 2 * HalfRange - 1  BY <1>4, <2>4
  <2> QED  BY <1>1, <2>3, <2>4, <2>5, OneLonger
<1>11. \A h \in Parties : stage'[h] \in InWait <=> h = g \/ stage[h] \in InWait
  BY <1>2, <1>3 DEF InWait
<1>12. Spaced'
  <2>1. Behind' \in 0..k  BY <1>5, <1>7, <1>8
  <2>2. \A h \in Parties : stage'[h] \in InWait => age'[h] \in 1..k
    <3> SUFFICES ASSUME NEW h \in Parties, stage'[h] \in InWait PROVE age'[h] \in 1..k  OBVIOUS
    <3>1. CASE h = g  BY <1>4, <1>10, <3>1
    <3>2. CASE h # g  BY <1>4, <1>5, <1>6, <1>9, <1>11, <3>2
    <3> QED  BY <3>1, <3>2
  <2>3. HalfRange' = HalfRange  BY DEF HalfRange
  <2> QED  BY <1>4, <2>1, <2>2, <2>3 DEF Spaced, Holds, InWait
<1>13. OneTicket'
  <2> SUFFICES ASSUME NEW a \in Parties, NEW b \in Parties, stage'[a] \in InWait, stage'[b] \in InWait,
                      age'[a] = age'[b]
               PROVE  a = b
    BY DEF OneTicket, Holds, InWait
  <2>1. CASE a = g \/ b = g  BY <1>5, <1>6, <1>9, <1>10, <1>11, <2>1
  <2>2. CASE a # g /\ b # g
    <3>1. stage[a] \in InWait /\ stage[b] \in InWait  BY <1>11, <2>2
    <3>2. age[a] = age[b]  BY <1>5, <1>9, <3>1
    <3> QED  BY <1>1, <3>1, <3>2 DEF OneTicket, Holds, InWait
  <2> QED  BY <2>1, <2>2
<1>14. Covered'
  <2> SUFFICES ASSUME NEW i \in 1..(Behind + 1)
               PROVE  \E h \in Parties : stage'[h] \in InWait /\ age'[h] = i
    BY <1>8 DEF Covered, Holds, InWait
  <2>1. CASE i = 1  BY <1>10, <1>11, <2>1
  <2>2. CASE i # 1
    <3>1. i - 1 \in 1..Behind  BY <1>5, <2>2
    <3>2. PICK h \in Parties : stage[h] \in InWait /\ age[h] = i - 1  BY <1>1, <3>1 DEF Covered, Holds, InWait
    <3> QED  BY <1>9, <1>11, <3>2
  <2> QED  BY <2>1, <2>2
<1>15. \A h \in Parties : /\ stage'[h] = "parked" <=> stage[h] = "parked"
                          /\ stage[h] = "parked" => (age'[h] <= Behind' <=> age[h] <= Behind)
                          /\ stage[h] = "parked" => (age'[h] > Behind' <=> age[h] > Behind)
  <2> TAKE h \in Parties
  <2>1. stage'[h] = "parked" <=> stage[h] = "parked"  BY <1>2, <1>3
  <2>2. ASSUME stage[h] = "parked" PROVE age'[h] = age[h] + 1  BY <1>9, <2>2 DEF InWait
  <2> QED  BY <1>5, <1>8, <2>1, <2>2
<1>16. Listed'
  <2>1. \A i \in DOMAIN list : list[i] \in Parties  BY <1>1
  <2> QED  BY <1>1, <1>2, <1>15, <2>1 DEF Listed
<1>17. Handed'
  <2>1. \A h \in Parties : \A i \in DOMAIN chain[h] : chain[h][i] \in Parties
    <3> TAKE h \in Parties
    <3>1. chain[h] \in Seq(Parties)  BY <1>1
    <3> QED  BY <3>1
  <2>2. \A h \in Parties : chain[h] # << >> => stage'[h] = "ready"  BY <1>1, <1>2, <1>3 DEF Handed
  <2>3. /\ \A h \in Parties : \A i \in DOMAIN chain[h] :
              stage'[chain[h][i]] = "parked" /\ age'[chain[h][i]] > Behind'
        /\ \A h, j \in Parties : \A i \in DOMAIN chain[h], n \in DOMAIN chain[j] :
              chain[h][i] = chain[j][n] => h = j /\ i = n
    BY <1>1, <1>15, <2>1 DEF Handed
  <2>4. \A h \in Parties : stage'[h] = "parked" /\ age'[h] > Behind'
              => \E j \in Parties : \E i \in DOMAIN chain[j] : chain[j][i] = h
    BY <1>1, <1>15 DEF Handed
  <2>5. chain' = chain  BY <1>2
  <2> QED  BY <2>2, <2>3, <2>4, <2>5 DEF Handed
<1>18. Told'
  <2> SUFFICES ASSUME NEW h \in Parties, stage'[h] = "relock" PROVE age'[h] > Behind'
    BY DEF Told
  <2>1. h # g /\ stage[h] = "relock"  BY <1>3
  <2>2. stage[h] \in InWait  BY <2>1 DEF InWait
  <2>3. age[h] > Behind /\ age'[h] = age[h] + 1  BY <1>1, <1>9, <2>1, <2>2 DEF Told
  <2> QED  BY <1>5, <1>8, <2>3
<1>19. Promise'
  <2> SUFFICES ASSUME NEW h \in Parties
               PROVE  /\ owed[h] # {} => stage'[h] \in {"signal", "broadcast", "one", "all"}
                      /\ \A j \in owed[h] : /\ stage'[j] \in InWait
                                            /\ stage'[h] \in {"signal", "broadcast"} => Wrap(wait' - sawWait[h]) < age'[j]
    BY <1>2 DEF Promise, Holds, InWait
  <2>1. /\ owed[h] # {} => stage[h] \in {"signal", "broadcast", "one", "all"}
        /\ \A j \in owed[h] : /\ j \in Parties /\ stage[j] \in InWait
                              /\ stage[h] \in {"signal", "broadcast"} => Wrap(wait - sawWait[h]) < age[j]
    BY <1>0, <1>1 DEF Promise, Holds, InWait
  <2>2. owed[h] # {} => stage'[h] = stage[h]  BY <1>2, <1>3, <2>1
  <2>3. ASSUME NEW j \in owed[h], stage'[h] \in {"signal", "broadcast"}
        PROVE  Wrap(wait' - sawWait[h]) < age'[j]
    <3>1. sawWait[h] \in Tickets  BY <1>1
    <3>2. PICK d \in Tickets : d = Wrap(wait - sawWait[h])  BY <1>1, <3>1, DistIs
    <3>3. j \in Parties /\ stage[j] \in InWait /\ d < age[j]  BY <2>1, <2>2, <2>3, <3>2
    <3>4. age[j] < k - 1 /\ age'[j] = age[j] + 1  BY <1>6, <1>9, <3>3
    <3>5. d \in Nat /\ d < 2 * k - 1  BY <1>5, <3>3, <3>4
    <3>6. Wrap(wait - sawWait[h]) < 2 * HalfRange - 1  BY <1>4, <3>2, <3>5
    <3>7. Wrap(wait' - sawWait[h]) = d + 1  BY <1>1, <1>2, <3>1, <3>2, <3>6, OneLonger
    <3> QED  BY <1>5, <3>3, <3>4, <3>5, <3>7
  <2> QED  BY <1>11, <2>1, <2>2, <2>3
<1>20. CondTypeOK'
  <2>1. "unlock" \in Stages  BY DEF Stages
  <2>2. ticket' \in [Parties -> Tickets]  BY <1>1, <1>2
  <2>3. wait' \in Tickets  BY <1>1, <1>2, SuccIs
  <2> QED  BY <1>0, <1>1, <1>2, <2>1, <2>2, <2>3, TypesAfter
<1> QED  BY <1>2, <1>3, <1>8, <1>9, <1>10, <1>12, <1>13, <1>14, <1>16, <1>17, <1>18, <1>19, <1>20 DEF CondInv

\* NotifyList.Wait: a ticket that has been notified returns, another one queues up.
LEMMA ListWaitStep ==
  ASSUME CondInv, NEW g \in Parties, ListWait(g)
  PROVE  CondInv'
<1>0. CondTypeOK /\ Ordered /\ Promise  BY DEF CondInv, Ordered
<1>1. /\ L \in Parties \cup {Nobody} /\ wait \in Tickets /\ notify \in Tickets /\ list \in Seq(Parties)
      /\ stage \in [Parties -> Stages] /\ ticket \in [Parties -> Tickets]
      /\ sawWait \in [Parties -> Tickets] /\ chain \in [Parties -> Seq(Parties)]
      /\ owed \in [Parties -> SUBSET Parties]
      /\ Spaced /\ OneTicket /\ Covered /\ Listed /\ Handed /\ Told
  BY <1>0, CondPieces DEF Ordered
<1>2. stage[g] = "wait" /\ UNCHANGED <<L, wait, notify, ticket, sawWait, chain, owed>>  BY DEF ListWait
<1>3. Already(ticket[g]) <=> age[g] > Behind
  <2>1. age[g] \in 1..HalfRange /\ Behind \in 0..HalfRange  BY <1>1, <1>2 DEF Spaced, Holds
  <2>2. age[g] = Wrap(wait - ticket[g]) /\ ticket[g] \in Tickets  BY <1>1 DEF age
  <2>3. less(ticket[g], notify) <=> age[g] > Behind  BY <1>1, <2>1, <2>2, LessIs DEF Behind
  <2> QED  BY <2>3 DEF Already
<1>4. chain[g] = << >> /\ owed[g] = {}  BY <1>0, <1>2 DEF Ordered, Handed, Promise
<1>5. PICK x \in {"relock", "parked"} :
        /\ stage' = [stage EXCEPT ![g] = x]
        /\ \/ x = "relock" /\ age[g] > Behind /\ list' = list
           \/ x = "parked" /\ ~(age[g] > Behind) /\ list' = Append(list, g)
  <2>1. CASE Already(ticket[g])  BY <1>3, <2>1 DEF ListWait, Enter
  <2>2. CASE ~Already(ticket[g])  BY <1>3, <2>2 DEF ListWait, Enter
  <2> QED  BY <2>1, <2>2
<1>6. stage'[g] = x /\ \A h \in Parties : h # g => stage'[h] = stage[h]  BY <1>1, <1>5
<1>7. \A h \in Parties : stage'[h] \in InWait <=> stage[h] \in InWait  BY <1>2, <1>6 DEF InWait
<1>8. Promise'
  BY <1>0, <1>2, <1>4, <1>6, <1>7, KeptPromises
<1>9. CondTypeOK'
  <2>1. x \in Stages  BY DEF Stages
  <2>2. list' \in Seq(Parties)
    <3>1. list \in Seq(Parties) /\ Append(list, g) \in Seq(Parties)  BY <1>1, AppendProperties
    <3>2. list' = list \/ list' = Append(list, g)  BY <1>5
    <3> QED  BY <3>1, <3>2
  <2> QED  BY <1>0, <1>1, <1>2, <1>5, <2>1, <2>2, TypesAfter
<1>10. CASE x = "relock"
  <2>1. stage[g] # "parked" /\ (stage[g] \in InWait <=> x \in InWait) /\ list' = list /\ age[g] > Behind
    BY <1>2, <1>5, <1>10 DEF InWait
  <2>2. Ordered'  BY <1>0, <1>2, <1>4, <1>5, <1>10, <2>1, QuietStep
  <2> QED  BY <1>8, <1>9, <2>2 DEF CondInv, Ordered
<1>11. CASE x = "parked"
  <2>1. list' = Append(list, g) /\ age[g] <= Behind
    <3>1. age[g] \in Nat /\ Behind \in Nat  BY <1>0, AgesAre
    <3> QED  BY <1>5, <1>11, <3>1
  <2>2. Behind' = Behind /\ age' = age  BY <1>2, SameAges
  <2>3. Spaced'  BY <1>1, <1>7, <2>2 DEF Spaced, Holds, InWait
  <2>4. OneTicket'  BY <1>1, <1>7, <2>2 DEF OneTicket, Holds, InWait
  <2>5. Covered'  BY <1>1, <1>7, <2>2 DEF Covered, Holds, InWait
  <2>6. Told'  BY <1>1, <1>6, <1>11, <2>2 DEF Told
  <2>7. Listed'
    <3>1. PICK s \in Seq(Parties) : s = list  BY <1>1
    <3>2. PICK t : t = list'  OBVIOUS
    <3>3. /\ DOMAIN t = 1..Len(s) + 1 /\ DOMAIN s = 1..Len(s) /\ Len(s) \in Nat
          /\ t[Len(s) + 1] = g /\ \A i \in 1..Len(s) : t[i] = s[i] /\ s[i] \in Parties
      BY <2>1, <3>1, <3>2
    <3>4. /\ \A i \in DOMAIN s : stage[s[i]] = "parked" /\ age[s[i]] <= Behind
          /\ \A i, j \in DOMAIN s : s[i] = s[j] => i = j
          /\ \A h \in Parties : stage[h] = "parked" /\ age[h] <= Behind => \E i \in DOMAIN s : s[i] = h
      BY <1>1, <3>1 DEF Listed
    <3>5. \A i \in DOMAIN s : s[i] # g  BY <1>2, <3>4
    <3>6. \A i \in DOMAIN t : stage'[t[i]] = "parked" /\ age[t[i]] <= Behind
      <4> SUFFICES ASSUME NEW i \in DOMAIN t PROVE stage'[t[i]] = "parked" /\ age[t[i]] <= Behind  OBVIOUS
      <4>1. CASE i = Len(s) + 1  BY <1>6, <1>11, <2>1, <3>3, <4>1
      <4>2. CASE i \in DOMAIN s  BY <1>6, <3>3, <3>4, <3>5, <4>2
      <4> QED  BY <3>3, <4>1, <4>2
    <3>7. \A i, j \in DOMAIN t : t[i] = t[j] => i = j
      <4> SUFFICES ASSUME NEW i \in DOMAIN t, NEW j \in DOMAIN t, t[i] = t[j] PROVE i = j  OBVIOUS
      <4>1. CASE i \in DOMAIN s /\ j \in DOMAIN s  BY <3>3, <3>4, <4>1
      <4>2. CASE i = Len(s) + 1 \/ j = Len(s) + 1  BY <3>3, <3>5, <4>2
      <4> QED  BY <3>3, <4>1, <4>2
    <3>8. ASSUME NEW h \in Parties, stage'[h] = "parked", age[h] <= Behind PROVE \E i \in DOMAIN t : t[i] = h
      <4>1. CASE h = g  BY <3>3, <4>1
      <4>2. CASE h # g
        <5>1. PICK i \in DOMAIN s : s[i] = h  BY <1>6, <3>4, <3>8, <4>2
        <5> QED  BY <3>3, <5>1
      <4> QED  BY <4>1, <4>2
    <3> QED  BY <2>2, <3>2, <3>6, <3>7, <3>8 DEF Listed
  <2>8. Handed'
    <3>1. \A h \in Parties : \A i \in DOMAIN chain[h] : chain[h][i] \in Parties /\ chain[h][i] # g
      <4> TAKE h \in Parties
      <4>1. chain[h] \in Seq(Parties)  BY <1>1
      <4> QED  BY <1>1, <1>2, <4>1 DEF Handed
    <3>2. Handed /\ chain' = chain  BY <1>1, <1>2
    <3>3. \A h \in Parties : \A i \in DOMAIN chain[h] : stage'[chain[h][i]] = "parked"
      BY <1>6, <3>1, <3>2 DEF Handed
    <3>4. \A h \in Parties : chain[h] # << >> => stage'[h] = "ready"  BY <1>4, <1>6, <3>2 DEF Handed
    <3>5. \A h \in Parties : stage'[h] = "parked" /\ age[h] > Behind => stage[h] = "parked"
      BY <1>5, <1>6, <1>11
    <3> QED  BY <2>2, <3>2, <3>3, <3>4, <3>5 DEF Handed
  <2> QED  BY <1>8, <1>9, <2>3, <2>4, <2>5, <2>6, <2>7, <2>8 DEF CondInv
<1> QED  BY <1>10, <1>11

\* What is left of a sequence without its element i.
LEMMA RemovedAt ==
  ASSUME NEW S, NEW s \in Seq(S), NEW i \in 1..Len(s)
  PROVE  /\ RemoveAt(s, i) \in Seq(S) /\ DOMAIN RemoveAt(s, i) = 1..(Len(s) - 1)
         /\ \A j \in 1..(Len(s) - 1) : RemoveAt(s, i)[j] = IF j < i THEN s[j] ELSE s[j + 1]
<1>1. PICK a : a = SubSeq(s, 1, i - 1)  OBVIOUS
<1>2. PICK b : b = SubSeq(s, i + 1, Len(s))  OBVIOUS
<1>3. a \in Seq(S) /\ Len(a) = i - 1 /\ \A j \in 1..(i - 1) : a[j] = s[j]
  BY <1>1
<1>4. b \in Seq(S) /\ Len(b) = Len(s) - i /\ \A j \in 1..(Len(s) - i) : b[j] = s[j + i]
  BY <1>2
<1>5. RemoveAt(s, i) = a \o b  BY <1>1, <1>2 DEF RemoveAt
<1>6. PICK t : t = a \o b  OBVIOUS
<1>7. t \in Seq(S) /\ Len(t) = Len(s) - 1  BY <1>3, <1>4, <1>6
<1>8. \A j \in 1..(Len(s) - 1) : t[j] = IF j <= Len(a) THEN a[j] ELSE b[j - Len(a)]
  BY <1>3, <1>4, <1>6
<1>9. \A j \in 1..(Len(s) - 1) : t[j] = IF j < i THEN s[j] ELSE s[j + 1]
  <2> TAKE j \in 1..(Len(s) - 1)
  <2>1. CASE j < i  BY <1>3, <1>8, <2>1
  <2>2. CASE ~(j < i)
    <3>1. j - (i - 1) \in 1..(Len(s) - i) /\ j - (i - 1) + i = j + 1  BY <2>2
    <3>2. b[j - (i - 1)] = s[j + 1]  BY <1>4, <3>1
    <3> QED  BY <1>3, <1>8, <2>2, <3>2
  <2> QED  BY <2>1, <2>2
<1>10. DOMAIN t = 1..(Len(s) - 1)  BY <1>7
<1> QED  BY <1>5, <1>6, <1>7, <1>9, <1>10

\* The distances after notify has moved, and what is left of the invariant when they do.
LEMMA NotifyMoves ==
  ASSUME CondTypeOK, Ordered, NEW g \in Parties, stage[g] \in {"one", "all"},
         NEW x \in {"idle", "locked", "ready"}, stage' = [stage EXCEPT ![g] = x],
         UNCHANGED <<wait, ticket>>, Behind' \in Nat, Behind' <= Behind
  PROVE  /\ age' = age /\ Spaced' /\ OneTicket' /\ Covered' /\ Told'
         /\ stage'[g] = x /\ \A h \in Parties : h # g => stage'[h] = stage[h]
         /\ \A h \in Parties : stage'[h] \in InWait <=> stage[h] \in InWait
         /\ \A h \in Parties : stage'[h] = "parked" <=> stage[h] = "parked"
<1>1. /\ stage \in [Parties -> Stages] /\ Spaced /\ OneTicket /\ Covered /\ Told
  BY CondPieces DEF Ordered
<1>2. age' = age  BY DEF age
<1>3. stage'[g] = x /\ \A h \in Parties : h # g => stage'[h] = stage[h]  BY <1>1
<1>4. \A h \in Parties : /\ stage'[h] \in InWait <=> stage[h] \in InWait
                         /\ stage'[h] = "parked" <=> stage[h] = "parked"
                         /\ stage'[h] = "relock" <=> stage[h] = "relock"
  BY <1>3 DEF InWait
<1>5. Behind \in Nat /\ \A h \in Parties : age[h] \in Nat  BY AgesAre
<1>6. Spaced'
  <2>1. PICK k \in Nat : k = HalfRange  BY Range2
  <2>2. Behind' \in 0..k  BY <1>1, <1>5, <2>1 DEF Spaced
  <2>3. HalfRange' = HalfRange  BY DEF HalfRange
  <2> QED  BY <1>1, <1>2, <1>4, <2>1, <2>2, <2>3 DEF Spaced, Holds, InWait
<1>7. OneTicket'  BY <1>1, <1>2, <1>4 DEF OneTicket, Holds, InWait
<1>8. Covered'
  <2> SUFFICES ASSUME NEW i \in 1..Behind' PROVE \E h \in Parties : stage'[h] \in InWait /\ age[h] = i
    BY <1>2 DEF Covered, Holds, InWait
  <2>1. i \in 1..Behind  BY <1>5
  <2> QED  BY <1>1, <1>4, <2>1 DEF Covered, Holds, InWait
<1>9. Told'
  <2> SUFFICES ASSUME NEW h \in Parties, stage'[h] = "relock" PROVE age[h] > Behind'
    BY <1>2 DEF Told
  <2>1. age[h] > Behind  BY <1>1, <1>4 DEF Told
  <2> QED  BY <1>5, <2>1
<1> QED  BY <1>2, <1>3, <1>4, <1>6, <1>7, <1>8, <1>9

\* NotifyOne, with a ticket to notify: whoever holds it is taken from the list, if it is
\* there already.
LEMMA NotifyOneTicket ==
  ASSUME CondInv, NEW g \in Parties, NotifyOne(g), notify # wait
  PROVE  /\ CondInv' /\ Behind > 0 /\ Behind' = Behind - 1 /\ age' = age
         /\ \A h \in Parties : stage'[h] \in InWait <=> stage[h] \in InWait
<1>0. CondTypeOK /\ Ordered /\ Promise  BY DEF CondInv, Ordered
<1>1. /\ L \in Parties \cup {Nobody} /\ wait \in Tickets /\ notify \in Tickets /\ list \in Seq(Parties)
      /\ stage \in [Parties -> Stages] /\ ticket \in [Parties -> Tickets]
      /\ sawWait \in [Parties -> Tickets] /\ chain \in [Parties -> Seq(Parties)]
      /\ owed \in [Parties -> SUBSET Parties]
      /\ Spaced /\ OneTicket /\ Covered /\ Listed /\ Handed /\ Told
  BY <1>0, CondPieces DEF Ordered
<1>2. /\ stage[g] = "one" /\ notify' = Wrap(notify + 1) /\ UNCHANGED <<L, wait, ticket, sawWait>>
      /\ owed' = [owed EXCEPT ![g] = {}]
  BY DEF NotifyOne
<1>3. PICK x \in {"idle", "locked", "ready"} :
        /\ stage' = [stage EXCEPT ![g] = x]
        /\ \/ \E i \in DOMAIN list : /\ x = "ready" /\ Next1(i) /\ list' = RemoveAt(list, i)
                                     /\ chain' = [chain EXCEPT ![g] = <<list[i]>>]
           \/ /\ ~\E i \in DOMAIN list : Next1(i)
              /\ UNCHANGED <<list, chain>>
  <2>1. CASE \E i \in DOMAIN list : Next1(i)
    <3>1. PICK i \in DOMAIN list : /\ Next1(i) /\ chain' = [chain EXCEPT ![g] = <<list[i]>>]
                                   /\ list'  = RemoveAt(list, i) /\ stage' = [stage EXCEPT ![g] = "ready"]
      BY <2>1 DEF NotifyOne, Enter
    <3> QED  BY <3>1
  <2>2. CASE ~\E i \in DOMAIN list : Next1(i)
    <3>1. stage' = [stage EXCEPT ![g] = Back(g)] /\ UNCHANGED <<list, chain>>  BY <2>2 DEF NotifyOne, Enter
    <3> QED  BY <2>2, <3>1, BackIs
  <2> QED  BY <2>1, <2>2
<1>4. Behind \in Nat /\ Behind > 0 /\ Behind' = Behind - 1 /\ \A h \in Parties : age[h] \in Nat
  <2>1. Behind \in Nat /\ \A h \in Parties : age[h] \in Nat  BY <1>0, AgesAre
  <2>2. Behind # 0  BY <1>1, DistIs DEF Behind
  <2>3. Behind' = Wrap(wait - Wrap(notify + 1))  BY <1>2 DEF Behind
  <2>4. Behind' = Behind - 1  BY <1>1, <2>3, OneShorter DEF Behind
  <2> QED  BY <2>1, <2>2, <2>4
<1>5. /\ age' = age /\ Spaced' /\ OneTicket' /\ Covered' /\ Told'
      /\ stage'[g] = x /\ \A h \in Parties : h # g => stage'[h] = stage[h]
      /\ \A h \in Parties : stage'[h] \in InWait <=> stage[h] \in InWait
      /\ \A h \in Parties : stage'[h] = "parked" <=> stage[h] = "parked"
  <2>1. Behind' \in Nat /\ Behind' <= Behind  BY <1>4
  <2>2. stage[g] \in {"one", "all"} /\ UNCHANGED <<wait, ticket>>  BY <1>2
  <2> HIDE DEF Behind
  <2> QED  BY <1>0, <1>3, <2>1, <2>2, NotifyMoves
<1>6. chain[g] = << >>  BY <1>1, <1>2 DEF Handed
<1>7. \A h \in Parties : ticket[h] = notify <=> age[h] = Behind
  <2> TAKE h \in Parties
  <2>1. ticket[h] \in Tickets /\ age[h] = Wrap(wait - ticket[h])  BY <1>1 DEF age
  <2> QED  BY <1>1, <2>1, SameDist DEF Behind
<1>8. Promise'
  <2>1. owed'[g] = {} /\ \A h \in Parties : h # g => owed'[h] = owed[h]  BY <1>1, <1>2
  <2> SUFFICES ASSUME NEW h \in Parties
               PROVE  /\ owed'[h] # {} => stage'[h] \in {"signal", "broadcast", "one", "all"}
                      /\ \A k \in owed'[h] : /\ stage'[k] \in InWait
                                             /\ stage'[h] \in {"signal", "broadcast"} => Wrap(wait - sawWait[h]) < age[k]
    BY <1>2, <1>5 DEF Promise, Holds, InWait
  <2>2. CASE h = g  BY <2>1, <2>2
  <2>3. CASE h # g
    <3>1. /\ owed[h] # {} => stage[h] \in {"signal", "broadcast", "one", "all"}
          /\ \A k \in owed[h] : /\ k \in Parties /\ stage[k] \in InWait
                                /\ stage[h] \in {"signal", "broadcast"} => Wrap(wait - sawWait[h]) < age[k]
      BY <1>0, <1>1 DEF Promise, Holds, InWait
    <3> QED  BY <1>5, <2>1, <2>3, <3>1
  <2> QED  BY <2>2, <2>3
<1>9. \A h \in Parties : \A i \in DOMAIN chain[h] : chain[h][i] \in Parties
  <2> TAKE h \in Parties
  <2>1. chain[h] \in Seq(Parties)  BY <1>1
  <2> QED  BY <2>1
<1>10. notify' \in Tickets /\ owed' \in [Parties -> SUBSET Parties] /\ x \in Stages
  BY <1>1, <1>2, SuccIs DEF Stages
<1>11. ASSUME NEW n \in DOMAIN list, x = "ready", Next1(n), list' = RemoveAt(list, n),
              chain' = [chain EXCEPT ![g] = <<list[n]>>]
       PROVE  CondTypeOK' /\ Listed' /\ Handed'
  <2>1. PICK q \in Parties : q = list[n]  BY <1>1
  <2>2. PICK s \in Seq(Parties) : s = list  BY <1>1
  <2>3. PICK t : t = list'  OBVIOUS
  <2>4. n \in 1..Len(s) /\ Len(s) \in Nat /\ DOMAIN s = 1..Len(s)  BY <2>2
  <2>5. /\ t \in Seq(Parties) /\ DOMAIN t = 1..(Len(s) - 1)
        /\ \A j \in 1..(Len(s) - 1) : t[j] = IF j < n THEN s[j] ELSE s[j + 1]
    BY <1>11, <2>2, <2>3, <2>4, RemovedAt
  <2>6. /\ \A i \in DOMAIN s : stage[s[i]] = "parked" /\ age[s[i]] <= Behind /\ s[i] \in Parties
        /\ \A i, j \in DOMAIN s : s[i] = s[j] => i = j
        /\ \A h \in Parties : stage[h] = "parked" /\ age[h] <= Behind => \E i \in DOMAIN s : s[i] = h
    BY <1>1, <2>2 DEF Listed
  <2>7. age[q] = Behind /\ stage[q] = "parked" /\ s[n] = q
    BY <1>7, <1>11, <2>1, <2>2, <2>4, <2>6 DEF Next1
  <2>8. \A j \in 1..(Len(s) - 1) : \E i \in DOMAIN s : i # n /\ t[j] = s[i] /\ i = IF j < n THEN j ELSE j + 1
    BY <2>4, <2>5
  <2>9. \A i \in DOMAIN s : i # n => \E j \in 1..(Len(s) - 1) : t[j] = s[i]
    <3> SUFFICES ASSUME NEW i \in DOMAIN s, i # n PROVE \E j \in 1..(Len(s) - 1) : t[j] = s[i]  OBVIOUS
    <3>1. CASE i < n  BY <2>4, <2>5, <3>1
    <3>2. CASE i > n
      <4>1. i - 1 \in 1..(Len(s) - 1) /\ ~(i - 1 < n) /\ (i - 1) + 1 = i  BY <2>4, <3>2
      <4>2. t[i - 1] = s[i]  BY <2>5, <4>1
      <4> QED  BY <4>1, <4>2
    <3> QED  BY <2>4, <3>1, <3>2
  <2>10. Listed'
    <3>1. \A i \in DOMAIN t : stage'[t[i]] = "parked" /\ age[t[i]] <= Behind'
      <4> SUFFICES ASSUME NEW j \in DOMAIN t PROVE stage'[t[j]] = "parked" /\ age[t[j]] <= Behind'  OBVIOUS
      <4>1. PICK i \in DOMAIN s : i # n /\ t[j] = s[i]  BY <2>5, <2>8
      <4>2. s[i] # q  BY <2>4, <2>6, <2>7, <4>1
      <4>3. s[i] \in Parties /\ stage[s[i]] = "parked" /\ age[s[i]] <= Behind  BY <2>6
      <4>4. age[s[i]] # Behind
        <5>1. stage[s[i]] \in InWait /\ stage[q] \in InWait  BY <2>7, <4>3 DEF InWait
        <5> QED  BY <1>1, <2>7, <4>2, <4>3, <5>1 DEF OneTicket, Holds, InWait
      <4> QED  BY <1>4, <1>5, <4>1, <4>3, <4>4
    <3>2. \A i, j \in DOMAIN t : t[i] = t[j] => i = j
      <4> SUFFICES ASSUME NEW i \in DOMAIN t, NEW j \in DOMAIN t, t[i] = t[j] PROVE i = j  OBVIOUS
      <4>1. PICK a \in DOMAIN s : t[i] = s[a] /\ a = IF i < n THEN i ELSE i + 1  BY <2>5, <2>8
      <4>2. PICK b \in DOMAIN s : t[j] = s[b] /\ b = IF j < n THEN j ELSE j + 1  BY <2>5, <2>8
      <4>3. a = b  BY <2>6, <4>1, <4>2
      <4> QED  BY <2>4, <2>5, <4>1, <4>2, <4>3
    <3>3. ASSUME NEW h \in Parties, stage'[h] = "parked", age[h] <= Behind' PROVE \E i \in DOMAIN t : t[i] = h
      <4>1. stage[h] = "parked" /\ age[h] <= Behind /\ age[h] # Behind  BY <1>4, <1>5, <3>3
      <4>2. PICK i \in DOMAIN s : s[i] = h  BY <2>6, <4>1
      <4>3. i # n  BY <2>7, <4>1, <4>2
      <4> QED  BY <2>5, <2>9, <4>2, <4>3
    <3> QED  BY <1>5, <2>3, <3>1, <3>2, <3>3 DEF Listed
  <2>11. chain'[g] = <<q>> /\ \A h \in Parties : h # g => chain'[h] = chain[h]  BY <1>1, <1>11, <2>1
  <2>12. /\ \A h \in Parties : chain[h] # << >> => stage[h] = "ready"
         /\ \A h \in Parties : \A i \in DOMAIN chain[h] :
               stage[chain[h][i]] = "parked" /\ age[chain[h][i]] > Behind
         /\ \A h, k \in Parties : \A i \in DOMAIN chain[h], j \in DOMAIN chain[k] :
               chain[h][i] = chain[k][j] => h = k /\ i = j
         /\ \A h \in Parties : stage[h] = "parked" /\ age[h] > Behind
               => \E k \in Parties : \E i \in DOMAIN chain[k] : chain[k][i] = h
    BY <1>1 DEF Handed
  <2>13. DOMAIN <<q>> = {1} /\ <<q>>[1] = q  OBVIOUS
  <2>14. Handed'
    <3>1. \A h \in Parties : chain'[h] # << >> => stage'[h] = "ready"  BY <1>5, <1>11, <2>11, <2>12
    <3>2. ASSUME NEW h \in Parties, NEW i \in DOMAIN chain'[h]
          PROVE  stage'[chain'[h][i]] = "parked" /\ age[chain'[h][i]] > Behind'
      <4>1. CASE h = g  BY <1>4, <1>5, <2>7, <2>11, <2>13, <3>2, <4>1
      <4>2. CASE h # g
        <5>1. chain'[h] = chain[h] /\ chain[h][i] \in Parties  BY <1>9, <2>11, <3>2, <4>2
        <5>2. stage[chain[h][i]] = "parked" /\ age[chain[h][i]] > Behind  BY <2>12, <3>2, <5>1
        <5> QED  BY <1>4, <1>5, <5>1, <5>2
      <4> QED  BY <4>1, <4>2
    <3>3. ASSUME NEW h \in Parties, NEW k \in Parties, NEW i \in DOMAIN chain'[h], NEW j \in DOMAIN chain'[k],
                 chain'[h][i] = chain'[k][j]
          PROVE  h = k /\ i = j
      <4>1. CASE h = g /\ k = g  BY <2>11, <2>13, <3>3, <4>1
      <4>2. CASE h # g /\ k # g  BY <2>11, <2>12, <3>3, <4>2
      <4>3. CASE h = g /\ k # g  BY <1>4, <2>7, <2>11, <2>12, <2>13, <3>3, <4>3
      <4>4. CASE h # g /\ k = g  BY <1>4, <2>7, <2>11, <2>12, <2>13, <3>3, <4>4
      <4> QED  BY <4>1, <4>2, <4>3, <4>4
    <3>4. ASSUME NEW h \in Parties, stage'[h] = "parked", age[h] > Behind'
          PROVE  \E k \in Parties : \E i \in DOMAIN chain'[k] : chain'[k][i] = h
      <4>1. stage[h] = "parked" /\ (age[h] > Behind \/ age[h] = Behind)  BY <1>4, <1>5, <3>4
      <4>2. CASE age[h] = Behind
        <5>1. stage[h] \in InWait /\ stage[q] \in InWait  BY <2>7, <4>1 DEF InWait
        <5>2. h = q  BY <1>1, <2>7, <4>2, <5>1 DEF OneTicket, Holds, InWait
        <5> QED  BY <2>11, <2>13, <5>2
      <4>3. CASE age[h] > Behind
        <5>1. PICK k \in Parties : \E i \in DOMAIN chain[k] : chain[k][i] = h  BY <2>12, <4>1, <4>3
        <5>2. k # g  BY <1>6, <5>1
        <5> QED  BY <2>11, <5>1, <5>2
      <4> QED  BY <4>1, <4>2, <4>3
    <3> QED  BY <1>5, <3>1, <3>2, <3>3, <3>4 DEF Handed
  <2>15. CondTypeOK'
    <3>1. <<q>> \in Seq(Parties)  OBVIOUS
    <3>2. chain' \in [Parties -> Seq(Parties)]  BY <1>1, <1>11, <2>1, <3>1
    <3> QED  BY <1>0, <1>1, <1>2, <1>3, <1>10, <2>3, <2>5, <3>2, TypesAfter
  <2> QED  BY <2>10, <2>14, <2>15
<1>12. ASSUME ~\E i \in DOMAIN list : Next1(i), UNCHANGED <<list, chain>>
       PROVE  CondTypeOK' /\ Listed' /\ Handed'
  <2>1. \A i \in DOMAIN list : list[i] \in Parties /\ age[list[i]] # Behind  BY <1>1, <1>7, <1>12 DEF Next1
  <2>2. \A h \in Parties : stage[h] = "parked" => age[h] # Behind
    <3> SUFFICES ASSUME NEW h \in Parties, stage[h] = "parked", age[h] = Behind PROVE FALSE  OBVIOUS
    <3>1. age[h] <= Behind  BY <1>4
    <3>2. PICK i \in DOMAIN list : list[i] = h  BY <1>1, <3>1 DEF Listed
    <3> QED  BY <2>1, <3>2
  <2>3. \A h \in Parties : stage[h] = "parked" =>
          (age[h] <= Behind' <=> age[h] <= Behind) /\ (age[h] > Behind' <=> age[h] > Behind)
    BY <1>4, <2>2
  <2>4. Listed'
    <3>1. Listed /\ list' = list  BY <1>1, <1>12
    <3> QED  BY <1>5, <2>1, <2>3, <3>1 DEF Listed
  <2>5. Handed'
    <3>1. Handed /\ chain' = chain  BY <1>1, <1>12
    <3>2. \A h \in Parties : chain[h] # << >> => stage'[h] = "ready"  BY <1>5, <1>6, <3>1 DEF Handed
    <3>3. \A h \in Parties : \A i \in DOMAIN chain[h] :
            stage'[chain[h][i]] = "parked" /\ age[chain[h][i]] > Behind'
      BY <1>5, <1>9, <2>3, <3>1 DEF Handed
    <3>4. \A h \in Parties : stage'[h] = "parked" /\ age[h] > Behind'
            => \E k \in Parties : \E i \in DOMAIN chain[k] : chain[k][i] = h
      BY <1>5, <2>3, <3>1 DEF Handed
    <3> QED  BY <1>5, <3>1, <3>2, <3>3, <3>4 DEF Handed
  <2>6. CondTypeOK'  BY <1>0, <1>1, <1>2, <1>3, <1>10, <1>12, TypesAfter
  <2> QED  BY <2>4, <2>5, <2>6
<1>13. CondTypeOK' /\ Listed' /\ Handed'  BY <1>3, <1>11, <1>12
<1> QED  BY <1>4, <1>5, <1>8, <1>13 DEF CondInv

\* NotifyOne, when all tickets are notified already.
LEMMA NotifyOneNothing ==
  ASSUME CondInv, NEW g \in Parties, NotifyOne(g), notify = wait
  PROVE  /\ CondInv' /\ UNCHANGED <<wait, notify, ticket>>
         /\ \A h \in Parties : stage'[h] \in InWait <=> stage[h] \in InWait
<1>0. CondTypeOK /\ Ordered  BY DEF CondInv, Ordered
<1>1. stage \in [Parties -> Stages] /\ sawWait \in [Parties -> Tickets]  BY <1>0, CondPieces
<1>2. /\ stage[g] = "one" /\ UNCHANGED <<L, wait, notify, list, ticket, sawWait, chain>>
      /\ owed' = [owed EXCEPT ![g] = {}] /\ stage' = [stage EXCEPT ![g] = Back(g)]
  BY DEF NotifyOne, Enter
<1>3. PICK x \in {"idle", "locked"} : x = Back(g)  BY BackIs
<1>4. chain[g] = << >>  BY <1>0, <1>2 DEF Ordered, Handed
<1>5. CondInv'  BY <1>1, <1>2, <1>3, <1>4, NotifierMoves
<1>6. stage'[g] = x /\ \A h \in Parties : h # g => stage'[h] = stage[h]  BY <1>1, <1>2, <1>3
<1> QED  BY <1>2, <1>5, <1>6 DEF InWait

\* NotifyAll: the whole list goes into the notifier's hands.
LEMMA NotifyAllStep ==
  ASSUME CondInv, NEW g \in Parties, NotifyAll(g)
  PROVE  /\ CondInv' /\ Behind' = 0 /\ age' = age
         /\ \A h \in Parties : stage'[h] \in InWait <=> stage[h] \in InWait
<1>0. CondTypeOK /\ Ordered /\ Promise  BY DEF CondInv, Ordered
<1>1. /\ L \in Parties \cup {Nobody} /\ wait \in Tickets /\ notify \in Tickets /\ list \in Seq(Parties)
      /\ stage \in [Parties -> Stages] /\ ticket \in [Parties -> Tickets]
      /\ sawWait \in [Parties -> Tickets] /\ chain \in [Parties -> Seq(Parties)]
      /\ owed \in [Parties -> SUBSET Parties]
      /\ Spaced /\ OneTicket /\ Covered /\ Listed /\ Handed /\ Told
  BY <1>0, CondPieces DEF Ordered
<1>2. /\ stage[g] = "all" /\ notify' = wait /\ UNCHANGED <<L, wait, ticket, sawWait>> /\ list' = << >>
      /\ chain' = [chain EXCEPT ![g] = list] /\ owed' = [owed EXCEPT ![g] = {}]
      /\ stage' = [stage EXCEPT ![g] = "ready"]
  BY DEF NotifyAll, Enter
<1>3. Behind \in Nat /\ Behind' = 0 /\ \A h \in Parties : age[h] \in Nat
  <2>1. Behind \in Nat /\ \A h \in Parties : age[h] \in Nat  BY <1>0, AgesAre
  <2>2. Behind' = Wrap(wait - wait)  BY <1>2 DEF Behind
  <2>3. Wrap(wait - wait) = 0  BY <1>1, DistIs
  <2> QED  BY <2>1, <2>2, <2>3
<1>4. /\ age' = age /\ Spaced' /\ OneTicket' /\ Covered' /\ Told'
      /\ stage'[g] = "ready" /\ \A h \in Parties : h # g => stage'[h] = stage[h]
      /\ \A h \in Parties : stage'[h] \in InWait <=> stage[h] \in InWait
      /\ \A h \in Parties : stage'[h] = "parked" <=> stage[h] = "parked"
  <2>1. Behind' \in Nat /\ Behind' <= Behind  BY <1>3
  <2>2. stage[g] \in {"one", "all"} /\ UNCHANGED <<wait, ticket>>  BY <1>2
  <2>3. "ready" \in {"idle", "locked", "ready"}  OBVIOUS
  <2> QED  BY <1>0, <1>2, <2>1, <2>2, <2>3, NotifyMoves
<1>5. chain[g] = << >>  BY <1>1, <1>2 DEF Handed
<1>6. \A h \in Parties : stage[h] = "parked" => age[h] > 0
  <2> SUFFICES ASSUME NEW h \in Parties, stage[h] = "parked" PROVE age[h] > 0  OBVIOUS
  <2>1. age[h] \in 1..HalfRange  BY <1>1 DEF Spaced, Holds
  <2> QED  BY <2>1, Range2
<1>7. Promise'
  <2>1. owed'[g] = {} /\ \A h \in Parties : h # g => owed'[h] = owed[h]  BY <1>1, <1>2
  <2> SUFFICES ASSUME NEW h \in Parties
               PROVE  /\ owed'[h] # {} => stage'[h] \in {"signal", "broadcast", "one", "all"}
                      /\ \A k \in owed'[h] : /\ stage'[k] \in InWait
                                             /\ stage'[h] \in {"signal", "broadcast"} => Wrap(wait - sawWait[h]) < age[k]
    BY <1>2, <1>4 DEF Promise, Holds, InWait
  <2>2. CASE h = g  BY <2>1, <2>2
  <2>3. CASE h # g
    <3>1. /\ owed[h] # {} => stage[h] \in {"signal", "broadcast", "one", "all"}
          /\ \A k \in owed[h] : /\ k \in Parties /\ stage[k] \in InWait
                                /\ stage[h] \in {"signal", "broadcast"} => Wrap(wait - sawWait[h]) < age[k]
      BY <1>0, <1>1 DEF Promise, Holds, InWait
    <3> QED  BY <1>4, <2>1, <2>3, <3>1
  <2> QED  BY <2>2, <2>3
<1>8. Listed'
  <2>1. DOMAIN list' = {}  BY <1>2
  <2>2. ~\E h \in Parties : stage'[h] = "parked" /\ age[h] <= 0  BY <1>3, <1>4, <1>6
  <2> QED  BY <1>3, <1>4, <2>1, <2>2 DEF Listed
<1>9. chain'[g] = list /\ \A h \in Parties : h # g => chain'[h] = chain[h]  BY <1>1, <1>2
<1>10. \A h \in Parties : \A i \in DOMAIN chain[h] : chain[h][i] \in Parties
  <2> TAKE h \in Parties
  <2>1. chain[h] \in Seq(Parties)  BY <1>1
  <2> QED  BY <2>1
<1>11. /\ \A i \in DOMAIN list : list[i] \in Parties /\ stage[list[i]] = "parked" /\ age[list[i]] <= Behind
       /\ \A i, j \in DOMAIN list : list[i] = list[j] => i = j
       /\ \A h \in Parties : stage[h] = "parked" /\ age[h] <= Behind => \E i \in DOMAIN list : list[i] = h
  BY <1>1 DEF Listed
<1>12. /\ \A h \in Parties : chain[h] # << >> => stage[h] = "ready"
       /\ \A h \in Parties : \A i \in DOMAIN chain[h] :
             stage[chain[h][i]] = "parked" /\ age[chain[h][i]] > Behind
       /\ \A h, k \in Parties : \A i \in DOMAIN chain[h], j \in DOMAIN chain[k] :
             chain[h][i] = chain[k][j] => h = k /\ i = j
       /\ \A h \in Parties : stage[h] = "parked" /\ age[h] > Behind
             => \E k \in Parties : \E i \in DOMAIN chain[k] : chain[k][i] = h
  BY <1>1 DEF Handed
<1>13. Handed'
  <2>1. \A h \in Parties : chain'[h] # << >> => stage'[h] = "ready"  BY <1>4, <1>9, <1>12
  <2>2. ASSUME NEW h \in Parties, NEW i \in DOMAIN chain'[h]
        PROVE  stage'[chain'[h][i]] = "parked" /\ age[chain'[h][i]] > 0
    <3>1. CASE h = g
      <4>1. chain'[h][i] = list[i] /\ i \in DOMAIN list  BY <1>9, <2>2, <3>1
      <4>2. list[i] \in Parties /\ stage[list[i]] = "parked"  BY <1>11, <4>1
      <4> QED  BY <1>4, <1>6, <4>1, <4>2
    <3>2. CASE h # g
      <4>1. chain'[h] = chain[h] /\ chain[h][i] \in Parties  BY <1>9, <1>10, <2>2, <3>2
      <4>2. stage[chain[h][i]] = "parked"  BY <1>12, <2>2, <4>1
      <4> QED  BY <1>4, <1>6, <4>1, <4>2
    <3> QED  BY <3>1, <3>2
  <2>3. ASSUME NEW h \in Parties, NEW k \in Parties, NEW i \in DOMAIN chain'[h], NEW j \in DOMAIN chain'[k],
               chain'[h][i] = chain'[k][j]
        PROVE  h = k /\ i = j
    <3>1. CASE h = g /\ k = g  BY <1>9, <1>11, <2>3, <3>1
    <3>2. CASE h # g /\ k # g  BY <1>9, <1>12, <2>3, <3>2
    <3>3. CASE h = g /\ k # g
      <4>1. i \in DOMAIN list /\ j \in DOMAIN chain[k] /\ list[i] = chain[k][j]  BY <1>9, <2>3, <3>3
      <4>2. list[i] \in Parties /\ age[list[i]] <= Behind /\ age[list[i]] > Behind  BY <1>11, <1>12, <4>1
      <4> QED  BY <1>3, <4>2
    <3>4. CASE h # g /\ k = g
      <4>1. j \in DOMAIN list /\ i \in DOMAIN chain[h] /\ list[j] = chain[h][i]  BY <1>9, <2>3, <3>4
      <4>2. list[j] \in Parties /\ age[list[j]] <= Behind /\ age[list[j]] > Behind  BY <1>11, <1>12, <4>1
      <4> QED  BY <1>3, <4>2
    <3> QED  BY <3>1, <3>2, <3>3, <3>4
  <2>4. ASSUME NEW h \in Parties, stage'[h] = "parked"
        PROVE  \E k \in Parties : \E i \in DOMAIN chain'[k] : chain'[k][i] = h
    <3>1. stage[h] = "parked" /\ (age[h] > Behind \/ age[h] <= Behind)  BY <1>3, <1>4, <2>4
    <3>2. CASE age[h] <= Behind
      <4>1. PICK i \in DOMAIN list : list[i] = h  BY <1>11, <3>1, <3>2
      <4> QED  BY <1>9, <4>1
    <3>3. CASE age[h] > Behind
      <4>1. PICK k \in Parties : \E i \in DOMAIN chain[k] : chain[k][i] = h  BY <1>12, <3>1, <3>3
      <4>2. k # g  BY <1>5, <4>1
      <4> QED  BY <1>9, <4>1, <4>2
    <3> QED  BY <3>1, <3>2, <3>3
  <2> QED  BY <1>3, <1>4, <2>1, <2>2, <2>3, <2>4 DEF Handed
<1>14. CondTypeOK'
  <2>1. "ready" \in Stages  BY DEF Stages
  <2>2. chain' \in [Parties -> Seq(Parties)] /\ list' \in Seq(Parties)  BY <1>1, <1>2
  <2>3. owed' \in [Parties -> SUBSET Parties]  BY <1>1, <1>2
  <2> QED  BY <1>0, <1>1, <1>2, <2>1, <2>2, <2>3, TypesAfter
<1> QED  BY <1>3, <1>4, <1>7, <1>8, <1>13, <1>14 DEF CondInv

\* A notifier readies the next waiter of its chain, or is done.
LEMMA ReadyStep ==
  ASSUME CondInv, NEW g \in Parties, Ready(g)
  PROVE  /\ CondInv' /\ UNCHANGED <<wait, notify, ticket>>
         /\ \A h \in Parties : stage'[h] \in InWait <=> stage[h] \in InWait
<1>0. CondTypeOK /\ Ordered /\ Promise  BY DEF CondInv, Ordered
<1>1. /\ L \in Parties \cup {Nobody} /\ wait \in Tickets /\ notify \in Tickets /\ list \in Seq(Parties)
      /\ stage \in [Parties -> Stages] /\ ticket \in [Parties -> Tickets]
      /\ sawWait \in [Parties -> Tickets] /\ chain \in [Parties -> Seq(Parties)]
      /\ owed \in [Parties -> SUBSET Parties] /\ chain[g] \in Seq(Parties)
      /\ Spaced /\ OneTicket /\ Covered /\ Listed /\ Handed /\ Told
  BY <1>0, CondPieces DEF Ordered
<1>2. stage[g] = "ready" /\ UNCHANGED <<L, wait, notify, list, ticket, sawWait, owed>>  BY DEF Ready
<1>3. owed[g] = {}  BY <1>0, <1>2 DEF Promise
<1>4. CASE chain[g] = << >>
  <2>1. stage' = [stage EXCEPT ![g] = Back(g)] /\ chain' = chain  BY <1>4 DEF Ready, Enter
  <2>2. PICK x \in {"idle", "locked"} : x = Back(g)  BY BackIs
  <2>3. CondInv'  BY <1>1, <1>2, <1>3, <1>4, <2>1, <2>2, NotifierMoves
  <2>4. stage'[g] = x /\ \A h \in Parties : h # g => stage'[h] = stage[h]  BY <1>1, <2>1, <2>2
  <2> QED  BY <1>2, <2>3, <2>4 DEF InWait
<1>5. CASE chain[g] # << >>
  <2>1. PICK q \in Parties : q = Head(chain[g]) /\ q = chain[g][1] /\ 1 \in DOMAIN chain[g]  BY <1>1, <1>5
  <2>2. chain' = [chain EXCEPT ![g] = Tail(@)] /\ stage' = [stage EXCEPT ![q] = "relock"]
    BY <1>5, <2>1 DEF Ready
  <2>3. stage'[q] = "relock" /\ \A h \in Parties : h # q => stage'[h] = stage[h]  BY <1>1, <2>2
  <2>4. chain'[g] = Tail(chain[g]) /\ \A h \in Parties : h # g => chain'[h] = chain[h]  BY <1>1, <2>2
  <2>5. stage[q] = "parked" /\ age[q] > Behind /\ q # g  BY <1>1, <1>2, <2>1 DEF Handed
  <2>6. Behind' = Behind /\ age' = age  BY <1>2, SameAges
  <2>7. \A h \in Parties : /\ stage'[h] \in InWait <=> stage[h] \in InWait
                           /\ stage'[h] = "parked" <=> stage[h] = "parked" /\ h # q
    BY <2>3, <2>5 DEF InWait
  <2>8. Spaced'  BY <1>1, <2>6, <2>7 DEF Spaced, Holds, InWait
  <2>9. OneTicket'  BY <1>1, <2>6, <2>7 DEF OneTicket, Holds, InWait
  <2>10. Covered'  BY <1>1, <2>6, <2>7 DEF Covered, Holds, InWait
  <2>11. Told'  BY <1>1, <2>3, <2>5, <2>6 DEF Told
  <2>12. Behind \in Nat /\ \A h \in Parties : age[h] \in Nat  BY <1>0, AgesAre
  <2>13. Listed'
    <3>1. Listed /\ list' = list  BY <1>1, <1>2
    <3>2. \A i \in DOMAIN list : list[i] \in Parties /\ list[i] # q
      <4> SUFFICES ASSUME NEW i \in DOMAIN list PROVE list[i] \in Parties /\ list[i] # q  OBVIOUS
      <4>1. list[i] \in Parties /\ age[list[i]] <= Behind  BY <1>1 DEF Listed
      <4> QED  BY <2>5, <2>12, <4>1
    <3> QED  BY <2>6, <2>7, <3>1, <3>2 DEF Listed
  <2>14. /\ \A h \in Parties : chain[h] # << >> => stage[h] = "ready"
         /\ \A h \in Parties : \A i \in DOMAIN chain[h] :
               stage[chain[h][i]] = "parked" /\ age[chain[h][i]] > Behind
         /\ \A h, k \in Parties : \A i \in DOMAIN chain[h], j \in DOMAIN chain[k] :
               chain[h][i] = chain[k][j] => h = k /\ i = j
         /\ \A h \in Parties : stage[h] = "parked" /\ age[h] > Behind
               => \E k \in Parties : \E i \in DOMAIN chain[k] : chain[k][i] = h
    BY <1>1 DEF Handed
  <2>15. PICK s \in Seq(Parties) : s = chain[g]  BY <1>1
  <2>16. PICK t : t = Tail(s)  OBVIOUS
  <2>17. /\ t \in Seq(Parties) /\ DOMAIN t = 1..(Len(s) - 1) /\ DOMAIN s = 1..Len(s) /\ Len(s) \in Nat
         /\ \A i \in 1..(Len(s) - 1) : t[i] = s[i + 1]
    BY <1>5, <2>15, <2>16
  \* What a chain held before the step.
  <2>18. ASSUME NEW h \in Parties, NEW i \in DOMAIN chain'[h]
         PROVE  /\ (IF h = g THEN i + 1 ELSE i) \in DOMAIN chain[h]
                /\ chain'[h][i] = chain[h][IF h = g THEN i + 1 ELSE i] /\ chain'[h][i] \in Parties
                /\ chain'[h][i] # q
    <3>1. CASE h = g
      <4>1. i \in 1..(Len(s) - 1) /\ chain'[h][i] = s[i + 1]  BY <2>4, <2>15, <2>16, <2>17, <2>18, <3>1
      <4>2. i + 1 \in DOMAIN s /\ i + 1 # 1 /\ s[i + 1] \in Parties  BY <2>17, <4>1
      <4>3. s[i + 1] # q  BY <2>1, <2>14, <2>15, <4>2
      <4> QED  BY <2>15, <3>1, <4>1, <4>2, <4>3
    <3>2. CASE h # g
      <4>1. chain'[h] = chain[h] /\ chain[h] \in Seq(Parties)  BY <1>1, <2>4, <3>2
      <4>2. i \in DOMAIN chain[h] /\ chain[h][i] \in Parties  BY <2>18, <4>1
      <4>3. chain[h][i] # q  BY <2>1, <2>14, <3>2, <4>2
      <4> QED  BY <3>2, <4>1, <4>2, <4>3
    <3> QED  BY <3>1, <3>2
  <2>19. Handed'
    <3>1. ASSUME NEW h \in Parties, chain'[h] # << >> PROVE stage'[h] = "ready"
      <4>1. CASE h = g  BY <1>2, <2>3, <2>5, <4>1
      <4>2. CASE h # g  BY <2>3, <2>4, <2>5, <2>14, <3>1, <4>2
      <4> QED  BY <4>1, <4>2
    <3>2. ASSUME NEW h \in Parties, NEW i \in DOMAIN chain'[h]
          PROVE  stage'[chain'[h][i]] = "parked" /\ age[chain'[h][i]] > Behind
      <4>1. PICK j \in DOMAIN chain[h] : chain'[h][i] = chain[h][j] /\ chain'[h][i] \in Parties /\ chain'[h][i] # q
        BY <2>18, <3>2
      <4> QED  BY <2>7, <2>14, <4>1
    <3>3. ASSUME NEW h \in Parties, NEW k \in Parties, NEW i \in DOMAIN chain'[h], NEW j \in DOMAIN chain'[k],
                 chain'[h][i] = chain'[k][j]
          PROVE  h = k /\ i = j
      <4>1. PICK a \in DOMAIN chain[h] : a = (IF h = g THEN i + 1 ELSE i) /\ chain'[h][i] = chain[h][a]
        BY <2>18, <3>3
      <4>2. PICK b \in DOMAIN chain[k] : b = (IF k = g THEN j + 1 ELSE j) /\ chain'[k][j] = chain[k][b]
        BY <2>18, <3>3
      <4>3. h = k /\ a = b
        <5>1. chain[h][a] = chain[k][b]  BY <3>3, <4>1, <4>2
        <5>2. \A i1 \in DOMAIN chain[h], j1 \in DOMAIN chain[k] : chain[h][i1] = chain[k][j1] => h = k /\ i1 = j1
          BY <2>14
        <5> QED  BY <5>1, <5>2
      <4>4. i = j
        <5>1. CASE h = g
          <6>1. i \in 1..(Len(s) - 1) /\ j \in 1..(Len(s) - 1)  BY <2>4, <2>15, <2>16, <2>17, <3>3, <4>3, <5>1
          <6> QED  BY <2>17, <4>1, <4>2, <4>3, <5>1, <6>1
        <5>2. CASE h # g
          <6>1. a = i  BY <4>1, <5>2
          <6>2. b = j  BY <4>2, <4>3, <5>2
          <6> QED  BY <4>3, <6>1, <6>2
        <5> QED  BY <5>1, <5>2
      <4> QED  BY <4>3, <4>4
    <3>4. ASSUME NEW h \in Parties, stage'[h] = "parked", age[h] > Behind
          PROVE  \E k \in Parties : \E i \in DOMAIN chain'[k] : chain'[k][i] = h
      <4>1. h # q /\ stage[h] = "parked"  BY <2>7, <3>4
      <4>2. PICK k \in Parties : \E i \in DOMAIN chain[k] : chain[k][i] = h  BY <2>14, <3>4, <4>1
      <4>3. CASE k # g  BY <2>4, <4>2, <4>3
      <4>4. CASE k = g
        <5>1. PICK i \in DOMAIN s : s[i] = h  BY <2>15, <4>2, <4>4
        <5>2. i # 1  BY <2>1, <2>15, <4>1, <5>1
        <5>3. i - 1 \in 1..(Len(s) - 1) /\ t[i - 1] = h  BY <2>17, <5>1, <5>2
        <5> QED  BY <2>4, <2>15, <2>16, <2>17, <5>3
      <4> QED  BY <4>3, <4>4
    <3> QED  BY <2>6, <3>1, <3>2, <3>3, <3>4 DEF Handed
  <2>20. Promise'
    <3>1. \A h \in Parties : owed[h] # {} => stage'[h] = stage[h]
      <4> SUFFICES ASSUME NEW h \in Parties, owed[h] # {} PROVE h # q  BY <2>3
      <4> QED  BY <1>0, <2>5 DEF Promise
    <3> QED  BY <1>0, <1>2, <1>3, <2>7, <3>1, KeptPromises
  <2>21. CondTypeOK'
    <3>1. "relock" \in Stages  BY DEF Stages
    <3>2. chain' \in [Parties -> Seq(Parties)]  BY <1>1, <2>2, <2>15, <2>16, <2>17
    <3> QED  BY <1>0, <1>1, <1>2, <2>2, <3>1, <3>2, TypesAfter
  <2> QED  BY <1>2, <2>7, <2>8, <2>9, <2>10, <2>11, <2>13, <2>19, <2>20, <2>21 DEF CondInv
<1> QED  BY <1>4, <1>5

-----------------------------------------------------------------------------
(* Cond: the theorems.                                                     *)

\* The invariant holds initially.
LEMMA CondInitInv == CondInit => CondInv
<1> SUFFICES ASSUME CondInit PROVE CondInv  OBVIOUS
<1>1. /\ L = Nobody /\ wait = 0 /\ notify = 0 /\ list = << >> /\ stage = [g \in Parties |-> "idle"]
      /\ ticket = [g \in Parties |-> 0] /\ sawWait = [g \in Parties |-> 0]
      /\ chain = [g \in Parties |-> << >>] /\ owed = [g \in Parties |-> {}]
  BY DEF CondInit
<1>2. \A g \in Parties : stage[g] = "idle" /\ chain[g] = << >> /\ owed[g] = {} /\ ~Holds(g)
  BY <1>1 DEF Holds
<1>3. CondTypeOK
  <2>1. 0 \in Tickets  BY Range2
  <2>2. ticket \in [Parties -> Tickets] /\ sawWait \in [Parties -> Tickets]  BY <1>1, <2>1
  <2>3. chain \in [Parties -> Seq(Parties)] /\ list \in Seq(Parties)  BY <1>1
  <2>4. owed \in [Parties -> SUBSET Parties]  BY <1>1
  <2>5. stage \in [Parties -> Stages]  BY <1>1 DEF Stages
  <2> QED  BY <1>1, <2>1, <2>2, <2>3, <2>4, <2>5 DEF CondTypeOK, Stages
<1>4. Behind = 0
  <2>1. 0 \in Tickets  BY Range2
  <2>2. Wrap(0 - 0) = 0  BY <2>1, DistIs
  <2> QED  BY <1>1, <2>2 DEF Behind
<1>5. Spaced
  <2>1. 0 \in 0..HalfRange  BY Range2
  <2> QED  BY <1>2, <1>4, <2>1 DEF Spaced
<1>6. OneTicket /\ Told /\ Promise  BY <1>2 DEF OneTicket, Told, Promise
<1>7. Covered  BY <1>4 DEF Covered
<1>8. Listed
  <2>1. DOMAIN list = {}  BY <1>1
  <2> QED  BY <1>2, <2>1 DEF Listed
<1>9. Handed
  <2>1. \A g \in Parties : DOMAIN chain[g] = {}  BY <1>2
  <2> QED  BY <1>2, <2>1 DEF Handed
<1> QED  BY <1>3, <1>5, <1>6, <1>7, <1>8, <1>9 DEF CondInv

\* The invariant is inductive: one step per action.
LEMMA CondStepInv == CondInv /\ [CondNext]_condVars => CondInv'
<1> SUFFICES ASSUME CondInv, [CondNext]_condVars PROVE CondInv'  OBVIOUS
<1>1. ASSUME NEW g \in Parties, LockL(g) PROVE CondInv'  BY <1>1, LockLStep
<1>2. ASSUME NEW g \in Parties, UnlockL(g) \/ WaitUnlock(g) PROVE CondInv'  BY <1>2, ReleaseLStep
<1>3. ASSUME NEW g \in Parties, ListAdd(g) PROVE CondInv'  BY <1>3, ListAddStep
<1>4. ASSUME NEW g \in Parties, ListWait(g) PROVE CondInv'  BY <1>4, ListWaitStep
<1>5. ASSUME NEW g \in Parties, NEW how \in {"signal", "broadcast"}, Notify(g, how) PROVE CondInv'
  BY <1>5, NotifyCallStep
<1>6. ASSUME NEW g \in Parties, FastPath(g) PROVE CondInv'  BY <1>6, FastPathStep
<1>7. ASSUME NEW g \in Parties, NotifyOne(g) PROVE CondInv'  BY <1>7, NotifyOneTicket, NotifyOneNothing
<1>8. ASSUME NEW g \in Parties, NotifyAll(g) PROVE CondInv'  BY <1>8, NotifyAllStep
<1>9. ASSUME NEW g \in Parties, Ready(g) PROVE CondInv'  BY <1>9, ReadyStep
<1>10. CASE UNCHANGED condVars
  <2>1. UNCHANGED <<L, wait, notify, list, stage, ticket, sawWait, chain, owed>>  BY <1>10 DEF condVars
  <2>2. Behind' = Behind /\ age' = age  BY <2>1, SameAges
  <2> QED  BY <2>1, <2>2 DEF CondInv, CondTypeOK, Spaced, OneTicket, Covered, Listed, Handed, Told, Promise, Holds
<1> QED  BY <1>1, <1>2, <1>3, <1>4, <1>5, <1>6, <1>7, <1>8, <1>9, <1>10 DEF CondNext, NotifyStep

\* The invariant holds in every state.
THEOREM CondAlwaysInv == CondBehavior => []CondInv
BY CondInitInv, CondStepInv, PTL DEF CondBehavior

\* Every variable of a Cond keeps its type.
THEOREM CondTypes == CondBehavior => []CondTypeOK
<1>1. CondInv => CondTypeOK  BY DEF CondInv
<1> QED  BY CondAlwaysInv, <1>1, PTL

\* Who holds a ticket is pending as long as fewer tickets than it is old are notified.
LEMMA PendingIs == CondInv => \A g \in Parties : Holds(g) => (Pending(g) <=> age[g] <= Behind)
<1> SUFFICES ASSUME CondInv, NEW g \in Parties, Holds(g) PROVE Pending(g) <=> age[g] <= Behind  OBVIOUS
<1>1. CondTypeOK /\ Spaced  BY DEF CondInv
<1>2. age[g] \in 1..HalfRange /\ Behind \in 0..HalfRange  BY <1>1 DEF Spaced
<1>3. wait \in Tickets /\ notify \in Tickets /\ ticket[g] \in Tickets  BY <1>1, CondPieces
<1>4. age[g] = Wrap(wait - ticket[g])  BY DEF age
<1>5. less(ticket[g], notify) <=> age[g] > Behind  BY <1>2, <1>3, <1>4, LessIs DEF Behind
<1>6. age[g] \in Nat /\ Behind \in Nat  BY <1>1, AgesAre
<1> QED  BY <1>5, <1>6 DEF Pending

\* A parked waiter is in the list with a ticket not yet notified, or notified and in the
\* hands of exactly one notifier: nobody sleeps out of reach.
THEOREM ParkedWaitersAreReachable == CondBehavior => []ParkedIsReachable
<1>1. CondInv => ParkedIsReachable
  <2> SUFFICES ASSUME CondInv, NEW g \in Parties, stage[g] = "parked"
               PROVE  \/ /\ Pending(g)
                         /\ \E i \in DOMAIN list : list[i] = g
                         /\ \A h \in Parties : ~Contains(chain[h], g)
                      \/ /\ ~Pending(g)
                         /\ ~\E i \in DOMAIN list : list[i] = g
                         /\ \E h \in Parties : /\ Contains(chain[h], g)
                                               /\ \A k \in Parties \ {h} : ~Contains(chain[k], g)
    BY DEF ParkedIsReachable
  <2>1. CondTypeOK /\ Listed /\ Handed  BY DEF CondInv
  <2>2. Behind \in Nat /\ \A h \in Parties : age[h] \in Nat  BY <2>1, AgesAre
  <2>3. Holds(g) /\ (Pending(g) <=> age[g] <= Behind)  BY PendingIs DEF Holds
  <2>4. \A h \in Parties : Contains(chain[h], g) <=> \E i \in DOMAIN chain[h] : chain[h][i] = g
    <3> TAKE h \in Parties
    <3>1. chain[h] \in Seq(Parties)  BY <2>1, CondPieces
    <3>2. DOMAIN chain[h] = 1..Len(chain[h])  BY <3>1
    <3> QED  BY <3>2 DEF Contains
  <2>5. CASE age[g] <= Behind
    <3>1. \E i \in DOMAIN list : list[i] = g  BY <2>1, <2>5 DEF Listed
    <3>2. ASSUME NEW h \in Parties, NEW i \in DOMAIN chain[h] PROVE chain[h][i] # g
      <4>1. age[chain[h][i]] > Behind  BY <2>1, <3>2 DEF Handed
      <4> QED  BY <2>2, <2>5, <4>1
    <3> QED  BY <2>3, <2>4, <2>5, <3>1, <3>2
  <2>6. CASE age[g] > Behind
    <3>1. ~(age[g] <= Behind)  BY <2>2, <2>6
    <3>2. ~\E i \in DOMAIN list : list[i] = g  BY <2>1, <3>1 DEF Listed
    <3>3. PICK h \in Parties : \E i \in DOMAIN chain[h] : chain[h][i] = g  BY <2>1, <2>6 DEF Handed
    <3>4. \A k \in Parties \ {h} : \A j \in DOMAIN chain[k] : chain[k][j] # g  BY <2>1, <3>3 DEF Handed
    <3> QED  BY <2>3, <2>4, <3>1, <3>2, <3>3, <3>4
  <2> QED  BY <2>2, <2>5, <2>6
<1> QED  BY CondAlwaysInv, <1>1, PTL

\* A notifier leaves without notifying anyone only when all it found pending are notified.
LEMMA LeavesInPeace ==
  ASSUME CondInv, CondNext, NEW g \in Parties, stage[g] \in {"signal", "broadcast", "one"},
         stage'[g] \in {"idle", "locked"}, notify' = notify, NEW h \in owed[g]
  PROVE  ~Pending(h)
<1>1. /\ CondTypeOK /\ Promise /\ stage \in [Parties -> Stages] /\ owed \in [Parties -> SUBSET Parties]
      /\ wait \in Tickets /\ notify \in Tickets /\ sawWait \in [Parties -> Tickets] /\ h \in Parties
      /\ Spaced /\ Handed
  BY CondPieces DEF CondInv
<1>2. Holds(h) /\ (stage[g] \in {"signal", "broadcast"} => Wrap(wait - sawWait[g]) < age[h])  BY <1>1 DEF Promise
<1>3. Behind \in Nat /\ age[h] \in Nat /\ age[h] > 0
  <2>1. Behind \in Nat /\ age[h] \in Nat  BY <1>1, AgesAre
  <2>2. age[h] \in 1..HalfRange  BY <1>1, <1>2 DEF Spaced
  <2> QED  BY <2>1, <2>2, Range2
<1>4. SUFFICES Behind < age[h]
  <2>1. Pending(h) <=> age[h] <= Behind  BY <1>1, <1>2, PendingIs
  <2> QED  BY <1>3, <1>4, <2>1
<1>5. stage'[g] # stage[g]  OBVIOUS
<1>6. PICK k \in Parties : \/ LockL(k) \/ UnlockL(k) \/ ListAdd(k) \/ WaitUnlock(k) \/ ListWait(k)
                           \/ (\E how \in {"signal", "broadcast"} : Notify(k, how))
                           \/ FastPath(k) \/ NotifyOne(k) \/ NotifyAll(k) \/ Ready(k)
  BY DEF CondNext, NotifyStep
<1>7. CASE FastPath(k)
  <2>1. \E x : stage' = [stage EXCEPT ![k] = x]  BY <1>7 DEF FastPath, Enter
  <2>2. k = g  BY <1>1, <1>5, <2>1
  <2>3. NoneNew(g)
    <3> SUFFICES ASSUME ~NoneNew(g) PROVE FALSE  OBVIOUS
    <3>1. stage' = [stage EXCEPT ![g] = IF stage[g] = "signal" THEN "one" ELSE "all"]
      BY <1>7, <2>2 DEF FastPath, Enter
    <3> QED  BY <1>1, <3>1
  <2>4. stage[g] \in {"signal", "broadcast"} /\ sawWait[g] = notify  BY <1>7, <2>2, <2>3 DEF FastPath, NoneNew
  <2> QED  BY <1>2, <2>4 DEF Behind
<1>8. CASE NotifyOne(k)
  <2>1. stage[k] = "one"  BY <1>8 DEF NotifyOne
  <2>2. \E x : stage' = [stage EXCEPT ![k] = x]  BY <1>8 DEF NotifyOne, Enter
  <2>3. k = g  BY <1>1, <1>5, <2>2
  <2>4. notify = wait
    <3> SUFFICES ASSUME notify # wait PROVE FALSE  OBVIOUS
    <3>1. notify' = Wrap(notify + 1)  BY <1>8 DEF NotifyOne
    <3>2. Wrap(notify + 1) # notify
      <4>1. PICK b \in Nat \ {0} : b = HalfRange  BY Range2
      <4>2. Wrap(notify + 1) = IF notify = 2 * b - 1 THEN 0 ELSE notify + 1  BY <1>1, <4>1, SuccIs
      <4>3. notify \in 0..(2 * b - 1)  BY <1>1, <4>1, Range2
      <4> QED  BY <4>1, <4>2, <4>3
    <3> QED  BY <3>1, <3>2
  <2>5. Behind = 0  BY <1>1, <2>4, DistIs DEF Behind
  <2> QED  BY <1>3, <2>5
<1>9. CASE Ready(k)
  <2>1. stage[k] = "ready"  BY <1>9 DEF Ready
  <2>2. k # g  BY <2>1
  <2>3. CASE chain[k] = << >>
    <3>1. stage' = [stage EXCEPT ![k] = Back(k)]  BY <1>9, <2>3 DEF Ready, Enter
    <3> QED  BY <1>1, <1>5, <2>2, <3>1
  <2>4. CASE chain[k] # << >>
    <3>1. stage' = [stage EXCEPT ![Head(chain[k])] = "relock"]  BY <1>9, <2>4 DEF Ready
    <3> QED  BY <1>1, <1>5, <3>1
  <2> QED  BY <2>3, <2>4
<1>10. CASE \/ LockL(k) \/ UnlockL(k) \/ ListAdd(k) \/ WaitUnlock(k) \/ ListWait(k)
            \/ (\E how \in {"signal", "broadcast"} : Notify(k, how)) \/ NotifyAll(k)
  <2>1. \E x : stage' = [stage EXCEPT ![k] = x]
    BY <1>10 DEF LockL, UnlockL, ListAdd, WaitUnlock, ListWait, Notify, NotifyAll, Enter
  <2>2. stage[k] \in {"idle", "relock", "locked", "unlock", "wait", "all"}
    BY <1>10 DEF LockL, UnlockL, ListAdd, WaitUnlock, ListWait, Notify, NotifyAll
  <2>3. k # g  BY <2>2
  <2> QED  BY <1>1, <1>5, <2>1, <2>3
<1> QED  BY <1>6, <1>7, <1>8, <1>9, <1>10

\* A Signal or Broadcast that returns without notifying anyone, by the fast path or under
\* the lock, finds all who waited when it was called notified.
THEOREM NotificationsAreNotLost == CondBehavior => NoLostNotification
<1>1. ASSUME CondInv, [CondNext]_condVars
      PROVE  [\A g \in Parties :
                stage[g] \in {"signal", "broadcast", "one"} /\ stage'[g] \in {"idle", "locked"}
                    /\ notify' = notify
                => \A h \in owed[g] : ~Pending(h)]_condVars
  <2>1. CASE CondNext  BY <1>1, <2>1, LeavesInPeace
  <2>2. CASE UNCHANGED condVars  BY <2>2
  <2> QED  BY <1>1, <2>1, <2>2
<1> QED  BY CondAlwaysInv, <1>1, PTL DEF CondBehavior, NoLostNotification

-----------------------------------------------------------------------------
(* Cond: the ticket list implements the condition variable of CondSpec.    *)

\* The abstract queue holds the pending Waits by age, the oldest first, and those who are
\* notified are the older ones.
AbsByAge ==
    /\ absWaiting \in Seq(Parties) /\ Len(absWaiting) = Behind
    /\ \A i \in 1..Behind : /\ stage[absWaiting[i]] \in InWait
                            /\ age[absWaiting[i]] = Behind - i + 1
    /\ absNotified = {g \in Parties : stage[g] \in InWait /\ age[g] > Behind}

\* The mapped queue and the mapped set of notified Waits, read by age, in every
\* state of the invariant.
LEMMA AbsIs == CondInv => AbsByAge
<1> SUFFICES ASSUME CondInv PROVE AbsByAge  OBVIOUS
<1>1. CondTypeOK /\ Spaced /\ Covered /\ wait \in Tickets /\ notify \in Tickets /\ ticket \in [Parties -> Tickets]
  BY CondPieces DEF CondInv
<1>2. Behind \in Nat /\ \A g \in Parties : age[g] \in Nat /\ age[g] = Wrap(wait - ticket[g])  BY <1>1, AgesAre
<1>3. ASSUME NEW i \in 1..Behind
      PROVE  LET q == HolderOf(Wrap(notify + i - 1))
             IN  q \in Parties /\ stage[q] \in InWait /\ age[q] = Behind - i + 1
  <2>1. PICK j \in Nat : j = i - 1 /\ j <= Behind  BY <1>2
  <2>2. PICK t \in Tickets : t = Wrap(notify + j) /\ Wrap(wait - t) = Behind - j
    BY <1>1, <2>1, Ahead DEF Behind
  <2>3. notify + i - 1 = notify + j
    <3>1. notify \in Int  BY <1>1, Range2
    <3> QED  BY <1>2, <2>1, <3>1
  <2>4. Behind - j \in 1..Behind /\ Behind - j = Behind - i + 1  BY <1>2, <2>1
  <2>5. PICK g \in Parties : stage[g] \in InWait /\ age[g] = Behind - j
    BY <1>1, <2>4 DEF Covered, Holds, InWait
  <2>6. ticket[g] = t
    <3>1. ticket[g] \in Tickets /\ Wrap(wait - ticket[g]) = Wrap(wait - t)  BY <1>1, <1>2, <2>2, <2>5
    <3> QED  BY <1>1, <3>1, SameDist
  <2>7. PICK hs : hs = {h \in Parties : Holds(h) /\ ticket[h] = t}  OBVIOUS
  <2>8. g \in hs  BY <2>5, <2>6, <2>7 DEF Holds, InWait
  <2>9. HolderOf(t) = CHOOSE h \in hs : TRUE  BY <2>7, <2>8 DEF HolderOf
  <2>10. HolderOf(t) \in hs  BY <2>8, <2>9
  <2>11. PICK q \in Parties : q = HolderOf(t) /\ stage[q] \in InWait /\ ticket[q] = t
    BY <2>7, <2>10 DEF Holds, InWait
  <2>12. age[q] = Behind - i + 1  BY <1>2, <2>2, <2>4, <2>11
  <2> QED  BY <2>2, <2>3, <2>11, <2>12
<1>4. absWaiting = [i \in 1..Behind |-> HolderOf(Wrap(notify + i - 1))]  BY DEF absWaiting, Behind
<1>5. PICK n \in Nat : n = Behind  BY <1>2
<1>6. absWaiting \in [1..n -> Parties]  BY <1>3, <1>4, <1>5
<1>7. absWaiting \in Seq(Parties) /\ Len(absWaiting) = n  BY <1>6
<1>8. \A i \in 1..n : absWaiting[i] = HolderOf(Wrap(notify + i - 1))  BY <1>4, <1>5
<1>9. \A i \in 1..Behind : stage[absWaiting[i]] \in InWait /\ age[absWaiting[i]] = Behind - i + 1
  BY <1>3, <1>5, <1>8
<1>10. absNotified = {g \in Parties : stage[g] \in InWait /\ age[g] > Behind}
  <2>1. ASSUME NEW g \in Parties PROVE (Holds(g) /\ ~Pending(g)) <=> (stage[g] \in InWait /\ age[g] > Behind)
    <3>1. Holds(g) <=> stage[g] \in InWait  BY DEF Holds, InWait
    <3>2. Holds(g) => (Pending(g) <=> age[g] <= Behind)  BY PendingIs
    <3>3. age[g] <= Behind <=> ~(age[g] > Behind)  BY <1>2
    <3> QED  BY <3>1, <3>2, <3>3
  <2> QED  BY <2>1 DEF absNotified
<1> QED  BY <1>5, <1>7, <1>9, <1>10 DEF AbsByAge

\* The same of the state a step leads to.
LEMMA AbsIsNext == CondInv' => AbsByAge'
BY AbsIs, PTL

\* Steps that change no ticket and let at most notified ones leave keep the abstract queue.
LEMMA SameWaiting ==
  ASSUME CondInv, CondInv', Behind' = Behind,
         \A h \in Parties : stage'[h] \in InWait => stage[h] \in InWait /\ age'[h] = age[h]
  PROVE  absWaiting' = absWaiting
<1>1. AbsByAge /\ AbsByAge' /\ OneTicket /\ CondTypeOK  BY AbsIs, AbsIsNext DEF CondInv
<1>2. PICK n \in Nat : n = Behind  BY <1>1, AgesAre
<1>3. PICK w \in Seq(Parties) : w = absWaiting  BY <1>1 DEF AbsByAge
<1>4. PICK v \in Seq(Parties) : v = absWaiting'  BY <1>1 DEF AbsByAge
<1>5. Len(w) = n /\ \A i \in 1..n : stage[w[i]] \in InWait /\ age[w[i]] = n - i + 1
  BY <1>1, <1>2, <1>3 DEF AbsByAge
<1>6. Len(v) = n /\ \A i \in 1..n : stage'[v[i]] \in InWait /\ age'[v[i]] = n - i + 1
  BY <1>1, <1>2, <1>4 DEF AbsByAge
<1>7. ASSUME NEW i \in 1..n PROVE v[i] = w[i]
  <2>1. v[i] \in Parties /\ w[i] \in Parties  BY <1>5, <1>6
  <2>2. stage[v[i]] \in InWait /\ age[v[i]] = n - i + 1  BY <1>6, <2>1
  <2>3. age[v[i]] = age[w[i]] /\ stage[w[i]] \in InWait  BY <1>5, <2>2
  <2> QED  BY <1>1, <2>1, <2>2, <2>3 DEF OneTicket, Holds, InWait
<1>8. v = w  BY <1>5, <1>6, <1>7, SeqEqual
<1> QED  BY <1>3, <1>4, <1>8

\* Steps that change neither the tickets nor who is in Wait are invisible.
LEMMA Invisible ==
  ASSUME CondInv, CondInv', Behind' = Behind, age' = age,
         \A h \in Parties : stage'[h] \in InWait <=> stage[h] \in InWait
  PROVE  UNCHANGED <<absWaiting, absNotified>>
<1>1. absWaiting' = absWaiting  BY SameWaiting
<1>2. AbsByAge /\ AbsByAge'  BY AbsIs, AbsIsNext
<1>3. absNotified' = absNotified  BY <1>2 DEF AbsByAge
<1> QED  BY <1>1, <1>3

\* Taking a ticket enrolls the Wait.
LEMMA AddEnrolls ==
  ASSUME CondInv, CondInv', NEW g \in Parties, ListAdd(g)
  PROVE  Abs!Enroll(g)
<1>1. AbsByAge /\ AbsByAge' /\ OneTicket /\ OneTicket' /\ CondTypeOK  BY AbsIs, AbsIsNext DEF CondInv
<1>2. /\ Behind' = Behind + 1 /\ age'[g] = 1
      /\ \A h \in Parties : stage[h] \in InWait => h # g /\ stage'[h] = stage[h] /\ age'[h] = age[h] + 1
      /\ stage'[g] = "unlock" /\ stage[g] = "locked" /\ \A h \in Parties : h # g => stage'[h] = stage[h]
  BY ListAddStep
<1>3. PICK n \in Nat : n = Behind  BY <1>1, AgesAre
<1>4. PICK w \in Seq(Parties) : w = absWaiting  BY <1>1 DEF AbsByAge
<1>5. PICK v \in Seq(Parties) : v = absWaiting'  BY <1>1 DEF AbsByAge
<1>6. Len(w) = n /\ \A i \in 1..n : stage[w[i]] \in InWait /\ age[w[i]] = n - i + 1
  BY <1>1, <1>3, <1>4 DEF AbsByAge
<1>7. Len(v) = n + 1 /\ \A i \in 1..(n + 1) : stage'[v[i]] \in InWait /\ age'[v[i]] = n + 1 - i + 1
  BY <1>1, <1>2, <1>3, <1>5 DEF AbsByAge
<1>8. \A h \in Parties : age[h] \in Nat  BY <1>1, AgesAre
<1>9. stage'[g] \in InWait /\ stage[g] \notin InWait  BY <1>2 DEF InWait
<1>10. v = Append(w, g)
  <2>1. ASSUME NEW i \in 1..n PROVE v[i] = w[i]
    <3>1. v[i] \in Parties /\ w[i] \in Parties  BY <1>6, <1>7
    <3>2. v[i] # g
      <4>1. age'[v[i]] = n + 1 - i + 1  BY <1>7
      <4> QED  BY <1>2, <4>1
    <3>3. stage[v[i]] \in InWait /\ age'[v[i]] = age[v[i]] + 1  BY <1>2, <1>7, <3>1, <3>2
    <3>4. age[v[i]] = n - i + 1  BY <1>7, <1>8, <3>1, <3>3
    <3>5. age[v[i]] = age[w[i]] /\ stage[w[i]] \in InWait  BY <1>6, <3>4
    <3> QED  BY <1>1, <3>1, <3>3, <3>5 DEF OneTicket, Holds, InWait
  <2>2. v[n + 1] = g
    <3>1. v[n + 1] \in Parties /\ stage'[v[n + 1]] \in InWait /\ age'[v[n + 1]] = 1
      <4>1. n + 1 \in 1..(n + 1) /\ n + 1 - (n + 1) + 1 = 1  OBVIOUS
      <4>2. v[n + 1] \in Parties  BY <1>7, <4>1
      <4>3. stage'[v[n + 1]] \in InWait /\ age'[v[n + 1]] = n + 1 - (n + 1) + 1  BY <1>7, <4>1
      <4> QED  BY <4>1, <4>2, <4>3
    <3> QED  BY <1>1, <1>2, <1>9, <3>1 DEF OneTicket, Holds, InWait
  <2>3. PICK u \in Seq(Parties) : u = Append(w, g)
    <3>1. Append(w, g) \in Seq(Parties)  BY AppendProperties
    <3> QED  BY <3>1, Zenon
  <2>4. Len(u) = n + 1 /\ u[n + 1] = g /\ \A i \in 1..n : u[i] = w[i]  BY <1>6, <2>3
  <2>5. \A i \in 1..(n + 1) : v[i] = u[i]  BY <2>1, <2>2, <2>4
  <2>6. v = u  BY <1>7, <2>4, <2>5, SeqEqual
  <2> QED  BY <2>3, <2>6
<1>11. absNotified' = absNotified
  <2>1. ASSUME NEW h \in Parties
        PROVE  (stage'[h] \in InWait /\ age'[h] > n + 1) <=> (stage[h] \in InWait /\ age[h] > n)
    <3>1. CASE h = g  BY <1>2, <1>9, <3>1
    <3>2. CASE h # g  BY <1>2, <1>8, <3>2
    <3> QED  BY <3>1, <3>2
  <2>2. absNotified = {h \in Parties : stage[h] \in InWait /\ age[h] > n}  BY <1>1, <1>3 DEF AbsByAge
  <2>3. absNotified' = {h \in Parties : stage'[h] \in InWait /\ age'[h] > n + 1}
    BY <1>1, <1>2, <1>3 DEF AbsByAge
  <2> QED  BY <2>1, <2>2, <2>3
<1>12. g \notin absNotified  BY <1>1, <1>9 DEF AbsByAge
<1>13. g \notin Abs!Elems(absWaiting)  BY <1>4, <1>6, <1>9 DEF Abs!Elems
<1> QED  BY <1>4, <1>5, <1>10, <1>11, <1>12, <1>13 DEF Abs!Enroll

\* NotifyOne with a ticket to notify signals the oldest pending Wait.
LEMMA OneSignals ==
  ASSUME CondInv, CondInv', NEW g \in Parties, NotifyOne(g), notify # wait
  PROVE  Abs!Signal
<1>1. AbsByAge /\ AbsByAge' /\ OneTicket /\ CondTypeOK  BY AbsIs, AbsIsNext DEF CondInv
<1>2. /\ Behind > 0 /\ Behind' = Behind - 1 /\ age' = age
      /\ \A h \in Parties : stage'[h] \in InWait <=> stage[h] \in InWait
  BY NotifyOneTicket
<1>3. PICK n \in Nat : n = Behind /\ n > 0  BY <1>1, <1>2, AgesAre
<1>4. PICK w \in Seq(Parties) : w = absWaiting  BY <1>1 DEF AbsByAge
<1>5. PICK v \in Seq(Parties) : v = absWaiting'  BY <1>1 DEF AbsByAge
<1>6. Len(w) = n /\ \A i \in 1..n : stage[w[i]] \in InWait /\ age[w[i]] = n - i + 1
  BY <1>1, <1>3, <1>4 DEF AbsByAge
<1>7. Len(v) = n - 1 /\ \A i \in 1..(n - 1) : stage'[v[i]] \in InWait /\ age'[v[i]] = n - 1 - i + 1
  BY <1>1, <1>2, <1>3, <1>5 DEF AbsByAge
<1>8. \A h \in Parties : age[h] \in Nat  BY <1>1, AgesAre
<1>9. w # << >> /\ Head(w) = w[1] /\ w[1] \in Parties /\ stage[w[1]] \in InWait /\ age[w[1]] = n
  BY <1>3, <1>6
<1>10. v = Tail(w)
  <2>1. PICK u \in Seq(Parties) : u = Tail(w)
    <3>1. Tail(w) \in Seq(Parties)  BY <1>9
    <3> QED  BY <3>1, Zenon
  <2>2. Len(u) = n - 1 /\ \A i \in 1..(n - 1) : u[i] = w[i + 1]  BY <1>3, <1>6, <1>9, <2>1
  <2>3. ASSUME NEW i \in 1..(n - 1) PROVE v[i] = u[i]
    <3>1. v[i] \in Parties /\ w[i + 1] \in Parties  BY <1>6, <1>7
    <3>2. stage[v[i]] \in InWait /\ age[v[i]] = n - i
      <4>1. stage'[v[i]] \in InWait /\ age'[v[i]] = n - 1 - i + 1  BY <1>7
      <4>2. stage[v[i]] \in InWait  BY <1>2, <3>1, <4>1
      <4>3. age[v[i]] = n - 1 - i + 1  BY <1>2, <4>1
      <4>4. n - 1 - i + 1 = n - i  OBVIOUS
      <4> QED  BY <4>2, <4>3, <4>4
    <3>3. i + 1 \in 1..n  BY <1>3
    <3>4. stage[w[i + 1]] \in InWait /\ age[w[i + 1]] = n - i  BY <1>6, <3>3
    <3>5. v[i] = w[i + 1]  BY <1>1, <3>1, <3>2, <3>4 DEF OneTicket, Holds, InWait
    <3> QED  BY <2>2, <3>5
  <2>4. v = u  BY <1>7, <2>2, <2>3, SeqEqual
  <2> QED  BY <2>1, <2>4
<1>11. absNotified' = absNotified \cup {w[1]}
  <2>1. ASSUME NEW h \in Parties
        PROVE  (stage'[h] \in InWait /\ age'[h] > n - 1) <=> (stage[h] \in InWait /\ age[h] > n) \/ h = w[1]
    <3>1. stage[h] \in InWait /\ age[h] = n => h = w[1]  BY <1>1, <1>9 DEF OneTicket, Holds, InWait
    <3>2. age[h] > n - 1 <=> age[h] > n \/ age[h] = n  BY <1>3, <1>8
    <3> QED  BY <1>2, <1>9, <3>1, <3>2
  <2>2. absNotified = {h \in Parties : stage[h] \in InWait /\ age[h] > n}  BY <1>1, <1>3 DEF AbsByAge
  <2>3. absNotified' = {h \in Parties : stage'[h] \in InWait /\ age'[h] > n - 1}
    BY <1>1, <1>2, <1>3 DEF AbsByAge
  <2> QED  BY <1>9, <2>1, <2>2, <2>3
<1> QED  BY <1>4, <1>5, <1>9, <1>10, <1>11 DEF Abs!Signal

\* NotifyAll broadcasts.
LEMMA AllBroadcasts ==
  ASSUME CondInv, CondInv', NEW g \in Parties, NotifyAll(g)
  PROVE  Abs!Broadcast
<1>1. AbsByAge /\ AbsByAge' /\ OneTicket /\ Spaced /\ CondTypeOK  BY AbsIs, AbsIsNext DEF CondInv
<1>2. /\ Behind' = 0 /\ age' = age
      /\ \A h \in Parties : stage'[h] \in InWait <=> stage[h] \in InWait
  BY NotifyAllStep
<1>3. PICK n \in Nat : n = Behind  BY <1>1, AgesAre
<1>4. PICK w \in Seq(Parties) : w = absWaiting  BY <1>1 DEF AbsByAge
<1>5. PICK v \in Seq(Parties) : v = absWaiting'  BY <1>1 DEF AbsByAge
<1>6. Len(w) = n /\ \A i \in 1..n : stage[w[i]] \in InWait /\ age[w[i]] = n - i + 1
  BY <1>1, <1>3, <1>4 DEF AbsByAge
<1>7. v = << >>
  <2>1. Len(v) = 0  BY <1>1, <1>2, <1>5 DEF AbsByAge
  <2> QED  BY <2>1
<1>8. \A h \in Parties : stage[h] \in InWait => age[h] \in Nat /\ age[h] > 0
  <2> SUFFICES ASSUME NEW h \in Parties, stage[h] \in InWait PROVE age[h] \in Nat /\ age[h] > 0  OBVIOUS
  <2>1. age[h] \in 1..HalfRange  BY <1>1 DEF Spaced, Holds, InWait
  <2> QED  BY <2>1, Range2
<1>9. absNotified' = absNotified \cup Abs!Elems(w)
  <2>1. ASSUME NEW h \in Parties
        PROVE  stage[h] \in InWait <=> (stage[h] \in InWait /\ age[h] > n) \/ \E i \in 1..n : w[i] = h
    <3>1. ASSUME stage[h] \in InWait, ~(age[h] > n) PROVE \E i \in 1..n : w[i] = h
      <4>1. PICK i \in 1..n : n - i + 1 = age[h]
        <5>1. n - age[h] + 1 \in 1..n /\ n - (n - age[h] + 1) + 1 = age[h]  BY <1>8, <3>1
        <5> QED  BY <5>1
      <4>2. w[i] \in Parties /\ stage[w[i]] \in InWait /\ age[w[i]] = age[h]  BY <1>6, <4>1
      <4> QED  BY <1>1, <3>1, <4>2 DEF OneTicket, Holds, InWait
    <3> QED  BY <1>6, <3>1
  <2>2. absNotified = {h \in Parties : stage[h] \in InWait /\ age[h] > n}  BY <1>1, <1>3 DEF AbsByAge
  <2>3. absNotified' = {h \in Parties : stage'[h] \in InWait /\ age'[h] > 0}
    BY <1>1, <1>2 DEF AbsByAge
  <2>4. absNotified' = {h \in Parties : stage[h] \in InWait}  BY <1>2, <1>8, <2>3
  <2>5. Abs!Elems(w) = {w[i] : i \in 1..n} /\ \A i \in 1..n : w[i] \in Parties  BY <1>6 DEF Abs!Elems
  <2> QED  BY <2>1, <2>2, <2>4, <2>5
<1> QED  BY <1>4, <1>5, <1>7, <1>9 DEF Abs!Broadcast

\* L is taken back by a notified Wait, which returns, or by Lock.
LEMMA LockReturns ==
  ASSUME CondInv, CondInv', NEW g \in Parties, LockL(g)
  PROVE  Abs!Return(g) \/ UNCHANGED <<absWaiting, absNotified>>
<1>1. AbsByAge /\ AbsByAge' /\ Told /\ CondTypeOK  BY AbsIs, AbsIsNext DEF CondInv
<1>2. /\ stage[g] \in {"idle", "relock"} /\ stage' = [stage EXCEPT ![g] = "locked"]
      /\ ticket' = [ticket EXCEPT ![g] = 0] /\ UNCHANGED <<wait, notify>>
  BY DEF LockL, Enter
<1>3. stage \in [Parties -> Stages] /\ ticket \in [Parties -> Tickets]  BY <1>1, CondPieces
<1>4. /\ Behind' = Behind /\ \A h \in Parties : h # g => age'[h] = age[h] /\ stage'[h] = stage[h]
      /\ stage'[g] \notin InWait
  BY <1>2, <1>3 DEF Behind, age, InWait
<1>5. absWaiting' = absWaiting
  <2>1. \A h \in Parties : stage'[h] \in InWait => stage[h] \in InWait /\ age'[h] = age[h]  BY <1>4
  <2> QED  BY <1>4, <2>1, SameWaiting
<1>6. absNotified' = absNotified \ {g}
  <2>1. absNotified = {h \in Parties : stage[h] \in InWait /\ age[h] > Behind}  BY <1>1 DEF AbsByAge
  <2>2. absNotified' = {h \in Parties : stage'[h] \in InWait /\ age'[h] > Behind}  BY <1>1, <1>4 DEF AbsByAge
  <2> QED  BY <1>4, <2>1, <2>2
<1>7. CASE stage[g] = "idle"
  <2>1. g \notin absNotified  BY <1>1, <1>7 DEF AbsByAge, InWait
  <2> QED  BY <1>5, <1>6, <2>1
<1>8. CASE stage[g] = "relock"
  <2>1. g \in absNotified  BY <1>1, <1>8 DEF AbsByAge, InWait, Told
  <2> QED  BY <1>5, <1>6, <2>1 DEF Abs!Return
<1> QED  BY <1>2, <1>7, <1>8

\* The other steps are invisible.
LEMMA OthersInvisible ==
  ASSUME CondInv, CondInv', NEW g \in Parties,
         \/ UnlockL(g) \/ WaitUnlock(g) \/ ListWait(g) \/ FastPath(g) \/ Ready(g)
         \/ \E how \in {"signal", "broadcast"} : Notify(g, how)
  PROVE  UNCHANGED <<absWaiting, absNotified>>
<1>1. stage \in [Parties -> Stages]  BY CondPieces DEF CondInv
<1>2. UNCHANGED <<wait, notify, ticket>>  BY DEF UnlockL, WaitUnlock, ListWait, FastPath, Ready, Notify
<1>3. Behind' = Behind /\ age' = age  BY <1>2, SameAges
<1>4. \A h \in Parties : stage'[h] \in InWait <=> stage[h] \in InWait
  <2>1. CASE Ready(g)  BY <2>1, ReadyStep
  <2>2. CASE UnlockL(g) \/ WaitUnlock(g) \/ ListWait(g)
    <3>1. PICK x \in {"idle", "wait", "relock", "parked"} :
            /\ stage' = [stage EXCEPT ![g] = x]
            /\ stage[g] \in {"locked", "unlock", "wait"} /\ (stage[g] = "locked" <=> x = "idle")
      BY <2>2 DEF UnlockL, WaitUnlock, ListWait, Enter
    <3> QED  BY <1>1, <3>1 DEF InWait
  <2>3. CASE FastPath(g)
    <3>1. CASE NoneNew(g)
      <4>1. stage' = [stage EXCEPT ![g] = Back(g)] /\ stage[g] \in {"signal", "broadcast"}
        BY <2>3, <3>1 DEF FastPath, Enter
      <4>2. PICK x \in {"idle", "locked"} : x = Back(g)  BY BackIs
      <4> QED  BY <1>1, <4>1, <4>2 DEF InWait
    <3>2. CASE ~NoneNew(g)
      <4>1. PICK x \in {"one", "all"} : x = IF stage[g] = "signal" THEN "one" ELSE "all"  OBVIOUS
      <4>2. stage' = [stage EXCEPT ![g] = x] /\ stage[g] \in {"signal", "broadcast"}
        BY <2>3, <3>2, <4>1 DEF FastPath, Enter
      <4> QED  BY <1>1, <4>2 DEF InWait
    <3> QED  BY <3>1, <3>2
  <2>4. CASE \E how \in {"signal", "broadcast"} : Notify(g, how)
    <3>1. PICK how \in {"signal", "broadcast"} : /\ stage' = [stage EXCEPT ![g] = how]
                                                /\ stage[g] \in {"idle", "locked"}
      BY <2>4 DEF Notify, Enter
    <3> QED  BY <1>1, <3>1 DEF InWait
  <2> QED  BY <2>1, <2>2, <2>3, <2>4
<1> QED  BY <1>3, <1>4, Invisible

\* The ticket list, with counters that wrap, a fast path that reads them without the lock
\* and wake-ups after it, implements the condition variable: waiters are notified in the
\* order in which they called Wait, and no Wait returns before it is notified.
THEOREM TicketListImplementsCond == CondBehavior => ImplementsCondSpec
<1>1. CondInit => Abs!Init
  <2> SUFFICES ASSUME CondInit PROVE Abs!Init  OBVIOUS
  <2>1. CondInv /\ AbsByAge  BY CondInitInv, AbsIs
  <2>2. Behind = 0
    <3>1. 0 \in Tickets  BY Range2
    <3>2. Wrap(0 - 0) = 0  BY <3>1, DistIs
    <3> QED  BY <3>2 DEF Behind, CondInit
  <2>3. absWaiting = << >>
    <3>1. absWaiting \in Seq(Parties) /\ Len(absWaiting) = 0  BY <2>1, <2>2 DEF AbsByAge
    <3>2. PICK w \in Seq(Parties) : w = absWaiting  BY <3>1
    <3>3. w = << >>  BY <3>1, <3>2
    <3> QED  BY <3>2, <3>3
  <2>4. absNotified = {}
    <3>1. \A g \in Parties : stage[g] \notin InWait  BY DEF CondInit, InWait
    <3> QED  BY <2>1, <3>1 DEF AbsByAge
  <2> QED  BY <2>3, <2>4 DEF Abs!Init
<1>2. CondInv /\ [CondNext]_condVars => [Abs!Next]_<<absWaiting, absNotified>>
  <2> SUFFICES ASSUME CondInv, [CondNext]_condVars
               PROVE  Abs!Next \/ UNCHANGED <<absWaiting, absNotified>>
    OBVIOUS
  <2>1. CondInv'  BY CondStepInv
  <2>2. ASSUME NEW g \in Parties, LockL(g) PROVE Abs!Next \/ UNCHANGED <<absWaiting, absNotified>>
    BY <2>1, <2>2, LockReturns DEF Abs!Next
  <2>3. ASSUME NEW g \in Parties, ListAdd(g) PROVE Abs!Next
    BY <2>1, <2>3, AddEnrolls DEF Abs!Next
  <2>4. ASSUME NEW g \in Parties, NotifyAll(g) PROVE Abs!Next
    BY <2>1, <2>4, AllBroadcasts DEF Abs!Next
  <2>5. ASSUME NEW g \in Parties, NotifyOne(g) PROVE Abs!Next \/ UNCHANGED <<absWaiting, absNotified>>
    <3>1. CASE notify # wait  BY <2>1, <2>5, <3>1, OneSignals DEF Abs!Next
    <3>2. CASE notify = wait
      <4>1. /\ UNCHANGED <<wait, notify, ticket>>
            /\ \A h \in Parties : stage'[h] \in InWait <=> stage[h] \in InWait
        BY <2>5, <3>2, NotifyOneNothing
      <4>2. Behind' = Behind /\ age' = age  BY <4>1, SameAges
      <4> QED  BY <2>1, <4>1, <4>2, Invisible
    <3> QED  BY <3>1, <3>2
  <2>6. ASSUME NEW g \in Parties,
               \/ UnlockL(g) \/ WaitUnlock(g) \/ ListWait(g) \/ FastPath(g) \/ Ready(g)
               \/ \E how \in {"signal", "broadcast"} : Notify(g, how)
        PROVE  UNCHANGED <<absWaiting, absNotified>>
    BY <2>1, <2>6, OthersInvisible
  <2>7. CASE UNCHANGED condVars
    <3>1. UNCHANGED <<wait, notify, ticket, stage>>  BY <2>7 DEF condVars
    <3>2. Behind' = Behind /\ age' = age  BY <3>1, SameAges
    <3> QED  BY <2>1, <3>1, <3>2, Invisible
  <2> QED  BY <2>2, <2>3, <2>4, <2>5, <2>6, <2>7 DEF CondNext, NotifyStep
<1> QED  BY CondAlwaysInv, <1>1, <1>2, PTL DEF CondBehavior, ImplementsCondSpec, Abs!Spec

=============================================================================
