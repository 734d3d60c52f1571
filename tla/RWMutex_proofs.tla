--------------------------- MODULE RWMutex_proofs ---------------------------
(***************************************************************************)
(* Proofs about RWMutex, for any finite set of goroutines of which there   *)
(* are no more than RW_MAX_READERS.  The two counters are related to the   *)
(* number of goroutines at each place of the code: readerCount counts who  *)
(* reads or wants to, and readerWait is, once the writer has added to it   *)
(* what it found, the number of readers that are still to leave.           *)
(***************************************************************************)
EXTENDS RWMutex, FiniteSetTheorems, TLAPS

N(l) == Cardinality(At({l}))

\* Every variable has its type; the bounds on the credits come from Grants and Owed.
Types ==
    /\ w \in G \cup {None}
    /\ writerSem \in [credit : Nat, q : Seq(G)] /\ readerSem \in [credit : Nat, q : Seq(G)]
    /\ readerCount \in Int /\ readerWait \in Int
    /\ pc \in [G -> PC] /\ num \in [G -> Int]

\* The owner of w is the one writer; it may have announced itself, or be releasing readers.
\* No unlock finds the lock unlocked.
Holds == {"announce", "drain", "wAcquire", "wParked", "writing", "tryW", "rRelease", "unlockW"}
Writer == \A g \in G : (pc[g] \in Holds <=> w = g) /\ pc[g] # "fatal"
Pending == w \in G /\ pc[w] \in {"drain", "wAcquire", "wParked", "writing"}
Releasing == w \in G /\ pc[w] = "rRelease"

\* reader_count is the number of readers, inside and waiting, less MaxReaders while a
\* writer is pending.
Readers == N("reading") + N("rAcquire") + N("rParked")
Counted ==
    /\ readerCount = IF Pending THEN Readers - MaxReaders ELSE Readers
    /\ \A g \in G : pc[g] = "tryRSwap" => num[g] >= 0

\* A semaphore's queue q holds the goroutines that are at l, each once.
Line(f, q, l) ==
    /\ \A i, j \in 1..Len(q) : q[i] = q[j] => i = j
    /\ \A g \in G : f[g] = l <=> \E i \in 1..Len(q) : q[i] = g
Queued ==
    /\ Line(pc, readerSem.q, "rParked") /\ Line(pc, writerSem.q, "wParked")
    /\ readerSem.credit > 0 => readerSem.q = << >>

\* Once a writer is done with its release, everybody who waits as a reader has a credit.
Grants ==
    /\ readerSem.credit <= N("rAcquire")
    /\ ~Pending /\ ~Releasing => readerSem.credit = N("rAcquire") + N("rParked")
    /\ Releasing => /\ readerSem.credit = 0 /\ num[w] > 0
                    /\ num[w] = N("rAcquire") + N("rParked")

\* The readers that a pending writer waits for, and the one signal that it is owed.
Out == N("reading") + readerSem.credit + N("rUnlockSlow")
Owed ==
    /\ ~Pending \/ pc[w] = "writing" =>
          readerWait = 0 /\ N("rUnlockSlow") = 0 /\ N("wSignal") = 0 /\ writerSem.credit = 0
    /\ Pending =>
          /\ pc[w] = "writing" => Out = 0
          /\ pc[w] = "drain" => /\ readerWait + num[w] = Out /\ readerWait <= 0
                                /\ N("wSignal") = 0 /\ writerSem.credit = 0
          /\ pc[w] \in {"wAcquire", "wParked"} =>
                /\ readerWait = Out
                /\ N("wSignal") + writerSem.credit = IF readerWait = 0 THEN 1 ELSE 0
                /\ pc[w] = "wParked" => writerSem.credit = 0

Inv == Types /\ Writer /\ Counted /\ Queued /\ Grants /\ Owed

-----------------------------------------------------------------------------
(* Counting and queueing.                                                  *)

\* How many goroutines are at a place, before and after a step.
LEMMA Counts ==
  ASSUME NEW l
  PROVE  /\ N(l) \in Nat /\ (N(l) = 0 <=> \A g \in G : pc[g] # l)
         /\ N(l)' \in Nat
<1>1. ASSUME NEW f PROVE LET S == {g \in G : f[g] \in {l}}
                         IN  Cardinality(S) \in Nat /\ (Cardinality(S) = 0 <=> S = {})
  <2> DEFINE S == {g \in G : f[g] \in {l}}
  <2>1. IsFiniteSet(S)  BY RWAssumption, FS_Subset
  <2> QED  BY <2>1, FS_CardinalityType, FS_EmptySet
<1> QED  BY <1>1 DEF N, At

\* One goroutine moves from where it is to b.
LEMMA Tally ==
  ASSUME pc \in [G -> PC], NEW g \in G, NEW b, pc' = [pc EXCEPT ![g] = b]
  PROVE  \A l : N(l)' = N(l) + (IF l = b THEN 1 ELSE 0) - (IF l = pc[g] THEN 1 ELSE 0)
<1> SUFFICES ASSUME NEW l
             PROVE  N(l)' = N(l) + (IF l = b THEN 1 ELSE 0) - (IF l = pc[g] THEN 1 ELSE 0)
  OBVIOUS
<1> DEFINE S == {x \in G : pc[x] = l}
           T == {x \in G : pc'[x] = l}
<1>0. N(l) = Cardinality(S) /\ N(l)' = Cardinality(T)  BY DEF N, At
<1>1. IsFiniteSet(S) /\ Cardinality(S) \in Nat  BY RWAssumption, FS_Subset, FS_CardinalityType
<1>2. CASE l = b /\ l # pc[g]
  <2>1. T = S \cup {g} /\ g \notin S  BY <1>2
  <2>2. Cardinality(T) = Cardinality(S) + 1  BY <1>1, <2>1, FS_AddElement
  <2> QED  BY <1>0, <1>1, <1>2, <2>2
<1>3. CASE l # b /\ l = pc[g]
  <2>1. T = S \ {g} /\ g \in S  BY <1>3
  <2>2. Cardinality(T) = Cardinality(S) - 1  BY <1>1, <2>1, FS_RemoveElement
  <2> QED  BY <1>0, <1>1, <1>3, <2>2
<1>4. CASE (l = b) <=> (l = pc[g])
  <2>1. T = S  BY <1>4
  <2> QED  BY <1>0, <1>1, <1>4, <2>1
<1> QED  BY <1>2, <1>3, <1>4

\* Two goroutines move: a waker from a to b, and the one it wakes from c to e.
MovedTwo(a, b, c, e) ==
    \A l : N(l)' = N(l) + (IF l = b THEN 1 ELSE 0) - (IF l = a THEN 1 ELSE 0)
                        + (IF l = e THEN 1 ELSE 0) - (IF l = c THEN 1 ELSE 0)

\* The counts of goroutines per place follow.
LEMMA TallyTwo ==
  ASSUME pc \in [G -> PC], pc' \in [G -> PC], NEW g \in G, NEW h \in G, g # h,
         NEW a0, NEW b, NEW c0, NEW c,
         pc[g] = a0, pc[h] = c0, pc'[g] = b, pc'[h] = c,
         \A x \in G : x # h /\ x # g => pc'[x] = pc[x]
  PROVE  MovedTwo(a0, b, c0, c)
<1> SUFFICES ASSUME NEW l
             PROVE  N(l)' = N(l) + (IF l = b THEN 1 ELSE 0) - (IF l = pc[g] THEN 1 ELSE 0)
                                 + (IF l = c THEN 1 ELSE 0) - (IF l = pc[h] THEN 1 ELSE 0)
  BY DEF MovedTwo
<1> DEFINE d(x, y) == (IF l = y THEN 1 ELSE 0) - (IF l = x THEN 1 ELSE 0)
<1>1. ASSUME NEW A \in SUBSET G, NEW x \in G, NEW a, NEW e, x \in A <=> l = a
      PROVE  LET B == IF l = e THEN A \cup {x} ELSE A \ {x}
             IN  Cardinality(A) \in Nat /\ Cardinality(B) = Cardinality(A) + d(a, e)
  <2>1. IsFiniteSet(A) /\ Cardinality(A) \in Nat
    BY RWAssumption, FS_Subset, FS_CardinalityType
  <2>2. CASE l = e /\ l = a
    <3>1. A \cup {x} = A  BY <1>1, <2>2
    <3>2. d(a, e) = 0  BY <2>2
    <3>3. (IF l = e THEN A \cup {x} ELSE A \ {x}) = A  BY <2>2, <3>1
    <3>4. Cardinality(IF l = e THEN A \cup {x} ELSE A \ {x}) = Cardinality(A)  BY <3>3
    <3>5. Cardinality(A) = Cardinality(A) + d(a, e)  BY <2>1, <3>2
    <3> HIDE DEF d
    <3> QED  BY <2>1, <3>4, <3>5
  <2>3. CASE l = e /\ l # a
    <3>1. Cardinality(A \cup {x}) = Cardinality(A) + 1  BY <1>1, <2>1, <2>3, FS_AddElement
    <3> QED  BY <2>1, <2>3, <3>1
  <2>4. CASE l # e /\ l = a
    <3>1. Cardinality(A \ {x}) = Cardinality(A) - 1  BY <1>1, <2>1, <2>4, FS_RemoveElement
    <3> QED  BY <2>1, <2>4, <3>1
  <2>5. CASE l # e /\ l # a
    <3>1. A \ {x} = A /\ d(a, e) = 0  BY <1>1, <2>5
    <3> QED  BY <2>1, <2>5, <3>1
  <2> QED  BY <2>2, <2>3, <2>4, <2>5
<1> DEFINE S == {x \in G : pc[x] = l}
           T == IF l = b THEN S \cup {g} ELSE S \ {g}
           U == IF l = c THEN T \cup {h} ELSE T \ {h}
<1>2. N(l) = Cardinality(S)  BY DEF N, At
<1>3. U = {x \in G : pc'[x] = l}  OBVIOUS
<1>4. N(l)' = Cardinality(U)  BY <1>3 DEF N, At
<1>5. S \in SUBSET G /\ T \in SUBSET G /\ (g \in S <=> l = pc[g]) /\ (h \in T <=> l = pc[h])
  OBVIOUS
<1> HIDE DEF S, T, U
<1>6. Cardinality(S) \in Nat /\ Cardinality(T) = Cardinality(S) + d(pc[g], b)
  BY <1>1, <1>5 DEF T
<1>7. Cardinality(U) = Cardinality(T) + d(pc[h], c)  BY <1>1, <1>5 DEF U
<1> QED  BY <1>2, <1>4, <1>6, <1>7

\* Two disjoint sets of goroutines.
LEMMA Disjoint ==
  ASSUME NEW S \in SUBSET G, NEW T \in SUBSET G, S \cap T = {}
  PROVE  Cardinality(S \cup T) = Cardinality(S) + Cardinality(T)
<1>1. IsFiniteSet(S) /\ IsFiniteSet(T)  BY RWAssumption, FS_Subset
<1>2. Cardinality(S) \in Nat /\ Cardinality(T) \in Nat  BY <1>1, FS_CardinalityType
<1>3. Cardinality(S \cap T) = 0  BY FS_EmptySet
<1>4. Cardinality(S \cup T) = Cardinality(S) + Cardinality(T) - Cardinality(S \cap T)
  BY <1>1, FS_Union
<1> QED  BY <1>2, <1>3, <1>4

\* The readers are the goroutines at three places.
LEMMA ReadersSet == Readers = Cardinality(At({"reading", "rAcquire", "rParked"}))
<1> DEFINE A == At({"reading"})
           B == At({"rAcquire"})
           C == At({"rParked"})
<1>1. A \cap B = {} /\ (A \cup B) \cap C = {} /\ A \in SUBSET G /\ B \in SUBSET G /\ C \in SUBSET G
  BY DEF At
<1>2. At({"reading", "rAcquire", "rParked"}) = (A \cup B) \cup C  BY DEF At
<1> HIDE DEF A, B, C
<1>3. A \cup B \in SUBSET G  BY <1>1
<1>4. Cardinality((A \cup B) \cup C) = Cardinality(A) + Cardinality(B) + Cardinality(C)
  BY <1>1, <1>3, Disjoint
<1> QED  BY <1>2, <1>4 DEF Readers, N, A, B, C

\* While a writer is pending, the readers do not make the count positive again.
LEMMA FewReaders ==
  ASSUME Pending
  PROVE  Readers \in Nat /\ Readers < MaxReaders
<1> DEFINE R == At({"reading", "rAcquire", "rParked"})
<1>1. R \subseteq G \ {w} /\ w \in G  BY DEF Pending, At
<1>2. IsFiniteSet(G \ {w}) /\ Cardinality(G \ {w}) = Cardinality(G) - 1
  BY <1>1, RWAssumption, FS_RemoveElement
<1>3. Cardinality(R) <= Cardinality(G \ {w}) /\ IsFiniteSet(R)  BY <1>1, <1>2, FS_Subset
<1>4. Cardinality(R) \in Nat /\ Cardinality(G) \in Nat  BY <1>3, RWAssumption, FS_CardinalityType
<1> QED  BY <1>2, <1>3, <1>4, ReadersSet, RWAssumption

\* What the queue holds does not depend on where the others are.
LEMMA LineSame ==
  ASSUME NEW f, NEW h, NEW q, NEW l, Line(f, q, l), \A x \in G : h[x] = l <=> f[x] = l
  PROVE  Line(h, q, l)
  BY DEF Line

\* A goroutine joins the queue at the back.
LEMMA LineJoin ==
  ASSUME NEW f \in [G -> PC], NEW q \in Seq(G), NEW l, NEW g \in G, Line(f, q, l), f[g] # l
  PROVE  Line([f EXCEPT ![g] = l], Append(q, g), l)
<1>1. \A i \in 1..Len(q) : q[i] # g  BY DEF Line
<1>2. /\ Len(Append(q, g)) = Len(q) + 1 /\ Append(q, g)[Len(q) + 1] = g /\ Len(q) \in Nat
      /\ \A i \in 1..Len(q) : Append(q, g)[i] = q[i]
  OBVIOUS
<1> HIDE DEF Line
<1>3. ASSUME NEW i \in 1..Len(q) + 1, NEW j \in 1..Len(q) + 1, Append(q, g)[i] = Append(q, g)[j]
      PROVE  i = j
  <2>1. i \in 1..Len(q) \/ i = Len(q) + 1  BY <1>2
  <2>2. j \in 1..Len(q) \/ j = Len(q) + 1  BY <1>2
  <2> QED  BY <1>1, <1>2, <1>3, <2>1, <2>2 DEF Line
<1>4. ASSUME NEW x \in G
      PROVE  [f EXCEPT ![g] = l][x] = l <=> \E i \in 1..Len(q) + 1 : Append(q, g)[i] = x
  BY <1>1, <1>2 DEF Line
<1> QED  BY <1>2, <1>3, <1>4 DEF Line

\* The head of the queue leaves it.
LEMMA LinePop ==
  ASSUME NEW f, NEW h, NEW q \in Seq(G), NEW l, Line(f, q, l), q # << >>,
         \A x \in G : h[x] = l <=> f[x] = l /\ x # Head(q)
  PROVE  Line(h, Tail(q), l)
<1>1. /\ Len(q) \in Nat /\ Len(q) >= 1 /\ Len(Tail(q)) = Len(q) - 1 /\ Head(q) = q[1]
      /\ \A i \in 1..Len(q) - 1 : Tail(q)[i] = q[i + 1]
  OBVIOUS
<1>2. \A i, j \in 1..Len(q) - 1 : Tail(q)[i] = Tail(q)[j] => i = j  BY <1>1 DEF Line
<1>3. ASSUME NEW x \in G PROVE h[x] = l <=> \E i \in 1..Len(q) - 1 : Tail(q)[i] = x
  <2>1. ASSUME h[x] = l PROVE \E i \in 1..Len(q) - 1 : Tail(q)[i] = x
    <3>1. PICK i \in 1..Len(q) : q[i] = x  BY <2>1 DEF Line
    <3>2. i # 1  BY <1>1, <2>1, <3>1
    <3>3. i - 1 \in 1..Len(q) - 1 /\ (i - 1) + 1 = i  BY <1>1, <3>2
    <3> QED  BY <1>1, <3>1, <3>3
  <2>2. ASSUME NEW i \in 1..Len(q) - 1, Tail(q)[i] = x PROVE h[x] = l
    <3>1. q[i + 1] = x /\ i + 1 \in 1..Len(q) /\ i + 1 # 1 /\ 1 \in 1..Len(q)  BY <1>1, <2>2
    <3> QED  BY <1>1, <3>1 DEF Line
  <2> QED  BY <2>1, <2>2
<1> QED  BY <1>1, <1>2, <1>3 DEF Line

\* The head of the queue is a goroutine that is parked on it.
LEMMA LineHead ==
  ASSUME NEW f, NEW q \in Seq(G), NEW l, Line(f, q, l), q # << >>
  PROVE  Head(q) \in G /\ f[Head(q)] = l /\ Tail(q) \in Seq(G)
<1>1. Len(q) \in Nat /\ Len(q) >= 1 /\ Head(q) = q[1] /\ Tail(q) \in Seq(G) /\ q[1] \in G
  OBVIOUS
<1> QED  BY <1>1 DEF Line

\* What the operations of a semaphore do to its credit and to its queue.
LEMMA SemaOps ==
  ASSUME NEW s \in [credit : Nat, q : Seq(G)]
  PROVE  /\ HasCredit(s) => /\ Consumed(s) \in [credit : Nat, q : Seq(G)]
                             /\ Consumed(s).credit = s.credit - 1 /\ Consumed(s).q = s.q
         /\ \A g \in G : /\ Joined(s, g) \in [credit : Nat, q : Seq(G)]
                          /\ Joined(s, g).credit = s.credit /\ Joined(s, g).q = Append(s.q, g)
         /\ Wakes(s) => /\ Released(s) \in [credit : Nat, q : Seq(G)]
                         /\ Released(s).credit = s.credit /\ Released(s).q = Tail(s.q)
         /\ ~Wakes(s) => /\ Released(s) \in [credit : Nat, q : Seq(G)]
                          /\ Released(s).credit = s.credit + 1 /\ Released(s).q = s.q
         /\ \A n \in Nat : /\ Credited(s, n) \in [credit : Nat, q : Seq(G)]
                            /\ Credited(s, n).credit = s.credit + n /\ Credited(s, n).q = s.q
<1>0. s.credit \in Nat /\ s.q \in Seq(G)  OBVIOUS
<1>1. HasCredit(s) => /\ Consumed(s) \in [credit : Nat, q : Seq(G)]
                      /\ Consumed(s).credit = s.credit - 1 /\ Consumed(s).q = s.q
  <2>1. HasCredit(s) => s.credit - 1 \in Nat  BY <1>0 DEF HasCredit
  <2> QED  BY <2>1 DEF Consumed
<1>2. ASSUME NEW g \in G PROVE /\ Joined(s, g) \in [credit : Nat, q : Seq(G)]
                                /\ Joined(s, g).credit = s.credit /\ Joined(s, g).q = Append(s.q, g)
  <2>1. Append(s.q, g) \in Seq(G)  BY <1>0
  <2> QED  BY <2>1 DEF Joined
<1>3. Wakes(s) => /\ Released(s) \in [credit : Nat, q : Seq(G)]
                  /\ Released(s).credit = s.credit /\ Released(s).q = Tail(s.q)
  <2>1. Wakes(s) => Tail(s.q) \in Seq(G)  BY <1>0 DEF Wakes
  <2> QED  BY <2>1 DEF Released
<1>4. ~Wakes(s) => /\ Released(s) \in [credit : Nat, q : Seq(G)]
                   /\ Released(s).credit = s.credit + 1 /\ Released(s).q = s.q
  <2>1. s.credit + 1 \in Nat  BY <1>0
  <2> QED  BY <2>1 DEF Released
<1>5. ASSUME NEW n \in Nat PROVE /\ Credited(s, n) \in [credit : Nat, q : Seq(G)]
                                  /\ Credited(s, n).credit = s.credit + n /\ Credited(s, n).q = s.q
  <2>1. s.credit + n \in Nat  BY <1>0
  <2> QED  BY <2>1 DEF Credited
<1> QED  BY <1>1, <1>2, <1>3, <1>4, <1>5

-----------------------------------------------------------------------------
(* The invariant is inductive.                                             *)

\* The invariant holds initially.
LEMMA InitInv == Init => Inv
<1> SUFFICES ASSUME Init PROVE Inv  OBVIOUS
<1>1. Types /\ Writer /\ ~Pending /\ ~Releasing
  BY RWAssumption DEF Init, Types, NewSema, PC, Writer, Holds, Pending, Releasing
<1>2. /\ N("reading") = 0 /\ N("rAcquire") = 0 /\ N("rParked") = 0
      /\ N("rUnlockSlow") = 0 /\ N("wSignal") = 0
  BY Counts DEF Init
<1>3. Counted /\ Grants /\ Owed
  BY <1>1, <1>2 DEF Init, NewSema, Counted, Readers, Grants, Owed
<1>4. Queued  BY DEF Init, NewSema, Queued, Line
<1> QED  BY <1>1, <1>3, <1>4 DEF Inv

\* The numbers are numbers.
LEMMA Nats ==
  /\ N("reading") \in Nat /\ N("rAcquire") \in Nat /\ N("rParked") \in Nat
  /\ N("rUnlockSlow") \in Nat /\ N("wSignal") \in Nat
  BY Counts

\* What the others notice when a goroutine that does not hold w moves from a to b.
Plain == PC \ (Holds \cup {"fatal"})
Moved(a, b) == \A l : N(l)' = N(l) + (IF l = b THEN 1 ELSE 0) - (IF l = a THEN 1 ELSE 0)
Aside(g, a, b) ==
    /\ Writer' /\ pc' \in [G -> PC] /\ Moved(a, b)
    /\ Pending' <=> Pending
    /\ Releasing' <=> Releasing
    /\ w \in G => pc'[w] = pc[w] /\ w # g
    /\ Line(pc', writerSem.q, "wParked")
    /\ a # "rParked" /\ b # "rParked" => Line(pc', readerSem.q, "rParked")

\* A step of a goroutine that does not hold w.
LEMMA Bystander ==
  ASSUME Inv, NEW g \in G, NEW a \in Plain, NEW b \in Plain,
         pc[g] = a, pc' = [pc EXCEPT ![g] = b], UNCHANGED w
  PROVE  Aside(g, a, b)
<1>0. Types /\ Writer /\ Queued /\ pc \in [G -> PC]  BY DEF Inv, Types
<1>1. Moved(a, b)  BY <1>0, Tally DEF Moved
<1>2. Writer' /\ pc' \in [G -> PC] /\ (w \in G => pc'[w] = pc[w] /\ w # g)
  BY <1>0 DEF Writer, Plain
<1>3. (Pending' <=> Pending) /\ (Releasing' <=> Releasing)
  BY <1>2 DEF Pending, Releasing
<1>4. Line(pc', writerSem.q, "wParked")
  <2>1. \A x \in G : pc'[x] = "wParked" <=> pc[x] = "wParked"  BY <1>0 DEF Plain, Holds
  <2> QED  BY <1>0, <2>1, LineSame DEF Queued
<1>5. ASSUME a # "rParked", b # "rParked" PROVE Line(pc', readerSem.q, "rParked")
  <2>1. \A x \in G : pc'[x] = "rParked" <=> pc[x] = "rParked"  BY <1>0, <1>5
  <2> QED  BY <1>0, <2>1, LineSame DEF Queued
<1> QED  BY <1>1, <1>2, <1>3, <1>4, <1>5 DEF Aside

\* A reader comes, or tries to, or gets in.
LEMMA ReaderIn ==
  ASSUME Inv, NEW g \in G,
         \/ RLock(g) \/ TryRLock(g) \/ TryRLoad(g) \/ TryRSwap(g) \/ Lock(g)
  PROVE  Inv'
<1>0. /\ Types /\ Counted /\ Queued /\ Grants /\ Owed /\ pc \in [G -> PC] /\ num \in [G -> Int]
      /\ readerCount \in Int /\ readerWait \in Int /\ MaxReaders \in Nat
  BY RWAssumption DEF Inv, Types
<1>s. /\ readerSem.credit \in Nat /\ writerSem.credit \in Nat  BY <1>0 DEF Types
<1>1. /\ UNCHANGED <<w, writerSem, readerSem, readerWait>>
      /\ pc[g] \in {"idle", "tryRLoad", "tryRSwap"}
  BY DEF RLock, TryRLock, TryRLoad, TryRSwap, Lock
<1>2. ASSUME NEW b \in {"idle", "tryRLoad", "tryRSwap", "wLock"}, Goto(g, b), UNCHANGED readerCount,
             num' \in [G -> Int], \A x \in G : x # g => num'[x] = num[x],
             b = "tryRSwap" => num'[g] >= 0
      PROVE  Inv'
  <2>0. PICK a \in {"idle", "tryRLoad", "tryRSwap"} : pc[g] = a  BY <1>1
  <2>1. Aside(g, a, b)
    <3>1. a \in Plain /\ b \in Plain /\ pc' = [pc EXCEPT ![g] = b] /\ UNCHANGED w
      BY <1>1, <1>2 DEF Goto, Plain, Holds, PC
    <3> QED  BY <2>0, <3>1, Bystander
  <2>p. /\ Writer' /\ (Pending' <=> Pending) /\ (Releasing' <=> Releasing)
        /\ w \in G => pc'[w] = pc[w] /\ w # g
    BY <2>1 DEF Aside
  <2>2. /\ N("reading")' = N("reading") /\ N("rAcquire")' = N("rAcquire")
        /\ N("rParked")' = N("rParked") /\ N("rUnlockSlow")' = N("rUnlockSlow")
        /\ N("wSignal")' = N("wSignal")
    BY <2>0, <2>1, Nats DEF Aside, Moved
  <2>3. \A x \in G : pc'[x] = "tryRSwap" => num'[x] >= 0
    BY <1>0, <1>2 DEF Goto, Counted
  <2>4. Types'  BY <1>0, <1>1, <1>2, <2>1 DEF Types, Aside
  <2>5. Counted'  BY <1>0, <1>1, <1>2, <2>p, <2>2, <2>3 DEF Counted, Readers
  <2>6. Queued'  BY <1>0, <1>1, <2>1 DEF Queued, Aside
  <2>7. w \in G => num'[w] = num[w]  BY <1>2, <2>1 DEF Aside
  <2>8. Grants'  BY <1>0, <1>1, <2>p, <2>2, <2>7 DEF Grants, Releasing
  <2>9. Owed'  BY <1>0, <1>1, <2>p, <2>2, <2>7 DEF Owed, Out, Pending
  <2> QED  BY <2>p, <2>4, <2>5, <2>6, <2>8, <2>9 DEF Inv
<1>3. ASSUME NEW b \in {"rAcquire", "reading"}, Goto(g, b), readerCount' = readerCount + 1,
             b = "rAcquire" <=> Pending, num' \in [G -> Int], \A x \in G : x # g => num'[x] = num[x]
      PROVE  Inv'
  <2>0. PICK a \in {"idle", "tryRLoad", "tryRSwap"} : pc[g] = a  BY <1>1
  <2>1. Aside(g, a, b)
    <3>1. a \in Plain /\ b \in Plain /\ pc' = [pc EXCEPT ![g] = b] /\ UNCHANGED w
      BY <1>1, <1>3 DEF Goto, Plain, Holds, PC
    <3> QED  BY <2>0, <3>1, Bystander
  <2>p. /\ Writer' /\ (Pending' <=> Pending) /\ (Releasing' <=> Releasing)
        /\ w \in G => pc'[w] = pc[w] /\ w # g
    BY <2>1 DEF Aside
  <2>2. /\ N("reading")' = N("reading") + (IF b = "reading" THEN 1 ELSE 0)
        /\ N("rAcquire")' = N("rAcquire") + (IF b = "rAcquire" THEN 1 ELSE 0)
        /\ N("rParked")' = N("rParked") /\ N("rUnlockSlow")' = N("rUnlockSlow")
        /\ N("wSignal")' = N("wSignal")
    BY <2>0, <2>1, Nats DEF Aside, Moved
  <2>3. \A x \in G : pc'[x] = "tryRSwap" => num'[x] >= 0
    BY <1>0, <1>3 DEF Goto, Counted
  <2>4. Types'  BY <1>0, <1>1, <1>3, <2>1 DEF Types, Aside
  <2>5. Counted'
    <3>1. Readers' = Readers + 1  BY <1>3, <2>2, Nats DEF Readers
    <3>2. Readers \in Int  BY Nats DEF Readers
    <3> QED  BY <1>0, <1>3, <2>p, <2>3, <3>1, <3>2 DEF Counted
  <2>6. Queued'  BY <1>0, <1>1, <2>1 DEF Queued, Aside
  <2>7. w \in G => num'[w] = num[w]  BY <1>3, <2>1 DEF Aside
  <2>8. Grants'
    BY <1>0, <1>1, <1>3, <1>s, <2>p, <2>2, <2>7, Nats DEF Grants, Releasing, Pending
  <2>9. Owed'
    <3>1. CASE Pending
      <4>1. N("reading")' = N("reading") /\ Out' = Out  BY <1>1, <1>3, <2>2, <3>1, Nats DEF Out
      <4> QED  BY <1>0, <1>1, <2>p, <2>2, <2>7, <3>1, <4>1 DEF Owed, Pending
    <3>2. CASE ~Pending  BY <1>0, <1>1, <2>p, <2>2, <3>2 DEF Owed
    <3> QED  BY <3>1, <3>2
  <2> QED  BY <2>p, <2>4, <2>5, <2>6, <2>8, <2>9 DEF Inv
<1>4. readerCount < 0 <=> Pending
  <2>1. Readers \in Nat  BY Nats DEF Readers
  <2> QED  BY <1>0, <2>1, FewReaders DEF Counted
<1>5. CASE RLock(g)  BY <1>0, <1>3, <1>4, <1>5 DEF RLock
<1>6. CASE TryRLock(g) \/ Lock(g)  BY <1>0, <1>2, <1>6 DEF TryRLock, Lock
<1>7. CASE TryRLoad(g)  BY <1>0, <1>2, <1>7 DEF TryRLoad, Keep
<1>8. CASE TryRSwap(g)
  <2>1. num[g] >= 0 /\ num' \in [G -> Int] /\ \A x \in G : x # g => num'[x] = num[x]
    BY <1>0, <1>8 DEF TryRSwap, Counted, Keep
  <2>2. CASE readerCount = num[g]
    BY <1>0, <1>3, <1>4, <1>8, <2>1, <2>2 DEF TryRSwap
  <2>3. CASE readerCount # num[g]  BY <1>2, <1>8, <2>1, <2>3 DEF TryRSwap
  <2> QED  BY <2>2, <2>3
<1> QED  BY <1>5, <1>6, <1>7, <1>8

\* A reader that found a writer pending takes a credit, or parks.
LEMMA ReaderAcquires == ASSUME Inv, NEW g \in G, RAcquire(g) PROVE Inv'
<1>0. /\ Types /\ Counted /\ Queued /\ Grants /\ Owed /\ pc \in [G -> PC] /\ num \in [G -> Int]
      /\ readerCount \in Int /\ readerWait \in Int /\ MaxReaders \in Nat
      /\ readerSem \in [credit : Nat, q : Seq(G)] /\ writerSem \in [credit : Nat, q : Seq(G)]
  BY RWAssumption DEF Inv, Types
<1>1. UNCHANGED <<w, writerSem, readerCount, readerWait, num>> /\ pc[g] = "rAcquire"
  BY DEF RAcquire
<1>2. N("rAcquire") >= 1  BY <1>1, Counts
<1>3. ASSUME NEW b \in {"reading", "rParked"}, Goto(g, b)
      PROVE  Aside(g, "rAcquire", b)
  <2>1. "rAcquire" \in Plain /\ b \in Plain /\ pc' = [pc EXCEPT ![g] = b] /\ UNCHANGED w
    BY <1>1, <1>3 DEF Goto, Plain, Holds, PC
  <2> QED  BY <1>1, <2>1, Bystander
<1>4. ASSUME NEW b \in {"reading", "rParked"}, Aside(g, "rAcquire", b),
             readerSem' \in [credit : Nat, q : Seq(G)], Line(pc', readerSem'.q, "rParked"),
             readerSem'.credit > 0 => readerSem'.q = << >>,
             readerSem'.credit = readerSem.credit - (IF b = "reading" THEN 1 ELSE 0),
             b = "rParked" => readerSem.credit = 0
      PROVE  Inv'
  <2>p. /\ Writer' /\ (Pending' <=> Pending) /\ (Releasing' <=> Releasing)
        /\ w \in G => pc'[w] = pc[w] /\ w # g
        /\ pc' \in [G -> PC] /\ Line(pc', writerSem'.q, "wParked")
    BY <1>1, <1>4 DEF Aside
  <2>2. /\ N("reading")' = N("reading") + (IF b = "reading" THEN 1 ELSE 0)
        /\ N("rParked")' = N("rParked") + (IF b = "rParked" THEN 1 ELSE 0)
        /\ N("rAcquire")' = N("rAcquire") - 1 /\ N("rUnlockSlow")' = N("rUnlockSlow")
        /\ N("wSignal")' = N("wSignal")
    <3>1. Moved("rAcquire", b)  BY <1>4 DEF Aside
    <3>2. b = "reading" \/ b = "rParked"  BY <1>4
    <3> QED  BY <3>1, <3>2, Nats DEF Moved
  <2>s. readerSem.credit \in Nat /\ readerSem'.credit \in Nat  BY <1>0, <1>4
  <2>3. Types'  BY <1>0, <1>1, <1>4, <2>p DEF Types
  <2>4. Counted'
    <3>1. Readers' = Readers
      <4>1. b = "reading" \/ b = "rParked"  BY <1>4
      <4> QED  BY <2>2, <4>1, Nats DEF Readers
    <3>2. \A x \in G : pc'[x] = "tryRSwap" => pc[x] = "tryRSwap"
      <4>1. pc'[g] \in {"reading", "rParked"}  BY <1>0, <1>1 DEF RAcquire, Goto
      <4>2. \A x \in G : x # g => pc'[x] = pc[x]  BY <1>0 DEF RAcquire, Goto
      <4> QED  BY <4>1, <4>2
    <3> QED  BY <1>0, <1>1, <2>p, <3>1, <3>2 DEF Counted
  <2>5. Queued'  BY <1>4, <2>p DEF Queued
  <2>6. Grants'
    <3>1. b = "reading" \/ b = "rParked"  BY <1>4
    <3>2. /\ w \in G => num'[w] = num[w]
          /\ b = "rParked" => readerSem'.credit = 0
      BY <1>0, <1>1, <1>4
    <3>3. readerSem'.credit <= N("rAcquire")'
      BY <1>0, <1>2, <1>4, <2>2, <2>s, <3>1, <3>2, Nats DEF Grants
    <3>4. N("rAcquire")' + N("rParked")' = N("rAcquire") + N("rParked") - (IF b = "reading" THEN 1 ELSE 0)
      BY <2>2, <3>1, Nats
    <3>5. Releasing => b = "rParked"  BY <1>0, <1>4, <2>s, <3>1 DEF Grants
    <3>6. Releasing => w \in G  BY DEF Releasing
    <3> QED  BY <1>0, <1>1, <1>2, <1>4, <2>p, <2>2, <2>s, <3>1, <3>2, <3>3, <3>4, <3>5, <3>6, Nats DEF Grants
  <2>7. Owed'
    <3>1. Out' = Out  BY <1>4, <2>2, <2>s, Nats DEF Out
    <3> QED  BY <1>0, <1>1, <2>p, <2>2, <3>1 DEF Owed, Pending
  <2> QED  BY <2>p, <2>3, <2>4, <2>5, <2>6, <2>7 DEF Inv
<1>5. CASE HasCredit(readerSem)
  <2>1. /\ readerSem' = [readerSem EXCEPT !.credit = @ - 1] /\ Goto(g, "reading")
        /\ readerSem.credit > 0
    BY <1>5 DEF RAcquire, HasCredit, Consumed
  <2>2. Aside(g, "rAcquire", "reading")  BY <1>3, <2>1
  <2>3. /\ readerSem' \in [credit : Nat, q : Seq(G)] /\ readerSem'.q = readerSem.q
        /\ readerSem'.credit = readerSem.credit - 1
    BY <1>0, <1>5, SemaOps DEF RAcquire
  <2>4. Line(pc', readerSem'.q, "rParked")  BY <2>2, <2>3 DEF Aside
  <2> QED  BY <1>0, <1>4, <2>1, <2>2, <2>3, <2>4 DEF Queued
<1>6. CASE ~HasCredit(readerSem)
  <2>1. /\ readerSem' = [readerSem EXCEPT !.q = Append(@, g)] /\ Goto(g, "rParked")
        /\ readerSem.credit = 0
    BY <1>0, <1>6 DEF RAcquire, HasCredit, Joined
  <2>2. Aside(g, "rAcquire", "rParked")  BY <1>3, <2>1
  <2>3. /\ readerSem' \in [credit : Nat, q : Seq(G)] /\ readerSem'.q = Append(readerSem.q, g)
        /\ readerSem'.credit = readerSem.credit /\ readerSem.q \in Seq(G)
    <3>1. readerSem' = Joined(readerSem, g)  BY <1>6 DEF RAcquire
    <3>2. readerSem.q \in Seq(G)  BY <1>0
    <3> QED  BY <1>0, <3>1, <3>2, SemaOps
  <2>4. Line(pc', readerSem'.q, "rParked")
    BY <1>0, <1>1, <2>1, <2>3, LineJoin DEF Queued, Goto
  <2> QED  BY <1>0, <1>4, <2>1, <2>2, <2>3, <2>4
<1> QED  BY <1>5, <1>6

\* A reader leaves; behind a pending writer it takes the slow path and tells the writer.
LEMMA ReaderLeaves == ASSUME Inv, NEW g \in G, RUnlock(g) \/ RUnlockSlow(g) PROVE Inv'
<1>0. /\ Types /\ Counted /\ Queued /\ Grants /\ Owed /\ pc \in [G -> PC] /\ num \in [G -> Int]
      /\ readerCount \in Int /\ readerWait \in Int /\ MaxReaders \in Nat
      /\ readerSem \in [credit : Nat, q : Seq(G)] /\ writerSem \in [credit : Nat, q : Seq(G)]
  BY RWAssumption DEF Inv, Types
<1>s. readerSem.credit \in Nat /\ writerSem.credit \in Nat  BY <1>0
<1>1. UNCHANGED <<w, writerSem, readerSem, num>>  BY DEF RUnlock, RUnlockSlow
<1>2. ASSUME NEW a \in {"reading", "rUnlockSlow"}, NEW b \in {"idle", "rUnlockSlow", "wSignal"},
             pc[g] = a, Goto(g, b)
      PROVE  /\ Aside(g, a, b) /\ Queued'
             /\ \A x \in G : pc'[x] = "tryRSwap" => num'[x] >= 0
             /\ Writer' /\ (Pending' <=> Pending) /\ (Releasing' <=> Releasing)
             /\ w \in G => pc'[w] = pc[w] /\ w # g
             /\ pc' \in [G -> PC]
  <2>1. a \in Plain /\ b \in Plain /\ pc' = [pc EXCEPT ![g] = b] /\ UNCHANGED w
    BY <1>1, <1>2 DEF Goto, Plain, Holds, PC
  <2>2. Aside(g, a, b)  BY <1>2, <2>1, Bystander
  <2>3. \A x \in G : pc'[x] = "tryRSwap" => num'[x] >= 0  BY <1>0, <1>1, <2>1 DEF Counted
  <2>4. Queued'  BY <1>0, <1>1, <2>2 DEF Aside, Queued
  <2> QED  BY <2>2, <2>3, <2>4 DEF Aside
<1>r. Readers \in Nat  BY Nats DEF Readers
<1>3. CASE RUnlock(g)
  <2>0. pc[g] = "reading" /\ readerCount' = readerCount - 1 /\ UNCHANGED readerWait
    BY <1>3 DEF RUnlock
  <2>1. N("reading") >= 1 /\ Readers >= 1  BY <2>0, Counts, Nats DEF Readers
  <2>2. CASE ~Pending
    <3>1. Goto(g, "idle")  BY <1>0, <1>3, <1>r, <2>1, <2>2 DEF RUnlock, Counted
    <3>2. /\ Aside(g, "reading", "idle") /\ Queued'
          /\ \A x \in G : pc'[x] = "tryRSwap" => num'[x] >= 0
          /\ Writer' /\ (Pending' <=> Pending) /\ (Releasing' <=> Releasing)
          /\ w \in G => pc'[w] = pc[w] /\ w # g
          /\ pc' \in [G -> PC]
      BY <1>2, <2>0, <3>1
    <3>3. /\ N("reading")' = N("reading") - 1 /\ N("rAcquire")' = N("rAcquire")
          /\ N("rParked")' = N("rParked") /\ N("rUnlockSlow")' = N("rUnlockSlow")
          /\ N("wSignal")' = N("wSignal")
      BY <3>2, Nats DEF Aside, Moved
    <3>4. Types'  BY <1>0, <1>1, <2>0, <3>2 DEF Types
    <3>5. Counted'
      <4>1. Readers' = Readers - 1  BY <3>3, Nats DEF Readers
      <4> QED  BY <1>0, <1>r, <2>0, <2>2, <3>2, <4>1 DEF Counted
    <3>6. Grants'  BY <1>0, <1>1, <3>2, <3>3 DEF Grants, Releasing
    <3>7. Owed'  BY <1>0, <1>1, <2>0, <2>2, <3>2, <3>3 DEF Owed
    <3> QED  BY <3>2, <3>4, <3>5, <3>6, <3>7 DEF Inv
  <2>3. CASE Pending
    <3>1. Goto(g, "rUnlockSlow")
      <4>1. readerCount = Readers - MaxReaders /\ Readers < MaxReaders
        BY <1>0, <2>3, FewReaders DEF Counted
      <4>2. readerCount - 1 < 0 /\ readerCount # 0 /\ readerCount # -MaxReaders
        BY <1>0, <1>r, <2>1, <4>1
      <4> QED  BY <1>0, <1>3, <4>2 DEF RUnlock
    <3>2. /\ Aside(g, "reading", "rUnlockSlow") /\ Queued'
          /\ \A x \in G : pc'[x] = "tryRSwap" => num'[x] >= 0
          /\ Writer' /\ (Pending' <=> Pending) /\ (Releasing' <=> Releasing)
          /\ w \in G => pc'[w] = pc[w] /\ w # g
          /\ pc' \in [G -> PC]
      BY <1>2, <2>0, <3>1
    <3>3. /\ N("reading")' = N("reading") - 1 /\ N("rAcquire")' = N("rAcquire")
          /\ N("rParked")' = N("rParked") /\ N("rUnlockSlow")' = N("rUnlockSlow") + 1
          /\ N("wSignal")' = N("wSignal")
      BY <3>2, Nats DEF Aside, Moved
    <3>4. Types'  BY <1>0, <1>1, <2>0, <3>2 DEF Types
    <3>5. Counted'
      <4>1. Readers' = Readers - 1  BY <3>3, Nats DEF Readers
      <4> QED  BY <1>0, <1>r, <2>0, <2>3, <3>2, <4>1 DEF Counted
    <3>6. Grants'  BY <1>0, <1>1, <3>2, <3>3 DEF Grants, Releasing
    <3>7. Owed'
      <4>1. Out' = Out /\ Out >= 1  BY <1>1, <1>s, <2>1, <3>3, Nats DEF Out
      <4>2. pc[w] # "writing"  BY <1>0, <2>3, <4>1 DEF Owed
      <4> QED  BY <1>0, <1>1, <2>0, <2>3, <3>2, <3>3, <4>1, <4>2 DEF Owed, Pending
    <3> QED  BY <3>2, <3>4, <3>5, <3>6, <3>7 DEF Inv
  <2> QED  BY <2>2, <2>3
<1>4. CASE RUnlockSlow(g)
  <2>0. pc[g] = "rUnlockSlow" /\ readerWait' = readerWait - 1 /\ UNCHANGED readerCount
    BY <1>4 DEF RUnlockSlow
  <2>1. N("rUnlockSlow") >= 1  BY <2>0, Counts
  <2>2. Pending /\ pc[w] \in {"drain", "wAcquire", "wParked"} /\ Out >= 1
    BY <1>0, <1>s, <2>1, Nats DEF Owed, Pending, Out
  <2>3. PICK b \in {"idle", "wSignal"} : Goto(g, b) /\ (b = "wSignal" <=> readerWait = 1)
    BY <1>4 DEF RUnlockSlow, LastReader
  <2>4. /\ Aside(g, "rUnlockSlow", b) /\ Queued'
        /\ \A x \in G : pc'[x] = "tryRSwap" => num'[x] >= 0
        /\ Writer' /\ (Pending' <=> Pending) /\ (Releasing' <=> Releasing)
        /\ w \in G => pc'[w] = pc[w] /\ w # g
        /\ pc' \in [G -> PC]
    BY <1>2, <2>0, <2>3
  <2>5. /\ N("reading")' = N("reading") /\ N("rAcquire")' = N("rAcquire")
        /\ N("rParked")' = N("rParked") /\ N("rUnlockSlow")' = N("rUnlockSlow") - 1
        /\ N("wSignal")' = N("wSignal") + (IF b = "wSignal" THEN 1 ELSE 0)
    BY <2>3, <2>4, Nats DEF Aside, Moved
  <2>6. Types'  BY <1>0, <1>1, <2>0, <2>4 DEF Types
  <2>7. Counted'
    <3>1. Readers' = Readers  BY <2>5 DEF Readers
    <3> QED  BY <1>0, <1>r, <2>0, <2>2, <2>4, <3>1 DEF Counted
  <2>8. Grants'  BY <1>0, <1>1, <2>4, <2>5 DEF Grants, Releasing
  <2>9. Owed'
    <3>1. Out' = Out - 1 /\ Out \in Nat  BY <1>1, <1>s, <2>5, Nats DEF Out
    <3>2. CASE pc[w] = "drain"
      <4>1. num[w] \in Int  BY <1>0, <2>2 DEF Pending
      <4> QED  BY <1>0, <1>1, <2>0, <2>2, <2>3, <2>4, <2>5, <3>1, <3>2, <4>1, Nats DEF Owed, Pending
    <3>3. CASE pc[w] \in {"wAcquire", "wParked"}
      BY <1>0, <1>1, <1>s, <2>0, <2>2, <2>3, <2>4, <2>5, <3>1, <3>3, Nats DEF Owed, Pending
    <3> QED  BY <2>2, <3>2, <3>3
  <2> QED  BY <2>4, <2>6, <2>7, <2>8, <2>9 DEF Inv
<1> QED  BY <1>3, <1>4

\* Nobody is queued exactly if nobody is parked.
LEMMA LineEmpty ==
  ASSUME NEW f, NEW q \in Seq(G), NEW l, Line(f, q, l)
  PROVE  q = << >> <=> \A x \in G : f[x] # l
<1>1. ASSUME q = << >> PROVE \A x \in G : f[x] # l  BY <1>1 DEF Line
<1>2. ASSUME q # << >> PROVE ~\A x \in G : f[x] # l
  <2>1. Head(q) \in G /\ f[Head(q)] = l  BY <1>2, LineHead
  <2> QED  BY <2>1
<1> QED  BY <1>1, <1>2

\* What a step of the owner of w from a to b leaves alone.
Same == /\ N("reading")' = N("reading") /\ N("rAcquire")' = N("rAcquire")
        /\ N("rParked")' = N("rParked") /\ N("rUnlockSlow")' = N("rUnlockSlow")
        /\ N("wSignal")' = N("wSignal") /\ Readers' = Readers
        /\ Line(pc', readerSem.q, "rParked")
        /\ \A x \in G : pc'[x] = "tryRSwap" => pc[x] = "tryRSwap" /\ pc[x] = pc'[x]
Waiting == {"drain", "wAcquire", "wParked", "writing"}
Steers(g, a, b) ==
    /\ Writer' /\ pc' \in [G -> PC] /\ w = g /\ pc'[w] = b /\ w' = w
    /\ Pending <=> a \in Waiting
    /\ Pending' <=> b \in Waiting
    /\ Releasing <=> a = "rRelease"
    /\ Releasing' <=> b = "rRelease"
    /\ a # "wParked" /\ b # "wParked" => Line(pc', writerSem.q, "wParked")

\* A step of the owner of w.
LEMMA Owner ==
  ASSUME Inv, NEW g \in G, NEW a \in Holds, NEW b \in Holds, pc[g] = a, Goto(g, b), UNCHANGED w
  PROVE  Same /\ Steers(g, a, b)
<1>0. Types /\ Writer /\ Queued /\ pc \in [G -> PC] /\ pc' = [pc EXCEPT ![g] = b]
  BY DEF Inv, Types, Goto
<1>1. \A l : N(l)' = N(l) + (IF l = b THEN 1 ELSE 0) - (IF l = pc[g] THEN 1 ELSE 0)
  BY <1>0, Tally
<1>h. \A l \in {"reading", "rAcquire", "rParked", "rUnlockSlow", "wSignal"} : l # a /\ l # b
  BY DEF Holds
<1>2. /\ N("reading")' = N("reading") /\ N("rAcquire")' = N("rAcquire")
      /\ N("rParked")' = N("rParked") /\ N("rUnlockSlow")' = N("rUnlockSlow")
      /\ N("wSignal")' = N("wSignal")
  <2>1. ASSUME NEW l \in {"reading", "rAcquire", "rParked", "rUnlockSlow", "wSignal"}
        PROVE  N(l)' = N(l)
    <3>1. N(l) \in Nat  BY Counts
    <3> QED  BY <1>1, <1>h, <3>1
  <2> QED  BY <2>1
<1>3. Line(pc', readerSem.q, "rParked")
  <2>1. \A x \in G : pc'[x] = "rParked" <=> pc[x] = "rParked"  BY <1>0, <1>h
  <2> QED  BY <1>0, <2>1, LineSame DEF Queued
<1>4. Same
  <2>1. \A x \in G : pc'[x] = "tryRSwap" => pc[x] = "tryRSwap" /\ pc[x] = pc'[x]
    BY <1>0 DEF Holds
  <2> QED  BY <1>2, <1>3, <2>1 DEF Same, Readers
<1>5. w = g /\ pc'[w] = b /\ w' = w  BY <1>0 DEF Writer
<1>6. Writer' /\ pc' \in [G -> PC]
  <2>1. b \in PC /\ b # "fatal"  BY DEF Holds, PC
  <2> QED  BY <1>0, <1>5, <2>1 DEF Writer
<1>7. /\ Pending <=> a \in Waiting
      /\ Pending' <=> b \in Waiting
      /\ Releasing <=> a = "rRelease"
      /\ Releasing' <=> b = "rRelease"
  BY <1>5 DEF Pending, Releasing, Waiting
<1>8. ASSUME a # "wParked", b # "wParked" PROVE Line(pc', writerSem.q, "wParked")
  <2>1. \A x \in G : pc'[x] = "wParked" <=> pc[x] = "wParked"  BY <1>0, <1>8
  <2> QED  BY <1>0, <2>1, LineSame DEF Queued
<1> QED  BY <1>4, <1>5, <1>6, <1>7, <1>8 DEF Steers

\* A writer announces itself, and adds up the readers it has to wait for.
LEMMA WriterComes == ASSUME Inv, NEW g \in G, Announce(g) \/ Drain(g) \/ TrySwap(g) PROVE Inv'
<1>0. /\ Types /\ Counted /\ Queued /\ Grants /\ Owed /\ pc \in [G -> PC] /\ num \in [G -> Int]
      /\ readerCount \in Int /\ readerWait \in Int /\ MaxReaders \in Nat /\ num[g] \in Int
  BY RWAssumption DEF Inv, Types
<1>s. readerSem.credit \in Nat /\ writerSem.credit \in Nat /\ Readers \in Nat
  BY <1>0, Nats DEF Types, Readers
<1>1. UNCHANGED <<w, writerSem, readerSem>>  BY DEF Announce, Drain, TrySwap
<1>2. ASSUME NEW a \in {"announce", "drain", "tryW"}, NEW b \in {"drain", "wAcquire", "writing", "unlockW"},
             Same, Steers(g, a, b), num' \in [G -> Int], \A x \in G : x # g => num'[x] = num[x],
             pc[g] = a, readerCount' \in Int, readerWait' \in Int
      PROVE  Types' /\ Queued' /\ \A x \in G : pc'[x] = "tryRSwap" => num'[x] >= 0
  <2>1. Types'  BY <1>0, <1>1, <1>2 DEF Types, Steers
  <2>2. Queued'  BY <1>0, <1>1, <1>2 DEF Queued, Same, Steers
  <2>3. \A x \in G : pc'[x] = "tryRSwap" => num'[x] >= 0
    BY <1>0, <1>2 DEF Same, Counted
  <2> QED  BY <2>1, <2>2, <2>3
<1>3. CASE Announce(g)
  <2>1. /\ readerCount' = readerCount - MaxReaders /\ UNCHANGED readerWait
        /\ num' = [num EXCEPT ![g] = readerCount] /\ pc[g] = "announce"
    BY <1>3 DEF Announce, Keep
  <2>2. PICK b \in {"drain", "writing"} : Goto(g, b) /\ (b = "drain" <=> readerCount # 0)
    BY <1>3 DEF Announce
  <2>3. Same /\ Steers(g, "announce", b)
    <3>1. "announce" \in Holds /\ b \in Holds  BY DEF Holds
    <3> QED  BY <1>1, <2>1, <2>2, <3>1, Owner
  <2>4. /\ Writer' /\ w = g /\ w \in G /\ w' = w /\ pc'[w] = b
        /\ ~Pending /\ Pending' /\ ~Releasing /\ ~Releasing'
    BY <2>3 DEF Steers, Waiting
  <2>5. Types' /\ Queued' /\ \A x \in G : pc'[x] = "tryRSwap" => num'[x] >= 0
    BY <1>0, <1>2, <2>1, <2>3
  <2>6. Counted'  BY <1>0, <1>s, <2>1, <2>3, <2>4, <2>5 DEF Counted, Same
  <2>7. Grants'  BY <1>0, <1>1, <2>3, <2>4 DEF Grants, Same
  <2>8. /\ readerCount = Readers /\ readerWait = 0 /\ N("rUnlockSlow") = 0 /\ N("wSignal") = 0
        /\ writerSem.credit = 0
    BY <1>0, <2>4 DEF Owed, Counted
  <2>9. readerSem.credit = N("rAcquire") /\ N("rParked") = 0
    BY <1>0, <1>s, <2>4, Nats DEF Grants
  <2>10. Out' = Readers  BY <1>1, <2>3, <2>8, <2>9, Nats DEF Out, Same, Readers
  <2>11. Owed'
    <3>1. num'[w'] = readerCount  BY <1>0, <2>1, <2>4
    <3>2. N("rUnlockSlow")' = 0 /\ N("wSignal")' = 0  BY <2>3, <2>8 DEF Same
    <3> QED  BY <1>0, <1>1, <1>s, <2>1, <2>2, <2>4, <2>8, <2>10, <3>1, <3>2 DEF Owed
  <2> QED  BY <2>4, <2>5, <2>6, <2>7, <2>11 DEF Inv
<1>4. CASE Drain(g)
  <2>1. /\ readerWait' = readerWait + num[g] /\ UNCHANGED readerCount
        /\ num' = [num EXCEPT ![g] = 0] /\ pc[g] = "drain"
    BY <1>4 DEF Drain, Keep
  <2>2. PICK b \in {"wAcquire", "writing"} : Goto(g, b) /\ (b = "wAcquire" <=> readerWait' # 0)
    BY <1>4 DEF Drain, MustWait
  <2>3. Same /\ Steers(g, "drain", b)
    <3>1. "drain" \in Holds /\ b \in Holds  BY DEF Holds
    <3> QED  BY <1>1, <2>1, <2>2, <3>1, Owner
  <2>4. /\ Writer' /\ w = g /\ w \in G /\ w' = w /\ pc'[w] = b
        /\ Pending /\ Pending' /\ ~Releasing /\ ~Releasing'
    BY <2>3 DEF Steers, Waiting
  <2>5. Types' /\ Queued' /\ \A x \in G : pc'[x] = "tryRSwap" => num'[x] >= 0
    BY <1>0, <1>2, <2>1, <2>3
  <2>6. Counted'  BY <1>0, <1>s, <2>1, <2>3, <2>4, <2>5 DEF Counted, Same
  <2>7. Grants'  BY <1>0, <1>1, <2>3, <2>4 DEF Grants, Same
  <2>8. readerWait' = Out /\ N("wSignal") = 0 /\ writerSem.credit = 0
    BY <1>0, <2>1, <2>4 DEF Owed
  <2>9. Out' = Out  BY <1>1, <2>3 DEF Out, Same
  <2>10. b = "writing" => N("rUnlockSlow") = 0  BY <1>s, <2>2, <2>8, Nats DEF Out
  <2>11. Owed'
    <3>1. N("rUnlockSlow")' = N("rUnlockSlow") /\ N("wSignal")' = 0  BY <2>3, <2>8 DEF Same
    <3> QED  BY <1>0, <1>1, <1>s, <2>2, <2>4, <2>8, <2>9, <2>10, <3>1 DEF Owed
  <2> QED  BY <2>4, <2>5, <2>6, <2>7, <2>11 DEF Inv
<1>5. CASE TrySwap(g)
  <2>1. UNCHANGED <<readerWait, num>> /\ pc[g] = "tryW"  BY <1>5 DEF TrySwap
  <2>2. PICK b \in {"writing", "unlockW"} :
           /\ Goto(g, b) /\ (b = "writing" <=> readerCount = 0)
           /\ readerCount' = IF b = "writing" THEN -MaxReaders ELSE readerCount
    BY <1>5 DEF TrySwap
  <2>3. Same /\ Steers(g, "tryW", b)
    <3>1. "tryW" \in Holds /\ b \in Holds  BY DEF Holds
    <3> QED  BY <1>1, <2>1, <2>2, <3>1, Owner
  <2>4. /\ Writer' /\ w = g /\ w \in G /\ w' = w /\ pc'[w] = b /\ (Pending' <=> b = "writing")
        /\ ~Pending /\ ~Releasing /\ ~Releasing'
    BY <2>3 DEF Steers, Waiting
  <2>5. Types' /\ Queued' /\ \A x \in G : pc'[x] = "tryRSwap" => num'[x] >= 0
    BY <1>0, <1>2, <2>1, <2>2, <2>3
  <2>6. Counted'  BY <1>0, <1>s, <2>2, <2>3, <2>4, <2>5 DEF Counted, Same
  <2>7. Grants'  BY <1>0, <1>1, <2>3, <2>4 DEF Grants, Same
  <2>8. /\ readerCount = Readers /\ readerWait = 0 /\ N("rUnlockSlow") = 0 /\ N("wSignal") = 0
        /\ writerSem.credit = 0 /\ readerSem.credit <= N("rAcquire")
    BY <1>0, <2>4 DEF Owed, Counted, Grants
  <2>9. b = "writing" => Out' = 0
    <3>1. b = "writing" => N("reading") = 0 /\ N("rAcquire") = 0
      BY <2>2, <2>8, Nats DEF Readers
    <3> QED  BY <1>1, <1>s, <2>3, <2>8, <3>1 DEF Out, Same
  <2>10. N("rUnlockSlow")' = 0 /\ N("wSignal")' = 0  BY <2>3, <2>8 DEF Same
  <2>11. Owed'  BY <1>1, <2>1, <2>4, <2>8, <2>9, <2>10 DEF Owed
  <2> QED  BY <2>4, <2>5, <2>6, <2>7, <2>11 DEF Inv
<1> QED  BY <1>3, <1>4, <1>5

\* The writer waits for its signal, and releases the readers behind it when it is done.
LEMMA WriterGoes == ASSUME Inv, NEW g \in G, WAcquire(g) \/ Unlock(g) PROVE Inv'
<1>0. /\ Types /\ Counted /\ Queued /\ Grants /\ Owed /\ pc \in [G -> PC] /\ num \in [G -> Int]
      /\ readerCount \in Int /\ readerWait \in Int /\ MaxReaders \in Nat
      /\ writerSem \in [credit : Nat, q : Seq(G)] /\ readerSem \in [credit : Nat, q : Seq(G)]
  BY RWAssumption DEF Inv, Types
<1>s. readerSem.credit \in Nat /\ writerSem.credit \in Nat /\ writerSem.q \in Seq(G) /\ Readers \in Nat
  BY <1>0, Nats DEF Readers
<1>1. UNCHANGED <<w, readerSem, readerWait>>  BY DEF WAcquire, Unlock
<1>2. CASE WAcquire(g)
  <2>1. UNCHANGED <<readerCount, num>> /\ pc[g] = "wAcquire"  BY <1>2 DEF WAcquire
  <2>2. PICK b \in {"writing", "wParked"} :
           /\ Goto(g, b) /\ (b = "writing" <=> writerSem.credit > 0)
           /\ writerSem' = IF b = "writing" THEN Consumed(writerSem) ELSE Joined(writerSem, g)
    BY <1>2 DEF WAcquire, HasCredit
  <2>3. Same /\ Steers(g, "wAcquire", b)
    <3>1. "wAcquire" \in Holds /\ b \in Holds  BY DEF Holds
    <3> QED  BY <1>1, <2>1, <2>2, <3>1, Owner
  <2>4. /\ Writer' /\ w = g /\ w \in G /\ w' = w /\ pc'[w] = b /\ pc[w] = "wAcquire"
        /\ Pending /\ Pending' /\ ~Releasing /\ ~Releasing'
    BY <2>1, <2>3 DEF Steers, Waiting
  <2>5. /\ readerWait = Out
        /\ N("wSignal") + writerSem.credit = IF readerWait = 0 THEN 1 ELSE 0
    BY <1>0, <2>4 DEF Owed
  <2>6. /\ writerSem' \in [credit : Nat, q : Seq(G)] /\ writerSem'.credit = 0
        /\ Line(pc', writerSem'.q, "wParked")
    <3>1. CASE b = "writing"
      <4>1. /\ writerSem' \in [credit : Nat, q : Seq(G)] /\ writerSem'.q = writerSem.q
            /\ writerSem'.credit = writerSem.credit - 1
        BY <1>0, <2>2, <3>1, SemaOps DEF HasCredit
      <4>2. writerSem.credit = 1  BY <1>0, <1>s, <2>2, <2>5, <3>1, Nats
      <4>3. Line(pc', writerSem.q, "wParked")
        <5>1. "wAcquire" # "wParked" /\ b # "wParked"  BY <3>1
        <5> QED  BY <2>3, <5>1 DEF Steers
      <4> QED  BY <4>1, <4>2, <4>3
    <3>2. CASE b = "wParked"
      <4>0. writerSem' = Joined(writerSem, g)  BY <2>2, <3>2
      <4>1. /\ writerSem' \in [credit : Nat, q : Seq(G)] /\ writerSem'.q = Append(writerSem.q, g)
            /\ writerSem'.credit = writerSem.credit
        BY <1>0, <4>0, SemaOps
      <4>2. Line(pc', Append(writerSem.q, g), "wParked")
        BY <1>0, <1>s, <2>1, <2>2, <3>2, LineJoin DEF Queued, Goto
      <4>3. writerSem.credit = 0  BY <1>s, <2>2, <3>2
      <4> QED  BY <4>1, <4>2, <4>3
    <3> QED  BY <3>1, <3>2
  <2>7. Types'  BY <1>0, <1>1, <2>1, <2>3, <2>6 DEF Types, Steers
  <2>8. Queued'  BY <1>0, <1>1, <2>3, <2>6 DEF Queued, Same
  <2>9. Counted'  BY <1>0, <2>1, <2>3, <2>4 DEF Counted, Same
  <2>10. Grants'  BY <1>0, <1>1, <2>3, <2>4 DEF Grants, Same
  <2>11. Owed'
    <3>1. Out' = Out /\ N("wSignal")' = N("wSignal") /\ N("rUnlockSlow")' = N("rUnlockSlow")
      BY <1>1, <2>3 DEF Out, Same
    <3>2. CASE b = "writing"
      <4>1. N("wSignal") = 0 /\ readerWait = 0 /\ Out = 0
        BY <1>0, <1>s, <2>2, <2>5, <3>2, Nats
      <4>2. N("rUnlockSlow") = 0  BY <1>s, <4>1, Nats DEF Out
      <4> QED  BY <1>1, <2>4, <2>6, <3>1, <3>2, <4>1, <4>2 DEF Owed
    <3>3. CASE b = "wParked"
      <4>1. writerSem.credit = 0  BY <1>s, <2>2, <3>3
      <4> QED  BY <1>1, <2>4, <2>5, <2>6, <3>1, <3>3, <4>1, Nats DEF Owed
    <3> QED  BY <3>2, <3>3
  <2> QED  BY <2>4, <2>7, <2>8, <2>9, <2>10, <2>11 DEF Inv
<1>3. CASE Unlock(g)
  <2>1. pc[g] = "writing" /\ readerCount' = readerCount + MaxReaders /\ UNCHANGED writerSem
    BY <1>3 DEF Unlock
  <2>2. w = g /\ Pending
    BY <2>1 DEF Inv, Writer, Holds, Pending
  <2>3. /\ readerWait = 0 /\ N("rUnlockSlow") = 0 /\ N("wSignal") = 0 /\ writerSem.credit = 0 /\ Out = 0
    BY <1>0, <2>1, <2>2 DEF Owed
  <2>4. N("reading") = 0 /\ readerSem.credit = 0  BY <1>s, <2>3, Nats DEF Out
  <2>5. readerCount' = Readers /\ Readers < MaxReaders
    BY <1>0, <1>s, <2>1, <2>2, FewReaders DEF Counted
  <2>6. Readers = N("rAcquire") + N("rParked")  BY <2>4, Nats DEF Readers
  <2>7. PICK b \in {"rRelease", "unlockW"} :
           /\ Goto(g, b) /\ (b = "rRelease" <=> Readers > 0)
           /\ num' = [num EXCEPT ![g] = Readers]
    <3>1. ~(Readers >= MaxReaders) /\ (Readers > 0 \/ Readers = 0)  BY <1>0, <1>s, <2>5
    <3> QED  BY <1>0, <1>3, <2>1, <2>5, <3>1 DEF Unlock, Keep, ToRelease
  <2>8. Same /\ Steers(g, "writing", b)
    <3>1. "writing" \in Holds /\ b \in Holds  BY DEF Holds
    <3> QED  BY <1>1, <2>1, <2>7, <3>1, Owner
  <2>9. /\ Writer' /\ w \in G /\ w' = w /\ pc'[w] = b
        /\ ~Pending' /\ (Releasing' <=> b = "rRelease")
        /\ Line(pc', writerSem.q, "wParked") /\ pc' \in [G -> PC]
    BY <2>2, <2>8 DEF Steers, Waiting
  <2>10. num' \in [G -> Int] /\ num'[g] = Readers /\ \A x \in G : x # g => num'[x] = num[x]
    BY <1>0, <1>s, <2>7
  <2>11. Types'  BY <1>0, <1>1, <1>s, <2>1, <2>5, <2>9, <2>10 DEF Types
  <2>12. Queued'  BY <1>0, <1>1, <2>1, <2>8, <2>9 DEF Queued, Same
  <2>13. Counted'
    <3>1. \A x \in G : pc'[x] = "tryRSwap" => num'[x] >= 0
      BY <1>0, <2>1, <2>8, <2>10 DEF Same, Counted
    <3> QED  BY <2>5, <2>8, <2>9, <3>1 DEF Counted, Same
  <2>14. Grants'
    <3>1. N("rAcquire")' = N("rAcquire") /\ N("rParked")' = N("rParked")  BY <2>8 DEF Same
    <3>2. num'[w'] = Readers  BY <2>2, <2>9, <2>10
    <3> QED  BY <1>1, <1>s, <2>4, <2>6, <2>7, <2>9, <3>1, <3>2, Nats DEF Grants
  <2>15. Owed'
    <3>1. N("rUnlockSlow")' = 0 /\ N("wSignal")' = 0  BY <2>3, <2>8 DEF Same
    <3> QED  BY <1>1, <2>1, <2>3, <2>9, <3>1 DEF Owed
  <2> QED  BY <2>9, <2>11, <2>12, <2>13, <2>14, <2>15 DEF Inv
<1> QED  BY <1>2, <1>3

\* The last reader signals: the parked writer is in, or finds the credit.
LEMMA WriterSignalled == ASSUME Inv, NEW g \in G, WSignal(g) PROVE Inv'
<1>0. /\ Types /\ Writer /\ Counted /\ Queued /\ Grants /\ Owed /\ pc \in [G -> PC] /\ num \in [G -> Int]
      /\ readerCount \in Int /\ readerWait \in Int
      /\ writerSem \in [credit : Nat, q : Seq(G)] /\ readerSem \in [credit : Nat, q : Seq(G)]
  BY DEF Inv, Types
<1>s. readerSem.credit \in Nat /\ writerSem.credit \in Nat /\ writerSem.q \in Seq(G)  BY <1>0
<1>1. /\ UNCHANGED <<w, readerSem, readerCount, readerWait, num>> /\ pc[g] = "wSignal"
      /\ writerSem' = Released(writerSem)
  BY DEF WSignal
<1>2. N("wSignal") >= 1  BY <1>1, Counts
<1>3. Pending /\ pc[w] \in {"wAcquire", "wParked"}  BY <1>0, <1>2 DEF Owed, Pending
<1>4. /\ readerWait = 0 /\ Out = 0 /\ N("wSignal") = 1 /\ writerSem.credit = 0
  BY <1>0, <1>2, <1>3, <1>s, Nats DEF Owed
<1>5. w \in G /\ w # g /\ \A x \in G : x # w => pc[x] # "wParked"
  BY <1>0, <1>1, <1>3 DEF Pending, Writer, Holds
<1>l. Line(pc, writerSem.q, "wParked") /\ Line(pc, readerSem.q, "rParked")  BY <1>0 DEF Queued
<1>6. ASSUME NEW b \in {"writing", "wAcquire"}, pc' \in [G -> PC], pc'[w] = b, pc'[g] = "idle",
             \A x \in G : x # w /\ x # g => pc'[x] = pc[x],
             N("reading")' = N("reading"), N("rAcquire")' = N("rAcquire"),
             N("rParked")' = N("rParked"), N("rUnlockSlow")' = N("rUnlockSlow"), N("wSignal")' = 0,
             writerSem' \in [credit : Nat, q : Seq(G)], Line(pc', writerSem'.q, "wParked"),
             writerSem'.credit = IF b = "wAcquire" THEN 1 ELSE 0
      PROVE  Inv'
  <2>0. b \in Holds /\ b \in Waiting /\ b # "fatal" /\ b # "tryRSwap" /\ b # "rParked" /\ b # "rRelease"
    BY <1>6 DEF Holds, Waiting
  <2>1. Types'  BY <1>0, <1>1, <1>6 DEF Types
  <2>2. Writer'
    <3>1. ASSUME NEW x \in G PROVE (pc'[x] \in Holds <=> w = x) /\ pc'[x] # "fatal"
      <4>1. CASE x = w  BY <1>6, <2>0, <4>1
      <4>2. CASE x = g  BY <1>5, <1>6, <4>2 DEF Holds
      <4>3. CASE x # w /\ x # g  BY <1>0, <1>6, <4>3 DEF Writer
      <4> QED  BY <4>1, <4>2, <4>3
    <3> QED  BY <1>1, <3>1 DEF Writer
  <2>3. Pending' /\ ~Releasing' /\ ~Releasing
    BY <1>1, <1>3, <1>5, <1>6, <2>0 DEF Pending, Releasing, Waiting
  <2>4. Readers' = Readers  BY <1>6 DEF Readers
  <2>5. Counted'
    <3>1. \A x \in G : pc'[x] = "tryRSwap" => pc[x] = "tryRSwap"
      BY <1>6, <2>0
    <3> QED  BY <1>0, <1>1, <1>3, <2>3, <2>4, <3>1 DEF Counted
  <2>6. Queued'
    <3>1. \A x \in G : pc'[x] = "rParked" <=> pc[x] = "rParked"
      BY <1>1, <1>3, <1>6, <2>0
    <3>2. Line(pc', readerSem.q, "rParked")  BY <1>l, <3>1, LineSame
    <3> QED  BY <1>0, <1>1, <1>6, <3>2 DEF Queued
  <2>7. Grants'  BY <1>0, <1>1, <1>6, <2>3 DEF Grants
  <2>8. Owed'
    <3>1. Out' = 0  BY <1>1, <1>4, <1>6 DEF Out
    <3>2. N("rUnlockSlow") = 0  BY <1>4, <1>s, Nats DEF Out
    <3>3. b = "writing" \/ b = "wAcquire"  BY <1>6
    <3> QED  BY <1>1, <1>4, <1>6, <2>3, <3>1, <3>2, <3>3 DEF Owed
  <2> QED  BY <2>1, <2>2, <2>5, <2>6, <2>7, <2>8 DEF Inv
<1>7. CASE pc[w] = "wParked"
  <2>1. writerSem.q # << >>  BY <1>5, <1>7, <1>l, <1>s, LineEmpty
  <2>2. Head(writerSem.q) = w  BY <1>5, <1>l, <1>s, <2>1, LineHead
  <2>3. pc' = [pc EXCEPT ![g] = "idle", ![w] = "writing"]
    BY <2>1, <2>2 DEF WSignal, Wakes, Wakee
  <2>4. /\ pc' \in [G -> PC] /\ pc'[w] = "writing" /\ pc'[g] = "idle"
        /\ \A x \in G : x # w /\ x # g => pc'[x] = pc[x]
    BY <1>0, <1>5, <2>3 DEF PC
  <2>5. /\ N("reading")' = N("reading") /\ N("rAcquire")' = N("rAcquire")
        /\ N("rParked")' = N("rParked") /\ N("rUnlockSlow")' = N("rUnlockSlow") /\ N("wSignal")' = 0
    <3>1. PICK h \in G : h = w  BY <1>5
    <3>2. /\ pc[g] = "wSignal" /\ pc[h] = "wParked" /\ pc'[g] = "idle" /\ pc'[h] = "writing" /\ g # h
          /\ \A x \in G : x # h /\ x # g => pc'[x] = pc[x]
      BY <1>1, <1>5, <1>7, <2>4, <3>1
    <3>3. MovedTwo("wSignal", "idle", "wParked", "writing")  BY <1>0, <2>4, <3>2, TallyTwo
    <3>4. N("wSignal")' = N("wSignal") - 1  BY <3>3, Nats DEF MovedTwo
    <3>5. N("wSignal")' = 0  BY <1>4, <3>4
    <3> QED  BY <3>3, <3>5, Nats DEF MovedTwo
  <2>6. /\ writerSem' \in [credit : Nat, q : Seq(G)] /\ writerSem'.credit = 0
        /\ writerSem'.q = Tail(writerSem.q)
    BY <1>0, <1>1, <1>4, <2>1, SemaOps DEF Wakes
  <2>8. \A x \in G : pc'[x] = "wParked" <=> pc[x] = "wParked" /\ x # Head(writerSem.q)
    BY <1>1, <1>5, <2>2, <2>4
  <2>9. Line(pc', Tail(writerSem.q), "wParked")  BY <1>l, <1>s, <2>1, <2>8, LinePop
  <2> QED  BY <1>6, <2>4, <2>5, <2>6, <2>9
<1>8. CASE pc[w] = "wAcquire"
  <2>1. writerSem.q = << >>  BY <1>5, <1>8, <1>l, <1>s, LineEmpty
  <2>2. pc' = [pc EXCEPT ![g] = "idle"]  BY <2>1 DEF WSignal, Wakes
  <2>3. \A l : N(l)' = N(l) + (IF l = "idle" THEN 1 ELSE 0) - (IF l = pc[g] THEN 1 ELSE 0)
    BY <1>0, <2>2, Tally
  <2>4. /\ N("reading")' = N("reading") /\ N("rAcquire")' = N("rAcquire")
        /\ N("rParked")' = N("rParked") /\ N("rUnlockSlow")' = N("rUnlockSlow") /\ N("wSignal")' = 0
    <3>1. \A l : N(l)' = N(l) + (IF l = "idle" THEN 1 ELSE 0) - (IF l = "wSignal" THEN 1 ELSE 0)
      BY <1>1, <2>3
    <3>2. N("wSignal")' = N("wSignal") - 1  BY <3>1, Nats
    <3>3. N("wSignal")' = 0  BY <1>4, <3>2
    <3> QED  BY <3>1, <3>3, Nats
  <2>5. /\ writerSem' \in [credit : Nat, q : Seq(G)] /\ writerSem'.credit = 1
        /\ writerSem'.q = writerSem.q
    <3>1. ~Wakes(writerSem)  BY <2>1 DEF Wakes
    <3>2. /\ Released(writerSem) \in [credit : Nat, q : Seq(G)] /\ Released(writerSem).q = writerSem.q
          /\ Released(writerSem).credit = writerSem.credit + 1
      BY <1>0, <3>1, SemaOps
    <3> QED  BY <1>1, <1>4, <3>2
  <2>6. /\ pc' \in [G -> PC] /\ pc'[w] = "wAcquire" /\ pc'[g] = "idle"
        /\ \A x \in G : x # w /\ x # g => pc'[x] = pc[x]
    BY <1>0, <1>5, <1>8, <2>2 DEF PC
  <2>7. \A x \in G : pc'[x] = "wParked" <=> pc[x] = "wParked"  BY <1>1, <1>8, <2>6
  <2>8. Line(pc', writerSem'.q, "wParked")  BY <1>l, <2>5, <2>7, LineSame
  <2> QED  BY <1>6, <2>4, <2>5, <2>6, <2>8
<1> QED  BY <1>3, <1>7, <1>8

\* A writer that has unlocked wakes the readers that queued behind it, one at a time, and
\* leaves a credit for each that has not queued yet.
LEMMA ReadersReleased == ASSUME Inv, NEW g \in G, RRelease(g) PROVE Inv'
<1>0. /\ Types /\ Writer /\ Counted /\ Queued /\ Grants /\ Owed /\ pc \in [G -> PC] /\ num \in [G -> Int]
      /\ readerCount \in Int /\ readerWait \in Int /\ num[g] \in Int
      /\ writerSem \in [credit : Nat, q : Seq(G)] /\ readerSem \in [credit : Nat, q : Seq(G)]
  BY DEF Inv, Types
<1>s. readerSem.credit \in Nat /\ writerSem.credit \in Nat /\ readerSem.q \in Seq(G)  BY <1>0
<1>1. UNCHANGED <<w, writerSem, readerCount, readerWait>> /\ pc[g] = "rRelease"  BY DEF RRelease
<1>2. w = g /\ Releasing /\ ~Pending  BY <1>0, <1>1 DEF Writer, Holds, Releasing, Pending
<1>3. readerSem.credit = 0 /\ num[g] > 0 /\ num[g] = N("rAcquire") + N("rParked")
  BY <1>0, <1>2 DEF Grants
<1>l. Line(pc, writerSem.q, "wParked") /\ Line(pc, readerSem.q, "rParked")  BY <1>0 DEF Queued
<1>4. CASE ~Wakes(readerSem)
  <2>1. /\ readerSem' = Credited(readerSem, num[g]) /\ num' = [num EXCEPT ![g] = 0]
        /\ Goto(g, "unlockW")
    BY <1>4 DEF RRelease, Keep
  <2>2. Same /\ Steers(g, "rRelease", "unlockW")
    <3>1. "rRelease" \in Holds /\ "unlockW" \in Holds  BY DEF Holds
    <3> QED  BY <1>1, <2>1, <3>1, Owner
  <2>3. N("rParked") = 0
    <3>1. readerSem.q = << >>  BY <1>4 DEF Wakes
    <3>2. \A x \in G : pc[x] # "rParked"  BY <1>l, <1>s, <3>1, LineEmpty
    <3> QED  BY <3>2, Counts
  <2>4. /\ readerSem' \in [credit : Nat, q : Seq(G)] /\ readerSem'.q = readerSem.q
        /\ readerSem'.credit = N("rAcquire")
    <3>1. PICK n \in Nat : n = num[g]  BY <1>0, <1>3
    <3>2. /\ Credited(readerSem, n) \in [credit : Nat, q : Seq(G)]
          /\ Credited(readerSem, n).q = readerSem.q
          /\ Credited(readerSem, n).credit = readerSem.credit + n
      BY <1>0, SemaOps
    <3> QED  BY <1>3, <2>1, <2>3, <3>1, <3>2, Nats
  <2>5. /\ Writer' /\ ~Pending' /\ ~Releasing' /\ pc' \in [G -> PC]
        /\ Line(pc', writerSem.q, "wParked")
    BY <2>2 DEF Steers, Waiting
  <2>6. Types'
    <3>1. num' \in [G -> Int]  BY <1>0, <2>1
    <3>2. w \in G \cup {None}  BY <1>0 DEF Types
    <3> QED  BY <1>0, <1>1, <2>4, <2>5, <3>1, <3>2 DEF Types
  <2>7. Counted'
    <3>1. \A x \in G : pc'[x] = "tryRSwap" => num'[x] >= 0
      BY <1>0, <1>1, <2>1, <2>2 DEF Same, Counted
    <3> QED  BY <1>0, <1>1, <1>2, <2>2, <2>5, <3>1 DEF Counted, Same
  <2>8. Queued'
    <3>1. Line(pc', readerSem'.q, "rParked")  BY <2>2, <2>4 DEF Same
    <3>2. readerSem'.q = << >>  BY <1>4, <2>4 DEF Wakes
    <3> QED  BY <1>1, <2>5, <3>1, <3>2 DEF Queued
  <2>9. Grants'
    <3>1. N("rAcquire")' = N("rAcquire") /\ N("rParked")' = 0  BY <2>2, <2>3 DEF Same
    <3> QED  BY <2>4, <2>5, <3>1, Nats DEF Grants
  <2>10. Owed'  BY <1>0, <1>1, <1>2, <2>2, <2>5 DEF Owed, Same
  <2> QED  BY <2>5, <2>6, <2>7, <2>8, <2>9, <2>10 DEF Inv
<1>5. CASE Wakes(readerSem)
  <2>0. readerSem.q # << >>  BY <1>5 DEF Wakes
  <2>1. PICK h \in G : h = Head(readerSem.q) /\ pc[h] = "rParked"
    <3>1. Head(readerSem.q) \in G /\ pc[Head(readerSem.q)] = "rParked"
      BY <1>l, <1>s, <2>0, LineHead
    <3> QED  BY <3>1
  <2>2. h # g  BY <1>1, <2>1
  <2>3. PICK b \in {"unlockW", "rRelease"} :
           /\ pc' = [pc EXCEPT ![h] = "reading", ![g] = b] /\ (b = "unlockW" <=> num[g] = 1)
    BY <1>5, <2>1 DEF RRelease, Wakee
  <2>4. num' = [num EXCEPT ![g] = num[g] - 1] /\ readerSem' = Released(readerSem)
    BY <1>5 DEF RRelease, Keep
  <2>b. b = "unlockW" \/ b = "rRelease"  BY <2>3
  <2>6. /\ pc' \in [G -> PC] /\ pc'[g] = b /\ pc'[h] = "reading"
        /\ \A x \in G : x # h /\ x # g => pc'[x] = pc[x]
    BY <1>0, <2>2, <2>3 DEF PC
  <2>5. /\ N("reading")' = N("reading") + 1 /\ N("rAcquire")' = N("rAcquire")
        /\ N("rParked")' = N("rParked") - 1 /\ N("rUnlockSlow")' = N("rUnlockSlow")
        /\ N("wSignal")' = N("wSignal")
    <3>1. MovedTwo("rRelease", b, "rParked", "reading")  BY <1>0, <1>1, <2>1, <2>2, <2>6, TallyTwo
    <3> QED  BY <2>b, <3>1, Nats DEF MovedTwo
  <2>7. Writer'
    <3>1. ASSUME NEW x \in G PROVE (pc'[x] \in Holds <=> w = x) /\ pc'[x] # "fatal"
      <4>1. CASE x = g  BY <1>2, <2>b, <2>6, <4>1 DEF Holds
      <4>2. CASE x = h  BY <1>2, <2>2, <2>6, <4>2 DEF Holds
      <4>3. CASE x # g /\ x # h  BY <1>0, <2>6, <4>3 DEF Writer
      <4> QED  BY <4>1, <4>2, <4>3
    <3> QED  BY <1>1, <3>1 DEF Writer
  <2>8. ~Pending' /\ (Releasing' <=> b = "rRelease")
    BY <1>1, <1>2, <2>b, <2>6 DEF Pending, Releasing
  <2>9. /\ readerSem' \in [credit : Nat, q : Seq(G)] /\ readerSem'.credit = 0
        /\ readerSem'.q = Tail(readerSem.q)
    <3>1. /\ Released(readerSem) \in [credit : Nat, q : Seq(G)]
          /\ Released(readerSem).credit = readerSem.credit /\ Released(readerSem).q = Tail(readerSem.q)
      BY <1>0, <1>5, SemaOps
    <3> QED  BY <1>3, <2>4, <3>1
  <2>10. num' \in [G -> Int] /\ num'[g] = num[g] - 1 /\ \A x \in G : x # g => num'[x] = num[x]
    BY <1>0, <2>4
  <2>11. Types'  BY <1>0, <1>1, <2>6, <2>9, <2>10 DEF Types
  <2>12. Counted'
    <3>1. \A x \in G : pc'[x] = "tryRSwap" => num'[x] >= 0
      BY <1>0, <2>b, <2>6, <2>10 DEF Counted
    <3>2. Readers' = Readers  BY <2>5, Nats DEF Readers
    <3> QED  BY <1>0, <1>1, <1>2, <2>8, <3>1, <3>2 DEF Counted
  <2>13. Queued'
    <3>1. \A x \in G : pc'[x] = "rParked" <=> pc[x] = "rParked" /\ x # Head(readerSem.q)
      BY <1>1, <2>1, <2>b, <2>6
    <3>2. Line(pc', Tail(readerSem.q), "rParked")  BY <1>l, <1>s, <2>0, <3>1, LinePop
    <3>3. \A x \in G : pc'[x] = "wParked" <=> pc[x] = "wParked"  BY <1>1, <2>1, <2>b, <2>6
    <3>4. Line(pc', writerSem.q, "wParked")  BY <1>l, <3>3, LineSame
    <3> QED  BY <1>1, <2>9, <3>2, <3>4 DEF Queued
  <2>14. Grants'
    <3>1. num'[w'] = num[g] - 1  BY <1>1, <1>2, <2>10
    <3> QED  BY <1>0, <1>3, <2>3, <2>5, <2>8, <2>9, <2>b, <3>1, Nats DEF Grants
  <2>15. Owed'  BY <1>0, <1>1, <1>2, <2>5, <2>8 DEF Owed
  <2> QED  BY <2>7, <2>11, <2>12, <2>13, <2>14, <2>15 DEF Inv
<1> QED  BY <1>4, <1>5

\* w is taken and given back.
LEMMA WriterMutex == ASSUME Inv, NEW g \in G, LockW(g) \/ TryLock(g) \/ UnlockW(g) PROVE Inv'
<1>0. /\ Types /\ Writer /\ Counted /\ Queued /\ Grants /\ Owed /\ pc \in [G -> PC] /\ None \notin G
  BY RWAssumption DEF Inv, Types
<1>1. UNCHANGED <<writerSem, readerSem, readerCount, readerWait, num>>
  BY DEF LockW, TryLock, UnlockW
<1>2. PICK a \in {"wLock", "idle", "unlockW"}, b \in {"announce", "tryW", "idle"} :
         /\ pc[g] = a /\ pc' = [pc EXCEPT ![g] = b]
         /\ a = "unlockW" <=> b = "idle"
         /\ b = "idle" => w' = None
         /\ b # "idle" => w = None /\ w' = g
  BY DEF LockW, TryLock, UnlockW, Goto
<1>3. a = "unlockW" => w = g  BY <1>0, <1>2 DEF Writer, Holds
<1>4. ~Pending /\ ~Releasing /\ ~Pending' /\ ~Releasing'
  <2>1. ~Pending /\ ~Releasing  BY <1>0, <1>2, <1>3 DEF Pending, Releasing
  <2>2. ~Pending' /\ ~Releasing'  BY <1>0, <1>2 DEF Pending, Releasing
  <2> QED  BY <2>1, <2>2
<1>5. pc' \in [G -> PC] /\ Writer'
  <2>1. b \in PC  BY DEF PC
  <2>2. ASSUME NEW x \in G PROVE (pc'[x] \in Holds <=> w' = x) /\ pc'[x] # "fatal"
    <3>1. CASE x = g  BY <1>0, <1>2, <3>1 DEF Holds
    <3>2. CASE x # g  BY <1>0, <1>2, <1>3, <3>2 DEF Writer
    <3> QED  BY <3>1, <3>2
  <2> QED  BY <1>0, <1>2, <2>1, <2>2 DEF Writer
<1>6. /\ N("reading")' = N("reading") /\ N("rAcquire")' = N("rAcquire")
      /\ N("rParked")' = N("rParked") /\ N("rUnlockSlow")' = N("rUnlockSlow")
      /\ N("wSignal")' = N("wSignal")
  <2>1. \A l : N(l)' = N(l) + (IF l = b THEN 1 ELSE 0) - (IF l = a THEN 1 ELSE 0)
    BY <1>0, <1>2, Tally
  <2> QED  BY <2>1, Nats
<1>7. Types'
  <2>1. w' \in G \cup {None}  BY <1>2
  <2> QED  BY <1>0, <1>1, <1>5, <2>1 DEF Types
<1>8. Counted'
  <2>1. \A x \in G : pc'[x] = "tryRSwap" => pc[x] = "tryRSwap"  BY <1>0, <1>2
  <2>2. Readers' = Readers  BY <1>6 DEF Readers
  <2> QED  BY <1>0, <1>1, <1>4, <2>1, <2>2 DEF Counted
<1>9. Queued'
  <2>1. \A x \in G : /\ pc'[x] = "rParked" <=> pc[x] = "rParked"
                     /\ pc'[x] = "wParked" <=> pc[x] = "wParked"
    BY <1>0, <1>2
  <2>2. Line(pc', readerSem.q, "rParked")  BY <1>0, <2>1, LineSame DEF Queued
  <2>3. Line(pc', writerSem.q, "wParked")  BY <1>0, <2>1, LineSame DEF Queued
  <2> QED  BY <1>0, <1>1, <2>2, <2>3 DEF Queued
<1>10. Grants'  BY <1>0, <1>1, <1>4, <1>6 DEF Grants
<1>11. Owed'  BY <1>0, <1>1, <1>4, <1>6 DEF Owed
<1> QED  BY <1>5, <1>7, <1>8, <1>9, <1>10, <1>11 DEF Inv

\* A step that changes nothing keeps the invariant.
LEMMA Stutter == ASSUME Inv, UNCHANGED vars PROVE Inv'
<1>1. UNCHANGED <<w, writerSem, readerSem, readerCount, readerWait, pc, num>>  BY DEF vars
<1>2. \A l : N(l)' = N(l)  BY <1>1 DEF N, At
<1>3. (Pending' <=> Pending) /\ (Releasing' <=> Releasing)  BY <1>1 DEF Pending, Releasing
<1>4. Readers' = Readers /\ Out' = Out  BY <1>1, <1>2 DEF Readers, Out
<1>5. Types' /\ Writer' /\ Queued'  BY <1>1 DEF Inv, Types, Writer, Queued
<1>6. Counted'  BY <1>1, <1>3, <1>4 DEF Inv, Counted
<1>7. Grants'  BY <1>1, <1>2, <1>3 DEF Inv, Grants
<1>8. Owed'  BY <1>1, <1>2, <1>3, <1>4 DEF Inv, Owed
<1> QED  BY <1>5, <1>6, <1>7, <1>8 DEF Inv

\* Every step keeps the invariant.
LEMMA InvInductive == Spec => []Inv
<1>1. Inv /\ [Next]_vars => Inv'
  <2> SUFFICES ASSUME Inv, [Next]_vars PROVE Inv'  OBVIOUS
  <2>1. ASSUME NEW g \in G,
               RLock(g) \/ TryRLock(g) \/ Lock(g) \/ LockW(g) \/ TryLock(g) \/ Step(g)
        PROVE  Inv'
    <3>1. CASE RLock(g) \/ TryRLock(g) \/ TryRLoad(g) \/ TryRSwap(g) \/ Lock(g)
      BY <3>1, ReaderIn
    <3>2. CASE RAcquire(g)  BY <3>2, ReaderAcquires
    <3>3. CASE RUnlock(g) \/ RUnlockSlow(g)  BY <3>3, ReaderLeaves
    <3>4. CASE WSignal(g)  BY <3>4, WriterSignalled
    <3>5. CASE Announce(g) \/ Drain(g) \/ TrySwap(g)  BY <3>5, WriterComes
    <3>6. CASE WAcquire(g) \/ Unlock(g)  BY <3>6, WriterGoes
    <3>7. CASE RRelease(g)  BY <3>7, ReadersReleased
    <3>8. CASE LockW(g) \/ TryLock(g) \/ UnlockW(g)  BY <3>8, WriterMutex
    <3> QED  BY <2>1, <3>1, <3>2, <3>3, <3>4, <3>5, <3>6, <3>7, <3>8 DEF Step
  <2> QED  BY <2>1, Stutter DEF Next
<1> QED  BY <1>1, InitInv, PTL DEF Spec

-----------------------------------------------------------------------------
(* What the lock promises.                                                 *)

\* A writer is alone, and no unlock of an owner finds the lock unlocked: readers and
\* writers exclude each other for any number of goroutines up to RW_MAX_READERS.
THEOREM Excludes == Spec => []Exclusion
<1>1. Inv => Exclusion
  <2> SUFFICES ASSUME Inv PROVE Exclusion  OBVIOUS
  <2>0. Types /\ Writer /\ Owed  BY DEF Inv
  <2>s. readerSem.credit \in Nat  BY <2>0 DEF Types
  <2>1. ASSUME NEW g \in G, pc[g] = "writing" PROVE At({"writing", "reading"}) = {g}
    <3>1. w = g /\ \A x \in G : pc[x] = "writing" => x = g
      BY <2>0, <2>1 DEF Writer, Holds
    <3>2. Out = 0  BY <2>0, <2>1, <3>1 DEF Owed, Pending
    <3>3. N("reading") = 0  BY <2>s, <3>2, Nats DEF Out
    <3>4. \A x \in G : pc[x] # "reading"  BY <3>3, Counts
    <3> QED  BY <2>1, <3>1, <3>4 DEF At
  <2>2. At({"fatal"}) = {}  BY <2>0 DEF Writer, At
  <2> QED  BY <2>1, <2>2 DEF Exclusion, At
<1> QED  BY <1>1, InvInductive, PTL

\* The counters tell who reads and waits; a waiting writer is owed its one signal, and a
\* parked reader is behind a writer that will release it: nobody sleeps on a lock that
\* nobody holds.
THEOREM SignalsKept == Spec => []NoLostSignal
<1>1. Inv => NoLostSignal
  <2> SUFFICES ASSUME Inv PROVE NoLostSignal  OBVIOUS
  <2>0. Types /\ Writer /\ Counted /\ Grants /\ Owed /\ Queued /\ MaxReaders \in Nat
    BY RWAssumption DEF Inv
  <2>s. /\ readerSem.credit \in Nat /\ writerSem.credit \in Nat /\ readerWait \in Int
        /\ Readers \in Nat /\ readerCount \in Int
    BY <2>0, Nats DEF Types, Readers
  <2>1. readerCount + MaxReaders * Cardinality(Announced) =
           Cardinality(At({"reading", "rAcquire", "rParked"}))
    <3>1. CASE Pending
      <4>1. Announced = {w}  BY <2>0, <3>1 DEF Announced, At, Pending, Writer, Holds
      <4>2. Cardinality(Announced) = 1  BY <4>1, FS_Singleton
      <4> QED  BY <2>0, <2>s, <3>1, <4>2, ReadersSet DEF Counted
    <3>2. CASE ~Pending
      <4>1. Announced = {}  BY <2>0, <3>2 DEF Announced, At, Pending, Writer, Holds
      <4>2. Cardinality(Announced) = 0  BY <4>1, FS_EmptySet
      <4> QED  BY <2>0, <2>s, <3>2, <4>2, ReadersSet DEF Counted
    <3> QED  BY <3>1, <3>2
  <2>2. ASSUME At({"wAcquire", "wParked"}) # {}
        PROVE  \/ readerWait > 0 /\ At({"reading", "rUnlockSlow", "rAcquire"}) # {}
               \/ At({"wSignal"}) # {} \/ writerSem.credit = 1
    <3>1. w \in G /\ pc[w] \in {"wAcquire", "wParked"}
      BY <2>0, <2>2 DEF At, Writer, Holds
    <3>2. /\ readerWait = Out
          /\ N("wSignal") + writerSem.credit = IF readerWait = 0 THEN 1 ELSE 0
      BY <2>0, <3>1 DEF Owed, Pending
    <3>3. CASE readerWait = 0
      <4>1. N("wSignal") # 0 \/ writerSem.credit = 1  BY <2>s, <3>2, <3>3, Nats
      <4>2. N("wSignal") # 0 => At({"wSignal"}) # {}  BY Counts DEF At
      <4> QED  BY <4>1, <4>2
    <3>4. CASE readerWait # 0
      <4>1. Out > 0  BY <2>s, <3>2, <3>4, Nats DEF Out
      <4>2. N("reading") # 0 \/ N("rUnlockSlow") # 0 \/ N("rAcquire") # 0
        BY <2>0, <2>s, <4>1, Nats DEF Out, Grants
      <4>3. \E x \in G : pc[x] \in {"reading", "rUnlockSlow", "rAcquire"}  BY <4>2, Counts
      <4> QED  BY <3>2, <4>1, <4>3 DEF At
    <3> QED  BY <3>3, <3>4
  <2>3. ASSUME At({"rParked"}) # {}
        PROVE  At({"drain", "wAcquire", "wParked", "writing", "rRelease"}) # {}
    <3>1. N("rParked") # 0  BY <2>3, Counts DEF At
    <3>2. Pending \/ Releasing  BY <2>0, <2>s, <3>1, Nats DEF Grants
    <3> QED  BY <3>2 DEF Pending, Releasing, At
  <2> QED  BY <2>1, <2>2, <2>3 DEF NoLostSignal
<1> QED  BY <1>1, InvInductive, PTL

\* Every variable has its type; the writers' semaphore never holds two credits, and the
\* readers' never more than there are goroutines.
THEOREM TypeCorrect == Spec => []TypeOK
<1>1. Inv => TypeOK
  <2> SUFFICES ASSUME Inv PROVE TypeOK  OBVIOUS
  <2>0. /\ Types /\ Grants /\ Owed /\ writerSem \in [credit : Nat, q : Seq(G)]
        /\ readerSem \in [credit : Nat, q : Seq(G)]
    BY DEF Inv, Types
  <2>s. readerSem.credit \in Nat /\ writerSem.credit \in Nat  BY <2>0
  <2>1. writerSem.credit \in {0, 1}
    <3>1. CASE ~Pending \/ pc[w] = "writing"  BY <2>0, <3>1 DEF Owed
    <3>2. CASE Pending /\ pc[w] # "writing"  BY <2>0, <2>s, <3>2, Nats DEF Owed, Pending
    <3> QED  BY <3>1, <3>2
  <2>2. readerSem.credit \in 0..Cardinality(G)
    <3>1. IsFiniteSet(G) /\ At({"rAcquire"}) \subseteq G  BY RWAssumption DEF At
    <3>2. N("rAcquire") <= Cardinality(G) /\ Cardinality(G) \in Nat
      BY <3>1, FS_Subset, FS_CardinalityType DEF N
    <3> QED  BY <2>0, <2>s, <3>2, Nats DEF Grants
  <2>3. writerSem \in [credit : {0, 1}, q : Seq(G)]  BY <2>0, <2>1
  <2>4. readerSem \in [credit : 0..Cardinality(G), q : Seq(G)]  BY <2>0, <2>2
  <2> QED  BY <2>0, <2>3, <2>4 DEF TypeOK, Types
<1> QED  BY <1>1, InvInductive, PTL
=============================================================================
