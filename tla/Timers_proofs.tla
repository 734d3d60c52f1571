---------------------------- MODULE Timers_proofs ----------------------------
(***************************************************************************)
(* Proofs about Timers: type correctness, OnlyResetBreaks,                 *)
(* StopPreventsFire and OversleepsByScan.                                  *)
(***************************************************************************)
EXTENDS Timers, SequenceTheorems, FiniteSetTheorems, TLAPS

-----------------------------------------------------------------------------
(* The inductive invariant.                                                *)

States == {"armed", "fired", "cancelled"}
Labels == {"dead", "top", "park", "push", "parked", "woken", "send", "rearm", "rearm2"}
Entry == [left : Nat, g : Tok]

\* The type of the goroutines and their tokens; a goroutine that lives is of some kind.
Goroutines ==
    /\ st \in [Tok -> States] /\ tg \in [Tok -> BOOLEAN]
    /\ kind \in [Tok -> Obj \cup {"sleep", None}] /\ dur \in [Tok -> Nat] /\ pc \in [Tok -> Labels]
    /\ \A k \in Tok : pc[k] # "dead" => kind[k] \in Obj \cup {"sleep"}

\* The type of the rest.
Others ==
    /\ heap \in Seq(Entry)
    /\ stopped \in BOOLEAN /\ period \in Nat
    /\ mon \in {"scan", "nap"} /\ sg \in Tok \cup {None} /\ until \in Nat /\ signalled \in BOOLEAN
    /\ late \in Nat /\ took \in Nat
    /\ broken \in BOOLEAN /\ resets \in Nat /\ stopWon \subseteq Tok

\* Every variable has its type.
TypeOK == Goroutines /\ Others

\* The user has one Timer or one Ticker; cur is its token.
User ==
    /\ obj \in Obj \cup {None} /\ call \in Nat \cup {None}
    /\ upc \in {"idle", "cancel", "clear", "ready", "spawn"}
    /\ obj = None => cur = None /\ upc = "idle"
    /\ obj # None => cur \in Tok /\ kind[cur] = obj
    /\ upc \in {"clear", "spawn"} => call \in Nat
    /\ resets > 0 => obj = "ticker"
    /\ stopWon # {} => obj = "timer"

\* The life of one goroutine and its token.
Life(k) ==
    /\ pc[k] \in {"top", "rearm", "rearm2"} => kind[k] = "ticker"
    /\ pc[k] \in {"park", "push"} /\ kind[k] = "sleep" => st[k] = "armed"
    /\ pc[k] = "woken" => st[k] # "armed"
    /\ pc[k] \in {"send", "rearm", "rearm2"} => st[k] = "fired"
    /\ st[k] = "armed" /\ tg[k] => pc[k] = "parked"
    /\ pc[k] = "rearm2" => ~tg[k]
    /\ st[k] = "armed" /\ kind[k] = "timer" => pc[k] \in {"park", "push", "parked"}
    /\ st[k] = "cancelled" /\ kind[k] = "ticker" => stopped
    /\ k \in stopWon => st[k] = "cancelled" /\ kind[k] = "timer" /\ pc[k] # "dead"

\* An entry of the heap is of a sleeper whose park nobody has ended, or of one that was
\* cancelled and whose token is not armed again while the entry is there.
Live(k) ==
    \/ pc[k] = "parked" /\ st[k] = "armed"
    \/ st[k] = "cancelled" /\ kind[k] \in Obj
Heap ==
    /\ \A i \in DOMAIN heap : Live(heap[i].g)
    /\ \A i, j \in DOMAIN heap : heap[i].g = heap[j].g => i = j

\* Whoever is about to ready a goroutine has won its token.
Wakers ==
    /\ sg # None => pc[sg] = "parked" /\ st[sg] = "fired"
    /\ upc = "ready" => pc[cur] = "parked" /\ st[cur] = "cancelled"
    /\ upc = "cancel" /\ obj = "ticker" => stopped
    /\ upc # "clear" /\ ~broken

\* The heap is in the order of the deadlines.
Sorted == \A i, j \in DOMAIN heap : i <= j => heap[i].left <= heap[j].left

Core == (\A k \in Tok : Life(k)) /\ Heap /\ Wakers
Inv == TypeOK /\ User /\ Sorted /\ OversleepsByScan /\ (resets = 0 => Core)
-----------------------------------------------------------------------------
(* Sequences and minima.                                                   *)

\* Least finds the least number of a set that has any.
LEMMA LeastOf ==
  ASSUME NEW S, S \subseteq Nat, S # {}
  PROVE  Least(S) \in S /\ \A n \in S : Least(S) <= n
<1> DEFINE T == {0..n : n \in S}
<1>1. T \subseteq FiniteSubsetsOf(Nat)
  <2>1. \A n \in S : IsFiniteSet(0..n)  BY FS_Interval
  <2> QED  BY <2>1 DEF FiniteSubsetsOf
<1>2. T # {}  OBVIOUS
<1> HIDE DEF T
<1>3. PICK x \in T : \A y \in T : ~(<<y, x>> \in StrictSubsetOrdering(Nat))
  BY <1>1, <1>2, FS_StrictSubsetOrderingWellFounded, WFMin, Zenon
<1>4. PICK k \in S : x = 0..k  BY DEF T
<1>5. ASSUME NEW n \in S, n < k PROVE FALSE
  <2>1. 0..n \in T  BY DEF T
  <2>2. 0..n \subseteq 0..k /\ 0..n # 0..k
    <3>1. k \in 0..k /\ k \notin 0..n  BY <1>5
    <3> QED  BY <1>5, <3>1
  <2>3. 0..n \in SUBSET Nat /\ 0..k \in SUBSET Nat  OBVIOUS
  <2>4. <<0..n, 0..k>> \in StrictSubsetOrdering(Nat)  BY <2>2, <2>3 DEF StrictSubsetOrdering
  <2> QED  BY <1>3, <1>4, <2>1, <2>4
<1>6. \A n \in S : k <= n  BY <1>5
<1> QED  BY <1>6 DEF Least

\* h is s with e at place i.
Inserted(s, i, e, h) ==
    /\ h \in Seq(Entry) /\ DOMAIN h = 1..Len(s) + 1
    /\ \A j \in 1..Len(s) + 1 : h[j] = IF j < i THEN s[j] ELSE IF j = i THEN e ELSE s[j - 1]

\* Inserting an element moves those behind it one place.
LEMMA InsertEffect ==
  ASSUME NEW s \in Seq(Entry), NEW i \in Nat, i \in 1..Len(s) + 1, NEW e \in Entry, NEW h, h = InsertAt(s, i, e)
  PROVE  Inserted(s, i, e, h)
<1> DEFINE a == SubSeq(s, 1, i - 1)
           b == <<e>>
           c == SubSeq(s, i, Len(s))
<1>1. a \in Seq(Entry) /\ Len(a) = i - 1 /\ \A j \in 1..i - 1 : a[j] = s[j]  OBVIOUS
<1>2. b \in Seq(Entry) /\ Len(b) = 1 /\ b[1] = e  OBVIOUS
<1>3. c \in Seq(Entry) /\ Len(c) = Len(s) - i + 1 /\ \A j \in 1..Len(s) - i + 1 : c[j] = s[i + j - 1]  OBVIOUS
<1>4. InsertAt(s, i, e) = a \o b \o c  BY DEF InsertAt
<1> HIDE DEF a, b, c
<1>5. /\ a \o b \in Seq(Entry) /\ Len(a \o b) = i
      /\ \A j \in 1..i : (a \o b)[j] = IF j < i THEN s[j] ELSE e
  <2>1. /\ a \o b \in Seq(Entry) /\ Len(a \o b) = Len(a) + Len(b)
        /\ \A j \in 1..Len(a) + Len(b) : (a \o b)[j] = IF j <= Len(a) THEN a[j] ELSE b[j - Len(a)]
    BY <1>1, <1>2, ConcatProperties
  <2> QED  BY <1>1, <1>2, <2>1
<1> DEFINE ab == a \o b
<1> HIDE DEF ab
<1>6. /\ ab \o c \in Seq(Entry) /\ Len(ab \o c) = Len(s) + 1
      /\ \A j \in 1..Len(s) + 1 : (ab \o c)[j] = IF j <= i THEN ab[j] ELSE c[j - i]
  <2>1. ab \in Seq(Entry) /\ Len(ab) = i  BY <1>5 DEF ab
  <2>2. /\ ab \o c \in Seq(Entry) /\ Len(ab \o c) = Len(ab) + Len(c)
        /\ \A j \in 1..Len(ab) + Len(c) : (ab \o c)[j] = IF j <= Len(ab) THEN ab[j] ELSE c[j - Len(ab)]
    BY <1>3, <2>1, ConcatProperties
  <2> QED  BY <1>3, <2>1, <2>2
<1>7. InsertAt(s, i, e) = ab \o c  BY <1>4 DEF ab
<1>8. \A j \in 1..Len(s) + 1 : j > i => c[j - i] = s[j - 1]
  <2> SUFFICES ASSUME NEW j \in 1..Len(s) + 1, j > i PROVE c[j - i] = s[j - 1]  OBVIOUS
  <2>1. j - i \in 1..Len(s) - i + 1 /\ i + (j - i) - 1 = j - 1  OBVIOUS
  <2> QED  BY <1>3, <2>1
<1>9. \A j \in 1..i : ab[j] = IF j < i THEN s[j] ELSE e  BY <1>5 DEF ab
<1>10. \A j \in 1..Len(s) + 1 : (ab \o c)[j] = IF j < i THEN s[j] ELSE IF j = i THEN e ELSE s[j - 1]
  BY <1>6, <1>8, <1>9
<1>11. DOMAIN (ab \o c) = 1..Len(s) + 1  BY <1>6
<1>12. h = ab \o c  BY <1>7
<1> QED  BY <1>6, <1>10, <1>11, <1>12 DEF Inserted

\* What is in the heap.
LEMMA HeapHas ==
  ASSUME heap \in Seq(Entry)
  PROVE  /\ DOMAIN heap = 1..Len(heap) /\ Len(heap) \in Nat
         /\ \A i \in DOMAIN heap : heap[i] \in Entry /\ heap[i].left \in Nat /\ heap[i].g \in Tok /\ heap[i] \in Entries
         /\ \A e \in Entries : \E i \in DOMAIN heap : heap[i] = e
         /\ \A n : n \in Left <=> \E i \in DOMAIN heap : heap[i].left = n
         /\ Left \subseteq Nat
<1>1. DOMAIN heap = 1..Len(heap) /\ Len(heap) \in Nat /\ \A i \in DOMAIN heap : heap[i] \in Entry  OBVIOUS
<1>2. \A i \in DOMAIN heap : heap[i].left \in Nat /\ heap[i].g \in Tok  BY <1>1 DEF Entry
<1>3. Entries = {heap[i] : i \in DOMAIN heap}  BY DEF Entries, ToSet
<1>4. \A n : n \in Left <=> \E i \in DOMAIN heap : heap[i].left = n  BY <1>3 DEF Left
<1> QED  BY <1>1, <1>2, <1>3, <1>4

\* The other names.
LEMMA Names == None \notin Tok /\ None \notin Obj /\ "sleep" \notin Obj /\ Nap \in Nat /\ D \subseteq Nat
BY TimersAssumption DEF Obj

-----------------------------------------------------------------------------
(* What several actions have in common.                                    *)

\* A new token: nobody refers to it and its goroutine is dead.
LEMMA FreeToken ==
  ASSUME TypeOK, NEW k \in Free
  PROVE  k \in Tok /\ pc[k] = "dead" /\ cur # k /\ \A i \in DOMAIN heap : heap[i].g # k
BY HeapHas DEF Free, TypeOK, Goroutines, Others

\* go!() with a new token.
LEMMA SpawnEffect ==
  ASSUME TypeOK, NEW k \in Tok, NEW o \in Obj \cup {"sleep"}, NEW d \in Nat, Spawn(k, o, d)
  PROVE  /\ st'[k] = "armed" /\ tg'[k] = FALSE /\ kind'[k] = o /\ dur'[k] = d
         /\ pc'[k] = IF o = "ticker" THEN "top" ELSE "park"
         /\ \A h \in Tok : h # k => /\ st'[h] = st[h] /\ tg'[h] = tg[h] /\ kind'[h] = kind[h]
                                    /\ pc'[h] = pc[h]
         /\ st' \in [Tok -> States] /\ tg' \in [Tok -> BOOLEAN]
         /\ kind' \in [Tok -> Obj \cup {"sleep", None}] /\ dur' \in [Tok -> Nat] /\ pc' \in [Tok -> Labels]
         /\ \A h \in Tok : pc'[h] # "dead" => kind'[h] \in Obj \cup {"sleep"}
<1>1. /\ st' = [st EXCEPT ![k] = "armed"] /\ tg' = [tg EXCEPT ![k] = FALSE]
      /\ kind' = [kind EXCEPT ![k] = o] /\ dur' = [dur EXCEPT ![k] = d]
      /\ pc' = [pc EXCEPT ![k] = IF o = "ticker" THEN "top" ELSE "park"]
  BY DEF Spawn, Goto
<1>2. /\ st \in [Tok -> States] /\ tg \in [Tok -> BOOLEAN] /\ kind \in [Tok -> Obj \cup {"sleep", None}]
      /\ dur \in [Tok -> Nat] /\ pc \in [Tok -> Labels] /\ \A h \in Tok : pc[h] # "dead" => kind[h] \in Obj \cup {"sleep"}
  BY DEF TypeOK, Goroutines
<1>3. /\ st'[k] = "armed" /\ tg'[k] = FALSE /\ kind'[k] = o /\ dur'[k] = d
      /\ pc'[k] = IF o = "ticker" THEN "top" ELSE "park"
      /\ \A h \in Tok : h # k => /\ st'[h] = st[h] /\ tg'[h] = tg[h] /\ kind'[h] = kind[h]
                                 /\ pc'[h] = pc[h]
  BY <1>1, <1>2
<1>4. st' \in [Tok -> States] /\ pc' \in [Tok -> Labels]  BY <1>1, <1>2 DEF States, Labels
<1>5. tg' \in [Tok -> BOOLEAN] /\ kind' \in [Tok -> Obj \cup {"sleep", None}] /\ dur' \in [Tok -> Nat]
  BY <1>1, <1>2
<1>6. \A h \in Tok : pc'[h] # "dead" => kind'[h] \in Obj \cup {"sleep"}  BY <1>2, <1>3
<1> QED  BY <1>3, <1>4, <1>5, <1>6

\* Pushing an entry puts it among the others.
LEMMA PushEffect ==
  ASSUME heap \in Seq(Entry), NEW e \in Entry, NEW i \in 1..Len(heap) + 1, heap' = InsertAt(heap, i, e)
  PROVE  /\ heap' \in Seq(Entry) /\ i \in DOMAIN heap' /\ heap'[i] = e
         /\ \A j \in DOMAIN heap' : j # i => \E l \in DOMAIN heap : heap'[j] = heap[l] /\ l = IF j < i THEN j ELSE j - 1
<1>1. DOMAIN heap = 1..Len(heap) /\ Len(heap) \in Nat  OBVIOUS
<1>2. PICK h : h = heap'  OBVIOUS
<1>3. /\ h \in Seq(Entry) /\ DOMAIN h = 1..Len(heap) + 1
      /\ \A j \in 1..Len(heap) + 1 : h[j] = IF j < i THEN heap[j] ELSE IF j = i THEN e ELSE heap[j - 1]
  <2>1. PICK s \in Seq(Entry) : s = heap  OBVIOUS
  <2>2. i \in 1..Len(s) + 1 /\ h = InsertAt(s, i, e)  BY <1>2, <2>1
  <2>3. i \in Nat  BY <2>1
  <2>4. Inserted(s, i, e, h)  BY <2>2, <2>3, InsertEffect
  <2> QED  BY <2>1, <2>4, Zenon DEF Inserted
<1>4. ASSUME NEW j \in DOMAIN h, j # i
      PROVE  \E l \in DOMAIN heap : h[j] = heap[l] /\ l = IF j < i THEN j ELSE j - 1
  <2>1. CASE j < i  BY <1>1, <1>3, <1>4, <2>1
  <2>2. CASE j > i
    <3>1. j - 1 \in DOMAIN heap /\ h[j] = heap[j - 1]  BY <1>1, <1>3, <1>4, <2>2
    <3> QED  BY <1>1, <1>3, <1>4, <2>2, <3>1
  <2> QED  BY <1>1, <1>3, <1>4, <2>1, <2>2
<1>5. i \in DOMAIN h /\ h[i] = e  BY <1>1, <1>3
<1>6. /\ h \in Seq(Entry) /\ i \in DOMAIN h /\ h[i] = e
      /\ \A j \in DOMAIN h : j # i => \E l \in DOMAIN heap : h[j] = heap[l] /\ l = IF j < i THEN j ELSE j - 1
  BY <1>3, <1>4, <1>5
<1> QED  BY <1>2, <1>6

\* Popping takes the first entry out.
LEMMA PopEffect ==
  ASSUME heap \in Seq(Entry), 0 \in Left, heap' = Tail(heap)
  PROVE  /\ heap' \in Seq(Entry) /\ 1 \in DOMAIN heap /\ Head(heap) = heap[1] /\ heap[1].g \in Tok
         /\ \A j \in DOMAIN heap' : j + 1 \in DOMAIN heap /\ heap'[j] = heap[j + 1] /\ j + 1 # 1
<1>1. DOMAIN heap = 1..Len(heap) /\ Len(heap) \in Nat /\ heap # <<>>
  <2>1. \E i \in DOMAIN heap : heap[i].left = 0  BY HeapHas
  <2> QED  BY <2>1
<1>2. 1 \in DOMAIN heap /\ Head(heap) = heap[1] /\ heap[1].g \in Tok  BY <1>1, HeapHas
<1>3. PICK h : h = heap'  OBVIOUS
<1>4. h \in Seq(Entry) /\ DOMAIN h = 1..Len(heap) - 1 /\ \A j \in 1..Len(heap) - 1 : h[j] = heap[j + 1]
  BY <1>1, <1>3
<1>5. \A j \in DOMAIN h : j + 1 \in DOMAIN heap /\ h[j] = heap[j + 1] /\ j + 1 # 1  BY <1>1, <1>4
<1> QED  BY <1>2, <1>3, <1>4, <1>5

\* A new reading of the clock: the deadlines count from there.
LEMMA AgeEffect ==
  ASSUME heap \in Seq(Entry), late \in Nat, heap' = [i \in DOMAIN heap |-> [heap[i] EXCEPT !.left = Since(@)]]
  PROVE  /\ heap' \in Seq(Entry) /\ DOMAIN heap' = DOMAIN heap
         /\ \A i \in DOMAIN heap : heap'[i].g = heap[i].g /\ heap'[i].left = Since(heap[i].left)
<1>1. DOMAIN heap = 1..Len(heap) /\ Len(heap) \in Nat /\ \A i \in DOMAIN heap : heap[i] \in Entry  OBVIOUS
<1>2. \A n \in Nat : Since(n) \in Nat  BY DEF Since
<1>3. \A e \in Entry : /\ [e EXCEPT !.left = Since(@)] \in Entry
                       /\ [e EXCEPT !.left = Since(@)].g = e.g /\ [e EXCEPT !.left = Since(@)].left = Since(e.left)
  BY <1>2 DEF Entry
<1>4. PICK h : h = heap'  OBVIOUS
<1>5. h = [i \in 1..Len(heap) |-> [heap[i] EXCEPT !.left = Since(@)]]  BY <1>1, <1>4
<1>6. h \in [1..Len(heap) -> Entry]  BY <1>1, <1>3, <1>5
<1>7. h \in Seq(Entry) /\ DOMAIN h = 1..Len(heap)  BY <1>1, <1>6
<1>8. \A i \in DOMAIN heap : h[i].g = heap[i].g /\ h[i].left = Since(heap[i].left)  BY <1>1, <1>3, <1>5
<1> QED  BY <1>1, <1>4, <1>7, <1>8

-----------------------------------------------------------------------------
(* Type correctness and the user's state.                                  *)

\* The program points of a goroutine.
LEMMA GotoType ==
  ASSUME pc \in [Tok -> Labels], NEW k \in Tok, NEW l \in Labels, Goto(k, l)
  PROVE  pc' \in [Tok -> Labels] /\ pc'[k] = l /\ \A h \in Tok : h # k => pc'[h] = pc[h]
BY DEF Goto

\* A step of a goroutine that lives and keeps its kind.
LEMMA StepOfGoroutine ==
  ASSUME Goroutines, NEW k \in Tok, pc[k] # "dead", NEW l \in Labels, Goto(k, l), UNCHANGED kind,
         st' \in [Tok -> States], tg' \in [Tok -> BOOLEAN], dur' \in [Tok -> Nat]
  PROVE  Goroutines'
<1>1. /\ pc \in [Tok -> Labels] /\ kind \in [Tok -> Obj \cup {"sleep", None}]
      /\ \A h \in Tok : pc[h] # "dead" => kind[h] \in Obj \cup {"sleep"}
  BY DEF Goroutines
<1>2. pc' \in [Tok -> Labels] /\ \A h \in Tok : h # k => pc'[h] = pc[h]  BY <1>1, GotoType
<1>3. \A h \in Tok : pc'[h] # "dead" => kind[h] \in Obj \cup {"sleep"}  BY <1>1, <1>2
<1> QED  BY <1>1, <1>2, <1>3 DEF Goroutines

\* goready wakes a parked goroutine, or breaks.
LEMMA GoreadyEffect ==
  ASSUME Goroutines, NEW k \in Tok, Goready(k)
  PROVE  /\ pc' \in [Tok -> Labels] /\ \A h \in Tok : h # k => pc'[h] = pc[h]
         /\ IF pc[k] = "parked" THEN pc'[k] = "woken" /\ broken' = broken ELSE pc'[k] = pc[k] /\ broken' = TRUE
         /\ \A h \in Tok : pc'[h] # "dead" => kind[h] \in Obj \cup {"sleep"}
<1>1. /\ pc \in [Tok -> Labels] /\ \A h \in Tok : pc[h] # "dead" => kind[h] \in Obj \cup {"sleep"}
  BY DEF Goroutines
<1>2. CASE pc[k] = "parked"
  <2>1. Goto(k, "woken") /\ broken' = broken  BY <1>2 DEF Goready
  <2>2. pc' \in [Tok -> Labels] /\ pc'[k] = "woken" /\ \A h \in Tok : h # k => pc'[h] = pc[h]
    BY <1>1, <2>1, GotoType DEF Labels
  <2>3. pc[k] # "dead"  BY <1>2
  <2> QED  BY <1>1, <1>2, <2>1, <2>2, <2>3
<1>3. CASE pc[k] # "parked"
  <2>1. pc' = pc /\ broken' = TRUE  BY <1>3 DEF Goready
  <2> QED  BY <1>1, <1>3, <2>1
<1> QED  BY <1>2, <1>3

\* The steps that leave the user alone.
LEMMA UserKeep ==
  ASSUME User, UNCHANGED <<obj, cur, call, upc, resets>>, stopWon' # {} => stopWon # {},
         cur \in Tok => kind'[cur] = kind[cur]
  PROVE  User'
BY DEF User

\* The steps of a goroutine.
LEMMA RunType ==
  ASSUME TypeOK, User, NEW k \in Tok, Run(k)
  PROVE  TypeOK' /\ User'
<1>0. /\ Goroutines /\ Others /\ pc \in [Tok -> Labels]
      /\ st \in [Tok -> States] /\ tg \in [Tok -> BOOLEAN] /\ dur \in [Tok -> Nat]
      /\ kind \in [Tok -> Obj \cup {"sleep", None}]
      /\ pc[k] # "dead" => kind[k] \in Obj \cup {"sleep"}
      /\ heap \in Seq(Entry) /\ period \in Nat /\ signalled \in BOOLEAN /\ stopWon \subseteq Tok
      /\ late \in Nat
  BY DEF TypeOK, Goroutines, Others
<1>1. CASE Top(k)
  <2>1. pc[k] # "dead" /\ UNCHANGED <<st, tg, kind>> /\ UNCHANGED <<obj, cur, call, upc, resets>> /\ stopWon' = stopWon
    BY <1>1 DEF Top, tokens, user, ghosts
  <2>2. dur' \in [Tok -> Nat]  BY <1>0, <1>1 DEF Top
  <2>3. \E l \in Labels : Goto(k, l)
    <3>1. Goto(k, "dead") \/ Goto(k, "park")  BY <1>1 DEF Top
    <3> QED  BY <3>1 DEF Labels
  <2>4. Goroutines'  BY <1>0, <2>1, <2>2, <2>3, StepOfGoroutine
  <2>5. Others'  BY <1>0, <1>1 DEF Top, Others, ticker, sysmon, ghosts
  <2>6. User'  BY <2>1, UserKeep
  <2> QED  BY <2>4, <2>5, <2>6 DEF TypeOK
<1>2. CASE Park(k)
  <2>1. /\ pc[k] # "dead" /\ UNCHANGED <<kind, tg>> /\ UNCHANGED <<obj, cur, call, upc, resets>> /\ stopWon' = stopWon
    BY <1>2 DEF Park, user, ghosts
  <2>2. dur' \in [Tok -> Nat]
    <3>1. dur' = [dur EXCEPT ![k] = late + @] \/ dur' = dur  BY <1>2 DEF Park
    <3> QED  BY <1>0, <3>1
  <2>3. \E l \in Labels : Goto(k, l)
    <3>1. Goto(k, "woken") \/ Goto(k, "push")  BY <1>2 DEF Park
    <3> QED  BY <3>1 DEF Labels
  <2>4. st' \in [Tok -> States]
    <3>1. st' = [st EXCEPT ![k] = IF @ = "armed" THEN "fired" ELSE @] \/ st' = st  BY <1>2 DEF Park
    <3> QED  BY <1>0, <3>1 DEF States
  <2>5. Goroutines'  BY <1>0, <2>1, <2>2, <2>3, <2>4, StepOfGoroutine
  <2>6. Others'  BY <1>0, <1>2 DEF Park, Others, ticker, sysmon, ghosts
  <2>7. User'  BY <2>1, UserKeep
  <2> QED  BY <2>5, <2>6, <2>7 DEF TypeOK
<1>6. CASE Push(k)
  <2>1. /\ pc[k] # "dead" /\ UNCHANGED <<st, kind>> /\ UNCHANGED <<obj, cur, call, upc, resets>> /\ stopWon' = stopWon
        /\ dur' = [dur EXCEPT ![k] = 0]
    BY <1>6 DEF Push, user, ghosts
  <2>2. dur' \in [Tok -> Nat]  BY <1>0, <2>1
  <2>3. \E l \in Labels : Goto(k, l)
    <3>1. Goto(k, "woken") \/ Goto(k, "parked")  BY <1>6 DEF Push
    <3> QED  BY <3>1 DEF Labels
  <2>4. tg' \in [Tok -> BOOLEAN]
    <3>1. tg' = [tg EXCEPT ![k] = kind[k] # "sleep"] \/ tg' = tg  BY <1>6 DEF Push
    <3>2. (kind[k] # "sleep") \in BOOLEAN  OBVIOUS
    <3> QED  BY <1>0, <3>1, <3>2
  <2>5. Goroutines'  BY <1>0, <2>1, <2>2, <2>3, <2>4, StepOfGoroutine
  <2>6. heap' \in Seq(Entry)
    <3>1. CASE UNCHANGED heap  BY <1>0, <3>1
    <3>2. CASE \E i \in 1..Len(heap) + 1 : heap' = InsertAt(heap, i, [left |-> dur[k], g |-> k])
      <4>1. PICK i \in 1..Len(heap) + 1 : heap' = InsertAt(heap, i, [left |-> dur[k], g |-> k])  BY <3>2
      <4>2. PICK e \in Entry : e = [left |-> dur[k], g |-> k]  BY <1>0 DEF Entry
      <4> QED  BY <1>0, <4>1, <4>2, PushEffect
    <3> QED  BY <1>6, <3>1, <3>2 DEF Push
  <2>7. signalled' \in BOOLEAN
    <3>1. signalled' = signalled \/ signalled' = (signalled \/ NeedWake(dur[k]))  BY <1>6 DEF Push
    <3> QED  BY <1>0, <3>1
  <2>8. Others'  BY <1>0, <1>6, <2>6, <2>7 DEF Push, Others, ticker, ghosts
  <2>9. User'  BY <2>1, UserKeep
  <2> QED  BY <2>5, <2>8, <2>9 DEF TypeOK
<1>3. CASE Woken(k)
  <2>1. /\ pc[k] # "dead" /\ UNCHANGED <<st, tg, kind, dur>> /\ UNCHANGED <<obj, cur, call, upc, resets>>
        /\ stopWon' \subseteq stopWon
    BY <1>3 DEF Woken, tokens, user
  <2>2. \E l \in Labels : Goto(k, l)
    <3>1. kind[k] \in {"sleep", "timer", "ticker"}  BY <1>0, <2>1 DEF Obj
    <3>2. CASE kind[k] = "sleep"
      <4>1. Goto(k, "dead")  BY <1>3, <3>2 DEF Woken
      <4> QED  BY <4>1 DEF Labels
    <3>3. CASE kind[k] = "timer"
      <4>1. Goto(k, IF st[k] = "fired" THEN "send" ELSE "dead")  BY <1>3, <3>3 DEF Woken
      <4> QED  BY <4>1 DEF Labels
    <3>4. CASE kind[k] = "ticker"
      <4>1. Goto(k, IF stopped THEN "dead" ELSE IF st[k] = "fired" THEN "send" ELSE "rearm")
        BY <1>3, <3>4 DEF Woken
      <4> QED  BY <4>1 DEF Labels
    <3> QED  BY <3>1, <3>2, <3>3, <3>4
  <2>3. Goroutines'  BY <1>0, <2>1, <2>2, StepOfGoroutine
  <2>4. Others'  BY <1>0, <1>3, <2>1 DEF Woken, Others, ticker, sysmon
  <2>5. User'  BY <2>1, UserKeep
  <2> QED  BY <2>3, <2>4, <2>5 DEF TypeOK
<1>4. CASE Send(k)
  <2>1. pc[k] # "dead" /\ UNCHANGED <<st, tg, kind, dur>> /\ UNCHANGED <<obj, cur, call, upc, resets>> /\ stopWon' = stopWon
    BY <1>4 DEF Send, tokens, user, ghosts
  <2>2. \E l \in Labels : Goto(k, l)
    <3>1. Goto(k, IF kind[k] = "ticker" THEN "rearm" ELSE "dead")  BY <1>4 DEF Send
    <3> QED  BY <3>1 DEF Labels
  <2>3. Goroutines'  BY <1>0, <2>1, <2>2, StepOfGoroutine
  <2>4. Others'  BY <1>0, <1>4 DEF Send, Others, ticker, sysmon, ghosts
  <2>5. User'  BY <2>1, UserKeep
  <2> QED  BY <2>3, <2>4, <2>5 DEF TypeOK
<1>5. CASE Rearm(k) \/ RearmState(k)
  <2>1. pc[k] # "dead" /\ UNCHANGED <<kind, dur>> /\ UNCHANGED <<obj, cur, call, upc, resets>> /\ stopWon' = stopWon
    BY <1>5 DEF Rearm, RearmState, user, ghosts
  <2>2. \E l \in Labels : Goto(k, l)
    <3>1. Goto(k, "rearm2") \/ Goto(k, "top")  BY <1>5 DEF Rearm, RearmState
    <3> QED  BY <3>1 DEF Labels
  <2>3. tg' \in [Tok -> BOOLEAN]
    <3>1. tg' = [tg EXCEPT ![k] = FALSE] \/ tg' = tg  BY <1>5 DEF Rearm, RearmState
    <3> QED  BY <1>0, <3>1
  <2>4. st' \in [Tok -> States]
    <3>1. st' = [st EXCEPT ![k] = "armed"] \/ st' = st  BY <1>5 DEF Rearm, RearmState
    <3> QED  BY <1>0, <3>1 DEF States
  <2>5. Goroutines'  BY <1>0, <2>1, <2>2, <2>3, <2>4, StepOfGoroutine
  <2>6. Others'  BY <1>0, <1>5 DEF Rearm, RearmState, Others, ticker, sysmon, ghosts
  <2>7. User'  BY <2>1, UserKeep
  <2> QED  BY <2>5, <2>6, <2>7 DEF TypeOK
<1> QED  BY <1>1, <1>2, <1>3, <1>4, <1>5, <1>6 DEF Run

\* The calls that make a token.
LEMMA SpawnType ==
  ASSUME TypeOK, User, \/ \E d \in D : Sleep(d) \/ \E o \in Obj : New(o, d)
                       \/ Respawn
  PROVE  TypeOK' /\ User'
<1>0. Goroutines /\ Others /\ kind \in [Tok -> Obj \cup {"sleep", None}] /\ period \in Nat
  BY DEF TypeOK, Goroutines, Others
<1>1. ASSUME NEW d \in D, Sleep(d) PROVE TypeOK' /\ User'
  <2>1. PICK k \in Free : Spawn(k, "sleep", d)  BY <1>1 DEF Sleep
  <2>2. UNCHANGED <<heap, ticker, user, sysmon, broken, ghosts>>  BY <1>1 DEF Sleep
  <2>3. k \in Tok /\ cur # k /\ d \in Nat  BY FreeToken, Names
  <2>4. Goroutines' /\ \A h \in Tok : h # k => kind'[h] = kind[h]
    BY <2>1, <2>3, SpawnEffect DEF Goroutines
  <2>5. Others'  BY <1>0, <2>2 DEF Others, ticker, sysmon, ghosts
  <2>6. User'  BY <2>2, <2>3, <2>4, UserKeep DEF user, ghosts
  <2> QED  BY <2>4, <2>5, <2>6 DEF TypeOK
<1>2. ASSUME NEW d \in D, NEW o \in Obj, New(o, d) PROVE TypeOK' /\ User'
  <2>1. PICK k \in Free : Spawn(k, o, d) /\ obj' = o /\ cur' = k  BY <1>2 DEF New
  <2>2. /\ UNCHANGED <<heap, stopped, call, upc, sysmon, broken, ghosts>>
        /\ obj = None /\ period' = IF o = "ticker" THEN d ELSE period
    BY <1>2 DEF New
  <2>3. k \in Tok /\ d \in Nat /\ None \notin Obj  BY FreeToken, Names
  <2>4. Goroutines' /\ kind'[k] = o  BY <2>1, <2>3, SpawnEffect DEF Goroutines
  <2>5. Others'  BY <1>0, <2>2, <2>3 DEF Others, sysmon, ghosts
  <2>6. User'  BY <2>1, <2>2, <2>3, <2>4 DEF User, ghosts, Obj
  <2> QED  BY <2>4, <2>5, <2>6 DEF TypeOK
<1>3. ASSUME Respawn PROVE TypeOK' /\ User'
  <2>1. PICK k \in Free : Spawn(k, obj, call) /\ cur' = k  BY <1>3 DEF Respawn
  <2>2. UNCHANGED <<heap, ticker, obj, sysmon, broken, ghosts>> /\ upc = "spawn" /\ upc' = "idle" /\ call' = None
    BY <1>3 DEF Respawn, End
  <2>3. k \in Tok  BY FreeToken
  <2>4. call \in Nat /\ obj \in Obj  BY <2>2 DEF User
  <2>5. Goroutines' /\ kind'[k] = obj  BY <2>1, <2>3, <2>4, SpawnEffect DEF Goroutines
  <2>6. Others'  BY <1>0, <2>2 DEF Others, ticker, sysmon, ghosts
  <2>7. User'  BY <2>1, <2>2, <2>3, <2>4, <2>5 DEF User, ghosts
  <2> QED  BY <2>5, <2>6, <2>7 DEF TypeOK
<1> QED  BY <1>1, <1>2, <1>3

\* The other steps of the user.
LEMMA UserType ==
  ASSUME TypeOK, User, \/ \E d \in D : ResetTimer(d) \/ ResetTicker(d)
                       \/ Stop \/ Clear \/ Cancel \/ CancelReady
  PROVE  TypeOK' /\ User'
<1>0. /\ Goroutines /\ Others /\ st \in [Tok -> States]
      /\ resets \in Nat /\ stopWon \subseteq Tok /\ D \subseteq Nat /\ None \notin Obj /\ "timer" # "ticker"
      /\ obj # None <=> obj \in Obj
  BY Names DEF TypeOK, Goroutines, Others, User
<1>1. ASSUME NEW d \in D, ResetTimer(d) \/ ResetTicker(d) PROVE TypeOK' /\ User'
  <2>1. Goroutines'  BY <1>0, <1>1 DEF ResetTimer, ResetTicker, Goroutines, tokens, sleepers
  <2>2. Others'  BY <1>0, <1>1 DEF ResetTimer, ResetTicker, Others, ticker, sysmon, ghosts
  <2>3. CASE ResetTimer(d)
    <3>1. /\ obj = "timer" /\ upc' = "cancel" /\ call' = d
          /\ UNCHANGED <<kind, obj, cur, resets, stopWon>>
      BY <2>3 DEF ResetTimer, Begin, sleepers, ghosts
    <3> QED  BY <1>0, <2>1, <2>2, <3>1 DEF User, TypeOK, Obj
  <2>4. CASE ResetTicker(d)
    <3>1. /\ obj = "ticker" /\ \/ upc' = "clear" /\ call' = d
                               \/ upc' = "cancel" /\ call' = None
          /\ UNCHANGED <<kind, obj, cur, stopWon>> /\ resets' = resets + 1
      BY <2>4 DEF ResetTicker, Begin, sleepers
    <3> QED  BY <1>0, <2>1, <2>2, <3>1 DEF User, TypeOK, Obj
  <2> QED  BY <1>1, <2>3, <2>4
<1>2. ASSUME Stop PROVE TypeOK' /\ User'
  <2>1. Goroutines'  BY <1>0, <1>2 DEF Stop, Goroutines, tokens, sleepers
  <2>2. Others'  BY <1>0, <1>2 DEF Stop, Others, sysmon, ghosts
  <2>3. obj # None /\ upc' = "cancel" /\ call' = None /\ UNCHANGED <<kind, obj, cur, resets, stopWon>>
    BY <1>2 DEF Stop, Begin, sleepers, ghosts
  <2> QED  BY <1>0, <2>1, <2>2, <2>3 DEF User, TypeOK
<1>3. ASSUME Clear PROVE TypeOK' /\ User'
  <2>1. Goroutines'  BY <1>0, <1>3 DEF Clear, Goroutines, tokens, sleepers
  <2>2. Others'  BY <1>0, <1>3 DEF Clear, Others, sysmon, ghosts
  <2>3. upc = "clear" /\ upc' = "spawn" /\ UNCHANGED <<kind, obj, cur, call, resets, stopWon>>
    BY <1>3 DEF Clear, sleepers, ghosts
  <2> QED  BY <1>0, <2>1, <2>2, <2>3 DEF User, TypeOK
<1>4. ASSUME Cancel PROVE TypeOK' /\ User'
  <2>1. /\ upc = "cancel" /\ UNCHANGED <<tg, kind, dur, pc>> /\ UNCHANGED <<heap, stopped, period, broken>>
        /\ UNCHANGED <<mon, sg, until, signalled, late, took>> /\ UNCHANGED <<obj, cur, resets>>
        /\ st' = IF Won(cur) THEN [st EXCEPT ![cur] = "cancelled"] ELSE st
        /\ stopWon' = IF Won(cur) /\ obj = "timer" THEN stopWon \cup {cur} ELSE stopWon
        /\ \/ upc' = "ready" /\ call' = call
           \/ call = None /\ upc' = "idle" /\ call' = None
           \/ call # None /\ upc' = "spawn" /\ call' = call
    BY <1>4 DEF Cancel, AfterCancel, End, sleepers, ticker, sysmon
  <2>2. cur \in Tok  BY <2>1 DEF User
  <2>3. st' \in [Tok -> States]  BY <1>0, <2>1 DEF States
  <2>4. Goroutines'  BY <1>0, <2>1, <2>3 DEF Goroutines
  <2>5. stopWon' \subseteq Tok  BY <1>0, <2>1, <2>2
  <2>6. Others'  BY <1>0, <2>1, <2>5 DEF Others
  <2>7. User'  BY <1>0, <2>1 DEF User
  <2> QED  BY <2>4, <2>6, <2>7 DEF TypeOK
<1>5. ASSUME CancelReady PROVE TypeOK' /\ User'
  <2>1. /\ upc = "ready" /\ UNCHANGED <<st, tg, kind, dur, heap, stopped, period, obj, cur, mon, sg, until, signalled, resets, stopWon>>
        /\ Goready(cur) /\ UNCHANGED <<late, took>>
        /\ \/ call = None /\ upc' = "idle" /\ call' = None
           \/ call # None /\ upc' = "spawn" /\ call' = call
    BY <1>5 DEF CancelReady, AfterCancel, End, tokens, ticker, sysmon, ghosts
  <2>2. cur \in Tok  BY <2>1 DEF User
  <2>3. pc' \in [Tok -> Labels] /\ \A h \in Tok : pc'[h] # "dead" => kind[h] \in Obj \cup {"sleep"}
    BY <1>0, <2>1, <2>2, GoreadyEffect
  <2>4. Goroutines'  BY <1>0, <2>1, <2>3 DEF Goroutines
  <2>5. broken' \in BOOLEAN
    <3>1. broken \in BOOLEAN  BY <1>0 DEF Others
    <3>2. broken' = broken \/ broken' = TRUE  BY <1>0, <2>1, <2>2, GoreadyEffect
    <3> QED  BY <3>1, <3>2
  <2>6. Others'  BY <1>0, <2>1, <2>5 DEF Others
  <2>7. User'  BY <1>0, <2>1 DEF User
  <2> QED  BY <2>4, <2>6, <2>7 DEF TypeOK
<1> QED  BY <1>1, <1>2, <1>3, <1>4, <1>5

\* The steps of sysmon, and time.
LEMMA SysmonType ==
  ASSUME TypeOK, User, Sysmon \/ Clock
  PROVE  TypeOK' /\ User'
<1>0. /\ Goroutines /\ Others /\ st \in [Tok -> States] /\ heap \in Seq(Entry) /\ sg \in Tok \cup {None}
      /\ until \in Nat /\ broken \in BOOLEAN /\ late \in Nat /\ dur \in [Tok -> Nat]
  BY DEF TypeOK, Goroutines, Others
<1>1. CASE Pop
  <2>1. /\ 0 \in Left /\ heap' = Tail(heap)
        /\ UNCHANGED <<tg, kind, dur, pc, stopped, period, obj, cur, call, upc, mon, until, signalled, broken, resets, stopWon>>
        /\ UNCHANGED <<late, took>>
        /\ sg' = IF Fires(Head(heap).g) THEN Head(heap).g ELSE None
        /\ st' = IF Fires(Head(heap).g) THEN [st EXCEPT ![Head(heap).g] = "fired"] ELSE st
    BY <1>1 DEF Pop, sleepers, ticker, user, ghosts
  <2>2. heap' \in Seq(Entry) /\ Head(heap).g \in Tok  BY <1>0, <2>1, PopEffect
  <2>3. st' \in [Tok -> States]  BY <1>0, <2>1 DEF States
  <2>4. sg' \in Tok \cup {None}  BY <2>1, <2>2
  <2>5. Goroutines'  BY <1>0, <2>1, <2>3 DEF Goroutines
  <2>6. Others'  BY <1>0, <2>1, <2>2, <2>4 DEF Others
  <2>7. User'  BY <2>1, UserKeep
  <2> QED  BY <2>5, <2>6, <2>7 DEF TypeOK
<1>2. CASE PopReady
  <2>1. /\ sg # None /\ Goready(sg) /\ sg' = None
        /\ UNCHANGED <<st, tg, kind, dur, heap, stopped, period, obj, cur, call, upc, mon, until, signalled, resets, stopWon>>
        /\ UNCHANGED <<late, took>>
    BY <1>2 DEF PopReady, tokens, ticker, user, ghosts
  <2>2. sg \in Tok  BY <1>0, <2>1
  <2>3. /\ pc' \in [Tok -> Labels] /\ \A h \in Tok : pc'[h] # "dead" => kind[h] \in Obj \cup {"sleep"}
        /\ broken' = broken \/ broken' = TRUE
    BY <1>0, <2>1, <2>2, GoreadyEffect
  <2>4. Goroutines'  BY <1>0, <2>1, <2>3 DEF Goroutines
  <2>5. broken' \in BOOLEAN  BY <1>0, <2>3
  <2>6. Others'  BY <1>0, <2>1, <2>5 DEF Others
  <2>7. User'  BY <2>1, UserKeep
  <2> QED  BY <2>4, <2>6, <2>7 DEF TypeOK
<1>3. CASE StartNap
  <2>1. /\ mon' = "nap" /\ until' = late + Least(Left \cup {Nap}) /\ took' = late /\ UNCHANGED late
        /\ UNCHANGED <<st, tg, kind, dur, pc, heap, stopped, period, obj, cur, call, upc, sg, signalled, broken, resets, stopWon>>
    BY <1>3 DEF StartNap, NapFor, tokens, sleepers, ticker, user, ghosts
  <2>2. Left \cup {Nap} \subseteq Nat  BY <1>0, HeapHas, Names
  <2>3. Least(Left \cup {Nap}) \in Left \cup {Nap}  BY <2>2, LeastOf
  <2>4. until' \in Nat
    <3>1. Least(Left \cup {Nap}) \in Nat  BY <2>2, <2>3
    <3> QED  BY <1>0, <2>1, <3>1
  <2>5. Goroutines'  BY <1>0, <2>1 DEF Goroutines
  <2>6. Others'  BY <1>0, <2>1, <2>4 DEF Others
  <2>7. User'  BY <2>1, UserKeep
  <2> QED  BY <2>5, <2>6, <2>7 DEF TypeOK
<1>4. CASE EndNap
  <2>1. /\ mon' = "scan" /\ signalled' = FALSE /\ until' = 0 /\ late' = 0 /\ took' = 0
        /\ dur' = [k \in Tok |-> IF pc[k] = "push" THEN Since(dur[k]) ELSE dur[k]]
        /\ UNCHANGED <<st, tg, kind, pc, stopped, period, obj, cur, call, upc, sg, broken, resets, stopWon>>
    BY <1>4 DEF EndNap, tokens, ticker, user, ghosts
  <2>2. heap' \in Seq(Entry)  BY <1>0, <1>4, AgeEffect DEF EndNap
  <2>3. dur' \in [Tok -> Nat]
    <3>1. \A n \in Nat : Since(n) \in Nat  BY <1>0 DEF Since
    <3>2. \A k \in Tok : dur[k] \in Nat  BY <1>0
    <3> QED  BY <2>1, <3>1, <3>2
  <2>4. Goroutines'  BY <1>0, <2>1, <2>3 DEF Goroutines
  <2>5. Others'  BY <1>0, <2>1, <2>2 DEF Others
  <2>6. User'  BY <2>1, UserKeep
  <2> QED  BY <2>4, <2>5, <2>6 DEF TypeOK
<1>5. CASE Clock
  <2>1. /\ late' = late + 1
        /\ UNCHANGED <<st, tg, kind, dur, pc, stopped, period, obj, cur, call, upc, mon, sg, signalled, broken, resets, stopWon>>
        /\ UNCHANGED <<heap, until, took>>
    BY <1>5 DEF Clock, tokens, sleepers, ticker, user, ghosts
  <2>2. Goroutines'  BY <1>0, <2>1 DEF Goroutines
  <2>3. Others'  BY <1>0, <2>1 DEF Others
  <2>4. User'  BY <2>1, UserKeep
  <2> QED  BY <2>2, <2>3, <2>4 DEF TypeOK
<1> QED  BY <1>1, <1>2, <1>3, <1>4, <1>5 DEF Sysmon

\* A step that changes nothing.
LEMMA Stutter ==
  ASSUME UNCHANGED vars
  PROVE  /\ UNCHANGED <<st, tg, kind, dur, pc, heap, stopped, period, obj, cur, call, upc>>
         /\ UNCHANGED <<mon, sg, until, signalled, late, took, broken, resets, stopWon>>
BY DEF vars, tokens, sleepers, ticker, user, sysmon, ghosts

\* Every step keeps the types and the user's state.
LEMMA StepType ==
  ASSUME TypeOK, User, [Next]_vars
  PROVE  TypeOK' /\ User'
<1>1. CASE UNCHANGED vars
  <2>1. Goroutines' /\ Others'  BY <1>1, Stutter DEF TypeOK, Goroutines, Others
  <2>2. User'  BY <1>1, Stutter, UserKeep
  <2> QED  BY <2>1, <2>2 DEF TypeOK
<1>2. CASE Next
  BY <1>2, RunType, SpawnType, UserType, SysmonType DEF Next, Serve
<1> QED  BY <1>1, <1>2

-----------------------------------------------------------------------------
(* The order of the heap, and the end of the nap.                          *)

\* The steps that move the heap or sysmon's nap.
LEMMA HeapSteps ==
  ASSUME [Next]_vars
  PROVE  \/ UNCHANGED <<heap, mon, until, signalled, took>>
         \/ \E k \in Tok : Push(k)
         \/ Pop \/ StartNap \/ EndNap
<1>1. CASE UNCHANGED vars  BY <1>1, Stutter
<1>2. ASSUME NEW k \in Tok, Run(k) PROVE UNCHANGED <<heap, mon, until, signalled, took>> \/ Push(k)
  BY <1>2 DEF Run, Top, Park, Woken, Send, Rearm, RearmState, sysmon
<1>3. ASSUME NEW d \in D, Sleep(d) \/ ResetTimer(d) \/ ResetTicker(d) \/ \E o \in Obj : New(o, d)
      PROVE  UNCHANGED <<heap, mon, until, signalled, took>>
  BY <1>3 DEF Sleep, ResetTimer, ResetTicker, New, sysmon
<1>4. CASE Stop \/ Serve
  BY <1>4 DEF Stop, Serve, Clear, Cancel, CancelReady, Respawn, sysmon
<1>5. CASE PopReady \/ Clock  BY <1>5 DEF PopReady, Clock
<1> QED  BY <1>1, <1>2, <1>3, <1>4, <1>5 DEF Next, Sysmon

\* The two branches of timer_park's critical section.
LEMMA PushBranches ==
  ASSUME TypeOK, NEW k \in Tok, Push(k)
  PROVE  /\ UNCHANGED st
         /\ \/ /\ kind[k] # "sleep" /\ st[k] # "armed"
               /\ Goto(k, "woken") /\ UNCHANGED <<tg, heap, signalled>>
            \/ /\ kind[k] # "sleep" => st[k] = "armed"
               /\ tg' = [tg EXCEPT ![k] = kind[k] # "sleep"] /\ Goto(k, "parked")
               /\ signalled' = (signalled \/ NeedWake(dur[k]))
               /\ \E e \in Entry : \E i \in 1..Len(heap) + 1 :
                    /\ e.left = dur[k] /\ e.g = k
                    /\ heap' = InsertAt(heap, i, e) /\ Ordered(heap')
<1>1. dur \in [Tok -> Nat]  BY DEF TypeOK, Goroutines
<1>2. UNCHANGED st  BY DEF Push
<1>3. CASE kind[k] # "sleep" /\ st[k] # "armed"  BY <1>2, <1>3 DEF Push, StillArmed
<1>4. CASE ~(kind[k] # "sleep" /\ st[k] # "armed")
  <2>1. PICK e \in Entry : e = [left |-> dur[k], g |-> k]  BY <1>1 DEF Entry
  <2>2. e.left = dur[k] /\ e.g = k  BY <2>1
  <2>3. \E i \in 1..Len(heap) + 1 : heap' = InsertAt(heap, i, e) /\ Ordered(heap')
    BY <1>4, <2>1 DEF Push, StillArmed
  <2>4. /\ tg' = [tg EXCEPT ![k] = kind[k] # "sleep"] /\ Goto(k, "parked")
        /\ signalled' = (signalled \/ NeedWake(dur[k]))
    BY <1>4 DEF Push, StillArmed
  <2> QED  BY <1>2, <1>4, <2>2, <2>3, <2>4
<1> QED  BY <1>3, <1>4

\* The heap stays in order.
LEMMA StepSorted ==
  ASSUME TypeOK, Sorted, [Next]_vars
  PROVE  Sorted'
<1>0. heap \in Seq(Entry) /\ DOMAIN heap = 1..Len(heap) /\ Len(heap) \in Nat
      /\ late \in Nat /\ \A i \in DOMAIN heap : heap[i].left \in Nat
  BY HeapHas DEF TypeOK, Others
<1>1. CASE UNCHANGED heap  BY <1>1 DEF Sorted
<1>2. ASSUME NEW k \in Tok, Push(k), heap' # heap PROVE Sorted'
  <2>1. PICK e \in Entry, i \in 1..Len(heap) + 1 : heap' = InsertAt(heap, i, e) /\ Ordered(heap')
    BY <1>2, PushBranches
  <2>2. PICK h : h = heap'  OBVIOUS
  <2>3. /\ h \in Seq(Entry) /\ i \in DOMAIN h /\ h[i] = e /\ DOMAIN h = 1..Len(h) /\ Len(h) \in Nat
        /\ \A j \in DOMAIN h : j # i => \E l \in DOMAIN heap : h[j] = heap[l] /\ l = IF j < i THEN j ELSE j - 1
    <3>1. /\ h \in Seq(Entry) /\ i \in DOMAIN h /\ h[i] = e
          /\ \A j \in DOMAIN h : j # i => \E l \in DOMAIN heap : h[j] = heap[l] /\ l = IF j < i THEN j ELSE j - 1
      BY <1>0, <2>1, <2>2, PushEffect
    <3> QED  BY <3>1
  <2>4. e.left \in Nat /\ i \in Nat  BY <1>0, <2>1 DEF Entry
  <2>5. \A j \in 1..Len(h) - 1 : h[j].left <= h[j + 1].left  BY <2>1, <2>2 DEF Ordered
  <2>6. \A j \in DOMAIN h : h[j].left \in Nat
    <3>1. \A j \in DOMAIN h : h[j] \in Entry  BY <2>3
    <3> QED  BY <3>1 DEF Entry
  <2>7. ASSUME NEW a \in DOMAIN h, NEW b \in DOMAIN h, a # i, b # i, a <= b PROVE h[a].left <= h[b].left
    <3>1. PICK l \in DOMAIN heap : h[a] = heap[l] /\ l = IF a < i THEN a ELSE a - 1  BY <2>3, <2>7
    <3>2. PICK m \in DOMAIN heap : h[b] = heap[m] /\ m = IF b < i THEN b ELSE b - 1  BY <2>3, <2>7
    <3>3. a \in Nat /\ b \in Nat /\ i \in Nat  BY <2>3, <2>4
    <3>4. l <= m  BY <2>7, <3>1, <3>2, <3>3
    <3> QED  BY <3>1, <3>2, <3>4 DEF Sorted
  <2>8. ASSUME NEW a \in DOMAIN h, a < i PROVE h[a].left <= h[i].left
    <3>1. i - 1 \in DOMAIN h /\ i - 1 # i /\ a # i /\ a <= i - 1 /\ i - 1 \in 1..Len(h) - 1 /\ (i - 1) + 1 = i
      BY <2>3, <2>4, <2>8
    <3>2. h[a].left <= h[i - 1].left  BY <2>7, <3>1
    <3>3. h[i - 1].left <= h[i].left  BY <2>5, <3>1
    <3> QED  BY <2>3, <2>6, <3>1, <3>2, <3>3
  <2>9. ASSUME NEW b \in DOMAIN h, i < b PROVE h[i].left <= h[b].left
    <3>1. i + 1 \in DOMAIN h /\ i + 1 # i /\ b # i /\ i + 1 <= b /\ i \in 1..Len(h) - 1
      BY <2>3, <2>4, <2>9
    <3>2. h[i + 1].left <= h[b].left  BY <2>7, <3>1
    <3>3. h[i].left <= h[i + 1].left  BY <2>5, <3>1
    <3> QED  BY <2>3, <2>6, <3>1, <3>2, <3>3
  <2>10. ASSUME NEW a \in DOMAIN h, NEW b \in DOMAIN h, a <= b PROVE h[a].left <= h[b].left
    <3>1. a \in Nat /\ b \in Nat /\ h[a].left \in Nat  BY <2>3, <2>6
    <3> QED  BY <2>4, <2>7, <2>8, <2>9, <2>10, <3>1
  <2> QED  BY <2>2, <2>10 DEF Sorted
<1>3. CASE Pop
  <2>1. PICK h : h = heap'  OBVIOUS
  <2>2. \A j \in DOMAIN h : j + 1 \in DOMAIN heap /\ h[j] = heap[j + 1]
    BY <1>0, <1>3, <2>1, PopEffect DEF Pop
  <2>3. \A j \in DOMAIN h : j \in Nat
    <3>1. h \in Seq(Entry)  BY <1>0, <1>3, <2>1, PopEffect DEF Pop
    <3> QED  BY <3>1
  <2>4. \A i, j \in DOMAIN h : i <= j => h[i].left <= h[j].left  BY <2>2, <2>3 DEF Sorted
  <2> QED  BY <2>1, <2>4 DEF Sorted
<1>4. CASE EndNap
  <2>1. PICK h : h = heap'  OBVIOUS
  <2>2. DOMAIN h = DOMAIN heap /\ \A i \in DOMAIN heap : h[i].left = Since(heap[i].left)
    BY <1>0, <1>4, <2>1, AgeEffect DEF EndNap
  <2>3. \A m, n \in Nat : m <= n => Since(m) <= Since(n)
    <3> SUFFICES ASSUME NEW m \in Nat, NEW n \in Nat, m <= n PROVE Since(m) <= Since(n)  OBVIOUS
    <3>1. PICK l \in Nat : l = late  BY <1>0
    <3>2. Since(m) = (IF m < l THEN 0 ELSE m - l) /\ Since(n) = (IF n < l THEN 0 ELSE n - l)  BY <3>1 DEF Since
    <3> QED  BY <3>2
  <2>4. \A i, j \in DOMAIN h : i <= j => h[i].left <= h[j].left  BY <1>0, <2>2, <2>3 DEF Sorted
  <2> QED  BY <2>1, <2>4 DEF Sorted
<1> QED  BY <1>1, <1>2, <1>3, <1>4, HeapSteps DEF StartNap

\* What is due is at the head of the heap.
LEMMA DueFirst ==
  ASSUME TypeOK, Sorted, 0 \in Left
  PROVE  1 \in DOMAIN heap /\ Head(heap) = heap[1] /\ heap[1].left = 0
<1>1. heap \in Seq(Entry) /\ DOMAIN heap = 1..Len(heap) /\ Len(heap) \in Nat
      /\ \A i \in DOMAIN heap : heap[i].left \in Nat
  BY HeapHas DEF TypeOK, Others
<1>2. PICK i \in DOMAIN heap : heap[i].left = 0  BY <1>1, HeapHas
<1>3. 1 \in DOMAIN heap /\ 1 <= i  BY <1>1
<1>4. heap[1].left <= 0  BY <1>2, <1>3 DEF Sorted
<1>5. Head(heap) = heap[1]  BY <1>1, <1>3
<1> QED  BY <1>1, <1>3, <1>4, <1>5

\* sysmon sleeps over a deadline by the time of its round at most.
LEMMA StepOversleep ==
  ASSUME TypeOK, OversleepsByScan, [Next]_vars
  PROVE  OversleepsByScan'
<1>0. /\ heap \in Seq(Entry) /\ until \in Nat /\ late \in Nat /\ took \in Nat /\ signalled \in BOOLEAN /\ Left \subseteq Nat
      /\ DOMAIN heap = 1..Len(heap) /\ Len(heap) \in Nat
      /\ \A i \in DOMAIN heap : heap[i].left \in Nat /\ heap[i].left \in Left
  BY HeapHas DEF TypeOK, Others
<1>1. CASE UNCHANGED <<heap, mon, until, signalled, took>>
  BY <1>1 DEF OversleepsByScan, Left, Entries
<1>2. ASSUME NEW k \in Tok, Push(k) PROVE OversleepsByScan'
  <2>1. UNCHANGED <<mon, until, took>>  BY <1>2 DEF Push
  <2>2. CASE UNCHANGED <<heap, signalled>>  BY <2>1, <2>2 DEF OversleepsByScan, Left, Entries
  <2>3. CASE /\ signalled' = (signalled \/ NeedWake(dur[k]))
             /\ \E e \in Entry : \E i \in 1..Len(heap) + 1 : e.left = dur[k] /\ heap' = InsertAt(heap, i, e)
    <3>1. SUFFICES ASSUME mon = "nap", ~signalled, ~NeedWake(dur[k]), NEW n \in Left' PROVE until <= n + took
      BY <1>0, <2>1, <2>3 DEF OversleepsByScan
    <3>2. PICK e \in Entry, i \in 1..Len(heap) + 1 : e.left = dur[k] /\ heap' = InsertAt(heap, i, e)  BY <2>3
    <3>3. PICK h : h = heap'  OBVIOUS
    <3>4. /\ h \in Seq(Entry) /\ i \in DOMAIN h /\ h[i] = e
          /\ \A j \in DOMAIN h : j # i => \E l \in DOMAIN heap : h[j] = heap[l]
      BY <1>0, <3>2, <3>3, PushEffect
    <3>5. PICK j \in DOMAIN h : h[j].left = n  BY <3>1, <3>3 DEF Left, Entries, ToSet
    <3>6. \A m \in Left : until <= m + took  BY <3>1 DEF OversleepsByScan
    <3>7. CASE j # i
      <4>1. PICK l \in DOMAIN heap : h[j] = heap[l]  BY <3>4, <3>7
      <4>2. n \in Left  BY <1>0, <3>5, <4>1
      <4> QED  BY <3>6, <4>2
    <3>8. CASE j = i
      <4>1. n = dur[k] /\ n \in Nat  BY <3>2, <3>4, <3>5, <3>8 DEF Entry
      <4>2. PICK m \in Left : ~(dur[k] < m)  BY <3>1 DEF NeedWake
      <4> QED  BY <1>0, <3>6, <4>1, <4>2
    <3> QED  BY <3>7, <3>8
  <2> QED  BY <1>2, <2>2, <2>3, PushBranches
<1>3. CASE Pop  BY <1>3 DEF Pop, OversleepsByScan
<1>4. CASE StartNap
  <2>1. until' = late + Least(Left \cup {Nap}) /\ took' = late /\ Left' = Left
    BY <1>4 DEF StartNap, NapFor, Left, Entries
  <2>2. Left \cup {Nap} \subseteq Nat  BY <1>0, Names
  <2>3. Least(Left \cup {Nap}) \in Nat /\ \A n \in Left : Least(Left \cup {Nap}) <= n  BY <2>2, LeastOf
  <2>4. PICK l \in Nat : l = Least(Left \cup {Nap})  BY <2>3
  <2>5. ASSUME NEW n \in Left PROVE until' <= n + took'
    <3>1. n \in Nat /\ late \in Nat /\ l <= n  BY <1>0, <2>3, <2>4
    <3>2. until' = late + l /\ took' = late  BY <2>1, <2>4
    <3> QED  BY <3>1, <3>2
  <2> QED  BY <2>1, <2>5 DEF OversleepsByScan
<1>5. CASE EndNap  BY <1>5 DEF EndNap, OversleepsByScan
<1> QED  BY <1>1, <1>2, <1>3, <1>4, <1>5, HeapSteps

-----------------------------------------------------------------------------
(* While no Ticker has been Reset, whoever readies a goroutine has won its *)
(* token, and the heap holds one entry of it at most.                      *)

\* A step that does not touch goroutine k or its token.
Same(k) ==
    /\ st'[k] = st[k] /\ tg'[k] = tg[k] /\ kind'[k] = kind[k] /\ pc'[k] = pc[k]
    /\ k \in stopWon' => k \in stopWon

\* It keeps k's life as it was; the Ticker's flag may only go up.
LEMMA LifeFrame ==
  ASSUME NEW k \in Tok, Life(k), Same(k), stopped => stopped'
  PROVE  Life(k)'
BY DEF Life, Same

\* A step of one goroutine that leaves the heap alone.
LEMMA OneMoves ==
  ASSUME TypeOK, \A h \in Tok : Life(h), Heap, UNCHANGED heap, NEW k \in Tok,
         \A h \in Tok : h # k => Same(h), stopped => stopped',
         Life(k)', \A i \in DOMAIN heap : heap[i].g = k => Live(k)'
  PROVE  (\A h \in Tok : Life(h)') /\ Heap'
<1>1. \A i \in DOMAIN heap : heap[i].g \in Tok  BY HeapHas DEF TypeOK, Others
<1>2. ASSUME NEW h \in Tok PROVE Life(h)'
  <2>1. CASE h = k  BY <2>1
  <2>2. CASE h # k  BY <2>2, LifeFrame
  <2> QED  BY <2>1, <2>2
<1>3. ASSUME NEW i \in DOMAIN heap PROVE Live(heap[i].g)'
  <2>1. PICK h \in Tok : h = heap[i].g  BY <1>1
  <2>2. Live(h)'
    <3>1. CASE h = k  BY <2>1, <3>1
    <3>2. CASE h # k
      <4>1. Live(h)  BY <2>1 DEF Heap
      <4> QED  BY <3>2, <4>1 DEF Live, Same
    <3> QED  BY <3>1, <3>2
  <2> QED  BY <2>1, <2>2 DEF Live
<1>4. Heap'  BY <1>3 DEF Heap, Live
<1> QED  BY <1>2, <1>4

\* The goroutine that moves is not the one that somebody is about to ready.
LEMMA WakersFrame ==
  ASSUME TypeOK, User, Wakers, NEW k \in Tok, pc[k] # "parked",
         \A h \in Tok : h # k => Same(h), UNCHANGED <<sg, upc, obj, cur, stopped, broken>>
  PROVE  Wakers'
<1>1. sg \in Tok \cup {None} /\ (upc = "ready" => cur \in Tok)  BY DEF TypeOK, Others, User
<1>2. sg' # None => pc'[sg'] = "parked" /\ st'[sg'] = "fired"  BY <1>1 DEF Wakers, Same
<1>3. upc' = "ready" => pc'[cur'] = "parked" /\ st'[cur'] = "cancelled"  BY <1>1 DEF Wakers, Same
<1> QED  BY <1>2, <1>3 DEF Wakers

\* The token of a goroutine about to park.
LEMMA NoEntry ==
  ASSUME Heap, NEW k, pc[k] # "parked", st[k] # "cancelled"
  PROVE  \A i \in DOMAIN heap : heap[i].g # k
BY DEF Heap, Live

\* Goto, for a goroutine and for the others.
LEMMA GotoEffect ==
  ASSUME TypeOK, NEW k \in Tok, NEW l, Goto(k, l)
  PROVE  pc'[k] = l /\ \A h \in Tok : h # k => pc'[h] = pc[h]
BY DEF TypeOK, Goroutines, Goto

\* The steps of a goroutine.
LEMMA RunCore ==
  ASSUME TypeOK, User, Core, NEW k \in Tok, Run(k)
  PROVE  Core'
<1>0. /\ \A h \in Tok : Life(h)
      /\ Life(k) /\ Heap /\ Wakers
      /\ st \in [Tok -> States] /\ tg \in [Tok -> BOOLEAN] /\ kind \in [Tok -> Obj \cup {"sleep", None}]
      /\ heap \in Seq(Entry)
      /\ pc[k] # "dead" => kind[k] \in {"timer", "ticker", "sleep"}
      /\ st[k] \in {"armed", "fired", "cancelled"}
  BY DEF Core, TypeOK, Goroutines, Others, States, Obj
<1>1. CASE Top(k)
  <2>1. /\ pc[k] = "top" /\ UNCHANGED <<st, tg, kind, heap, stopWon>>
        /\ UNCHANGED <<sg, upc, obj, cur, stopped, broken>>
        /\ Goto(k, "dead") \/ Goto(k, "park")
    BY <1>1 DEF Top, tokens, ticker, user, sysmon, ghosts
  <2>2. (pc'[k] = "dead" \/ pc'[k] = "park") /\ \A h \in Tok : h # k => pc'[h] = pc[h]  BY <2>1, GotoEffect
  <2>3. \A h \in Tok : h # k => Same(h)  BY <2>1, <2>2 DEF Same
  <2>4. Life(k)'  BY <1>0, <2>1, <2>2 DEF Life
  <2>5. \A i \in DOMAIN heap : heap[i].g = k => Live(k)'  BY <1>0, <2>1 DEF Heap, Live
  <2>6. (\A h \in Tok : Life(h)') /\ Heap'  BY <1>0, <2>1, <2>3, <2>4, <2>5, OneMoves
  <2>7. Wakers'  BY <1>0, <2>1, <2>3, WakersFrame
  <2> QED  BY <2>6, <2>7 DEF Core
<1>2. CASE Park(k)
  <2>1. /\ pc[k] = "park" /\ UNCHANGED <<kind, stopWon>> /\ UNCHANGED <<sg, upc, obj, cur, stopped, broken>>
    BY <1>2 DEF Park, ticker, user, sysmon, ghosts
  <2>2. CASE Goto(k, "woken") /\ UNCHANGED <<tg, heap>> /\ st' = [st EXCEPT ![k] = IF @ = "armed" THEN "fired" ELSE @]
    <3>1. pc'[k] = "woken" /\ \A h \in Tok : h # k => pc'[h] = pc[h]  BY <2>2, GotoEffect
    <3>2. st'[k] = (IF st[k] = "armed" THEN "fired" ELSE st[k]) /\ \A h \in Tok : h # k => st'[h] = st[h]
      BY <1>0, <2>2
    <3>3. \A h \in Tok : h # k => Same(h)  BY <2>1, <2>2, <3>1, <3>2 DEF Same
    <3>4. Life(k)'  BY <1>0, <2>1, <2>2, <3>1, <3>2 DEF Life
    <3>5. \A i \in DOMAIN heap : heap[i].g = k => Live(k)'  BY <1>0, <2>1, <3>2 DEF Heap, Live
    <3>6. (\A h \in Tok : Life(h)') /\ Heap'  BY <1>0, <2>1, <2>2, <3>3, <3>4, <3>5, OneMoves
    <3>7. Wakers'  BY <1>0, <2>1, <3>3, WakersFrame
    <3> QED  BY <3>6, <3>7 DEF Core
  <2>3. CASE Goto(k, "push") /\ UNCHANGED <<st, tg, heap>>
    <3>1. pc'[k] = "push" /\ \A h \in Tok : h # k => pc'[h] = pc[h]  BY <2>3, GotoEffect
    <3>2. \A h \in Tok : h # k => Same(h)  BY <2>1, <2>3, <3>1 DEF Same
    <3>3. Life(k)'  BY <1>0, <2>1, <2>3, <3>1 DEF Life
    <3>4. \A i \in DOMAIN heap : heap[i].g = k => Live(k)'  BY <1>0, <2>1, <2>3 DEF Heap, Live
    <3>5. (\A h \in Tok : Life(h)') /\ Heap'  BY <1>0, <2>1, <2>3, <3>2, <3>3, <3>4, OneMoves
    <3>6. Wakers'  BY <1>0, <2>1, <3>2, WakersFrame
    <3> QED  BY <3>5, <3>6 DEF Core
  <2> QED  BY <1>2, <2>2, <2>3 DEF Park
<1>5. CASE Push(k)
  <2>1. /\ pc[k] = "push" /\ UNCHANGED <<kind, stopWon>> /\ UNCHANGED <<sg, upc, obj, cur, stopped, broken>>
    BY <1>5 DEF Push, ticker, user, ghosts
  <2>3. CASE st[k] # "armed" /\ Goto(k, "woken") /\ UNCHANGED <<st, tg, heap>>
    <3>1. pc'[k] = "woken" /\ \A h \in Tok : h # k => pc'[h] = pc[h]  BY <2>3, GotoEffect
    <3>2. \A h \in Tok : h # k => Same(h)  BY <2>1, <2>3, <3>1 DEF Same
    <3>3. Life(k)'  BY <1>0, <2>1, <2>3, <3>1 DEF Life
    <3>4. \A i \in DOMAIN heap : heap[i].g = k => Live(k)'  BY <1>0, <2>1, <2>3 DEF Heap, Live
    <3>5. (\A h \in Tok : Life(h)') /\ Heap'  BY <1>0, <2>1, <2>3, <3>2, <3>3, <3>4, OneMoves
    <3>6. Wakers'  BY <1>0, <2>1, <3>2, WakersFrame
    <3> QED  BY <3>5, <3>6 DEF Core
  <2>4. CASE /\ kind[k] # "sleep" => st[k] = "armed"
             /\ tg' = [tg EXCEPT ![k] = kind[k] # "sleep"] /\ UNCHANGED st /\ Goto(k, "parked")
             /\ \E e \in Entry : \E i \in 1..Len(heap) + 1 : e.g = k /\ heap' = InsertAt(heap, i, e)
    <3>1. pc'[k] = "parked" /\ \A h \in Tok : h # k => pc'[h] = pc[h]  BY <2>4, GotoEffect
    <3>2. \A h \in Tok : h # k => tg'[h] = tg[h]  BY <1>0, <2>4
    <3>3. st[k] = "armed"  BY <1>0, <2>1, <2>4 DEF Life
    <3>4. \A h \in Tok : h # k => Same(h)  BY <2>1, <2>4, <3>1, <3>2 DEF Same
    <3>5. Life(k)'  BY <1>0, <2>1, <2>4, <3>1, <3>3 DEF Life
    <3>6. \A h \in Tok : Life(h)'
      <4>1. ASSUME NEW h \in Tok, h # k PROVE Life(h)'  BY <1>0, <2>1, <3>4, <4>1, LifeFrame
      <4> QED  BY <3>5, <4>1
    <3>7. Wakers'  BY <1>0, <2>1, <3>4, WakersFrame
    <3>8. \A i \in DOMAIN heap : heap[i].g # k /\ heap[i].g \in Tok
      BY <1>0, <2>1, <3>3, NoEntry, HeapHas
    <3>9. PICK e \in Entry, i \in 1..Len(heap) + 1 : e.g = k /\ heap' = InsertAt(heap, i, e)  BY <2>4
    <3>10. PICK h : h = heap'  OBVIOUS
    <3>11. /\ h \in Seq(Entry) /\ i \in DOMAIN h /\ h[i] = e
           /\ \A j \in DOMAIN h : j # i => \E l \in DOMAIN heap : h[j] = heap[l] /\ l = IF j < i THEN j ELSE j - 1
      BY <1>0, <3>9, <3>10, PushEffect
    <3>12. ASSUME NEW j \in DOMAIN h PROVE Live(h[j].g)'
      <4>1. CASE j = i
        <5>1. h[j].g = k  BY <3>9, <3>11, <4>1
        <5>2. Live(k)'  BY <2>4, <3>1, <3>3 DEF Live
        <5> QED  BY <5>1, <5>2 DEF Live
      <4>2. CASE j # i
        <5>1. PICK l \in DOMAIN heap : h[j] = heap[l]  BY <3>11, <4>2
        <5>2. PICK x \in Tok : x = heap[l].g /\ x # k  BY <3>8
        <5>3. Live(x)  BY <1>0, <5>2 DEF Heap
        <5>4. Live(x)'  BY <3>4, <5>2, <5>3 DEF Live, Same
        <5> QED  BY <5>1, <5>2, <5>4 DEF Live
      <4> QED  BY <4>1, <4>2
    <3>13. ASSUME NEW a \in DOMAIN h, NEW b \in DOMAIN h, h[a].g = h[b].g PROVE a = b
      <4>1. \A j \in DOMAIN h : j # i => h[j].g # k  BY <3>8, <3>11
      <4>2. h[i].g = k  BY <3>9, <3>11
      <4>3. CASE a = i \/ b = i  BY <3>13, <4>1, <4>2, <4>3
      <4>4. CASE a # i /\ b # i
        <5>1. PICK l \in DOMAIN heap : h[a] = heap[l] /\ l = IF a < i THEN a ELSE a - 1  BY <3>11, <4>4
        <5>2. PICK m \in DOMAIN heap : h[b] = heap[m] /\ m = IF b < i THEN b ELSE b - 1  BY <3>11, <4>4
        <5>3. l = m  BY <1>0, <3>13, <5>1, <5>2 DEF Heap
        <5>4. a \in Nat /\ b \in Nat /\ i \in Nat  BY <1>0, <3>11
        <5> QED  BY <4>4, <5>1, <5>2, <5>3, <5>4
      <4> QED  BY <4>3, <4>4
    <3>14. Heap'  BY <3>10, <3>12, <3>13 DEF Heap, Live
    <3> QED  BY <3>6, <3>7, <3>14 DEF Core
  <2> QED  BY <1>5, <2>3, <2>4, PushBranches
<1>3. CASE Woken(k)
  <2>1. /\ pc[k] = "woken" /\ UNCHANGED <<st, tg, kind, heap>> /\ UNCHANGED <<sg, upc, obj, cur, stopped, broken>>
        /\ stopWon' = IF pc'[k] = "dead" THEN stopWon \ {k} ELSE stopWon
    BY <1>3 DEF Woken, tokens, ticker, user, sysmon
  <2>2. kind[k] \in {"timer", "ticker", "sleep"} /\ st[k] \in {"fired", "cancelled"}  BY <1>0, <2>1 DEF Life
  <2>3. Goto(k, "dead") \/ (Goto(k, "send") /\ st[k] = "fired")
    <3>1. CASE kind[k] = "sleep"  BY <1>3, <3>1 DEF Woken
    <3>2. CASE kind[k] = "timer"  BY <1>3, <3>2 DEF Woken
    <3>3. CASE kind[k] = "ticker"
      <4>1. Goto(k, IF stopped THEN "dead" ELSE IF st[k] = "fired" THEN "send" ELSE "rearm")
        BY <1>3, <3>3 DEF Woken
      <4>2. st[k] = "cancelled" => stopped  BY <1>0, <3>3 DEF Life
      <4> QED  BY <2>2, <4>1, <4>2
    <3> QED  BY <2>2, <3>1, <3>2, <3>3
  <2>4. /\ pc'[k] = "dead" \/ (pc'[k] = "send" /\ st[k] = "fired")
        /\ \A h \in Tok : h # k => pc'[h] = pc[h]
    BY <2>3, GotoEffect
  <2>5. \A h \in Tok : h # k => Same(h)  BY <2>1, <2>4 DEF Same
  <2>6. Life(k)'  BY <1>0, <2>1, <2>2, <2>4 DEF Life
  <2>7. \A i \in DOMAIN heap : heap[i].g = k => Live(k)'  BY <1>0, <2>1 DEF Heap, Live
  <2>8. (\A h \in Tok : Life(h)') /\ Heap'  BY <1>0, <2>1, <2>5, <2>6, <2>7, OneMoves
  <2>9. Wakers'  BY <1>0, <2>1, <2>5, WakersFrame
  <2> QED  BY <2>8, <2>9 DEF Core
<1>4. CASE Send(k) \/ Rearm(k) \/ RearmState(k)
  <2>1. /\ UNCHANGED <<kind, heap, stopWon>> /\ UNCHANGED <<sg, upc, obj, cur, stopped, broken>>
        /\ pc[k] \in {"send", "rearm", "rearm2"}
    BY <1>4 DEF Send, Rearm, RearmState, ticker, user, sysmon, ghosts
  <2>2. st[k] = "fired" /\ k \notin stopWon  BY <1>0, <2>1 DEF Life
  <2>3. /\ \/ /\ UNCHANGED <<st, tg>> /\ \/ kind[k] = "ticker" /\ Goto(k, "rearm")
                                         \/ Goto(k, "dead")
           \/ pc[k] = "rearm" /\ tg' = [tg EXCEPT ![k] = FALSE] /\ Goto(k, "rearm2") /\ UNCHANGED st
           \/ pc[k] = "rearm2" /\ st' = [st EXCEPT ![k] = "armed"] /\ Goto(k, "top") /\ UNCHANGED tg
    BY <1>4 DEF Send, Rearm, RearmState, tokens
  <2>4. /\ \/ st'[k] = st[k] /\ tg'[k] = tg[k] /\ \/ kind[k] = "ticker" /\ pc'[k] = "rearm"
                                                  \/ pc'[k] = "dead"
           \/ pc[k] = "rearm" /\ tg'[k] = FALSE /\ st'[k] = st[k] /\ pc'[k] = "rearm2"
           \/ pc[k] = "rearm2" /\ tg'[k] = tg[k] /\ st'[k] = "armed" /\ pc'[k] = "top"
        /\ \A h \in Tok : h # k => st'[h] = st[h] /\ tg'[h] = tg[h] /\ pc'[h] = pc[h]
    BY <1>0, <2>3, GotoEffect
  <2>5. \A h \in Tok : h # k => Same(h)  BY <2>1, <2>4 DEF Same
  <2>6. Life(k)'  BY <1>0, <2>1, <2>2, <2>4 DEF Life
  <2>7. \A i \in DOMAIN heap : heap[i].g = k => Live(k)'  BY <1>0, <2>1, <2>2 DEF Heap, Live
  <2>8. (\A h \in Tok : Life(h)') /\ Heap'  BY <1>0, <2>1, <2>5, <2>6, <2>7, OneMoves
  <2>9. Wakers'  BY <1>0, <2>1, <2>5, WakersFrame
  <2> QED  BY <2>8, <2>9 DEF Core
<1> QED  BY <1>1, <1>2, <1>3, <1>4, <1>5 DEF Run

\* The calls that make a token.
LEMMA SpawnCore ==
  ASSUME TypeOK, User, Core, \/ \E d \in D : Sleep(d) \/ \E o \in Obj : New(o, d)
                             \/ Respawn
  PROVE  Core'
<1>0. /\ \A h \in Tok : Life(h)
      /\ Heap /\ Wakers /\ "sleep" \notin Obj /\ None \notin Obj /\ None \notin Tok
      /\ sg \in Tok \cup {None} /\ D \subseteq Nat
  BY Names DEF Core, TypeOK, Others
<1>1. ASSUME NEW k \in Free, NEW o \in Obj \cup {"sleep"}, NEW d \in Nat, Spawn(k, o, d),
             UNCHANGED <<heap, stopped, stopWon>>
      PROVE  /\ k \in Tok /\ cur # k /\ pc[k] # "parked" /\ \A h \in Tok : h # k => Same(h)
             /\ (\A h \in Tok : Life(h)') /\ Heap'
  <2>1. k \in Tok /\ pc[k] = "dead" /\ cur # k /\ \A i \in DOMAIN heap : heap[i].g # k  BY FreeToken
  <2>2. /\ st'[k] = "armed" /\ tg'[k] = FALSE /\ kind'[k] = o /\ pc'[k] = IF o = "ticker" THEN "top" ELSE "park"
        /\ \A h \in Tok : h # k => st'[h] = st[h] /\ tg'[h] = tg[h] /\ kind'[h] = kind[h] /\ pc'[h] = pc[h]
    BY <1>1, <2>1, SpawnEffect
  <2>3. \A h \in Tok : h # k => Same(h)  BY <1>1, <2>2 DEF Same
  <2>4. k \notin stopWon'  BY <1>0, <1>1, <2>1 DEF Life
  <2>5. Life(k)'  BY <2>2, <2>4 DEF Life
  <2>6. (\A h \in Tok : Life(h)') /\ Heap'  BY <1>0, <1>1, <2>1, <2>3, <2>5, OneMoves
  <2> QED  BY <2>1, <2>3, <2>6
<1>2. ASSUME NEW d \in D, Sleep(d) PROVE Core'
  <2>1. PICK k \in Free : Spawn(k, "sleep", d)  BY <1>2 DEF Sleep
  <2>2. UNCHANGED <<heap, stopped, stopWon>> /\ UNCHANGED <<sg, upc, obj, cur, stopped, broken>>
    BY <1>2 DEF Sleep, ticker, user, sysmon, ghosts
  <2>3. /\ k \in Tok /\ pc[k] # "parked" /\ \A h \in Tok : h # k => Same(h)
        /\ (\A h \in Tok : Life(h)') /\ Heap'
    BY <1>0, <1>1, <2>1, <2>2
  <2>4. Wakers'  BY <1>0, <2>2, <2>3, WakersFrame
  <2> QED  BY <2>3, <2>4 DEF Core
<1>3. ASSUME NEW d \in D, NEW o \in Obj, New(o, d) PROVE Core'
  <2>1. PICK k \in Free : Spawn(k, o, d)  BY <1>3 DEF New
  <2>2. UNCHANGED <<heap, stopped, stopWon>> /\ UNCHANGED <<sg, upc, broken>> /\ obj = None
    BY <1>3 DEF New, sysmon, ghosts
  <2>3. /\ k \in Tok /\ pc[k] # "parked" /\ \A h \in Tok : h # k => Same(h)
        /\ (\A h \in Tok : Life(h)') /\ Heap'
    BY <1>0, <1>1, <2>1, <2>2
  <2>4. upc = "idle"  BY <2>2 DEF User
  <2>5. sg' # None => pc'[sg'] = "parked" /\ st'[sg'] = "fired"  BY <1>0, <2>2, <2>3 DEF Wakers, Same
  <2>6. Wakers'  BY <1>0, <2>2, <2>4, <2>5 DEF Wakers
  <2> QED  BY <2>3, <2>6 DEF Core
<1>4. ASSUME Respawn PROVE Core'
  <2>1. PICK k \in Free : Spawn(k, obj, call)  BY <1>4 DEF Respawn
  <2>2. UNCHANGED <<heap, stopped, stopWon>> /\ UNCHANGED <<sg, broken>> /\ upc = "spawn" /\ upc' = "idle"
    BY <1>4 DEF Respawn, End, ticker, sysmon, ghosts
  <2>3. obj \in Obj /\ call \in Nat  BY <2>2 DEF User
  <2>4. /\ k \in Tok /\ pc[k] # "parked" /\ \A h \in Tok : h # k => Same(h)
        /\ (\A h \in Tok : Life(h)') /\ Heap'
    BY <1>0, <1>1, <2>1, <2>2, <2>3
  <2>5. sg' # None => pc'[sg'] = "parked" /\ st'[sg'] = "fired"  BY <1>0, <2>2, <2>4 DEF Wakers, Same
  <2>6. Wakers'  BY <1>0, <2>2, <2>5 DEF Wakers
  <2> QED  BY <2>4, <2>6 DEF Core
<1> QED  BY <1>2, <1>3, <1>4

\* The other steps of the user, but for a Reset of the Ticker.
LEMMA UserCore ==
  ASSUME TypeOK, User, Core, \/ \E d \in D : ResetTimer(d)
                             \/ Stop \/ Clear \/ Cancel \/ CancelReady
  PROVE  Core'
<1>0. /\ \A h \in Tok : Life(h)
      /\ Heap /\ Wakers /\ st \in [Tok -> States] /\ sg \in Tok \cup {None} /\ None \notin Tok
      /\ None \notin Obj /\ Goroutines
      /\ \A h \in Tok : st[h] \in {"armed", "fired", "cancelled"}
  BY Names DEF Core, TypeOK, Goroutines, Others, States
<1>1. ASSUME NEW d \in D, ResetTimer(d) PROVE Core'
  <2>1. /\ UNCHANGED <<st, tg, kind, pc, heap, stopped, stopWon, sg, broken, cur, obj>>
        /\ obj = "timer" /\ upc' = "cancel"
    BY <1>1 DEF ResetTimer, Begin, tokens, sleepers, ticker, sysmon, ghosts
  <2>2. \A h \in Tok : Life(h)'  BY <1>0, <2>1 DEF Life
  <2>3. Heap'  BY <1>0, <2>1 DEF Heap, Live
  <2>4. Wakers'  BY <1>0, <2>1 DEF Wakers
  <2> QED  BY <2>2, <2>3, <2>4 DEF Core
<1>2. ASSUME Stop PROVE Core'
  <2>1. /\ UNCHANGED <<st, tg, kind, pc, heap, stopWon, sg, broken, cur, obj>>
        /\ stopped' = (stopped \/ obj = "ticker") /\ upc' = "cancel"
    BY <1>2 DEF Stop, Begin, tokens, sleepers, sysmon, ghosts
  <2>2. \A h \in Tok : Life(h)'  BY <1>0, <2>1 DEF Life
  <2>3. Heap'  BY <1>0, <2>1 DEF Heap, Live
  <2>4. Wakers'  BY <1>0, <2>1 DEF Wakers
  <2> QED  BY <2>2, <2>3, <2>4 DEF Core
<1>3. ASSUME Clear PROVE Core'  BY <1>0, <1>3 DEF Clear, Wakers
<1>4. ASSUME Cancel PROVE Core'
  <2>1. /\ upc = "cancel" /\ UNCHANGED <<tg, kind, pc, heap, stopped, sg, broken, obj, cur>>
        /\ st' = IF Won(cur) THEN [st EXCEPT ![cur] = "cancelled"] ELSE st
        /\ stopWon' = IF Won(cur) /\ obj = "timer" THEN stopWon \cup {cur} ELSE stopWon
        /\ upc' = "ready" => Won(cur) /\ tg[cur]
        /\ upc' \in {"ready", "idle", "spawn"}
    BY <1>4 DEF Cancel, AfterCancel, End, sleepers, ticker, sysmon
  <2>2. PICK k \in Tok : k = cur /\ kind[k] = obj /\ obj \in Obj  BY <2>1 DEF User
  <2>3. CASE st[k] # "armed"
    <3>1. UNCHANGED <<st, stopWon>> /\ upc' \in {"idle", "spawn"}  BY <2>1, <2>2, <2>3 DEF Won
    <3>2. \A h \in Tok : Life(h)'  BY <1>0, <2>1, <3>1 DEF Life
    <3>3. Heap'  BY <1>0, <2>1, <3>1 DEF Heap, Live
    <3>4. Wakers'  BY <1>0, <2>1, <3>1 DEF Wakers
    <3> QED  BY <3>2, <3>3, <3>4 DEF Core
  <2>4. CASE st[k] = "armed"
    <3>1. /\ st' = [st EXCEPT ![k] = "cancelled"]
          /\ stopWon' = IF obj = "timer" THEN stopWon \cup {k} ELSE stopWon
          /\ upc' = "ready" => tg[k]
      BY <2>1, <2>2, <2>4 DEF Won
    <3>2. st'[k] = "cancelled" /\ \A h \in Tok : h # k => st'[h] = st[h]  BY <1>0, <3>1
    <3>3. \A h \in Tok : h # k => Same(h)  BY <2>1, <3>1, <3>2 DEF Same
    <3>4. obj = "ticker" => stopped  BY <1>0, <2>1 DEF Wakers
    <3>5. obj \in {"timer", "ticker"}  BY <2>2 DEF Obj
    <3>6. Life(k)
      BY <1>0
    <3>7. k \in stopWon' => obj = "timer"  BY <2>2, <2>4, <3>1, <3>6 DEF Life
    <3>8. Life(k)'  BY <2>1, <2>2, <2>4, <3>2, <3>4, <3>5, <3>6, <3>7 DEF Life
    <3>9. Live(k)'  BY <2>1, <2>2, <3>2 DEF Live
    <3>10. (\A h \in Tok : Life(h)') /\ Heap'  BY <1>0, <2>1, <3>3, <3>8, <3>9, OneMoves
    <3>11. sg' # None => pc'[sg'] = "parked" /\ st'[sg'] = "fired"  BY <1>0, <2>1, <2>4, <3>2 DEF Wakers
    <3>12. upc' = "ready" => pc'[cur'] = "parked" /\ st'[cur'] = "cancelled"
      BY <2>1, <2>2, <2>4, <3>1, <3>2, <3>6 DEF Life
    <3>13. Wakers'  BY <1>0, <2>1, <3>11, <3>12 DEF Wakers
    <3> QED  BY <3>10, <3>13 DEF Core
  <2> QED  BY <2>3, <2>4
<1>5. ASSUME CancelReady PROVE Core'
  <2>1. /\ upc = "ready" /\ UNCHANGED <<st, tg, kind, heap, stopped, obj, cur, sg, stopWon>>
        /\ Goready(cur) /\ upc' \in {"idle", "spawn"}
    BY <1>5 DEF CancelReady, AfterCancel, End, tokens, ticker, sysmon, ghosts
  <2>2. PICK k \in Tok : k = cur /\ kind[k] = obj /\ obj \in Obj  BY <2>1 DEF User
  <2>3. pc[k] = "parked" /\ st[k] = "cancelled"  BY <1>0, <2>1, <2>2 DEF Wakers
  <2>4. pc'[k] = "woken" /\ broken' = broken /\ \A h \in Tok : h # k => pc'[h] = pc[h]
    BY <1>0, <2>1, <2>2, <2>3, GoreadyEffect
  <2>5. \A h \in Tok : h # k => Same(h)  BY <2>1, <2>4 DEF Same
  <2>6. Life(k)  BY <1>0
  <2>7. Life(k)'  BY <2>1, <2>3, <2>4, <2>6 DEF Life
  <2>8. Live(k)'  BY <2>1, <2>2, <2>3 DEF Live
  <2>9. (\A h \in Tok : Life(h)') /\ Heap'  BY <1>0, <2>1, <2>5, <2>7, <2>8, OneMoves
  <2>10. sg' # None => pc'[sg'] = "parked" /\ st'[sg'] = "fired"  BY <1>0, <2>1, <2>3, <2>4 DEF Wakers
  <2>11. Wakers'  BY <1>0, <2>1, <2>4, <2>10 DEF Wakers
  <2> QED  BY <2>9, <2>11 DEF Core
<1> QED  BY <1>1, <1>2, <1>3, <1>4, <1>5

\* The steps of sysmon, and time.
LEMMA SysmonCore ==
  ASSUME TypeOK, User, Core, Sysmon \/ Clock
  PROVE  Core'
<1>0. /\ \A h \in Tok : Life(h)
      /\ Heap /\ Wakers /\ st \in [Tok -> States] /\ sg \in Tok \cup {None} /\ None \notin Tok
      /\ Goroutines /\ heap \in Seq(Entry) /\ late \in Nat /\ (upc = "ready" => cur \in Tok)
  BY Names DEF Core, TypeOK, Goroutines, Others, User
<1>1. CASE Pop
  <2>1. /\ 0 \in Left /\ heap' = Tail(heap) /\ UNCHANGED <<tg, kind, pc, stopped, obj, cur, upc, broken, stopWon>>
        /\ sg' = IF Fires(Head(heap).g) THEN Head(heap).g ELSE None
        /\ st' = IF Fires(Head(heap).g) THEN [st EXCEPT ![Head(heap).g] = "fired"] ELSE st
    BY <1>1 DEF Pop, sleepers, ticker, user, ghosts
  <2>2. PICK h : h = heap'  OBVIOUS
  <2>3. /\ h \in Seq(Entry) /\ 1 \in DOMAIN heap /\ Head(heap) = heap[1] /\ heap[1].g \in Tok
        /\ \A j \in DOMAIN h : j + 1 \in DOMAIN heap /\ h[j] = heap[j + 1] /\ j + 1 # 1
    BY <1>0, <2>1, <2>2, PopEffect
  <2>4. \A j \in DOMAIN h : j \in Nat  BY <2>3
  <2>5. PICK k \in Tok : k = heap[1].g  BY <2>3
  <2>6. Live(k) /\ Life(k)  BY <1>0, <2>3, <2>5 DEF Heap
  <2>7. \A i \in DOMAIN heap : i # 1 => heap[i].g # k  BY <1>0, <2>3, <2>5 DEF Heap
  <2>8. \A i \in DOMAIN heap : heap[i].g \in Tok  BY <1>0, HeapHas
  <2>9. \A a, b \in DOMAIN h : h[a].g = h[b].g => a = b
    <3> SUFFICES ASSUME NEW a \in DOMAIN h, NEW b \in DOMAIN h, h[a].g = h[b].g PROVE a = b  OBVIOUS
    <3>1. a + 1 = b + 1  BY <1>0, <2>3 DEF Heap
    <3> QED  BY <2>4, <3>1
  <2>10. CASE Fires(k)
    <3>1. sg' = k /\ st' = [st EXCEPT ![k] = "fired"]  BY <2>1, <2>3, <2>5, <2>10
    <3>2. st'[k] = "fired" /\ \A x \in Tok : x # k => st'[x] = st[x]  BY <1>0, <3>1
    <3>3. pc[k] = "parked" /\ st[k] = "armed"  BY <2>6, <2>10, Names DEF Fires, Live
    <3>4. \A x \in Tok : x # k => Same(x)  BY <2>1, <3>2 DEF Same
    <3>5. Life(k)'  BY <2>1, <2>6, <3>2, <3>3 DEF Life
    <3>6. \A x \in Tok : Life(x)'
      <4>1. ASSUME NEW x \in Tok, x # k PROVE Life(x)'  BY <1>0, <2>1, <3>4, <4>1, LifeFrame
      <4> QED  BY <3>5, <4>1
    <3>7. ASSUME NEW j \in DOMAIN h PROVE Live(h[j].g)'
      <4>1. PICK x \in Tok : x = heap[j + 1].g /\ x # k  BY <2>3, <2>7, <2>8
      <4>2. Live(x)  BY <1>0, <2>3, <4>1 DEF Heap
      <4>3. Live(x)'  BY <3>4, <4>1, <4>2 DEF Live, Same
      <4> QED  BY <2>3, <4>1, <4>3 DEF Live
    <3>8. Heap'  BY <2>2, <2>9, <3>7 DEF Heap, Live
    <3>9. upc' = "ready" => pc'[cur'] = "parked" /\ st'[cur'] = "cancelled"  BY <1>0, <2>1, <3>2, <3>3 DEF Wakers
    <3>10. Wakers'  BY <1>0, <2>1, <3>1, <3>2, <3>3, <3>9 DEF Wakers
    <3> QED  BY <3>6, <3>8, <3>10 DEF Core
  <2>11. CASE ~Fires(k)
    <3>1. sg' = None /\ st' = st  BY <2>1, <2>3, <2>5, <2>11
    <3>2. \A x \in Tok : Life(x)'  BY <1>0, <2>1, <3>1 DEF Life
    <3>3. ASSUME NEW j \in DOMAIN h PROVE Live(h[j].g)'  BY <1>0, <2>1, <2>3, <3>1 DEF Heap, Live
    <3>4. Heap'  BY <2>2, <2>9, <3>3 DEF Heap, Live
    <3>5. Wakers'  BY <1>0, <2>1, <3>1 DEF Wakers
    <3> QED  BY <3>2, <3>4, <3>5 DEF Core
  <2> QED  BY <2>10, <2>11
<1>2. CASE PopReady
  <2>1. /\ sg # None /\ Goready(sg) /\ sg' = None
        /\ UNCHANGED <<st, tg, kind, heap, stopped, obj, cur, upc, stopWon>>
    BY <1>2 DEF PopReady, tokens, ticker, user, ghosts
  <2>2. PICK k \in Tok : k = sg  BY <1>0, <2>1
  <2>3. pc[k] = "parked" /\ st[k] = "fired"  BY <1>0, <2>1, <2>2 DEF Wakers
  <2>4. pc'[k] = "woken" /\ broken' = broken /\ \A h \in Tok : h # k => pc'[h] = pc[h]
    BY <1>0, <2>1, <2>2, <2>3, GoreadyEffect
  <2>5. \A h \in Tok : h # k => Same(h)  BY <2>1, <2>4 DEF Same
  <2>6. Life(k)  BY <1>0
  <2>7. Life(k)'  BY <2>1, <2>3, <2>4, <2>6 DEF Life
  <2>8. \A i \in DOMAIN heap : heap[i].g = k => Live(k)'  BY <1>0, <2>3 DEF Heap, Live
  <2>9. (\A h \in Tok : Life(h)') /\ Heap'  BY <1>0, <2>1, <2>5, <2>7, <2>8, OneMoves
  <2>10. upc' = "ready" => pc'[cur'] = "parked" /\ st'[cur'] = "cancelled"  BY <1>0, <2>1, <2>3, <2>4 DEF Wakers
  <2>11. Wakers'  BY <1>0, <2>1, <2>4, <2>10 DEF Wakers
  <2> QED  BY <2>9, <2>11 DEF Core
<1>3. CASE StartNap \/ Clock
  <2>1. UNCHANGED <<st, tg, kind, pc, heap, stopped, stopWon, sg, broken, cur, obj, upc>>
    BY <1>3 DEF StartNap, Clock, tokens, sleepers, ticker, user, ghosts
  <2>2. \A h \in Tok : Life(h)'  BY <1>0, <2>1 DEF Life
  <2>3. Heap'  BY <1>0, <2>1 DEF Heap, Live
  <2>4. Wakers'  BY <1>0, <2>1 DEF Wakers
  <2> QED  BY <2>2, <2>3, <2>4 DEF Core
<1>4. CASE EndNap
  <2>1. UNCHANGED <<st, tg, kind, pc, stopped, stopWon, sg, broken, cur, obj, upc>>
    BY <1>4 DEF EndNap, tokens, ticker, user, ghosts
  <2>2. \A h \in Tok : Life(h)'  BY <1>0, <2>1 DEF Life
  <2>3. PICK h : h = heap'  OBVIOUS
  <2>4. DOMAIN h = DOMAIN heap /\ \A i \in DOMAIN heap : h[i].g = heap[i].g
    BY <1>0, <1>4, <2>3, AgeEffect DEF EndNap
  <2>5. ASSUME NEW j \in DOMAIN h PROVE Live(h[j].g)'  BY <1>0, <2>1, <2>4 DEF Heap, Live
  <2>6. \A a, b \in DOMAIN h : h[a].g = h[b].g => a = b  BY <1>0, <2>4 DEF Heap
  <2>7. Heap'  BY <2>3, <2>5, <2>6 DEF Heap, Live
  <2>8. Wakers'  BY <1>0, <2>1 DEF Wakers
  <2> QED  BY <2>2, <2>7, <2>8 DEF Core
<1> QED  BY <1>1, <1>2, <1>3, <1>4 DEF Sysmon

\* Only a Reset of the Ticker counts.
LEMMA ResetsStep ==
  ASSUME [Next]_vars
  PROVE  resets' = resets \/ (\E d \in D : ResetTicker(d))
<1>1. CASE UNCHANGED vars  BY <1>1, Stutter
<1>2. ASSUME NEW k \in Tok, Run(k) PROVE resets' = resets
  BY <1>2 DEF Run, Top, Park, Push, Woken, Send, Rearm, RearmState, ghosts
<1>3. ASSUME NEW d \in D, Sleep(d) \/ ResetTimer(d) \/ \E o \in Obj : New(o, d) PROVE resets' = resets
  BY <1>3 DEF Sleep, ResetTimer, New, ghosts
<1>4. CASE Stop \/ Serve  BY <1>4 DEF Stop, Serve, Clear, Cancel, CancelReady, Respawn, ghosts
<1>5. CASE Sysmon \/ Clock  BY <1>5 DEF Sysmon, Pop, PopReady, StartNap, EndNap, Clock, ghosts
<1> QED  BY <1>1, <1>2, <1>3, <1>4, <1>5 DEF Next

\* Core holds on as long as no Ticker has been Reset.
LEMMA StepCore ==
  ASSUME Inv, [Next]_vars, resets' = 0
  PROVE  Core'
<1>0. TypeOK /\ User /\ resets \in Nat  BY DEF Inv, TypeOK, Others
<1>1. ASSUME NEW d \in D PROVE ~ResetTicker(d)
  <2>1. ResetTicker(d) => resets' = resets + 1  BY DEF ResetTicker
  <2> QED  BY <1>0, <2>1
<1>2. Core  BY <1>1, ResetsStep DEF Inv
<1>3. CASE UNCHANGED vars
  <2>1. UNCHANGED <<st, tg, kind, pc, heap, stopped, stopWon, sg, broken, cur, obj, upc>>  BY <1>3, Stutter
  <2>2. \A h \in Tok : Life(h)'  BY <1>2, <2>1 DEF Core, Life
  <2>3. Heap'  BY <1>2, <2>1 DEF Core, Heap, Live
  <2>4. Wakers'  BY <1>2, <2>1 DEF Core, Wakers
  <2> QED  BY <2>2, <2>3, <2>4 DEF Core
<1>4. CASE Next
  BY <1>0, <1>1, <1>2, <1>4, RunCore, SpawnCore, UserCore, SysmonCore DEF Next, Serve
<1> QED  BY <1>3, <1>4

-----------------------------------------------------------------------------
(* The theorems.                                                           *)

\* The initial states.
LEMMA InitInv == Init => Inv
<1> SUFFICES ASSUME Init PROVE Inv  OBVIOUS
<1>1. None \notin Tok /\ None \notin Obj  BY Names
<1>2. heap = <<>> /\ DOMAIN heap = {}  BY DEF Init
<1>3. Goroutines
  <2>1. st \in [Tok -> States] /\ pc \in [Tok -> Labels]  BY DEF Init, States, Labels
  <2>2. tg \in [Tok -> BOOLEAN] /\ kind \in [Tok -> Obj \cup {"sleep", None}] /\ dur \in [Tok -> Nat]  BY DEF Init
  <2>3. \A k \in Tok : pc[k] = "dead"  BY DEF Init
  <2> QED  BY <2>1, <2>2, <2>3 DEF Goroutines
<1>4. Others
  <2>1. <<>> \in Seq(Entry)  OBVIOUS
  <2> QED  BY <1>2, <2>1 DEF Init, Others
<1>5. User  BY DEF Init, User
<1>6. Sorted /\ OversleepsByScan  BY <1>2 DEF Init, Sorted, OversleepsByScan
<1>7. ASSUME NEW k \in Tok PROVE Life(k)
  <2>1. st[k] = "armed" /\ tg[k] = FALSE /\ kind[k] = None /\ pc[k] = "dead" /\ stopWon = {}  BY DEF Init
  <2>2. kind[k] # "timer"  BY <1>1, <2>1 DEF Obj
  <2> QED  BY <2>1, <2>2 DEF Life
<1>8. Heap  BY <1>2 DEF Heap
<1>9. Wakers  BY DEF Init, Wakers
<1> QED  BY <1>3, <1>4, <1>5, <1>6, <1>7, <1>8, <1>9 DEF Inv, TypeOK, Core

\* Inv is an invariant of the specification.
LEMMA InvInductive == Spec => []Inv
<1>1. Init => Inv  BY InitInv
<1>2. Inv /\ [Next]_vars => Inv'
  <2> SUFFICES ASSUME Inv, [Next]_vars PROVE Inv'  OBVIOUS
  <2>1. TypeOK' /\ User'  BY StepType DEF Inv
  <2>2. Sorted' /\ OversleepsByScan'  BY StepSorted, StepOversleep DEF Inv
  <2>3. resets' = 0 => Core'  BY StepCore
  <2> QED  BY <2>1, <2>2, <2>3 DEF Inv
<1> QED  BY <1>1, <1>2, PTL DEF Spec

\* Every variable keeps its type, whatever the users of Sleep, Timer and Ticker call and
\* however sysmon, timer_cancel and the sleepers interleave; the heap holds entries only.
THEOREM TypeCorrect == Spec => []TypeOK
<1>1. Inv => TypeOK  BY DEF Inv
<1> QED  BY <1>1, InvInductive, PTL

\* goready meets a parked goroutine (its debug assertion holds) in every program that does
\* not Reset a Ticker: of sysmon and timer_cancel exactly one wins the token, and an entry
\* left behind by a cancel never finds its token armed again.
THEOREM GoreadyMeetsParked == Spec => []OnlyResetBreaks
<1>1. Inv => OnlyResetBreaks
  <2> SUFFICES ASSUME Inv, broken PROVE resets > 0  BY DEF OnlyResetBreaks
  <2>1. resets \in Nat  BY DEF Inv, TypeOK, Others
  <2>2. resets # 0  BY DEF Inv, Core, Wakers
  <2> QED  BY <2>1, <2>2
<1> QED  BY <1>1, InvInductive, PTL

\* A Timer whose Stop or Reset returned true does not deliver: its cancelled token stays
\* cancelled until its goroutine is gone, however late sysmon meets the entry.
THEOREM StoppedTimersDoNotFire == Spec => []StopPreventsFire
<1>1. Inv => StopPreventsFire
  <2> SUFFICES ASSUME Inv, NEW k \in stopWon PROVE pc[k] # "send"  BY DEF StopPreventsFire
  <2>1. stopWon \subseteq Tok /\ resets \in Nat  BY DEF Inv, TypeOK, Others
  <2>2. obj = "timer"  BY DEF Inv, User
  <2>3. ~(resets > 0)  BY <2>2 DEF Inv, User
  <2>4. Life(k)  BY <2>1, <2>3 DEF Inv, Core
  <2> QED  BY <2>4 DEF Life
<1> QED  BY <1>1, InvInductive, PTL

\* sysmon never naps past a deadline in the heap by more than the time from its reading of
\* the clock (once a round, before the poll and the pops) to the nap, unless it has been
\* signalled: a push that is earlier than all the others signals, and one that is not is no
\* earlier than what the nap was made for.
THEOREM SysmonOversleepsByScan == Spec => []OversleepsByScan
<1>1. Inv => OversleepsByScan  BY DEF Inv
<1> QED  BY <1>1, InvInductive, PTL

\* While no Ticker has been Reset, sysmon fires a parked sleeper by its own entry, which
\* is the only one it has in the heap, and not before it is due.
NeverEarly ==
    \A k \in Tok : resets = 0 /\ pc[k] = "parked" /\ st[k] # "fired" /\ st'[k] = "fired" =>
        \E i \in DOMAIN heap : /\ heap[i].g = k /\ heap[i].left = 0
                               /\ \A j \in DOMAIN heap : heap[j].g = k => j = i

\* The only steps that fire a token are those of its own goroutine that does not park, and
\* sysmon's.
LEMMA WhoFires ==
  ASSUME TypeOK, User, [Next]_vars, NEW k \in Tok, pc[k] = "parked", st[k] # "fired", st'[k] = "fired"
  PROVE  Pop
<1>0. st \in [Tok -> States] /\ pc \in [Tok -> Labels]  BY DEF TypeOK, Goroutines
<1>1. CASE UNCHANGED vars  BY <1>1, Stutter
<1>2. ASSUME NEW x \in Tok, Run(x) PROVE FALSE
  <2>1. CASE Top(x) \/ Woken(x) \/ Send(x) \/ Rearm(x)
    BY <2>1 DEF Top, Woken, Send, Rearm, tokens
  <2>2. CASE RearmState(x)  BY <1>0, <2>2 DEF RearmState
  <2>4. CASE Push(x)  BY <2>4 DEF Push
  <2>3. CASE Park(x)
    <3>1. pc[x] = "park"  BY <2>3 DEF Park
    <3>2. x # k  BY <3>1
    <3>3. st' = st \/ st' = [st EXCEPT ![x] = IF @ = "armed" THEN "fired" ELSE @]  BY <2>3 DEF Park
    <3> QED  BY <1>0, <3>2, <3>3
  <2> QED  BY <1>2, <2>1, <2>2, <2>3, <2>4 DEF Run
<1>3. ASSUME NEW d \in D, ResetTimer(d) \/ ResetTicker(d) PROVE FALSE
  BY <1>3 DEF ResetTimer, ResetTicker, tokens
<1>4. ASSUME NEW d \in D, Sleep(d) PROVE FALSE
  <2>1. PICK x \in Free : Spawn(x, "sleep", d)  BY <1>4 DEF Sleep
  <2>2. x \in Tok /\ pc[x] = "dead"  BY FreeToken
  <2> QED  BY <1>0, <2>1, <2>2 DEF Spawn
<1>5. ASSUME NEW d \in D, NEW o \in Obj, New(o, d) PROVE FALSE
  <2>1. PICK x \in Free : Spawn(x, o, d)  BY <1>5 DEF New
  <2>2. x \in Tok /\ pc[x] = "dead"  BY FreeToken
  <2> QED  BY <1>0, <2>1, <2>2 DEF Spawn
<1>6. CASE Respawn
  <2>1. PICK x \in Free : Spawn(x, obj, call)  BY <1>6 DEF Respawn
  <2>2. x \in Tok /\ pc[x] = "dead"  BY FreeToken
  <2> QED  BY <1>0, <2>1, <2>2 DEF Spawn
<1>7. CASE Stop \/ Clear \/ CancelReady  BY <1>7 DEF Stop, Clear, CancelReady, tokens
<1>8. CASE Cancel
  <2>1. st' = st \/ st' = [st EXCEPT ![cur] = "cancelled"]  BY <1>8 DEF Cancel
  <2> QED  BY <1>0, <2>1
<1>9. CASE PopReady \/ StartNap \/ EndNap \/ Clock
  BY <1>9 DEF PopReady, StartNap, EndNap, Clock, tokens
<1> QED  BY <1>1, <1>2, <1>3, <1>4, <1>5, <1>6, <1>7, <1>8, <1>9 DEF Next, Serve, Sysmon

\* Nothing fires early: what sysmon pops is due, because the heap is in the order of the
\* deadlines, and it belongs to the park that it ends, because the token has no other entry.
THEOREM NothingFiresEarly == Spec => [][NeverEarly]_vars
<1>1. Inv /\ [Next]_vars => NeverEarly
  <2> SUFFICES ASSUME Inv, [Next]_vars, NEW k \in Tok, resets = 0, pc[k] = "parked", st[k] # "fired", st'[k] = "fired"
               PROVE  \E i \in DOMAIN heap : /\ heap[i].g = k /\ heap[i].left = 0
                                             /\ \A j \in DOMAIN heap : heap[j].g = k => j = i
    BY DEF NeverEarly
  <2>1. TypeOK /\ User /\ Sorted /\ Heap /\ st \in [Tok -> States]  BY DEF Inv, Core, TypeOK, Goroutines
  <2>2. Pop  BY <2>1, WhoFires
  <2>3. 1 \in DOMAIN heap /\ Head(heap) = heap[1] /\ heap[1].left = 0  BY <2>1, <2>2, DueFirst DEF Pop
  <2>4. st' = st \/ st' = [st EXCEPT ![heap[1].g] = "fired"]  BY <2>2, <2>3 DEF Pop
  <2>5. heap[1].g = k  BY <2>1, <2>4
  <2>6. \A j \in DOMAIN heap : heap[j].g = k => j = 1  BY <2>1, <2>3, <2>5 DEF Heap
  <2> QED  BY <2>3, <2>5, <2>6
<1> QED  BY <1>1, InvInductive, PTL DEF Spec

=============================================================================
