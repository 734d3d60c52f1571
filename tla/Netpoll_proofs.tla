--------------------------- MODULE Netpoll_proofs ---------------------------
(***************************************************************************)
(* Proofs about Netpoll: type correctness, WordOwner, NoLostReadiness, *)
(* StrandedOnlyInWindow and FiresOnlyDue.  All but the last say what holds *)
(* until a descriptor's memory is used again under a goroutine inside      *)
(* block; that step is the only one that breaks the invariant.             *)
(***************************************************************************)
EXTENDS Netpoll, FiniteSetTheorems, TLAPS

-----------------------------------------------------------------------------
(* The inductive invariant.                                                *)

ctl(c) == <<c, "ctl">>
Labels == {"idle", "sys", "ensure", "open", "install", "reload", "del", "remove", "check", "arm",
           "park", "parked", "resume", "panic", "apply", "unblock", "evict", "evict2", "fdclose"}
Words == {PD_NIL, PD_READY, PD_WAIT} \cup IO
Entry == [pd : PD, slot : Slot, tag : {1}, fd : Conn, shard : Shard]
Event == [slot : Slot, tag : {1}, modes : SUBSET Mode]

\* Every variable has its type; what a scan found expired was due.
TypeOK ==
    /\ word \in [PD -> [Mode -> Words]] /\ dl \in [PD -> [Mode -> Int]] /\ fdseq \in [PD -> {1, 2}]
    /\ reg \in [Slot -> PD \cup {None}] /\ pd \in [Conn -> PD \cup {None}]
    /\ fd \in [Conn -> {"open", "closed"}] /\ avail \in [IO -> BOOLEAN]
    /\ interest \subseteq Entry /\ edge \subseteq interest
    /\ pc \in [Proc -> Labels] /\ my \in [Proc -> PD \cup {None}]
    /\ arg \in [Conn -> Mode \cup {"close", None}]
    /\ batch \in [Poller -> SUBSET Event] /\ cur \in [Poller -> (PD \X SUBSET Mode) \cup {None}]
    /\ now \in Nat /\ expired \subseteq PD \X Mode \X (1..now)
    /\ firing \in (PD \X Mode) \cup {None} /\ missed \subseteq IO

\* A descriptor belongs to one connection.
Owns(c, p) == pd[c] = p \/ \E q \in Proc : q[1] = c /\ my[q] = p
OneConn == \A p \in PD, c, d \in Conn : Owns(c, p) /\ Owns(d, p) => c = d

\* Who has just opened a descriptor, or took it out of its connection, has it for itself.
Sole == {"install", "evict", "evict2", "del", "remove"}
Uses == Sole \cup {"check", "arm", "park", "parked", "resume", "apply", "unblock"}
Regd == {reg[s] : s \in Slot}
Holds(q) ==
    /\ pc[q] \in Uses => my[q] \in PD
    /\ pc[q] \in Sole =>
          /\ my[q] \in Regd
          /\ \A c \in Conn : pd[c] # my[q]
          /\ \A r \in Proc : pc[r] \in Sole /\ my[r] = my[q] => r = q
Holding == \A q \in Proc : Holds(q)

\* The registry and epoll's interest lists: what epoll reports can still be looked up.
Registry ==
    /\ \A s, t \in Slot : reg[s] # None /\ reg[s] = reg[t] => s = t
    /\ \A c \in Conn : pd[c] # None => pd[c] \in Regd
    /\ \A i \in interest : reg[i.slot] = i.pd /\ fdseq[i.pd] = 1
    /\ \A i \in interest, q \in Proc : pc[q] = "remove" => i.pd # my[q]
    /\ \A i \in interest, c \in Conn : Owns(c, i.pd) => i.fd = c
\* A descriptor is registered at most once.
Single == \A i, j \in interest : i.pd = j.pd => i = j

\* What the controller of a connection is about.
Control == \A c \in Conn :
    /\ pc[ctl(c)] # "idle" => fd[c] = "open"
    /\ pc[ctl(c)] \in {"apply", "unblock"} => my[ctl(c)] = pd[c]
    /\ pc[ctl(c)] \in {"ensure", "open", "install", "reload", "apply", "unblock", "evict", "evict2"}
          => arg[c] \in Mode
    /\ pc[ctl(c)] \in {"del", "remove"} => arg[c] \in Mode \cup {"close"}

\* From EAGAIN on, a new edge is under way to the goroutine or has reached its word.
Tells(p, m) == UnderWay(p, m) \/ word[p][m] = PD_READY
Quiet == {"idle", "sys", "panic"}
Told(g) == pc[g] \notin Quiet /\ avail[g] => \A i \in interest : i.fd = g[1] => Tells(i.pd, g[2])
Telling == \A g \in IO : Told(g)

WordsIn == \A p \in PD, m \in Mode : word[p][m] \in IO => word[p][m][2] = m

\* The word and its goroutine agree.
Agree ==
    /\ \A p \in PD, m \in Mode :
        /\ word[p][m] = PD_WAIT => \E g \in IO : pc[g] = "park" /\ my[g] = p /\ g[2] = m
        /\ word[p][m] \in IO => Parked(word[p][m]) /\ my[word[p][m]] = p
    /\ \A g \in IO : /\ Parked(g) => word[my[g]][g[2]] = g
                     /\ pc[g] # "panic"

\* A goroutine that has armed its word and nobody has unblocked.
Armed(g) == Parked(g) \/ (pc[g] = "park" /\ word[my[g]][g[2]] = PD_WAIT)
\* Close has yet to expire, or to unblock, direction m of p.
ToExpire(c, p, m) ==
    /\ my[ctl(c)] = p
    /\ \/ pc[ctl(c)] = "evict" /\ m \in {arg[c], LastMode}
       \/ pc[ctl(c)] = "evict2" /\ m # arg[c] /\ m = LastMode
ToEvict(c, p, m) ==
    my[ctl(c)] = p /\ pc[ctl(c)] \in {"evict", "evict2"} /\ m \in {arg[c], LastMode}
InBlock == {"check", "arm", "park", "parked", "resume"}
Awaited(g) ==
    /\ pc[g] \in InBlock =>
          \/ pd[g[1]] = my[g] \/ dl[my[g]][g[2]] < 0 \/ ToExpire(g[1], my[g], g[2])
    /\ Armed(g) /\ g \notin missed =>
          /\ dl[my[g]][g[2]] < 0 => Expiring(my[g], g[2])
          /\ pd[g[1]] = my[g] \/ ToEvict(g[1], my[g], g[2])
Awaiting == \A g \in IO : Awaited(g)

Inv == TypeOK /\ OneConn /\ Holding /\ Registry /\ Single /\ Control /\ WordsIn /\ Agree
       /\ Telling /\ Awaiting
-----------------------------------------------------------------------------
(* Names, slots and the effects of the steps that several proofs share.    *)

\* A goroutine is a connection and a direction; nobody is called None.
LEMMA Names ==
    /\ \A g \in IO : g[1] \in Conn /\ g[2] \in Mode /\ g \in Proc /\ g = <<g[1], g[2]>>
    /\ \A c \in Conn : ctl(c) \in Proc /\ ctl(c)[1] = c /\ ctl(c) \notin IO /\ <<c, "ctl">> = ctl(c)
    /\ \A q \in Proc : q[1] \in Conn /\ (q \in IO \/ q = ctl(q[1]))
    /\ None \notin PD /\ None \notin Proc /\ None \notin PD \X Mode /\ None \notin PD \X SUBSET Mode
    /\ PD_NIL \notin IO /\ PD_READY \notin IO /\ PD_WAIT \notin IO
    /\ PD_NIL # PD_READY /\ PD_READY # PD_WAIT /\ PD_WAIT # PD_NIL
    /\ FirstMode \in Mode /\ LastMode \in Mode /\ Mode \subseteq {FirstMode, LastMode}
    /\ "close" \notin Mode /\ "ctl" \notin Mode
<1>1. Mode \subseteq {"r", "w"} /\ Mode # {}  BY NetpollAssumption
<1>2. "close" \notin Mode /\ "ctl" \notin Mode  BY <1>1
<1>3. FirstMode \in Mode /\ LastMode \in Mode /\ Mode \subseteq {FirstMode, LastMode}
  BY <1>1 DEF FirstMode, LastMode
<1>4. \A g \in IO : g[1] \in Conn /\ g[2] \in Mode /\ g \in Proc /\ g = <<g[1], g[2]>>
  BY DEF IO, Proc
<1>5. \A c \in Conn : ctl(c) \in Proc /\ ctl(c)[1] = c /\ ctl(c) \notin IO /\ <<c, "ctl">> = ctl(c)
  BY <1>2 DEF IO, Proc, Ctl, ctl
<1>6. \A q \in Proc : q[1] \in Conn /\ (q \in IO \/ q = ctl(q[1]))
  BY DEF IO, Proc, Ctl, ctl
<1>7. None \notin PD /\ None \notin Proc /\ None \notin PD \X Mode /\ None \notin PD \X SUBSET Mode
  BY NetpollAssumption, Zenon
<1>8. PD_NIL \notin IO /\ PD_READY \notin IO /\ PD_WAIT \notin IO  BY NetpollAssumption
<1>9. PD_NIL # PD_READY /\ PD_READY # PD_WAIT /\ PD_WAIT # PD_NIL  BY NetpollAssumption
<1> QED  BY <1>2, <1>3, <1>4, <1>5, <1>6, <1>7, <1>8, <1>9

\* While a descriptor is free there is a free slot in the registry.
LEMMA SlotLeft ==
  ASSUME Registry, reg \in [Slot -> PD \cup {None}], NEW n \in PD, n \notin Allocated
  PROVE  FreeSlot \in Slot /\ reg[FreeSlot] = None
<1>1. IsFiniteSet(PD) /\ Cardinality(PD) \in Nat  BY NetpollAssumption, FS_CardinalityType
<1>2. IsFiniteSet(Slot) /\ Cardinality(Slot) = Cardinality(PD)
  BY <1>1, FS_Interval DEF Slot
<1>3. IsFiniteSet(PD \ {n}) /\ Cardinality(PD \ {n}) = Cardinality(PD) - 1
  BY <1>1, FS_RemoveElement
<1>4. ASSUME \A s \in Slot : reg[s] # None PROVE FALSE
  <2>1. \A s \in Slot : reg[s] # n  BY DEF Allocated
  <2>2. reg \in [Slot -> PD \ {n}]  BY <1>4, <2>1
  <2>3. Cardinality(PD \ {n}) < Cardinality(Slot)  BY <1>1, <1>2, <1>3
  <2>4. \E s, t \in Slot : s # t /\ reg[s] = reg[t]  BY <1>2, <1>3, <2>2, <2>3, FS_PigeonHole
  <2> QED  BY <1>4, <2>4 DEF Registry
<1> QED  BY <1>4 DEF FreeSlot, SlotOf

\* unblock moves the words of the directions ms of p, and makes those it takes off run.
LEMMA UnblockEffect ==
  ASSUME TypeOK, NEW p \in PD, NEW ms, ms \subseteq Mode, NEW io \in BOOLEAN, NEW caller, NEW l \in Labels,
         Unblock(p, ms, io, caller, l)
  PROVE  /\ word' \in [PD -> [Mode -> Words]] /\ pc' \in [Proc -> Labels]
         /\ \A r \in PD, m \in Mode : word'[r][m] =
                IF r = p /\ m \in ms THEN Unblocked(word[r][m], io) ELSE word[r][m]
         /\ \A q \in Proc : pc'[q] =
                IF q \in IO /\ (\E m \in ms : word[p][m] = q) THEN "resume"
                ELSE IF q = caller THEN l ELSE pc[q]
<1>1. word \in [PD -> [Mode -> Words]] /\ pc \in [Proc -> Labels]  BY DEF TypeOK
<1>2. \A m \in Mode : Unblocked(word[p][m], io) \in Words  BY <1>1 DEF Unblocked, Words
<1>3. word' = [word EXCEPT ![p] = [m \in Mode |->
            IF m \in ms THEN Unblocked(word[p][m], io) ELSE word[p][m]]]
  BY <1>1 DEF Unblock
<1>4. pc' = [q \in Proc |-> IF q \in Parkers(p, ms) THEN "resume" ELSE IF q = caller THEN l ELSE pc[q]]
  BY DEF Unblock
<1>5. \A q : q \in Parkers(p, ms) <=> q \in IO /\ \E m \in ms : word[p][m] = q  BY DEF Parkers
<1>6. word' \in [PD -> [Mode -> Words]]  BY <1>1, <1>2, <1>3
<1>7. \A r \in PD, m \in Mode : word'[r][m] =
        IF r = p /\ m \in ms THEN Unblocked(word[r][m], io) ELSE word[r][m]
  BY <1>1, <1>3
<1>8. pc' \in [Proc -> Labels]  BY <1>1, <1>4 DEF Labels
<1> QED  BY <1>4, <1>5, <1>6, <1>7, <1>8
\* Writing one word, or one deadline.
LEMMA SetEffect ==
  ASSUME TypeOK, NEW p \in PD, NEW m \in Mode
  PROVE  /\ \A v \in Words : SetWord(p, m, v) =>
                /\ word' \in [PD -> [Mode -> Words]]
                /\ \A r \in PD, k \in Mode : word'[r][k] = IF r = p /\ k = m THEN v ELSE word[r][k]
         /\ \A v \in Int : SetDl(p, m, v) =>
                /\ dl' \in [PD -> [Mode -> Int]]
                /\ \A r \in PD, k \in Mode : dl'[r][k] = IF r = p /\ k = m THEN v ELSE dl[r][k]
<1>1. word \in [PD -> [Mode -> Words]] /\ dl \in [PD -> [Mode -> Int]]  BY DEF TypeOK
<1>2. ASSUME NEW S, NEW f \in [PD -> [Mode -> S]], NEW v \in S, NEW h, h = [f EXCEPT ![p][m] = v]
      PROVE  /\ h \in [PD -> [Mode -> S]]
             /\ \A r \in PD, k \in Mode : h[r][k] = IF r = p /\ k = m THEN v ELSE f[r][k]
  BY <1>2
<1>3. \A v \in Words : SetWord(p, m, v) =>
        /\ word' \in [PD -> [Mode -> Words]]
        /\ \A r \in PD, k \in Mode : word'[r][k] = IF r = p /\ k = m THEN v ELSE word[r][k]
  BY <1>1, <1>2 DEF SetWord
<1>4. \A v \in Int : SetDl(p, m, v) =>
        /\ dl' \in [PD -> [Mode -> Int]]
        /\ \A r \in PD, k \in Mode : dl'[r][k] = IF r = p /\ k = m THEN v ELSE dl[r][k]
  BY <1>1, <1>2 DEF SetDl
<1> QED  BY <1>3, <1>4

-----------------------------------------------------------------------------
(* Types.                                                                  *)

\* The kernel, the goroutines' calls and the deadlines keep the types.
LEMMA TypeIO ==
  ASSUME Inv, NEW g \in IO, Arrive(g) \/ Call(g) \/ Sys(g) \/ Check(g) \/ Arm(g) \/ Commit(g) \/ Resume(g)
  PROVE  TypeOK'
<1>0. TypeOK /\ g \in Proc /\ g[1] \in Conn /\ g[2] \in Mode  BY Names DEF Inv
<1>1. pc[g] \in Uses => my[g] \in PD  BY <1>0 DEF Inv, Holding, Holds
<1>2. PD_NIL \in Words /\ PD_READY \in Words /\ PD_WAIT \in Words /\ g \in Words  BY DEF Words
<1>3. CASE Arrive(g)  BY <1>0, <1>3 DEF TypeOK, Arrive, desc, procs, pollers
<1>4. CASE Call(g)  BY <1>0, <1>4 DEF TypeOK, Call, Goto, Labels, desc, kernel, pollers
<1>5. CASE Sys(g)  BY <1>0, <1>5 DEF TypeOK, Sys, Return, Goto, Labels, desc, pollers
<1>6. CASE Check(g)  BY <1>0, <1>6 DEF TypeOK, Check, Return, Goto, Labels, desc, kernel, pollers
<1>7. CASE Arm(g)
  <2>1. my[g] \in PD  BY <1>1, <1>7 DEF Arm, Uses
  <2>2. word' \in [PD -> [Mode -> Words]]
    BY <1>0, <1>2, <1>7, <2>1 DEF TypeOK, Arm, SetWord
  <2>3. pc' \in [Proc -> Labels] /\ my' \in [Proc -> PD \cup {None}] /\ missed' \subseteq IO
    BY <1>0, <1>7, <2>1 DEF TypeOK, Arm, Goto, Labels
  <2> QED  BY <1>0, <1>7, <2>2, <2>3 DEF TypeOK, Arm, kernel, pollers
<1>8. CASE Commit(g)
  <2>1. my[g] \in PD  BY <1>1, <1>8 DEF Commit, Uses
  <2>2. word' \in [PD -> [Mode -> Words]]
    BY <1>0, <1>2, <1>8, <2>1, SetEffect DEF TypeOK, Commit, Committed
  <2> QED  BY <1>0, <1>8, <2>1, <2>2 DEF TypeOK, Commit, Goto, Labels, kernel, pollers
<1>9. CASE Resume(g)
  <2>1. my[g] \in PD  BY <1>1, <1>9 DEF Resume, Uses
  <2>2. word' \in [PD -> [Mode -> Words]]
    BY <1>0, <1>2, <1>9, <2>1 DEF TypeOK, Resume, SetWord
  <2>3. pc' \in [Proc -> Labels] /\ my' \in [Proc -> PD \cup {None}] /\ missed' \subseteq IO
    BY <1>0, <1>9, <2>1 DEF TypeOK, Resume, Goto, Labels
  <2> QED  BY <1>0, <1>9, <2>2, <2>3 DEF TypeOK, Resume, kernel, pollers
<1> QED  BY <1>3, <1>4, <1>5, <1>6, <1>7, <1>8, <1>9

\* netpoll::open makes descriptor n for q, in shard s.
Opening(q, n, s) ==
    LET i == [pd |-> n, slot |-> FreeSlot, tag |-> 1, fd |-> q[1], shard |-> s] IN
    /\ word' = [word EXCEPT ![n] = [m \in Mode |-> PD_NIL]]
    /\ dl' = [dl EXCEPT ![n] = [m \in Mode |-> 0]]
    /\ fdseq' = [fdseq EXCEPT ![n] = 1]
    /\ reg' = [reg EXCEPT ![FreeSlot] = n]
    /\ interest' = interest \cup {i}
    /\ edge' = IF Ready(q[1]) = {} THEN edge ELSE edge \cup {i}
    /\ my' = [my EXCEPT ![q] = n]
    /\ reused' = (reused \/ n \in Pointed)
    /\ Goto(q, "install")
    /\ UNCHANGED <<fd, avail>>

\* So do ensure_pd, netpoll::open and netpoll::close.
LEMMA TypeEnsure ==
  ASSUME Inv, NEW q \in Proc, Ensure(q)
  PROVE  TypeOK'
<1>0. TypeOK /\ q[1] \in Conn  BY Names DEF Inv
<1>1. pc[q] \in Uses => my[q] \in PD  BY <1>0 DEF Inv, Holding, Holds
<1>2. CASE EnsureLoad(q)
  BY <1>0, <1>2 DEF TypeOK, EnsureLoad, Goto, Body, Labels, desc, kernel, pollers
<1>3. CASE Open(q)
  <2>1. PICK s \in Shard : Open(q)!(s)  BY <1>3 DEF Open
  <2>2. CASE fd[q[1]] = "closed" \/ EExist(q[1], s)
    BY <1>0, <2>1, <2>2 DEF TypeOK, Goto, Labels, desc, kernel, pollers
  <2>3. CASE ~(fd[q[1]] = "closed" \/ EExist(q[1], s))
    <3>1. PICK n \in PD \ Allocated : Opening(q, n, s)  BY <2>1, <2>3 DEF Opening
    <3> DEFINE i == [pd |-> n, slot |-> FreeSlot, tag |-> 1, fd |-> q[1], shard |-> s]
    <3>2. FreeSlot \in Slot  BY <1>0, <3>1, SlotLeft DEF Inv, TypeOK
    <3>3. i \in Entry  BY <1>0, <3>1, <3>2 DEF Entry
    <3> HIDE DEF i
    <3>4. /\ word' = [word EXCEPT ![n] = [m \in Mode |-> PD_NIL]]
          /\ dl' = [dl EXCEPT ![n] = [m \in Mode |-> 0]]
          /\ fdseq' = [fdseq EXCEPT ![n] = 1]
          /\ reg' = [reg EXCEPT ![FreeSlot] = n]
          /\ interest' = interest \cup {i}
          /\ edge' = IF Ready(q[1]) = {} THEN edge ELSE edge \cup {i}
          /\ my' = [my EXCEPT ![q] = n]
          /\ Goto(q, "install")
          /\ UNCHANGED <<fd, avail, pd, arg, pollers, now, missed>>
      BY <2>1, <3>1 DEF Opening, i
    <3>5. PD_NIL \in Words  BY DEF Words
    <3>6. word' \in [PD -> [Mode -> Words]] /\ dl' \in [PD -> [Mode -> Int]]
      BY <1>0, <3>1, <3>4, <3>5 DEF TypeOK
    <3>7. interest' \subseteq Entry /\ edge' \subseteq interest'
      BY <1>0, <3>3, <3>4 DEF TypeOK
    <3>8. fdseq' \in [PD -> {1, 2}] /\ reg' \in [Slot -> PD \cup {None}]
      BY <1>0, <3>1, <3>2, <3>4 DEF TypeOK
    <3>9. pc' \in [Proc -> Labels] /\ my' \in [Proc -> PD \cup {None}]
      BY <1>0, <3>1, <3>4 DEF TypeOK, Goto, Labels
    <3> QED  BY <1>0, <3>4, <3>6, <3>7, <3>8, <3>9 DEF TypeOK, pollers
  <2> QED  BY <2>2, <2>3
<1>4. CASE Install(q)
  BY <1>0, <1>1, <1>4 DEF TypeOK, Install, Goto, Body, Labels, Uses, Sole, desc, kernel, pollers
<1>5. CASE EnsureReload(q)
  BY <1>0, <1>5 DEF TypeOK, EnsureReload, Goto, Body, Labels, desc, kernel, pollers
<1>6. CASE Del(q)
  <2>1. my[q] \in PD  BY <1>1, <1>6 DEF Del, Uses, Sole
  <2> QED  BY <1>0, <1>6, <2>1 DEF TypeOK, Del, Goto, Labels, pollers
<1>7. CASE Remove(q)
  BY <1>0, <1>7 DEF TypeOK, Remove, Goto, Labels, desc, kernel, pollers
<1> QED  BY <1>2, <1>3, <1>4, <1>5, <1>6, <1>7 DEF Ensure

\* So do SetDeadline and Close, the pollers and sysmon.
LEMMA TypeControl ==
  ASSUME Inv, NEW c \in Conn,
         CallSetDeadline(c) \/ CallClose(c) \/ Apply(c) \/ ApplyUnblock(c) \/ Evict(c) \/ EvictUnblock(c) \/ FdClose(c)
  PROVE  TypeOK'
<1> DEFINE q == ctl(c)
<1>0. TypeOK /\ q \in Proc /\ <<c, "ctl">> = q  BY Names DEF Inv
<1>1. pc[q] \in Uses => my[q] \in PD  BY <1>0 DEF Inv, Holding, Holds
<1>2. pc[q] \in {"apply", "unblock", "evict", "evict2"} => arg[c] \in Mode  BY DEF Inv, Control
<1>3. FirstMode \in Mode /\ LastMode \in Mode  BY Names
<1> HIDE DEF q
<1>4. CASE CallSetDeadline(c)
  BY <1>0, <1>4 DEF TypeOK, CallSetDeadline, Goto, Labels, desc, kernel, pollers
<1>5. CASE CallClose(c)
  BY <1>0, <1>3, <1>5 DEF TypeOK, CallClose, Goto, Labels, desc, kernel, pollers
<1>6. CASE Apply(c)
  <2>1. PICK v \in {-1, 0} \cup now + 1..MaxTime :
            /\ SetDl(my[q], arg[c], v)
            /\ IF v < 0 THEN Goto(q, "unblock") /\ UNCHANGED <<my, arg>>
                        ELSE Return(q) /\ arg' = [arg EXCEPT ![c] = None]
    BY <1>0, <1>6 DEF Apply
  <2>0. v \in Int
    <3>1. now \in Nat /\ MaxTime \in Nat  BY <1>0, NetpollAssumption DEF TypeOK
    <3> QED  BY <3>1
  <2>2. v \in Int /\ my[q] \in PD /\ arg[c] \in Mode
    <3>1. pc[q] = "apply"  BY <1>0, <1>6 DEF Apply
    <3> QED  BY <2>0, <3>1, <1>1, <1>2 DEF Uses
  <2>3. dl' \in [PD -> [Mode -> Int]]  BY <1>0, <2>1, <2>2, SetEffect
  <2> QED  BY <1>0, <1>6, <2>1, <2>3 DEF TypeOK, Apply, Return, Goto, Labels, kernel, pollers
<1>7. CASE ApplyUnblock(c)
  <2>1. my[q] \in PD /\ arg[c] \in Mode /\ Unblock(my[q], {arg[c]}, FALSE, q, "idle")
    BY <1>0, <1>1, <1>2, <1>7 DEF ApplyUnblock, Uses
  <2>2. word' \in [PD -> [Mode -> Words]] /\ pc' \in [Proc -> Labels]
    <3>1. {arg[c]} \subseteq Mode /\ "idle" \in Labels /\ FALSE \in BOOLEAN  BY <2>1 DEF Labels
    <3> QED  BY <1>0, <2>1, <3>1, UnblockEffect
  <2> QED  BY <1>0, <1>7, <2>2 DEF TypeOK, ApplyUnblock, kernel, pollers
<1>8. CASE Evict(c)
  <2>1. my[q] \in PD /\ arg[c] \in Mode /\ SetDl(my[q], arg[c], -1)
    BY <1>0, <1>1, <1>2, <1>8 DEF Evict, Uses, Sole
  <2>2. dl' \in [PD -> [Mode -> Int]]  BY <1>0, <2>1, SetEffect
  <2> QED  BY <1>0, <1>8, <2>2 DEF TypeOK, Evict, Goto, Labels, kernel, pollers
<1>9. CASE EvictUnblock(c)
  <2>1. my[q] \in PD /\ arg[c] \in Mode /\ Unblock(my[q], {arg[c]}, FALSE, q, AfterMode(arg[c]))
    BY <1>0, <1>1, <1>2, <1>9 DEF EvictUnblock, Uses, Sole
  <2>2. word' \in [PD -> [Mode -> Words]] /\ pc' \in [Proc -> Labels]
    <3>1. {arg[c]} \subseteq Mode /\ AfterMode(arg[c]) \in Labels /\ FALSE \in BOOLEAN
      BY <2>1 DEF Labels, AfterMode
    <3> QED  BY <1>0, <2>1, <3>1, UnblockEffect
  <2> QED  BY <1>0, <1>3, <1>9, <2>2 DEF TypeOK, EvictUnblock, kernel, pollers
<1>10. CASE FdClose(c)
  BY <1>0, <1>10 DEF TypeOK, FdClose, Goto, Labels, desc, pollers
<1> QED  BY <1>4, <1>5, <1>6, <1>7, <1>8, <1>9, <1>10

\* The pollers keep the types.
LEMMA TypePoll ==
  ASSUME Inv, NEW t \in Poller, PollStep(t)
  PROVE  TypeOK'
<1>0. TypeOK  BY DEF Inv
<1>1. ASSUME NEW s \in Shard, Fetch(t, s) PROVE TypeOK'
  <2>1. Events(s) \subseteq Event
    <3>1. \A c : Ready(c) \subseteq Mode  BY DEF Ready
    <3>2. \A i \in edge : i.slot \in Slot /\ i.tag = 1  BY <1>0 DEF TypeOK, Entry
    <3> QED  BY <3>1, <3>2 DEF Events, Event
  <2> QED  BY <1>0, <1>1, <2>1 DEF TypeOK, Fetch, desc, procs
<1>2. CASE Lookup(t)
  <2>1. PICK e \in batch[t] :
            /\ batch' = [batch EXCEPT ![t] = @ \ {e}]
            /\ cur' = [cur EXCEPT ![t] = IF Fresh(e, reg[e.slot]) THEN <<reg[e.slot], e.modes>> ELSE None]
            /\ UNCHANGED <<desc, reg, kernel, pd, procs, expired, firing, now, missed>>
    BY <1>2 DEF Lookup
  <2>2. e \in Event  BY <1>0, <2>1 DEF TypeOK
  <2>3. reg[e.slot] \in PD \cup {None} /\ e.modes \in SUBSET Mode  BY <1>0, <2>2 DEF TypeOK, Event
  <2>4. Fresh(e, reg[e.slot]) => <<reg[e.slot], e.modes>> \in PD \X SUBSET Mode
    BY <2>3 DEF Fresh
  <2>5. cur' \in [Poller -> (PD \X SUBSET Mode) \cup {None}]
    BY <1>0, <2>1, <2>4 DEF TypeOK
  <2>6. batch' \in [Poller -> SUBSET Event]  BY <1>0, <2>1 DEF TypeOK
  <2> QED  BY <1>0, <2>1, <2>5, <2>6 DEF TypeOK, desc, kernel, procs
<1>3. CASE Deliver(t)
  <2>1. cur[t][1] \in PD /\ cur[t][2] \subseteq Mode  BY <1>0, <1>3 DEF TypeOK, Deliver
  <2>2. Unblock(cur[t][1], cur[t][2], TRUE, None, "idle")  BY <1>3 DEF Deliver
  <2>3. word' \in [PD -> [Mode -> Words]] /\ pc' \in [Proc -> Labels]
    <3>1. "idle" \in Labels /\ TRUE \in BOOLEAN  BY DEF Labels
    <3> QED  BY <1>0, <2>1, <2>2, <3>1, UnblockEffect
  <2> QED  BY <1>0, <1>3, <2>3 DEF TypeOK, Deliver, kernel
<1> QED  BY <1>1, <1>2, <1>3 DEF PollStep

\* So do sysmon and the clock: what is due stays due.
LEMMA TypeSysmon ==
  ASSUME Inv, SysmonStep \/ Clock
  PROVE  TypeOK'
<1>0. TypeOK  BY DEF Inv
<1>1. CASE Scan  BY <1>0, <1>1 DEF TypeOK, Scan, desc, kernel, procs
<1>2. CASE Fire
  <2>1. PICK e \in expired :
            /\ expired' = expired \ {e}
            /\ IF StillThat(e) THEN SetDl(e[1], e[2], -1) /\ firing' = <<e[1], e[2]>>
                               ELSE UNCHANGED <<dl, firing>>
            /\ UNCHANGED <<word, fdseq, reg, kernel, pd, procs, batch, cur, now, missed>>
    BY <1>2 DEF Fire
  <2>2. e[1] \in PD /\ e[2] \in Mode  BY <1>0, <2>1 DEF TypeOK
  <2>3. dl' \in [PD -> [Mode -> Int]]
    BY <1>0, <2>1, <2>2, SetEffect DEF StillThat, TypeOK
  <2> QED  BY <1>0, <2>1, <2>2, <2>3 DEF TypeOK, StillThat, kernel, procs
<1>3. CASE FireUnblock
  <2>1. firing[1] \in PD /\ firing[2] \in Mode /\ Unblock(firing[1], {firing[2]}, FALSE, None, "idle")
    BY <1>0, <1>3 DEF TypeOK, FireUnblock
  <2>2. word' \in [PD -> [Mode -> Words]] /\ pc' \in [Proc -> Labels]
    <3>1. {firing[2]} \subseteq Mode /\ "idle" \in Labels /\ FALSE \in BOOLEAN  BY <2>1 DEF Labels
    <3> QED  BY <1>0, <2>1, <3>1, UnblockEffect
  <2> QED  BY <1>0, <1>3, <2>2 DEF TypeOK, FireUnblock, kernel
<1>4. CASE Clock  
  <2>1. now \in Nat /\ now' = now + 1 /\ 1..now \subseteq 1..now'  BY <1>0, <1>4 DEF TypeOK, Clock
  <2>2. expired' \subseteq PD \X Mode \X (1..now')  BY <1>0, <1>4, <2>1 DEF TypeOK, Clock, pollers
  <2> QED  BY <1>0, <1>4, <2>1, <2>2 DEF TypeOK, Clock, desc, kernel, procs, pollers
<1> QED  BY <1>1, <1>2, <1>3, <1>4 DEF SysmonStep

-----------------------------------------------------------------------------
(* Who owns a descriptor, and where it is registered.                      *)

\* netpoll::open gives q a descriptor n that nobody owns or points at, with one
\* registration i.
Opens(q, n, i) ==
    /\ pc[q] = "open" /\ fd[q[1]] = "open"
    /\ n \notin Allocated /\ (\A r \in Proc : my[r] # n)
    /\ FreeSlot \in Slot /\ reg[FreeSlot] = None
    /\ i.pd = n /\ i.slot = FreeSlot /\ i.tag = 1 /\ i.fd = q[1]
    /\ word' = [word EXCEPT ![n] = [m \in Mode |-> PD_NIL]]
    /\ dl' = [dl EXCEPT ![n] = [m \in Mode |-> 0]]
    /\ fdseq' = [fdseq EXCEPT ![n] = 1]
    /\ reg' = [reg EXCEPT ![FreeSlot] = n]
    /\ interest' = interest \cup {i}
    /\ edge' = IF Ready(q[1]) = {} THEN edge ELSE edge \cup {i}
    /\ my' = [my EXCEPT ![q] = n]
    /\ pc' = [pc EXCEPT ![q] = "install"]
    /\ UNCHANGED <<fd, avail, pd, arg, batch, cur, expired, firing, now, missed>>
\* ... or fails and leaves everything as it is.
OpenFails(q) ==
    /\ pc[q] = "open" /\ pc' = [pc EXCEPT ![q] = "reload"]
    /\ UNCHANGED <<desc, reg, kernel, my, pd, arg, pollers, now, missed>>

\* netpoll::open does one of the two, unless it uses memory that is still pointed at.
LEMMA OpenEffect ==
  ASSUME Inv, NEW q \in Proc, Open(q), ~reused'
  PROVE  OpenFails(q) \/ \E n \in PD, i \in Entry : Opens(q, n, i)
<1>0. TypeOK /\ q[1] \in Conn  BY Names DEF Inv
<1>1. PICK s \in Shard : Open(q)!(s)  BY DEF Open
<1>2. CASE fd[q[1]] = "closed" \/ EExist(q[1], s)
  BY <1>1, <1>2 DEF OpenFails, Goto
<1>3. CASE ~(fd[q[1]] = "closed" \/ EExist(q[1], s))
  <2>1. PICK n \in PD \ Allocated : Opening(q, n, s)  BY <1>1, <1>3 DEF Opening
  <2> DEFINE i == [pd |-> n, slot |-> FreeSlot, tag |-> 1, fd |-> q[1], shard |-> s]
  <2>2. /\ word' = [word EXCEPT ![n] = [m \in Mode |-> PD_NIL]]
        /\ dl' = [dl EXCEPT ![n] = [m \in Mode |-> 0]]
        /\ fdseq' = [fdseq EXCEPT ![n] = 1]
        /\ reg' = [reg EXCEPT ![FreeSlot] = n]
        /\ interest' = interest \cup {i}
        /\ edge' = IF Ready(q[1]) = {} THEN edge ELSE edge \cup {i}
        /\ my' = [my EXCEPT ![q] = n]
        /\ pc' = [pc EXCEPT ![q] = "install"]
        /\ UNCHANGED <<fd, avail, pd, arg, batch, cur, expired, firing, now, missed>>
    BY <1>1, <2>1 DEF Opening, Goto, pollers
  <2>7. \A r \in Proc : my[r] # n  BY <2>1 DEF Opening, Pointed
  <2>3. pc[q] = "open" /\ fd[q[1]] = "open"  BY <1>0, <1>1, <1>3 DEF TypeOK
  <2>4. FreeSlot \in Slot /\ reg[FreeSlot] = None  BY <1>0, <2>1, SlotLeft DEF Inv, TypeOK
  <2>5. i \in Entry /\ i.pd = n /\ i.slot = FreeSlot /\ i.tag = 1 /\ i.fd = q[1]
    BY <1>0, <2>1, <2>4 DEF Entry
  <2> HIDE DEF i
  <2>6. Opens(q, n, i)  BY <2>1, <2>2, <2>3, <2>4, <2>5, <2>7 DEF Opens
  <2> QED  BY <2>1, <2>5, <2>6
<1> QED  BY <1>2, <1>3

\* A step that moves no descriptor between its owners: a process takes the descriptor of
\* its connection, keeps its own, or drops it; registrations only go away.
Neutral ==
    /\ reg' = reg /\ pd' = pd /\ fdseq' = fdseq /\ interest' \subseteq interest
    /\ \A q \in Proc :
        /\ pc'[q] = "remove" => pc[q] = "remove"
        /\ pc'[q] \in Sole => pc[q] \in Sole /\ my'[q] = my[q]
        /\ pc'[q] \in Uses => \/ pc[q] \in Uses /\ my'[q] = my[q]
                              \/ my'[q] = pd[q[1]] /\ pd[q[1]] \in PD
        /\ my'[q] \in {my[q], None, pd[q[1]]}

\* Such a step leaves owners and registrations in order.
LEMMA NeutralKeeps ==
  ASSUME Inv, Neutral
  PROVE  OneConn' /\ Holding' /\ Registry'
<1>0. \A q \in Proc : q[1] \in Conn  BY Names
<1>1. None \notin PD  BY Names
<1>2. \A c, p : p # None /\ Owns(c, p)' => Owns(c, p)
  BY <1>0 DEF Neutral, Owns
<1>3. OneConn'  BY <1>1, <1>2 DEF Inv, OneConn
<1>4. Regd' = Regd  BY DEF Neutral, Regd
<1>5. Holding'
  <2> SUFFICES ASSUME NEW q \in Proc PROVE Holds(q)'  BY DEF Holding
  <2>1. pc'[q] \in Uses => my'[q] \in PD  BY DEF Inv, Holding, Holds, Neutral
  <2>2. ASSUME pc'[q] \in Sole
        PROVE  /\ my'[q] \in Regd'
               /\ \A c \in Conn : pd'[c] # my'[q]
               /\ \A r \in Proc : pc'[r] \in Sole /\ my'[r] = my'[q] => r = q
    <3>1. pc[q] \in Sole /\ my'[q] = my[q]  BY <2>2 DEF Neutral
    <3>2. my[q] \in Regd /\ \A c \in Conn : pd[c] # my[q]  BY <3>1 DEF Inv, Holding, Holds
    <3>3. \A r \in Proc : pc[r] \in Sole /\ my[r] = my[q] => r = q  BY <3>1 DEF Inv, Holding, Holds
    <3> QED  BY <1>4, <3>1, <3>2, <3>3 DEF Neutral
  <2> QED  BY <2>1, <2>2 DEF Holds
<1>6. Registry'
  <2>1. \A s, t \in Slot : reg'[s] # None /\ reg'[s] = reg'[t] => s = t  BY DEF Inv, Registry, Neutral
  <2>2. \A c \in Conn : pd'[c] # None => pd'[c] \in Regd'  BY <1>4 DEF Inv, Registry, Neutral
  <2>3. \A i \in interest' : reg'[i.slot] = i.pd /\ fdseq'[i.pd] = 1  BY DEF Inv, Registry, Neutral
  <2>4. ASSUME NEW i \in interest', NEW q \in Proc, pc'[q] = "remove" PROVE i.pd # my'[q]
    <3>1. pc'[q] \in Sole  BY <2>4 DEF Sole
    <3>2. pc[q] = "remove" /\ my'[q] = my[q] /\ i \in interest  BY <2>4, <3>1 DEF Neutral
    <3> QED  BY <3>2 DEF Inv, Registry
  <2>5. ASSUME NEW i \in interest', NEW c \in Conn, Owns(c, i.pd)' PROVE i.fd = c
    <3>1. i \in interest /\ i.pd \in PD  BY DEF Neutral, Inv, TypeOK, Entry
    <3>2. Owns(c, i.pd)  BY <1>1, <1>2, <2>5, <3>1
    <3> QED  BY <3>1, <3>2 DEF Inv, Registry
  <2> QED  BY <2>1, <2>2, <2>3, <2>4, <2>5 DEF Registry
<1> QED  BY <1>3, <1>5, <1>6

\* Whom unblock makes run was parked; its caller goes on, the others stay.
Readies(p, ms, caller, l) ==
    pc' = [q \in Proc |-> IF q \in Parkers(p, ms) THEN "resume"
                          ELSE IF q = caller THEN l ELSE pc[q]]
\* A goroutine that unblock readies was parked on the descriptor.
LEMMA UnblockRuns ==
  ASSUME Inv, NEW p \in PD, NEW ms, ms \subseteq Mode, NEW caller, NEW l, Readies(p, ms, caller, l)
  PROVE  \A q \in Proc : \/ q \in IO /\ pc[q] = "parked" /\ my[q] = p /\ pc'[q] = "resume"
                         \/ q = caller /\ pc'[q] = l
                         \/ q # caller /\ pc'[q] = pc[q]
<1>1. \A q \in Parkers(p, ms) : q \in IO /\ pc[q] = "parked" /\ my[q] = p
  BY DEF Parkers, Inv, Agree, Parked
<1> QED  BY <1>1 DEF Readies

\* The actions that are neutral.
LEMMA NeutralIO ==
  ASSUME Inv, NEW g \in IO, Arrive(g) \/ Call(g) \/ Sys(g) \/ Check(g) \/ Arm(g) \/ Commit(g) \/ Resume(g)
  PROVE  Neutral
<1>0. TypeOK /\ g \in Proc  BY Names DEF Inv
<1>1. CASE Arrive(g)
  <2>1. UNCHANGED <<reg, pd, fdseq, interest, pc, my>>  BY <1>1 DEF Arrive, desc, procs
  <2> QED  BY <2>1 DEF Neutral
<1>2. CASE Call(g)  BY <1>0, <1>2 DEF TypeOK, Call, Neutral, Goto, Uses, Sole, desc, kernel
<1>3. CASE Sys(g)  BY <1>0, <1>3 DEF TypeOK, Sys, Neutral, Return, Goto, Uses, Sole, desc
<1>4. CASE Check(g)  BY <1>0, <1>4 DEF TypeOK, Check, Neutral, Return, Goto, Uses, Sole, desc, kernel
<1>5. CASE Arm(g)
  <2>1. pc[g] = "arm" /\ pc'[g] \in {"sys", "park", "panic"} /\ my'[g] \in {my[g], None}
    BY <1>0, <1>5 DEF TypeOK, Arm, Goto
  <2>2. pc'[g] = "park" => my'[g] = my[g]
    <3>1. PD_NIL # PD_READY  BY Names
    <3> QED  BY <1>0, <1>5, <3>1 DEF TypeOK, Arm, Goto
  <2>3. \A q \in Proc : q # g => pc'[q] = pc[q] /\ my'[q] = my[q]  BY <1>0, <1>5 DEF TypeOK, Arm, Goto
  <2>4. UNCHANGED <<reg, pd, fdseq, interest>>  BY <1>5 DEF Arm, kernel
  <2> QED  BY <2>1, <2>2, <2>3, <2>4 DEF Neutral, Uses, Sole
<1>6. CASE Commit(g)  BY <1>0, <1>6 DEF TypeOK, Commit, Committed, Neutral, Goto, Uses, Sole, kernel
<1>7. CASE Resume(g)  BY <1>0, <1>7 DEF TypeOK, Resume, Neutral, Goto, Uses, Sole, kernel
<1> QED  BY <1>1, <1>2, <1>3, <1>4, <1>5, <1>6, <1>7

\* Of ensure_pd, those that neither open, install nor close.
LEMMA NeutralEnsure ==
  ASSUME Inv, NEW q \in Proc, EnsureLoad(q) \/ OpenFails(q) \/ EnsureReload(q) \/ (Install(q) /\ ~Installed(q))
  PROVE  Neutral
<1>0. TypeOK /\ q[1] \in Conn  BY Names DEF Inv
<1>1. CASE EnsureLoad(q)
  BY <1>0, <1>1 DEF TypeOK, EnsureLoad, Neutral, Goto, Body, Uses, Sole, desc, kernel
<1>2. CASE OpenFails(q)
  BY <1>0, <1>2 DEF TypeOK, OpenFails, Neutral, Uses, Sole, desc, kernel
<1>3. CASE EnsureReload(q)
  BY <1>0, <1>3 DEF TypeOK, EnsureReload, Neutral, Goto, Body, Uses, Sole, desc, kernel
<1>4. CASE Install(q) /\ ~Installed(q)
  BY <1>0, <1>4 DEF TypeOK, Install, Neutral, Goto, Uses, Sole, desc, kernel
<1> QED  BY <1>1, <1>2, <1>3, <1>4

\* Of a controller, all but Close taking the pointer.
LEMMA NeutralControl ==
  ASSUME Inv, NEW c \in Conn,
         CallSetDeadline(c) \/ Apply(c) \/ ApplyUnblock(c) \/ Evict(c) \/ EvictUnblock(c) \/ FdClose(c)
  PROVE  Neutral
<1> DEFINE q == ctl(c)
<1>0. TypeOK /\ q \in Proc /\ <<c, "ctl">> = q /\ q \notin IO  BY Names DEF Inv
<1>1. pc[q] \in Uses => my[q] \in PD  BY <1>0 DEF Inv, Holding, Holds
<1>2. pc[q] \in {"apply", "unblock", "evict", "evict2"} => arg[c] \in Mode  BY DEF Inv, Control
<1> HIDE DEF q
<1>3. CASE CallSetDeadline(c)
  BY <1>0, <1>3 DEF TypeOK, CallSetDeadline, Neutral, Goto, Uses, Sole, desc, kernel
<1>4. CASE Apply(c)
  <2>1. PICK v \in {-1, 0} \cup now + 1..MaxTime :
            IF v < 0 THEN Goto(q, "unblock") /\ UNCHANGED <<my, arg>>
                     ELSE Return(q) /\ arg' = [arg EXCEPT ![c] = None]
    BY <1>0, <1>4 DEF Apply
  <2> QED  BY <1>0, <1>4, <2>1 DEF TypeOK, Apply, Neutral, Return, Goto, Uses, Sole, kernel
<1>5. CASE ApplyUnblock(c)
  <2>1. my[q] \in PD /\ {arg[c]} \subseteq Mode 
    BY <1>0, <1>1, <1>2, <1>5 DEF ApplyUnblock, Uses
  <2>2. Readies(my[q], {arg[c]}, q, "idle")
    BY <1>0, <1>5 DEF ApplyUnblock, Unblock, Readies
  <2>3. \A r \in Proc : \/ r \in IO /\ pc[r] = "parked" /\ my[r] = my[q] /\ pc'[r] = "resume"
                        \/ r = q /\ pc'[r] = "idle"
                        \/ r # q /\ pc'[r] = pc[r]
    BY <1>0, <2>1, <2>2, UnblockRuns
  <2> QED  BY <1>0, <1>5, <2>3 DEF TypeOK, ApplyUnblock, Neutral, Uses, Sole, kernel
<1>6. CASE Evict(c)
  BY <1>0, <1>6 DEF TypeOK, Evict, Neutral, Goto, Uses, Sole, kernel
<1>7. CASE EvictUnblock(c)
  <2>1. my[q] \in PD /\ {arg[c]} \subseteq Mode 
    BY <1>0, <1>1, <1>2, <1>7 DEF EvictUnblock, Uses, Sole
  <2>2. Readies(my[q], {arg[c]}, q, AfterMode(arg[c]))
    BY <1>0, <1>7 DEF EvictUnblock, Unblock, Readies
  <2>3. \A r \in Proc : \/ r \in IO /\ pc[r] = "parked" /\ my[r] = my[q] /\ pc'[r] = "resume"
                        \/ r = q /\ pc'[r] = AfterMode(arg[c])
                        \/ r # q /\ pc'[r] = pc[r]
    BY <1>0, <2>1, <2>2, UnblockRuns
  <2>4. AfterMode(arg[c]) \in {"del", "evict"} /\ pc[q] = "evict2"  BY <1>0, <1>7 DEF AfterMode, EvictUnblock
  <2> QED  BY <1>0, <1>7, <2>3, <2>4 DEF TypeOK, EvictUnblock, Neutral, Uses, Sole, kernel
<1>8. CASE FdClose(c)
  BY <1>0, <1>8 DEF TypeOK, FdClose, Neutral, Goto, Uses, Sole, desc
<1> QED  BY <1>3, <1>4, <1>5, <1>6, <1>7, <1>8

\* Pollers, sysmon and the clock.
LEMMA NeutralPoll ==
  ASSUME Inv, (\E t \in Poller : PollStep(t)) \/ SysmonStep \/ Clock \/ UNCHANGED vars
  PROVE  Neutral
<1>0. TypeOK /\ None \notin Proc /\ None \notin IO  BY Names DEF Inv
<1>1. ASSUME NEW t \in Poller, NEW s \in Shard, Fetch(t, s) PROVE Neutral
  BY <1>1 DEF Fetch, Neutral, desc, procs
<1>2. ASSUME NEW t \in Poller, Lookup(t) PROVE Neutral
  BY <1>2 DEF Lookup, Neutral, desc, kernel, procs
<1>3. ASSUME NEW t \in Poller, Deliver(t) PROVE Neutral
  <2>1. cur[t][1] \in PD /\ cur[t][2] \subseteq Mode 
    BY <1>0, <1>3 DEF TypeOK, Deliver
  <2>2. Readies(cur[t][1], cur[t][2], None, "idle")
    BY <1>3 DEF Deliver, Unblock, Readies
  <2>3. \A r \in Proc : (pc[r] = "parked" /\ pc'[r] = "resume") \/ pc'[r] = pc[r]
    BY <1>0, <2>1, <2>2, UnblockRuns
  <2> QED  BY <1>3, <2>3 DEF Deliver, Neutral, Uses, Sole, kernel
<1>4. CASE Scan  BY <1>4 DEF Scan, Neutral, desc, kernel, procs
<1>5. CASE Fire  BY <1>5 DEF Fire, Neutral, kernel, procs
<1>6. CASE FireUnblock
  <2>1. firing[1] \in PD /\ {firing[2]} \subseteq Mode  BY <1>0, <1>6 DEF TypeOK, FireUnblock
  <2>2. Readies(firing[1], {firing[2]}, None, "idle")
    BY <1>6 DEF FireUnblock, Unblock, Readies
  <2>3. \A r \in Proc : (pc[r] = "parked" /\ pc'[r] = "resume") \/ pc'[r] = pc[r]
    BY <1>0, <2>1, <2>2, UnblockRuns
  <2> QED  BY <1>6, <2>3 DEF FireUnblock, Neutral, Uses, Sole, kernel
<1>7. CASE Clock  BY <1>7 DEF Clock, Neutral, desc, kernel, procs
<1>8. CASE UNCHANGED vars  BY <1>8 DEF vars, Neutral, desc, kernel, procs
<1> QED  BY <1>1, <1>2, <1>3, <1>4, <1>5, <1>6, <1>7, <1>8 DEF PollStep, SysmonStep

\* The parts of Allocated that the proofs use.
LEMMA NotAllocated ==
  ASSUME NEW n, n \notin Allocated
  PROVE  /\ n \notin Regd
         /\ \A c \in Conn : pd[c] # n
         /\ \A t \in Poller : cur[t] # None => cur[t][1] # n
         /\ \A e \in expired : e[1] # n
         /\ firing # None => firing[1] # n
<1>1. Regd \subseteq Allocated  BY DEF Allocated, Regd
<1>2. \A c \in Conn : pd[c] \in Allocated  BY DEF Allocated
<1>4. \A t \in Poller : cur[t] # None => cur[t][1] \in Allocated  BY DEF Allocated
<1>5. \A e \in expired : e[1] \in Allocated  BY DEF Allocated
<1>6. firing # None => firing[1] \in Allocated  BY DEF Allocated
<1> QED  BY <1>1, <1>2, <1>4, <1>5, <1>6

\* A fresh descriptor has one owner, its opener, and one registration.
LEMMA OpenKeeps ==
  ASSUME Inv, NEW q \in Proc, NEW n \in PD, NEW i \in Entry, Opens(q, n, i)
  PROVE  OneConn' /\ Holding' /\ Registry'
<1>0. TypeOK /\ q[1] \in Conn /\ None \notin PD  BY Names DEF Inv
<1>1. n \notin Regd /\ (\A c \in Conn : pd[c] # n) /\ (\A r \in Proc : my[r] # n)
  BY NotAllocated DEF Opens
<1>2. /\ pd' = pd /\ my'[q] = n /\ pc'[q] = "install"
      /\ \A r \in Proc : r # q => my'[r] = my[r] /\ pc'[r] = pc[r]
  BY <1>0 DEF Opens, TypeOK
<1>3. /\ FreeSlot \in Slot /\ reg[FreeSlot] = None /\ reg'[FreeSlot] = n
      /\ \A s \in Slot : s # FreeSlot => reg'[s] = reg[s]
  BY <1>0 DEF Opens, TypeOK
<1>4. Regd' = (Regd \cup {n}) \ {None} \/ Regd' = Regd \cup {n}
  <2>1. Regd' = {reg'[s] : s \in Slot}  BY DEF Regd
  <2>2. \A x : x # None => (x \in Regd' <=> x \in Regd \/ x = n)  BY <1>0, <1>3, <2>1 DEF Regd
  <2>3. \A x \in Regd' : x = None \/ x \in Regd \cup {n}  BY <2>2
  <2>4. None \in Regd  BY <1>3 DEF Regd
  <2> QED  BY <2>2, <2>3, <2>4
<1>5. \A x : x # None => (x \in Regd' <=> x \in Regd \/ x = n)  BY <1>0, <1>4
<1>6. \A c, p : Owns(c, p)' => Owns(c, p) \/ (p = n /\ c = q[1])  BY <1>2 DEF Owns
<1>7. \A c \in Conn : ~Owns(c, n)  BY <1>1 DEF Owns
<1>8. OneConn'  BY <1>6, <1>7 DEF Inv, OneConn
<1>9. Holding'
  <2> SUFFICES ASSUME NEW r \in Proc PROVE Holds(r)'  BY DEF Holding
  <2>1. CASE r = q
    <3>1. \A u \in Proc : pc'[u] \in Sole /\ my'[u] = n => u = q  BY <1>1, <1>2
    <3>2. n \in Regd'  BY <1>0, <1>5
    <3> QED  BY <1>1, <1>2, <2>1, <3>1, <3>2 DEF Holds
  <2>2. CASE r # q
    <3>1. my'[r] = my[r] /\ pc'[r] = pc[r] /\ my[r] # n  BY <1>1, <1>2, <2>2
    <3>2. pc[r] \in Uses => my[r] \in PD  BY DEF Inv, Holding, Holds
    <3>3. ASSUME pc[r] \in Sole
          PROVE  /\ my[r] \in Regd /\ my[r] \in PD
                 /\ \A c \in Conn : pd[c] # my[r]
                 /\ \A u \in Proc : pc[u] \in Sole /\ my[u] = my[r] => u = r
      BY <3>2, <3>3 DEF Inv, Holding, Holds, Uses
    <3>4. pc[r] \in Sole => my[r] \in Regd'  BY <1>0, <1>5, <3>3
    <3>5. pc[r] \in Sole => \A u \in Proc : pc'[u] \in Sole /\ my'[u] = my[r] => u = r
      BY <1>2, <3>1, <3>3
    <3> QED  BY <1>2, <3>1, <3>2, <3>3, <3>4, <3>5 DEF Holds
  <2> QED  BY <2>1, <2>2
<1>10. Registry'
  <2>1. \A s, t \in Slot : reg'[s] # None /\ reg'[s] = reg'[t] => s = t
    <3>1. \A s \in Slot : reg[s] # n  BY <1>1 DEF Regd
    <3>2. \A s, t \in Slot : reg[s] # None /\ reg[s] = reg[t] => s = t  BY DEF Inv, Registry
    <3> QED  BY <1>3, <3>1, <3>2
  <2>2. \A c \in Conn : pd'[c] # None => pd'[c] \in Regd'  BY <1>2, <1>5 DEF Inv, Registry
  <2>3. \A j \in interest : j.slot \in Slot /\ j.pd \in PD /\ reg[j.slot] = j.pd /\ fdseq[j.pd] = 1
    BY <1>0 DEF TypeOK, Entry, Inv, Registry
  <2>4. \A j \in interest : j.pd # n /\ j.slot # FreeSlot  BY <1>0, <1>1, <1>3, <2>3 DEF Regd
  <2>5. interest' = interest \cup {i} /\ i.pd = n /\ i.slot = FreeSlot /\ i.fd = q[1]  BY DEF Opens
  <2>6. fdseq'[n] = 1 /\ \A p \in PD : p # n => fdseq'[p] = fdseq[p]  BY <1>0 DEF Opens, TypeOK
  <2>7. \A j \in interest' : reg'[j.slot] = j.pd /\ fdseq'[j.pd] = 1
    BY <1>3, <2>3, <2>4, <2>5, <2>6
  <2>8. ASSUME NEW j \in interest', NEW r \in Proc, pc'[r] = "remove" PROVE j.pd # my'[r]
    <3>1. r # q /\ pc[r] = "remove" /\ my'[r] = my[r]  BY <1>2, <2>8
    <3>2. my[r] # n /\ \A k \in interest : k.pd # my[r]  BY <1>1, <3>1 DEF Inv, Registry
    <3> QED  BY <2>5, <3>1, <3>2
  <2>9. ASSUME NEW j \in interest', NEW c \in Conn, Owns(c, j.pd)' PROVE j.fd = c
    <3>1. CASE j \in interest
      <4>1. Owns(c, j.pd)  BY <1>6, <2>4, <2>9, <3>1
      <4> QED  BY <3>1, <4>1 DEF Inv, Registry
    <3>2. CASE j = i
      <4>1. Owns(c, n)'  BY <2>5, <2>9, <3>2
      <4> QED  BY <1>6, <1>7, <2>5, <3>2, <4>1
    <3> QED  BY <2>5, <3>1, <3>2
  <2> QED  BY <2>1, <2>2, <2>7, <2>8, <2>9 DEF Registry
<1> QED  BY <1>8, <1>9, <1>10

\* The winner of the install race gives its descriptor to the connection.
LEMMA InstallKeeps ==
  ASSUME Inv, NEW q \in Proc, Install(q), Installed(q)
  PROVE  OneConn' /\ Holding' /\ Registry'
<1>0. TypeOK /\ q[1] \in Conn /\ None \notin PD  BY Names DEF Inv
<1>1. /\ pc[q] = "install" /\ pd[q[1]] = None /\ pd'[q[1]] = my[q]
      /\ \A c \in Conn : c # q[1] => pd'[c] = pd[c]
      /\ UNCHANGED <<reg, fdseq, interest, my>>
      /\ pc'[q] \in {"check", "apply"} /\ \A r \in Proc : r # q => pc'[r] = pc[r]
  BY <1>0 DEF Install, Installed, Goto, Body, TypeOK, desc, kernel
<1>2. my[q] \in PD /\ my[q] \in Regd /\ \A r \in Proc : pc[r] \in Sole /\ my[r] = my[q] => r = q
  BY <1>1 DEF Inv, Holding, Holds, Uses, Sole
<1>3. \A c \in Conn : \A p : Owns(c, p)' => Owns(c, p)  BY <1>1 DEF Owns
<1>4. OneConn'  BY <1>3 DEF Inv, OneConn
<1>5. Regd' = Regd  BY <1>1 DEF Regd
<1>6. Holding'
  <2> SUFFICES ASSUME NEW r \in Proc PROVE Holds(r)'  BY DEF Holding
  <2>1. CASE r = q  BY <1>1, <1>2, <2>1 DEF Holds, Uses, Sole
  <2>2. CASE r # q
    <3>1. Holds(r)  BY DEF Inv, Holding
    <3>2. pc'[r] = pc[r] /\ my' = my  BY <1>1, <2>2
    <3>3. pc[r] \in Sole => \A c \in Conn : pd'[c] # my[r]  BY <1>1, <1>2, <2>2, <3>1 DEF Holds
    <3>4. \A u \in Proc : pc'[u] \in Sole => pc[u] \in Sole  BY <1>1 DEF Sole
    <3> QED  BY <1>5, <3>1, <3>2, <3>3, <3>4 DEF Holds
  <2> QED  BY <2>1, <2>2
<1>7. Registry'
  <2>1. \A c \in Conn : pd'[c] # None => pd'[c] \in Regd'  BY <1>1, <1>2, <1>5 DEF Inv, Registry
  <2>2. \A i \in interest, r \in Proc : pc'[r] = "remove" => i.pd # my[r]  BY <1>1 DEF Inv, Registry
  <2>3. \A i \in interest, c \in Conn : Owns(c, i.pd)' => i.fd = c  BY <1>3 DEF Inv, Registry
  <2> QED  BY <1>1, <2>1, <2>2, <2>3 DEF Inv, Registry
<1> QED  BY <1>4, <1>6, <1>7

\* Close takes the descriptor away from its connection.
LEMMA CloseKeeps ==
  ASSUME Inv, NEW c \in Conn, CallClose(c)
  PROVE  OneConn' /\ Holding' /\ Registry'
<1> DEFINE q == ctl(c)
<1>0. TypeOK /\ None \notin PD /\ q \in Proc /\ q[1] = c /\ <<c, "ctl">> = q  BY Names DEF Inv
<1> HIDE DEF q
<1>1. /\ pc[q] = "idle" /\ my'[q] = pd[c] /\ pd'[c] = None
      /\ pc'[q] = IF pd[c] = None THEN "fdclose" ELSE "evict"
      /\ UNCHANGED <<reg, fdseq, interest>>
      /\ \A d \in Conn : d # c => pd'[d] = pd[d]
      /\ \A r \in Proc : r # q => pc'[r] = pc[r] /\ my'[r] = my[r]
  BY <1>0 DEF CallClose, Goto, TypeOK, desc, kernel
<1>2. \A d \in Conn : \A p : p # None /\ Owns(d, p)' => Owns(d, p)  BY <1>0, <1>1 DEF Owns
<1>3. OneConn'  BY <1>0, <1>2 DEF Inv, OneConn
<1>4. Regd' = Regd  BY <1>1 DEF Regd
<1>5. Holding'
  <2> SUFFICES ASSUME NEW r \in Proc PROVE Holds(r)'  BY DEF Holding
  <2>1. pd[c] # None => pd[c] \in PD /\ pd[c] \in Regd  BY <1>0 DEF TypeOK, Inv, Registry
  <2>2. \A u \in Proc : pc[u] \in Sole => my[u] # pd[c] /\ my[u] \in PD
    BY DEF Inv, Holding, Holds, Uses
  <2>3. \A d \in Conn : d # c /\ pd[c] # None => pd[d] # pd[c]
    BY <1>0, <2>1 DEF Inv, OneConn, Owns
  <2>4. CASE r = q  BY <1>0, <1>1, <1>4, <2>1, <2>2, <2>3, <2>4 DEF Holds, Uses, Sole
  <2>5. CASE r # q
    <3>1. Holds(r)  BY DEF Inv, Holding
    <3>2. pc'[r] = pc[r] /\ my'[r] = my[r]  BY <1>1, <2>5
    <3>3. pc[r] \in Sole => \A d \in Conn : pd'[d] # my[r]  BY <1>0, <1>1, <2>2, <3>1 DEF Holds
    <3>4. \A u \in Proc : pc'[u] \in Sole /\ my'[u] = my[r] /\ pc[r] \in Sole => u = r
      BY <1>1, <2>2, <3>1 DEF Holds
    <3> QED  BY <1>4, <3>1, <3>2, <3>3, <3>4 DEF Holds
  <2> QED  BY <2>4, <2>5
<1>6. Registry'
  <2>1. \A d \in Conn : pd'[d] # None => pd'[d] \in Regd'  BY <1>1, <1>4 DEF Inv, Registry
  <2>2. \A i \in interest, r \in Proc : pc'[r] = "remove" => i.pd # my'[r]  BY <1>1 DEF Inv, Registry
  <2>3. \A i \in interest : i.pd # None  BY <1>0 DEF TypeOK, Entry
  <2>4. \A i \in interest, d \in Conn : Owns(d, i.pd)' => i.fd = d  BY <1>2, <2>3 DEF Inv, Registry
  <2> QED  BY <1>1, <2>1, <2>2, <2>4 DEF Inv, Registry
<1> QED  BY <1>3, <1>5, <1>6

\* netpoll::close takes the registration out of epoll first, then out of the registry.
LEMMA DelKeeps ==
  ASSUME Inv, NEW q \in Proc, Del(q) \/ Remove(q)
  PROVE  OneConn' /\ Holding' /\ Registry'
<1>0. TypeOK /\ q[1] \in Conn /\ None \notin PD  BY Names DEF Inv
<1>1. pc[q] \in {"del", "remove"}  BY DEF Del, Remove
<1>2. /\ my[q] \in PD /\ my[q] \in Regd /\ (\A c \in Conn : pd[c] # my[q])
      /\ \A r \in Proc : pc[r] \in Sole /\ my[r] = my[q] => r = q
  BY <1>1 DEF Inv, Holding, Holds, Uses, Sole
<1>3. CASE Del(q)
  <2>1. /\ interest' = {i \in interest : i.pd # my[q]} /\ UNCHANGED <<reg, pd, my>>
        /\ pc[q] = "del" /\ pc'[q] = "remove" /\ (\A r \in Proc : r # q => pc'[r] = pc[r])
        /\ \A p \in PD : p # my[q] => fdseq'[p] = fdseq[p]
    BY <1>0, <1>2, <1>3 DEF Del, Goto, TypeOK
  <2>2. Regd' = Regd /\ \A c, p : Owns(c, p)' <=> Owns(c, p)  BY <2>1 DEF Regd, Owns
  <2>3. OneConn'  BY <2>2 DEF Inv, OneConn
  <2>4. \A r \in Proc : (pc'[r] \in Sole <=> pc[r] \in Sole) /\ (pc'[r] \in Uses <=> pc[r] \in Uses)
    BY <2>1 DEF Sole, Uses
  <2>5. Holding'  BY <2>1, <2>2, <2>4 DEF Inv, Holding, Holds
  <2>6. \A i \in interest' : i \in interest /\ i.pd \in PD /\ i.pd # my[q]
    BY <1>0, <2>1 DEF TypeOK, Entry
  <2>7. \A i \in interest' : reg'[i.slot] = i.pd /\ fdseq'[i.pd] = 1  BY <2>1, <2>6 DEF Inv, Registry
  <2>8. \A i \in interest', r \in Proc : pc'[r] = "remove" => i.pd # my'[r]
    BY <2>1, <2>6 DEF Inv, Registry
  <2>9. Registry'  BY <2>1, <2>2, <2>6, <2>7, <2>8 DEF Inv, Registry
  <2> QED  BY <2>3, <2>5, <2>9
<1>4. CASE Remove(q)
  <2> DEFINE s == SlotOf(my[q])
  <2>1. s \in Slot /\ reg[s] = my[q]  BY <1>2 DEF SlotOf, Regd
  <2>2. /\ UNCHANGED <<pd, interest, fdseq>> /\ reg' = [reg EXCEPT ![s] = None]
        /\ pc[q] = "remove" /\ pc'[q] \in {"fdclose", "reload"} /\ my'[q] = None
        /\ \A r \in Proc : r # q => pc'[r] = pc[r] /\ my'[r] = my[r]
    BY <1>0, <1>4 DEF Remove, Goto, TypeOK, desc, kernel
  <2> HIDE DEF s
  <2>3. reg'[s] = None /\ \A t \in Slot : t # s => reg'[t] = reg[t]  BY <1>0, <2>1, <2>2 DEF TypeOK
  <2>4. \A t \in Slot : reg[t] = my[q] => t = s  BY <1>0, <1>2, <2>1 DEF Inv, Registry
  <2>5. \A x : x # my[q] /\ x \in Regd => x \in Regd'  BY <2>1, <2>3 DEF Regd
  <2>6. \A c, p : p # None /\ Owns(c, p)' => Owns(c, p)  BY <2>2 DEF Owns
  <2>7. OneConn'  BY <1>0, <2>6 DEF Inv, OneConn
  <2>8. Holding'
    <3> SUFFICES ASSUME NEW r \in Proc PROVE Holds(r)'  BY DEF Holding
    <3>1. CASE r = q  BY <2>2, <3>1 DEF Holds, Uses, Sole
    <3>2. CASE r # q
      <4>1. Holds(r)  BY DEF Inv, Holding
      <4>2. pc'[r] = pc[r] /\ my'[r] = my[r]  BY <2>2, <3>2
      <4>3. pc[r] \in Sole => my[r] \in Regd'  BY <1>2, <2>5, <3>2, <4>1 DEF Holds
      <4>4. \A u \in Proc : pc'[u] \in Sole => pc[u] \in Sole /\ my'[u] = my[u]  BY <2>2 DEF Sole
      <4> QED  BY <2>2, <4>1, <4>2, <4>3, <4>4 DEF Holds
    <3> QED  BY <3>1, <3>2
  <2>9. Registry'
    <3>1. \A t, u \in Slot : reg'[t] # None /\ reg'[t] = reg'[u] => t = u  BY <2>3 DEF Inv, Registry
    <3>2. \A c \in Conn : pd'[c] # None => pd'[c] \in Regd'  BY <1>2, <2>2, <2>5 DEF Inv, Registry
    <3>3. \A i \in interest : i.pd # my[q] /\ i.pd # None /\ i.slot \in Slot
      BY <1>0, <2>2 DEF Inv, Registry, TypeOK, Entry
    <3>4. \A i \in interest : reg'[i.slot] = i.pd  BY <2>1, <2>3, <3>3 DEF Inv, Registry
    <3>5. \A i \in interest, r \in Proc : pc'[r] = "remove" => i.pd # my'[r]  BY <2>2 DEF Inv, Registry
    <3>6. \A i \in interest, c \in Conn : Owns(c, i.pd)' => i.fd = c  BY <2>6, <3>3 DEF Inv, Registry
    <3> QED  BY <2>2, <3>1, <3>2, <3>4, <3>5, <3>6 DEF Inv, Registry
  <2> QED  BY <2>7, <2>8, <2>9
<1> QED  BY <1>3, <1>4

\* Every step keeps descriptors with their owners and registrations.
LEMMA StepOwners ==
  ASSUME Inv, [Next]_vars, ~reused'
  PROVE  OneConn' /\ Holding' /\ Registry'
<1>0. IO \subseteq Proc /\ \A c \in Conn : <<c, "ctl">> = ctl(c) /\ ctl(c) \in Proc  BY Names
<1>1. ASSUME NEW q \in Proc, Ensure(q) PROVE OneConn' /\ Holding' /\ Registry'
  <2>1. CASE EnsureLoad(q)  BY <2>1, NeutralEnsure, NeutralKeeps
  <2>2. CASE Open(q)  BY <2>2, OpenEffect, OpenKeeps, NeutralEnsure, NeutralKeeps
  <2>3. CASE Install(q)  BY <2>3, InstallKeeps, NeutralEnsure, NeutralKeeps
  <2>4. CASE EnsureReload(q)  BY <2>4, NeutralEnsure, NeutralKeeps
  <2>5. CASE Del(q) \/ Remove(q)  BY <2>5, DelKeeps
  <2> QED  BY <1>1, <2>1, <2>2, <2>3, <2>4, <2>5 DEF Ensure
<1>2. ASSUME NEW g \in IO, Arrive(g) \/ Call(g) \/ IOStep(g) PROVE OneConn' /\ Holding' /\ Registry'
  BY <1>0, <1>1, <1>2, NeutralIO, NeutralKeeps DEF IOStep
<1>3. ASSUME NEW c \in Conn, CallSetDeadline(c) \/ CallClose(c) \/ CtlStep(c)
      PROVE  OneConn' /\ Holding' /\ Registry'
  BY <1>0, <1>1, <1>3, NeutralControl, CloseKeeps, NeutralKeeps DEF CtlStep
<1>4. CASE (\E t \in Poller : PollStep(t)) \/ SysmonStep \/ Clock \/ UNCHANGED vars
  BY <1>4, NeutralPoll, NeutralKeeps
<1> QED  BY <1>2, <1>3, <1>4 DEF Next

\* Every step keeps the types.
LEMMA StepType == ASSUME Inv, [Next]_vars PROVE TypeOK'
<1>0. IO \subseteq Proc /\ \A c \in Conn : <<c, "ctl">> = ctl(c) /\ ctl(c) \in Proc  BY Names
<1>1. ASSUME NEW g \in IO, Arrive(g) \/ Call(g) \/ IOStep(g) PROVE TypeOK'
  BY <1>0, <1>1, TypeIO, TypeEnsure DEF IOStep
<1>2. ASSUME NEW c \in Conn, CallSetDeadline(c) \/ CallClose(c) \/ CtlStep(c) PROVE TypeOK'
  BY <1>0, <1>2, TypeControl, TypeEnsure DEF CtlStep
<1>3. ASSUME NEW t \in Poller, PollStep(t) PROVE TypeOK'  BY <1>3, TypePoll
<1>4. CASE SysmonStep \/ Clock  BY <1>4, TypeSysmon
<1>5. CASE UNCHANGED vars  BY <1>5 DEF vars, desc, kernel, procs, pollers, Inv, TypeOK
<1> QED  BY <1>1, <1>2, <1>3, <1>4, <1>5 DEF Next

-----------------------------------------------------------------------------
(* The words.                                                              *)

\* A goroutine is the only one of its direction that uses a descriptor.
LEMMA SoleUser ==
  ASSUME Inv, NEW g \in IO, NEW h \in IO, my[g] \in PD, my[h] = my[g], g[2] = h[2]
  PROVE  g = h
<1>1. g \in Proc /\ h \in Proc /\ g[1] \in Conn /\ h[1] \in Conn
  BY Names
<1>2. g = <<g[1], g[2]>> /\ h = <<h[1], h[2]>>  BY Names
<1>3. Owns(g[1], my[g]) /\ Owns(h[1], my[g])  BY <1>1 DEF Owns
<1>4. g[1] = h[1]  BY <1>1, <1>3 DEF Inv, OneConn
<1> QED  BY <1>2, <1>4

\* A step that touches no word and nobody about to park or parked.
Still ==
    /\ word' = word
    /\ \A g \in IO : pc[g] \in {"park", "parked", "panic"} \/ pc'[g] \in {"park", "parked", "panic"}
          => pc'[g] = pc[g] /\ my'[g] = my[g]
\* Such a step keeps words and owners in agreement.
LEMMA StillKeeps == ASSUME Inv, Still PROVE WordsIn' /\ Agree'
BY DEF Inv, Still, WordsIn, Agree, Parked

\* What unblock does to the directions ms of p, as the goroutines see it.
Freed(p, ms) ==
    /\ \A r \in PD, m \in Mode : IF r = p /\ m \in ms THEN word'[r][m] \in {PD_NIL, PD_READY}
                                 ELSE word'[r][m] = word[r][m]
    /\ \A r \in PD, m \in Mode : word[r][m] = PD_READY => word'[r][m] = PD_READY
    /\ \A g \in IO : my'[g] = my[g] /\ pc'[g] = IF \E m \in ms : word[p][m] = g THEN "resume" ELSE pc[g]

\* The new word: READY after an event; READY or NIL after a deadline.
LEMMA UnblockedWord ==
  ASSUME NEW w \in Words
  PROVE  /\ Unblocked(w, TRUE) = PD_READY
         /\ Unblocked(w, FALSE) = IF w = PD_READY THEN PD_READY ELSE PD_NIL
BY DEF Unblocked, Words

\* Taking goroutines off their words keeps words and owners in agreement.
LEMMA FreedKeeps ==
  ASSUME Inv, NEW p \in PD, NEW ms, ms \subseteq Mode, Freed(p, ms)
  PROVE  WordsIn' /\ Agree'
<1>0. /\ PD_NIL \notin IO /\ PD_READY \notin IO /\ PD_WAIT # PD_NIL /\ PD_WAIT # PD_READY
      /\ \A g \in IO : g[2] \in Mode
  BY Names
<1>1. \A r \in PD, m \in Mode : word'[r][m] \in IO \cup {PD_WAIT} => word'[r][m] = word[r][m] /\ ~(r = p /\ m \in ms)
  BY <1>0 DEF Freed
<1>2. WordsIn'  BY <1>1 DEF Inv, WordsIn
<1>3. \A g \in IO : my'[g] = my[g] /\ pc'[g] = IF \E m \in ms : word[p][m] = g THEN "resume" ELSE pc[g]
  BY DEF Freed
<1>4. \A g \in IO, m \in Mode, r \in PD : word[r][m] = g => pc[g] = "parked" /\ my[g] = r /\ g[2] = m
  BY DEF Inv, WordsIn, Agree, Parked
<1>5. \A g \in IO : pc[g] = "parked" => my[g] \in PD /\ word[my[g]][g[2]] = g
  <2>1. \A g \in IO : g \in Proc  BY Names
  <2> QED  BY <2>1 DEF Inv, Holding, Holds, Uses, Agree, Parked
<1>6. ASSUME NEW r \in PD, NEW m \in Mode, word'[r][m] = PD_WAIT
      PROVE  \E g \in IO : pc'[g] = "park" /\ my'[g] = r /\ g[2] = m
  <2>1. word[r][m] = PD_WAIT  BY <1>1, <1>6
  <2>2. PICK g \in IO : pc[g] = "park" /\ my[g] = r /\ g[2] = m  BY <2>1 DEF Inv, Agree
  <2>3. ~\E k \in ms : word[p][k] = g  BY <1>4, <2>2
  <2> QED  BY <1>3, <2>2, <2>3
<1>7. ASSUME NEW r \in PD, NEW m \in Mode, word'[r][m] \in IO
      PROVE  pc'[word'[r][m]] = "parked" /\ my'[word'[r][m]] = r
  <2>1. PICK h \in IO : h = word'[r][m]  BY <1>7
  <2>2. word[r][m] = h /\ ~(r = p /\ m \in ms)  BY <1>1, <2>1
  <2>3. pc[h] = "parked" /\ my[h] = r /\ h[2] = m  BY <1>4, <2>2
  <2>4. ~\E k \in ms : word[p][k] = h  BY <1>4, <2>2, <2>3
  <2> QED  BY <1>3, <2>1, <2>3, <2>4
<1>8. ASSUME NEW g \in IO, pc'[g] = "parked" PROVE word'[my'[g]][g[2]] = g
  <2>1. pc[g] = "parked" /\ my'[g] = my[g] /\ ~\E m \in ms : word[p][m] = g  BY <1>3, <1>8
  <2>2. my[g] \in PD /\ word[my[g]][g[2]] = g /\ g[2] \in Mode  BY <1>0, <1>5, <2>1
  <2>3. ~(my[g] = p /\ g[2] \in ms)  BY <2>1, <2>2
  <2> QED  BY <2>1, <2>2, <2>3 DEF Freed
<1>9. \A g \in IO : pc'[g] # "panic"  BY <1>3 DEF Inv, Agree
<1> QED  BY <1>2, <1>6, <1>7, <1>8, <1>9 DEF Agree, Parked

\* Those who call unblock.
LEMMA DeliverFrees ==
  ASSUME Inv, NEW t \in Poller, Deliver(t)
  PROVE  /\ cur[t][1] \in PD /\ cur[t][2] \subseteq Mode /\ Freed(cur[t][1], cur[t][2])
         /\ \A m \in cur[t][2] : word'[cur[t][1]][m] = PD_READY
<1>0. TypeOK /\ None \notin Proc /\ IO \subseteq Proc  BY Names DEF Inv
<1>1. cur[t][1] \in PD /\ cur[t][2] \subseteq Mode  BY <1>0 DEF TypeOK, Deliver
<1>2. Unblock(cur[t][1], cur[t][2], TRUE, None, "idle") /\ my' = my  BY DEF Deliver
<1>3. "idle" \in Labels /\ TRUE \in BOOLEAN  BY DEF Labels
<1>3a. PICK p \in PD, ms \in SUBSET Mode : p = cur[t][1] /\ ms = cur[t][2]  BY <1>1
<1>4. /\ \A r \in PD, m \in Mode : word'[r][m] =
            IF r = p /\ m \in ms THEN Unblocked(word[r][m], TRUE) ELSE word[r][m]
      /\ \A q \in Proc : pc'[q] =
            IF q \in IO /\ (\E m \in ms : word[p][m] = q) THEN "resume"
            ELSE IF q = None THEN "idle" ELSE pc[q]
  BY <1>0, <1>2, <1>3a DEF Unblock, Parkers, TypeOK
<1>5. \A r \in PD, m \in Mode : word[r][m] \in Words  BY <1>0 DEF TypeOK
<1>6. \A r \in PD, m \in Mode : Unblocked(word[r][m], TRUE) = PD_READY  BY <1>5, UnblockedWord
<1>7. \A r \in PD, m \in Mode : word'[r][m] = IF r = p /\ m \in ms THEN PD_READY ELSE word[r][m]
  BY <1>4, <1>6
<1>8. \A g \in IO : my'[g] = my[g] /\ pc'[g] = IF \E m \in ms : word[p][m] = g THEN "resume" ELSE pc[g]
  BY <1>0, <1>2, <1>4
<1>9. Freed(p, ms)  BY <1>7, <1>8 DEF Freed
<1> QED  BY <1>1, <1>3a, <1>7, <1>9

\* Whoever calls unblock for a deadline,
LEMMA DeadlineFrees ==
  ASSUME Inv, NEW p \in PD, NEW m \in Mode, NEW caller, caller \notin IO, NEW l \in Labels,
         Unblock(p, {m}, FALSE, caller, l), \A g \in IO : my'[g] = my[g]
  PROVE  Freed(p, {m})
<1>0. TypeOK /\ IO \subseteq Proc  BY Names DEF Inv
<1>1. {m} \subseteq Mode /\ FALSE \in BOOLEAN  OBVIOUS
<1>2. /\ \A r \in PD, k \in Mode : word'[r][k] =
            IF r = p /\ k \in {m} THEN Unblocked(word[r][k], FALSE) ELSE word[r][k]
      /\ \A q \in Proc : pc'[q] =
            IF q \in IO /\ (\E k \in {m} : word[p][k] = q) THEN "resume"
            ELSE IF q = caller THEN l ELSE pc[q]
  BY <1>0, <1>1 DEF Unblock, Parkers, TypeOK
<1>3. \A r \in PD, k \in Mode : word[r][k] \in Words  BY <1>0 DEF TypeOK
<1>4. \A r \in PD, k \in Mode : Unblocked(word[r][k], FALSE) = IF word[r][k] = PD_READY THEN PD_READY ELSE PD_NIL
  BY <1>3, UnblockedWord
<1> QED  BY <1>0, <1>2, <1>4 DEF Freed

\* ... as SetDeadline and Close do,
LEMMA ControlFrees ==
  ASSUME Inv, NEW c \in Conn, ApplyUnblock(c) \/ EvictUnblock(c)
  PROVE  my[ctl(c)] \in PD /\ arg[c] \in Mode /\ Freed(my[ctl(c)], {arg[c]})
<1> DEFINE q == ctl(c)
<1>0. TypeOK /\ q \in Proc /\ <<c, "ctl">> = q /\ q \notin IO /\ IO \subseteq Proc  BY Names DEF Inv
<1> HIDE DEF q
<1>1. pc[q] \in {"unblock", "evict2"}  BY <1>0 DEF ApplyUnblock, EvictUnblock
<1>2. my[q] \in PD  BY <1>0, <1>1 DEF Inv, Holding, Holds, Uses, Sole
<1>3. arg[c] \in Mode  BY <1>1 DEF Inv, Control, q
<1>4. \A g \in IO : my'[g] = my[g]  BY <1>0 DEF TypeOK, ApplyUnblock, EvictUnblock
<1>5. "idle" \in Labels /\ AfterMode(arg[c]) \in Labels  BY DEF Labels, AfterMode
<1>6. PICK p \in PD, m \in Mode : p = my[q] /\ m = arg[c]  BY <1>2, <1>3
<1>7. Unblock(p, {m}, FALSE, q, "idle") \/ Unblock(p, {m}, FALSE, q, AfterMode(arg[c]))
  BY <1>0, <1>6 DEF ApplyUnblock, EvictUnblock
<1>8. Freed(p, {m})  BY <1>0, <1>4, <1>5, <1>7, DeadlineFrees
<1> QED  BY <1>2, <1>3, <1>6, <1>8 DEF q

\* ... and sysmon.
LEMMA FireFrees ==
  ASSUME Inv, FireUnblock
  PROVE  firing[1] \in PD /\ firing[2] \in Mode /\ Freed(firing[1], {firing[2]})
<1>0. TypeOK /\ None \notin IO  BY Names DEF Inv
<1>1. firing[1] \in PD /\ firing[2] \in Mode  BY <1>0 DEF TypeOK, FireUnblock
<1>2. PICK p \in PD, m \in Mode : p = firing[1] /\ m = firing[2]  BY <1>1
<1>3. Unblock(p, {m}, FALSE, None, "idle") /\ my' = my  BY <1>2 DEF FireUnblock
<1>4. "idle" \in Labels  BY DEF Labels
<1>5. Freed(p, {m})  BY <1>0, <1>3, <1>4, DeadlineFrees
<1> QED  BY <1>1, <1>2, <1>5

\* block: arming, committing and draining the word.
LEMMA BlockKeeps ==
  ASSUME Inv, NEW g \in IO, Arm(g) \/ Commit(g) \/ Resume(g)
  PROVE  WordsIn' /\ Agree'
<1>0. /\ TypeOK /\ g \in Proc /\ g[2] \in Mode
      /\ PD_NIL \notin IO /\ PD_READY \notin IO /\ PD_WAIT \notin IO
      /\ PD_WAIT # PD_NIL /\ PD_WAIT # PD_READY /\ PD_NIL # PD_READY
  BY Names DEF Inv
<1>1. my[g] \in PD  BY <1>0 DEF Inv, Holding, Holds, Uses, Arm, Commit, Resume
<1>2. PICK p \in PD, m \in Mode : p = my[g] /\ m = g[2]  BY <1>0, <1>1
<1>3. \A h \in IO : my[h] = p /\ h[2] = m => h = g  BY <1>1, <1>2, SoleUser
<1>4. \A h \in IO, k \in Mode, r \in PD : word[r][k] = h => pc[h] = "parked" /\ my[h] = r /\ h[2] = k
  BY DEF Inv, WordsIn, Agree, Parked
<1>5. \A k \in Mode, r \in PD : word[r][k] = PD_WAIT => \E h \in IO : pc[h] = "park" /\ my[h] = r /\ h[2] = k
  BY DEF Inv, Agree
<1>6. \A h \in IO : /\ h[2] \in Mode /\ h \in Proc /\ pc[h] # "panic"
                    /\ pc[h] = "parked" => my[h] \in PD /\ word[my[h]][h[2]] = h
  BY Names DEF Inv, Holding, Holds, Uses, Agree, Parked
<1>7. word[p][m] \in Words /\ PD_NIL \in Words /\ PD_WAIT \in Words /\ g \in Words
  BY <1>0 DEF TypeOK, Words
<1>8. pc[g] # "parked" => word[p][m] \notin IO  BY <1>3, <1>4
<1>9. pc[g] # "park" => word[p][m] # PD_WAIT  BY <1>3, <1>5
<1>10. CASE Arm(g)
  <2>1. pc[g] = "arm" /\ word[p][m] \in {PD_NIL, PD_READY}  BY <1>7, <1>8, <1>9, <1>10 DEF Arm, Words
  <2> DEFINE v == IF word[p][m] = PD_NIL THEN PD_WAIT ELSE PD_NIL
  <2>2. SetWord(p, m, v) /\ v \in Words  BY <1>0, <1>2, <1>7, <1>10, <2>1 DEF Arm
  <2>3. \A r \in PD, k \in Mode : word'[r][k] = IF r = p /\ k = m THEN v ELSE word[r][k]
    BY <1>0, <2>2, SetEffect
  <2>4. /\ pc'[g] = IF word[p][m] = PD_NIL THEN "park" ELSE "sys"
        /\ word[p][m] = PD_NIL => my'[g] = my[g]
        /\ \A h \in IO : h # g => pc'[h] = pc[h] /\ my'[h] = my[h]
    BY <1>0, <1>2, <1>6, <1>10, <2>1 DEF Arm, Goto, TypeOK
  <2> HIDE DEF v
  <2>5. v \in {PD_WAIT, PD_NIL} /\ (v = PD_WAIT => word[p][m] = PD_NIL)  BY <1>0 DEF v
  <2>6. \A r \in PD, k \in Mode : word'[r][k] \in IO =>
           /\ word[r][k] = word'[r][k] /\ ~(r = p /\ k = m)
           /\ word'[r][k] # g
    BY <1>0, <1>4, <2>1, <2>3, <2>5
  <2>7. WordsIn'  BY <2>6 DEF Inv, WordsIn
  <2>8. \A r \in PD, k \in Mode : word'[r][k] \in IO => pc'[word'[r][k]] = "parked" /\ my'[word'[r][k]] = r
    BY <1>4, <2>4, <2>6
  <2>9. \A r \in PD, k \in Mode : word'[r][k] = PD_WAIT => \E h \in IO : pc'[h] = "park" /\ my'[h] = r /\ h[2] = k
    <3> SUFFICES ASSUME NEW r \in PD, NEW k \in Mode, word'[r][k] = PD_WAIT
                 PROVE  \E h \in IO : pc'[h] = "park" /\ my'[h] = r /\ h[2] = k
      OBVIOUS
    <3>1. CASE r = p /\ k = m  BY <1>2, <2>3, <2>4, <2>5, <3>1
    <3>2. CASE ~(r = p /\ k = m)
      <4>1. PICK h \in IO : pc[h] = "park" /\ my[h] = r /\ h[2] = k  BY <1>5, <2>3, <3>2
      <4> QED  BY <2>1, <2>4, <4>1
    <3> QED  BY <3>1, <3>2
  <2>10. \A h \in IO : pc'[h] = "parked" => word'[my'[h]][h[2]] = h
    BY <1>2, <1>3, <1>6, <2>1, <2>3, <2>4
  <2>11. \A h \in IO : pc'[h] # "panic"  BY <1>6, <2>4
  <2> QED  BY <2>7, <2>8, <2>9, <2>10, <2>11 DEF Agree, Parked
<1>11. CASE Commit(g)
  <2>1. /\ pc[g] = "park" /\ my' = my
        /\ \A h \in IO : h # g => pc'[h] = pc[h]
    BY <1>0, <1>6, <1>11 DEF Commit, Goto, TypeOK
  <2>2. CASE word[p][m] = PD_WAIT
    <3>1. SetWord(p, m, g) /\ pc'[g] = "parked"
      BY <1>0, <1>2, <1>11, <2>2 DEF Commit, Committed, Goto, TypeOK
    <3>2. \A r \in PD, k \in Mode : word'[r][k] = IF r = p /\ k = m THEN g ELSE word[r][k]
      BY <1>0, <1>7, <3>1, SetEffect
    <3>3. \A r \in PD, k \in Mode : word'[r][k] \in IO => word'[r][k] # g \/ (r = p /\ k = m)
      BY <1>4, <2>1, <3>2
    <3>4. WordsIn'  BY <1>2, <3>2 DEF Inv, WordsIn
    <3>5. \A r \in PD, k \in Mode : word'[r][k] \in IO => pc'[word'[r][k]] = "parked" /\ my'[word'[r][k]] = r
      BY <1>2, <1>4, <2>1, <3>1, <3>2, <3>3
    <3>6. \A r \in PD, k \in Mode : word'[r][k] = PD_WAIT => \E h \in IO : pc'[h] = "park" /\ my'[h] = r /\ h[2] = k
      <4> SUFFICES ASSUME NEW r \in PD, NEW k \in Mode, word'[r][k] = PD_WAIT
                   PROVE  \E h \in IO : pc'[h] = "park" /\ my'[h] = r /\ h[2] = k
        OBVIOUS
      <4>1. word[r][k] = PD_WAIT /\ ~(r = p /\ k = m)  BY <1>0, <3>2
      <4>2. PICK h \in IO : pc[h] = "park" /\ my[h] = r /\ h[2] = k  BY <1>5, <4>1
      <4>3. h # g  BY <1>2, <4>1, <4>2
      <4> QED  BY <2>1, <4>2, <4>3
    <3>7. \A h \in IO : pc'[h] = "parked" => word'[my'[h]][h[2]] = h
      BY <1>2, <1>3, <1>6, <2>1, <3>2
    <3>8. \A h \in IO : pc'[h] # "panic"  BY <1>6, <2>1, <3>1
    <3> QED  BY <3>4, <3>5, <3>6, <3>7, <3>8 DEF Agree, Parked
  <2>3. CASE word[p][m] # PD_WAIT
    <3>1. word' = word /\ pc'[g] = "resume"
      BY <1>0, <1>2, <1>11, <2>3 DEF Commit, Committed, Goto, TypeOK
    <3>2. \A r \in PD, k \in Mode : word[r][k] = PD_WAIT => \E h \in IO : pc'[h] = "park" /\ my'[h] = r /\ h[2] = k
      <4> SUFFICES ASSUME NEW r \in PD, NEW k \in Mode, word[r][k] = PD_WAIT
                   PROVE  \E h \in IO : pc'[h] = "park" /\ my'[h] = r /\ h[2] = k
        OBVIOUS
      <4>1. PICK h \in IO : pc[h] = "park" /\ my[h] = r /\ h[2] = k  BY <1>5
      <4>2. h # g  BY <1>2, <2>3, <4>1
      <4> QED  BY <2>1, <4>1, <4>2
    <3>3. WordsIn'  BY <3>1 DEF Inv, WordsIn
    <3>4. \A r \in PD, k \in Mode : word[r][k] \in IO => pc'[word[r][k]] = "parked" /\ my'[word[r][k]] = r
      BY <1>4, <2>1
    <3>5. \A h \in IO : /\ pc'[h] = "parked" => word[my[h]][h[2]] = h
                        /\ pc'[h] # "panic"
      BY <1>6, <2>1, <3>1
    <3> QED  BY <2>1, <3>1, <3>2, <3>3, <3>4, <3>5 DEF Agree, Parked
  <2> QED  BY <2>2, <2>3
<1>12. CASE Resume(g)
  <2>1. pc[g] = "resume" /\ word[p][m] \notin IO  BY <1>8, <1>12 DEF Resume
  <2>2. SetWord(p, m, PD_NIL)  BY <1>2, <1>12 DEF Resume
  <2>3. \A r \in PD, k \in Mode : word'[r][k] = IF r = p /\ k = m THEN PD_NIL ELSE word[r][k]
    BY <1>0, <1>7, <2>2, SetEffect
  <2>4. pc'[g] \in {"idle", "sys"} /\ \A h \in IO : h # g => pc'[h] = pc[h] /\ my'[h] = my[h]
    BY <1>0, <1>2, <1>6, <1>12, <2>1 DEF Resume, Goto, TypeOK
  <2>5. \A r \in PD, k \in Mode : word'[r][k] \in IO =>
           /\ word[r][k] = word'[r][k]
           /\ word'[r][k] # g
    BY <1>0, <1>4, <2>1, <2>3
  <2>6. WordsIn'  BY <2>5 DEF Inv, WordsIn
  <2>7. \A r \in PD, k \in Mode : word'[r][k] \in IO => pc'[word'[r][k]] = "parked" /\ my'[word'[r][k]] = r
    BY <1>4, <2>4, <2>5
  <2>8. \A r \in PD, k \in Mode : word'[r][k] = PD_WAIT => \E h \in IO : pc'[h] = "park" /\ my'[h] = r /\ h[2] = k
    <3> SUFFICES ASSUME NEW r \in PD, NEW k \in Mode, word'[r][k] = PD_WAIT
                 PROVE  \E h \in IO : pc'[h] = "park" /\ my'[h] = r /\ h[2] = k
      OBVIOUS
    <3>1. word[r][k] = PD_WAIT  BY <1>0, <2>3
    <3>2. PICK h \in IO : pc[h] = "park" /\ my[h] = r /\ h[2] = k  BY <1>5, <3>1
    <3> QED  BY <2>1, <2>4, <3>2
  <2>9. \A h \in IO : /\ pc'[h] = "parked" => word'[my'[h]][h[2]] = h
                      /\ pc'[h] # "panic"
    BY <1>2, <1>3, <1>6, <2>3, <2>4
  <2> QED  BY <2>6, <2>7, <2>8, <2>9 DEF Agree, Parked
<1> QED  BY <1>10, <1>11, <1>12

\* The words of a fresh descriptor are NIL, and nobody was parked on it.
LEMMA OpenWords ==
  ASSUME Inv, NEW q \in Proc, NEW n \in PD, NEW i \in Entry, Opens(q, n, i)
  PROVE  WordsIn' /\ Agree'
<1>0. TypeOK /\ PD_NIL \notin IO /\ PD_NIL # PD_WAIT /\ (\A g \in IO : g \in Proc /\ g[2] \in Mode)
  BY Names DEF Inv
<1>1. \A r \in Proc : my[r] # n  BY DEF Opens
<1>2. \A r \in Proc : r # q => my'[r] = my[r] /\ pc'[r] = pc[r]  BY <1>0 DEF Opens, TypeOK
<1>3. pc[q] = "open" /\ pc'[q] = "install"  BY <1>0 DEF Opens, TypeOK
<1>4. \A r \in PD, m \in Mode : word'[r][m] = IF r = n THEN PD_NIL ELSE word[r][m]
  BY <1>0 DEF Opens, TypeOK
<1>5. \A r \in PD, m \in Mode : word'[r][m] # PD_NIL => word'[r][m] = word[r][m]  BY <1>4
<1>6. WordsIn'  BY <1>0, <1>5 DEF Inv, WordsIn
<1>7. \A r \in PD, m \in Mode : word[r][m] \in IO => pc[word[r][m]] = "parked" /\ my[word[r][m]] = r
  BY DEF Inv, Agree, Parked
<1>8. \A r \in PD, m \in Mode : word'[r][m] \in IO => pc'[word'[r][m]] = "parked" /\ my'[word'[r][m]] = r
  BY <1>0, <1>2, <1>3, <1>5, <1>7
<1>9. ASSUME NEW r \in PD, NEW m \in Mode, word'[r][m] = PD_WAIT
      PROVE  \E g \in IO : pc'[g] = "park" /\ my'[g] = r /\ g[2] = m
  <2>1. PICK g \in IO : pc[g] = "park" /\ my[g] = r /\ g[2] = m  BY <1>0, <1>5, <1>9 DEF Inv, Agree
  <2> QED  BY <1>0, <1>2, <1>3, <2>1
<1>10. ASSUME NEW g \in IO, pc'[g] = "parked" PROVE word'[my'[g]][g[2]] = g
  <2>1. g # q /\ pc[g] = "parked" /\ my'[g] = my[g]  BY <1>0, <1>2, <1>3, <1>10
  <2>2. my[g] \in PD /\ my[g] # n /\ word[my[g]][g[2]] = g
    BY <1>0, <1>1, <2>1 DEF Inv, Holding, Holds, Uses, Agree, Parked
  <2> QED  BY <1>0, <1>4, <2>1, <2>2
<1>11. \A g \in IO : pc'[g] # "panic"  BY <1>0, <1>2, <1>3 DEF Inv, Agree
<1> QED  BY <1>6, <1>8, <1>9, <1>10, <1>11 DEF Agree, Parked

\* Every step keeps the words and their owners in agreement.
LEMMA StepWords ==
  ASSUME Inv, [Next]_vars, ~reused'
  PROVE  WordsIn' /\ Agree'
<1>0. /\ TypeOK /\ IO \subseteq Proc
      /\ \A c \in Conn : <<c, "ctl">> = ctl(c) /\ ctl(c) \in Proc /\ ctl(c) \notin IO
  BY Names DEF Inv
<1>1. ASSUME NEW q \in Proc, Ensure(q) PROVE WordsIn' /\ Agree'
  <2>1. CASE Open(q)
    <3>1. CASE OpenFails(q)
      <4>1. Still  BY <1>0, <3>1 DEF TypeOK, OpenFails, Still, desc
      <4> QED  BY <4>1, StillKeeps
    <3> QED  BY <2>1, <3>1, OpenEffect, OpenWords
  <2>2. CASE EnsureLoad(q) \/ Install(q) \/ EnsureReload(q) \/ Del(q) \/ Remove(q)
    <3>1. pc[q] \in {"ensure", "install", "reload", "del", "remove"}
      BY <2>2 DEF EnsureLoad, Install, EnsureReload, Del, Remove
    <3>2. word' = word  BY <2>2 DEF EnsureLoad, Install, EnsureReload, Del, Remove, desc
    <3>3. pc'[q] \in {"open", "check", "apply", "del", "idle", "remove", "fdclose", "reload"}
      BY <1>0, <2>2 DEF TypeOK, EnsureLoad, Install, EnsureReload, Del, Remove, Goto, Body
    <3>4. \A r \in Proc : r # q => pc'[r] = pc[r] /\ my'[r] = my[r]
      BY <1>0, <2>2 DEF TypeOK, EnsureLoad, Install, EnsureReload, Del, Remove, Goto
    <3>5. Still  BY <1>0, <3>1, <3>2, <3>3, <3>4 DEF Still
    <3> QED  BY <3>5, StillKeeps
  <2> QED  BY <1>1, <2>1, <2>2 DEF Ensure
<1>2. ASSUME NEW g \in IO, Arrive(g) \/ Call(g) \/ IOStep(g) PROVE WordsIn' /\ Agree'
  <2>1. CASE Arrive(g) \/ Call(g) \/ Sys(g) \/ Check(g)
    <3>1. word' = word  BY <2>1 DEF Arrive, Call, Sys, Check, desc
    <3>2. CASE Arrive(g)  BY <3>1, <3>2, StillKeeps DEF Still, Arrive, procs
    <3>3. CASE Call(g) \/ Sys(g) \/ Check(g)
      <4>1. pc[g] \in {"idle", "sys", "check"} /\ pc'[g] \in {"sys", "idle", "ensure", "arm"}
        BY <1>0, <3>3 DEF TypeOK, Call, Sys, Check, Return, Goto
      <4>2. \A h \in IO : h # g => pc'[h] = pc[h] /\ my'[h] = my[h]
        BY <1>0, <3>3 DEF TypeOK, Call, Sys, Check, Return, Goto
      <4>3. Still  BY <3>1, <4>1, <4>2 DEF Still
      <4> QED  BY <4>3, StillKeeps
    <3> QED  BY <2>1, <3>2, <3>3
  <2> QED  BY <1>0, <1>1, <1>2, <2>1, BlockKeeps DEF IOStep
<1>3. ASSUME NEW c \in Conn, CallSetDeadline(c) \/ CallClose(c) \/ CtlStep(c)
      PROVE  WordsIn' /\ Agree'
  <2>1. CASE CallSetDeadline(c) \/ CallClose(c) \/ Apply(c) \/ Evict(c) \/ FdClose(c)
    <3>1. word' = word  BY <2>1 DEF CallSetDeadline, CallClose, Apply, Evict, FdClose, desc
    <3>2. \A g \in IO : pc'[g] = pc[g] /\ my'[g] = my[g]
      <4>1. CASE Apply(c)
        <5>1. (Goto(ctl(c), "unblock") /\ my' = my) \/ Return(ctl(c))  BY <1>0, <4>1 DEF Apply
        <5> QED  BY <1>0, <5>1 DEF TypeOK, Return, Goto
      <4>2. CASE CallSetDeadline(c)
        <5>1. Goto(ctl(c), "ensure") /\ my' = my  BY <1>0, <4>2 DEF CallSetDeadline
        <5> QED  BY <1>0, <5>1 DEF TypeOK, Goto
      <4>3. CASE CallClose(c)
        <5>1. /\ pc' = [pc EXCEPT ![ctl(c)] = IF pd[c] = None THEN "fdclose" ELSE "evict"]
              /\ my' = [my EXCEPT ![ctl(c)] = pd[c]]
          BY <1>0, <4>3 DEF CallClose, Goto
        <5> QED  BY <1>0, <5>1 DEF TypeOK
      <4>4. CASE Evict(c) \/ FdClose(c)
        <5>1. (Goto(ctl(c), "evict2") \/ Goto(ctl(c), "idle")) /\ my' = my
          BY <1>0, <4>4 DEF Evict, FdClose
        <5> QED  BY <1>0, <5>1 DEF TypeOK, Goto
      <4> QED  BY <2>1, <4>1, <4>2, <4>3, <4>4
    <3>3. Still  BY <3>1, <3>2 DEF Still
    <3> QED  BY <3>3, StillKeeps
  <2>2. CASE ApplyUnblock(c) \/ EvictUnblock(c)
    <3>1. PICK p \in PD, m \in Mode : Freed(p, {m})  BY <2>2, ControlFrees
    <3>2. {m} \subseteq Mode  OBVIOUS
    <3> QED  BY <3>1, <3>2, FreedKeeps
  <2> QED  BY <1>0, <1>1, <1>3, <2>1, <2>2 DEF CtlStep
<1>4. ASSUME NEW t \in Poller, PollStep(t) PROVE WordsIn' /\ Agree'
  <2>1. CASE (\E s \in Shard : Fetch(t, s)) \/ Lookup(t)
    <3>1. Still  BY <2>1 DEF Still, Fetch, Lookup, desc, procs
    <3> QED  BY <3>1, StillKeeps
  <2>2. CASE Deliver(t)
    <3>1. PICK p \in PD, ms \in SUBSET Mode : Freed(p, ms)  BY <2>2, DeliverFrees
    <3> QED  BY <3>1, FreedKeeps
  <2> QED  BY <1>4, <2>1, <2>2 DEF PollStep
<1>5. CASE Scan \/ Fire \/ Clock \/ UNCHANGED vars
  <2>1. Still  BY <1>5 DEF Still, Scan, Fire, Clock, vars, desc, procs
  <2> QED  BY <2>1, StillKeeps
<1>6. CASE FireUnblock
  <2>1. PICK p \in PD, m \in Mode : Freed(p, {m})  BY <1>6, FireFrees
  <2>2. {m} \subseteq Mode  OBVIOUS
  <2> QED  BY <2>1, <2>2, FreedKeeps
<1> QED  BY <1>2, <1>3, <1>4, <1>5, <1>6 DEF Next, SysmonStep

-----------------------------------------------------------------------------
(* The controllers.                                                        *)

\* A step of another process, or of a poller, leaves a controller where it is.
LEMMA ControlFrame ==
  ASSUME Inv, fd' = fd, arg' = arg, \A c \in Conn : pc'[ctl(c)] = pc[ctl(c)] /\ my'[ctl(c)] = my[ctl(c)],
         \A c \in Conn : pd[c] # None => pd'[c] = pd[c]
  PROVE  Control'
<1>1. \A c \in Conn : ctl(c) \in Proc /\ None \notin PD  BY Names
<1>2. \A c \in Conn : pc[ctl(c)] \in {"apply", "unblock"} => my[ctl(c)] \in PD
  BY <1>1 DEF Inv, Holding, Holds, Uses
<1> QED  BY <1>1, <1>2 DEF Inv, Control

\* Every step keeps what is known of the controllers.
LEMMA StepControl == ASSUME Inv, [Next]_vars, ~reused' PROVE Control'
<1>0. /\ TypeOK /\ IO \subseteq Proc
      /\ \A c \in Conn : ctl(c) \in Proc /\ ctl(c)[1] = c /\ ctl(c) \notin IO /\ <<c, "ctl">> = ctl(c)
      /\ \A q \in Proc : q[1] \in Conn
      /\ None \notin PD /\ None \notin Proc /\ "close" \notin Mode /\ FirstMode \in Mode /\ LastMode \in Mode
  BY Names DEF Inv
<1>1. \A c, d \in Conn : ctl(c) = ctl(d) => c = d  BY DEF ctl
<1>2. ASSUME NEW q \in Proc, Ensure(q) PROVE Control'
  <2>1. /\ fd' = fd /\ arg' = arg
        /\ \A c \in Conn : pd[c] # None => pd'[c] = pd[c]
        /\ \A r \in Proc : r # q => pc'[r] = pc[r] /\ my'[r] = my[r]
    <3>1. CASE Open(q)
      BY <1>0, <3>1, OpenEffect DEF OpenFails, Opens, TypeOK, kernel
    <3>2. CASE EnsureLoad(q) \/ EnsureReload(q) \/ Del(q) \/ Remove(q)
      BY <1>0, <3>2 DEF EnsureLoad, EnsureReload, Del, Remove, Goto, TypeOK, kernel
    <3>3. CASE Install(q)
      BY <1>0, <3>3 DEF Install, Installed, Goto, TypeOK, kernel
    <3> QED  BY <1>2, <3>1, <3>2, <3>3 DEF Ensure
  <2>2. CASE q \in IO  BY <1>0, <2>1, <2>2, ControlFrame
  <2>3. ASSUME NEW c \in Conn, q = ctl(c) PROVE Control'
    <3>1. \A d \in Conn : d # c => pc'[ctl(d)] = pc[ctl(d)] /\ my'[ctl(d)] = my[ctl(d)]
      BY <1>0, <1>1, <2>1, <2>3
    <3>2. \A d \in Conn : pc[ctl(d)] \in {"apply", "unblock"} => my[ctl(d)] \in PD
      BY <1>0 DEF Inv, Holding, Holds, Uses
    <3>3. pc[q] \in {"ensure", "open", "install", "reload", "del", "remove"}
      BY <1>2 DEF Ensure, EnsureLoad, Open, Install, EnsureReload, Del, Remove
    <3>4. fd[c] = "open"  BY <2>3, <3>3 DEF Inv, Control
    <3>5. pc'[q] \in {"apply", "unblock"} => my'[q] = pd'[c]
      <4>1. CASE Open(q)  BY <1>0, <4>1, OpenEffect DEF OpenFails, Opens, TypeOK
      <4>2. CASE EnsureLoad(q) \/ EnsureReload(q)
        BY <1>0, <2>3, <4>2 DEF EnsureLoad, EnsureReload, Goto, TypeOK
      <4>3. CASE Del(q) \/ Remove(q)  BY <1>0, <4>3 DEF Del, Remove, Goto, TypeOK
      <4>4. CASE Install(q)
        BY <1>0, <2>3, <4>4 DEF Install, Installed, Goto, TypeOK
      <4> QED  BY <1>2, <4>1, <4>2, <4>3, <4>4 DEF Ensure
    <3>6. /\ pc'[q] \in {"ensure", "open", "install", "reload", "apply", "unblock", "evict", "evict2"}
             => arg[c] \in Mode
          /\ pc'[q] \in {"del", "remove"} => arg[c] \in Mode \cup {"close"}
      <4>1. /\ pc[q] \in {"ensure", "open", "install", "reload"} => arg[c] \in Mode
            /\ pc[q] \in {"del", "remove"} => arg[c] \in Mode \cup {"close"}
        BY <2>3 DEF Inv, Control
      <4>2. CASE Del(q)  BY <1>0, <4>1, <4>2 DEF Del, Goto, TypeOK
      <4>3. CASE Remove(q)
        <5>1. pc'[q] = IF Closing(q) THEN "fdclose" ELSE "reload"  BY <1>0, <4>3 DEF Remove, Goto, TypeOK
        <5>2. Closing(q) <=> arg[c] = "close"  BY <1>0, <2>3 DEF Closing, Proc
        <5> QED  BY <4>1, <4>3, <5>1, <5>2 DEF Remove
      <4>4. CASE EnsureLoad(q) \/ Open(q) \/ Install(q) \/ EnsureReload(q)
        <5>1. arg[c] \in Mode  BY <4>1, <4>4 DEF EnsureLoad, Open, Install, EnsureReload
        <5> QED  BY <5>1
      <4> QED  BY <1>2, <4>2, <4>3, <4>4 DEF Ensure
    <3> QED  BY <2>1, <2>3, <3>1, <3>2, <3>4, <3>5, <3>6, <1>0 DEF Inv, Control
  <2> QED  BY <2>2, <2>3, Names
<1>3. ASSUME NEW g \in IO, Arrive(g) \/ Call(g) \/ IOStep(g) PROVE Control'
  <2>1. CASE Arrive(g) \/ Call(g) \/ Sys(g) \/ Check(g) \/ Arm(g) \/ Commit(g) \/ Resume(g)
    <3>1. fd' = fd /\ arg' = arg /\ pd' = pd
      BY <2>1 DEF Arrive, Call, Sys, Check, Arm, Commit, Resume, kernel, procs
    <3>2. \A r \in Proc : r # g => pc'[r] = pc[r] /\ my'[r] = my[r]
      BY <1>0, <2>1 DEF TypeOK, Arrive, Call, Sys, Check, Arm, Commit, Committed, Resume, Return, Goto, procs
    <3> QED  BY <1>0, <3>1, <3>2, ControlFrame
  <2> QED  BY <1>0, <1>2, <1>3, <2>1 DEF IOStep
<1>4. ASSUME NEW c \in Conn, CallSetDeadline(c) \/ CallClose(c) \/ CtlStep(c) PROVE Control'
  <2> DEFINE q == ctl(c)
  <2>0. q \in Proc /\ <<c, "ctl">> = q /\ q \notin IO  BY <1>0
  <2>1. pc[q] # "idle" => fd[c] = "open"  BY DEF Inv, Control
  <2>2. pc[q] \in {"apply", "unblock", "evict", "evict2"} => arg[c] \in Mode  BY DEF Inv, Control
  <2>3. pc[q] \in {"apply", "unblock"} => my[q] = pd[c]  BY DEF Inv, Control
  <2> HIDE DEF q
  <2>4. ASSUME \A d \in Conn : d # c => /\ pc'[ctl(d)] = pc[ctl(d)] /\ my'[ctl(d)] = my[ctl(d)]
                                        /\ arg'[d] = arg[d] /\ fd'[d] = fd[d] /\ pd'[d] = pd[d],
               pc'[q] # "idle" => fd'[c] = "open",
               pc'[q] \in {"apply", "unblock"} => my'[q] = pd'[c],
               pc'[q] \in {"ensure", "open", "install", "reload", "apply", "unblock", "evict", "evict2"}
                   => arg'[c] \in Mode,
               pc'[q] \in {"del", "remove"} => arg'[c] \in Mode \cup {"close"}
        PROVE  Control'
    BY <2>4 DEF Inv, Control, q
  <2>5. \A d \in Conn : d # c => ctl(d) # q /\ ctl(d) \in Proc /\ ctl(d) \notin IO  BY <1>0, <1>1 DEF q
  <2>6. CASE CallSetDeadline(c)
    <3>1. PICK m \in Mode : arg' = [arg EXCEPT ![c] = m]  BY <2>6 DEF CallSetDeadline
    <3> QED  BY <1>0, <2>0, <2>4, <2>5, <2>6, <3>1 DEF CallSetDeadline, Goto, TypeOK, kernel
  <2>7. CASE CallClose(c)
    BY <1>0, <2>0, <2>4, <2>5, <2>7 DEF CallClose, Goto, TypeOK, kernel
  <2>8. CASE Apply(c)
    <3>1. pc[q] = "apply" /\ fd' = fd /\ pd' = pd  BY <2>0, <2>8 DEF Apply, kernel
    <3>2. (Goto(q, "unblock") /\ UNCHANGED <<my, arg>>) \/ (Return(q) /\ arg' = [arg EXCEPT ![c] = None])
      BY <2>0, <2>8 DEF Apply
    <3> QED  BY <1>0, <2>0, <2>1, <2>2, <2>3, <2>4, <2>5, <3>1, <3>2 DEF Return, Goto, TypeOK
  <2>9. CASE Evict(c)
    BY <1>0, <2>0, <2>1, <2>2, <2>4, <2>5, <2>9 DEF Evict, Goto, TypeOK, kernel
  <2>10. CASE FdClose(c)
    BY <1>0, <2>0, <2>4, <2>5, <2>10 DEF FdClose, Goto, TypeOK
  <2>11. CASE ApplyUnblock(c)
    <3>1. \A r \in Proc : r \notin IO => pc'[r] = IF r = q THEN "idle" ELSE pc[r]
      BY <2>0, <2>11 DEF ApplyUnblock, Unblock, Parkers
    <3> QED  BY <1>0, <2>0, <2>4, <2>5, <2>11, <3>1 DEF ApplyUnblock, TypeOK, kernel
  <2>12. CASE EvictUnblock(c)
    <3>1. \A r \in Proc : r \notin IO => pc'[r] = IF r = q THEN AfterMode(arg[c]) ELSE pc[r]
      BY <2>0, <2>12 DEF EvictUnblock, Unblock, Parkers
    <3>2. pc'[q] \in {"del", "evict"} /\ pc[q] = "evict2"  BY <2>0, <2>12, <3>1 DEF AfterMode, EvictUnblock
    <3>3. arg'[c] = IF AfterMode(arg[c]) = "del" THEN "close" ELSE LastMode
      BY <1>0, <2>12 DEF EvictUnblock, TypeOK
    <3> QED  BY <1>0, <2>0, <2>1, <2>4, <2>5, <2>12, <3>1, <3>2, <3>3 DEF EvictUnblock, TypeOK, kernel
  <2> QED  BY <1>0, <1>2, <1>4, <2>6, <2>7, <2>8, <2>9, <2>10, <2>11, <2>12 DEF CtlStep
<1>5. ASSUME NEW t \in Poller, PollStep(t) PROVE Control'
  <2>1. CASE (\E s \in Shard : Fetch(t, s)) \/ Lookup(t)
    BY <2>1, ControlFrame DEF Fetch, Lookup, procs, kernel
  <2>2. CASE Deliver(t)
    <3>1. \A r \in Proc : r \notin IO => pc'[r] = pc[r]  BY <1>0, <2>2 DEF Deliver, Unblock, Parkers
    <3> QED  BY <1>0, <2>2, <3>1, ControlFrame DEF Deliver, kernel
  <2> QED  BY <1>5, <2>1, <2>2 DEF PollStep
<1>6. CASE Scan \/ Fire \/ Clock \/ UNCHANGED vars
  BY <1>6, ControlFrame DEF Scan, Fire, Clock, vars, procs, kernel
<1>7. CASE FireUnblock
  <2>1. \A r \in Proc : r \notin IO => pc'[r] = pc[r]  BY <1>0, <1>7 DEF FireUnblock, Unblock, Parkers
  <2> QED  BY <1>0, <1>7, <2>1, ControlFrame DEF FireUnblock, kernel
<1> QED  BY <1>3, <1>4, <1>5, <1>6, <1>7 DEF Next, SysmonStep

-----------------------------------------------------------------------------
(* Readiness.                                                              *)

\* Only netpoll::open registers a descriptor, and a fresh one.
LEMMA StepSingle == ASSUME Inv, [Next]_vars, ~reused' PROVE Single'
<1>0. IO \subseteq Proc /\ \A c \in Conn : <<c, "ctl">> = ctl(c) /\ ctl(c) \in Proc  BY Names
<1>1. ASSUME interest' \subseteq interest PROVE Single'  BY <1>1 DEF Inv, Single
<1>2. ASSUME NEW q \in Proc, Ensure(q) PROVE Single'
  <2>1. CASE EnsureLoad(q) \/ Install(q) \/ EnsureReload(q) \/ Del(q) \/ Remove(q)
    BY <1>1, <2>1 DEF EnsureLoad, Install, EnsureReload, Del, Remove, kernel
  <2>2. CASE OpenFails(q)  BY <1>1, <2>2 DEF OpenFails, kernel
  <2>3. ASSUME NEW n \in PD, NEW i \in Entry, Opens(q, n, i) PROVE Single'
    <3>1. n \notin Regd /\ i.pd = n /\ interest' = interest \cup {i}  BY <2>3, NotAllocated DEF Opens
    <3>2. \A j \in interest : j.pd # n  BY <3>1 DEF Inv, TypeOK, Entry, Registry, Regd
    <3> QED  BY <3>1, <3>2 DEF Inv, Single
  <2> QED  BY <1>2, <2>1, <2>2, <2>3, OpenEffect DEF Ensure
<1>3. ASSUME NEW g \in IO, Arrive(g) \/ Call(g) \/ IOStep(g) PROVE Single'
  BY <1>0, <1>1, <1>2, <1>3, NeutralIO DEF IOStep, Neutral
<1>4. ASSUME NEW c \in Conn, CallSetDeadline(c) \/ CallClose(c) \/ CtlStep(c) PROVE Single'
  <2>1. CASE CallClose(c)  BY <1>1, <2>1 DEF CallClose, kernel
  <2> QED  BY <1>0, <1>1, <1>2, <1>4, <2>1, NeutralControl DEF CtlStep, Neutral
<1>5. CASE (\E t \in Poller : PollStep(t)) \/ SysmonStep \/ Clock \/ UNCHANGED vars
  BY <1>1, <1>5, NeutralPoll DEF Neutral
<1> QED  BY <1>3, <1>4, <1>5 DEF Next

\* It is enough that what is told to those who still wait stays told.
LEMMA TellingFrame ==
  ASSUME Inv, interest' \subseteq interest,
         \A g \in IO, i \in interest' : pc'[g] \notin Quiet /\ avail'[g] /\ i.fd = g[1] =>
            /\ pc[g] \notin Quiet /\ avail[g]
            /\ Tells(i.pd, g[2]) => Tells(i.pd, g[2])'
  PROVE  Telling'
<1> SUFFICES ASSUME NEW g \in IO, pc'[g] \notin Quiet, avail'[g], NEW i \in interest', i.fd = g[1]
             PROVE  Tells(i.pd, g[2])'
  BY DEF Telling, Told
<1> QED  BY DEF Inv, Telling, Told

\* A step that leaves epoll, the pollers and the registry alone and no READY word less.
Tacit ==
    /\ interest' = interest /\ edge' = edge /\ batch' = batch /\ cur' = cur /\ reg' = reg
    /\ \A p \in PD, m \in Mode : word[p][m] = PD_READY => word'[p][m] = PD_READY
    /\ \A g \in IO : pc'[g] \notin Quiet /\ avail'[g] => pc[g] \notin Quiet /\ avail[g]
\* What is told stays told in such a step.
LEMMA TacitKeeps == ASSUME Inv, Tacit PROVE Telling'
<1>1. \A p, m : UnderWay(p, m) => UnderWay(p, m)'  BY DEF Tacit, UnderWay
<1>2. \A i \in interest : i.pd \in PD  BY DEF Inv, TypeOK, Entry
<1>3. \A g \in IO : g[2] \in Mode  BY Names
<1>4. \A g \in IO, i \in interest : Tells(i.pd, g[2]) => Tells(i.pd, g[2])'
  BY <1>1, <1>2, <1>3 DEF Tells, Tacit
<1> QED  BY <1>4, TellingFrame DEF Tacit

\* An edge that epoll has taken up is on the way to every goroutine that may wait for it.
LEMMA ArriveTells == ASSUME Inv, NEW g \in IO, Arrive(g) PROVE Telling'
<1>0. TypeOK /\ \A h \in IO : h[2] \in Mode  BY Names DEF Inv
<1>1. /\ edge' = edge \cup {i \in interest : i.fd = g[1]}
      /\ UNCHANGED <<word, reg, interest, pc, batch, cur>>
      /\ \A h \in IO : h # g => avail'[h] = avail[h]
  BY <1>0 DEF TypeOK, Arrive, desc, procs, pollers
<1> SUFFICES ASSUME NEW h \in IO, pc'[h] \notin Quiet, avail'[h], NEW i \in interest, i.fd = h[1]
             PROVE  Tells(i.pd, h[2])'
  BY <1>1 DEF Telling, Told
<1>2. CASE h[1] = g[1]
  <2>1. i \in edge'  BY <1>1, <1>2
  <2> QED  BY <2>1 DEF Tells, UnderWay
<1>3. CASE h[1] # g[1]
  <2>1. avail[h]  BY <1>1, <1>3
  <2>2. Tells(i.pd, h[2])  BY <1>1, <2>1 DEF Inv, Telling, Told
  <2>3. UnderWay(i.pd, h[2]) => UnderWay(i.pd, h[2])'  BY <1>1 DEF UnderWay
  <2> QED  BY <1>1, <2>2, <2>3 DEF Tells
<1> QED  BY <1>2, <1>3

\* READY is taken by the goroutine it is for, on its way to the system call.
LEMMA BlockTells ==
  ASSUME Inv, NEW g \in IO, Arm(g) \/ Commit(g) \/ Resume(g)
  PROVE  Telling'
<1> DEFINE p == my[g]
           m == g[2]
<1>0. /\ TypeOK /\ g \in Proc /\ IO \subseteq Proc /\ \A h \in IO : h[1] \in Conn /\ h[2] \in Mode /\ h = <<h[1], h[2]>>
  BY Names DEF Inv
<1>1. pc[g] \in {"arm", "park", "resume"}  BY DEF Arm, Commit, Resume
<1>2. p \in PD /\ m \in Mode  BY <1>0, <1>1 DEF Inv, Holding, Holds, Uses
<1>3. /\ UNCHANGED <<interest, edge, batch, cur, reg, avail>>
      /\ \A h \in IO : h # g => pc'[h] = pc[h]
  BY <1>0 DEF Arm, Commit, Committed, Resume, Goto, TypeOK, kernel, pollers
<1>4. /\ \A r \in PD, k \in Mode : r # p \/ k # m => word'[r][k] = word[r][k]
      /\ word[p][m] = PD_READY /\ word'[p][m] # PD_READY => pc'[g] \in Quiet
  <2>1. CASE Arm(g)
    <3>1. word' = [word EXCEPT ![p][m] = CASE word[p][m] = PD_READY -> PD_NIL
                       [] word[p][m] = PD_NIL -> PD_WAIT [] OTHER -> word[p][m]]
      BY <2>1 DEF Arm, SetWord
    <3>2. \A r \in PD, k \in Mode : r # p \/ k # m => word'[r][k] = word[r][k]
      BY <1>0, <1>2, <3>1 DEF TypeOK
    <3>3. word[p][m] = PD_READY => pc' = [pc EXCEPT ![g] = "sys"]  BY <2>1, Names DEF Arm, Goto
    <3>4. word[p][m] = PD_READY => pc'[g] = "sys"  BY <1>0, <3>3 DEF TypeOK
    <3> QED  BY <3>2, <3>4 DEF Quiet
  <2>2. CASE Commit(g)
    <3>1. \/ word[p][m] = PD_WAIT /\ word' = [word EXCEPT ![p][m] = g]
          \/ word' = word
      BY <2>2 DEF Commit, Committed, SetWord
    <3>2. \A r \in PD, k \in Mode : r # p \/ k # m => word'[r][k] = word[r][k]
      BY <1>0, <1>2, <3>1 DEF TypeOK
    <3> QED  BY <3>1, <3>2, Names
  <2>3. CASE Resume(g)
    <3>1. word' = [word EXCEPT ![p][m] = PD_NIL]  BY <2>3 DEF Resume, SetWord
    <3>2. \A r \in PD, k \in Mode : r # p \/ k # m => word'[r][k] = word[r][k]
      BY <1>0, <1>2, <3>1 DEF TypeOK
    <3>3. pc'[g] \in Quiet  BY <1>0, <2>3 DEF Resume, Goto, TypeOK, Quiet
    <3> QED  BY <3>2, <3>3
  <2> QED  BY <2>1, <2>2, <2>3
<1>5. pc[g] \notin Quiet  BY <1>1 DEF Quiet
<1> HIDE DEF p, m
<1>6. ASSUME NEW h \in IO, NEW i \in interest, pc'[h] \notin Quiet, avail'[h], i.fd = h[1], Tells(i.pd, h[2])
      PROVE  Tells(i.pd, h[2])'
  <2>1. UnderWay(i.pd, h[2]) => UnderWay(i.pd, h[2])'  BY <1>3 DEF UnderWay
  <2>2. i.pd \in PD  BY <1>0 DEF TypeOK, Entry
  <2>3. CASE i.pd = p /\ h[2] = m
    <3>1. Owns(g[1], p)  BY <1>0 DEF Owns, p
    <3>2. i.fd = g[1]  BY <1>0, <2>3, <3>1 DEF Inv, Registry
    <3>3. h = g  BY <1>0, <1>6, <2>3, <3>2 DEF m
    <3> QED  BY <1>4, <1>6, <2>1, <2>3, <3>3 DEF Tells
  <2>4. CASE ~(i.pd = p /\ h[2] = m)
    <3>1. word'[i.pd][h[2]] = word[i.pd][h[2]]  BY <1>0, <1>4, <2>2, <2>4
    <3> QED  BY <1>6, <2>1, <3>1 DEF Tells
  <2> QED  BY <2>3, <2>4
<1> QED  BY <1>3, <1>5, <1>6, TellingFrame

\* ensure_pd: a new descriptor comes with the edge of what is ready, and only a
\* descriptor without registration leaves the registry.
LEMMA EnsureTells ==
  ASSUME Inv, NEW q \in Proc, Ensure(q), ~reused'
  PROVE  Telling'
<1>0. /\ TypeOK /\ IO \subseteq Proc /\ None \notin PD /\ q[1] \in Conn
      /\ \A h \in IO : h[1] \in Conn /\ h[2] \in Mode /\ h = <<h[1], h[2]>>
      /\ \A i \in interest : i.pd \in PD
  BY Names DEF Inv, TypeOK, Entry
<1>1. CASE EnsureLoad(q) \/ Install(q) \/ EnsureReload(q)
  <2>1. pc[q] \notin Quiet  BY <1>1 DEF EnsureLoad, Install, EnsureReload, Quiet
  <2>2. \A r \in Proc : r # q => pc'[r] = pc[r]
    BY <1>0, <1>1 DEF EnsureLoad, Install, Installed, EnsureReload, Goto, TypeOK
  <2>3. Tacit
    BY <1>0, <1>1, <2>1, <2>2 DEF EnsureLoad, Install, EnsureReload, Tacit, desc, kernel, pollers
  <2> QED  BY <2>3, TacitKeeps
<1>2. CASE OpenFails(q)
  <2>1. pc[q] \notin Quiet /\ \A r \in Proc : r # q => pc'[r] = pc[r]
    BY <1>0, <1>2 DEF OpenFails, Quiet, TypeOK
  <2>2. Tacit  BY <1>0, <1>2, <2>1 DEF OpenFails, Tacit, desc, kernel, pollers
  <2> QED  BY <2>2, TacitKeeps
<1>3. ASSUME NEW n \in PD, NEW i \in Entry, Opens(q, n, i) PROVE Telling'
  <2>1. /\ pc[q] = "open" /\ reg[FreeSlot] = None /\ reg' = [reg EXCEPT ![FreeSlot] = n]
        /\ interest' = interest \cup {i} /\ i.fd = q[1] /\ i.pd = n
        /\ edge' = IF Ready(q[1]) = {} THEN edge ELSE edge \cup {i}
        /\ UNCHANGED <<avail, batch, cur>>
    BY <1>3 DEF Opens
  <2>2. \A r \in Proc : r # q => pc'[r] = pc[r]  BY <1>0, <1>3 DEF Opens, TypeOK
  <2>3. \A j \in interest : j.pd # n
    BY <1>3, NotAllocated DEF Opens, Inv, TypeOK, Entry, Registry, Regd
  <2>4. \A r \in PD, m \in Mode : r # n => word'[r][m] = word[r][m]
    BY <1>0, <1>3 DEF Opens, TypeOK
  <2>5. \A h \in IO : pc'[h] \notin Quiet => pc[h] \notin Quiet  BY <1>0, <2>1, <2>2 DEF Quiet
  <2> SUFFICES ASSUME NEW h \in IO, pc'[h] \notin Quiet, avail'[h], NEW j \in interest', j.fd = h[1]
               PROVE  Tells(j.pd, h[2])'
    BY DEF Telling, Told
  <2>6. CASE j = i
    <3>1. avail[<<q[1], h[2]>>] /\ h[2] \in Mode  BY <1>0, <2>1, <2>6
    <3>2. h[2] \in Ready(q[1])  BY <3>1 DEF Ready
    <3>3. i \in edge'  BY <2>1, <3>2
    <3> QED  BY <2>6, <3>3 DEF Tells, UnderWay
  <2>7. CASE j \in interest
    <3>1. Tells(j.pd, h[2])  BY <2>1, <2>5, <2>7 DEF Inv, Telling, Told
    <3>2. \A e : reg[e.slot] = j.pd => reg'[e.slot] = j.pd
      <4> SUFFICES ASSUME NEW s, reg[s] = j.pd PROVE reg'[s] = j.pd  OBVIOUS
      <4>1. s # FreeSlot  BY <1>0, <2>1, <2>7
      <4> QED  BY <1>0, <2>1, <4>1 DEF TypeOK
    <3>3. UnderWay(j.pd, h[2]) => UnderWay(j.pd, h[2])'
      <4>1. edge \subseteq edge'  BY <2>1
      <4> QED  BY <2>1, <3>2, <4>1 DEF UnderWay
    <3> QED  BY <1>0, <2>3, <2>4, <2>7, <3>1, <3>3 DEF Tells
  <2> QED  BY <2>1, <2>6, <2>7
<1>4. CASE Del(q)
  <2>1. /\ interest' = {i \in interest : i.pd # my[q]} /\ edge' = edge \cap interest'
        /\ UNCHANGED <<word, reg, avail, batch, cur>> /\ pc[q] = "del"
        /\ \A r \in Proc : r # q => pc'[r] = pc[r]
    BY <1>0, <1>4 DEF Del, Goto, TypeOK, pollers
  <2>2. \A h \in IO : pc'[h] \notin Quiet => pc[h] \notin Quiet  BY <1>0, <2>1 DEF Quiet
  <2>3. \A i \in interest' : \A m : Tells(i.pd, m) => Tells(i.pd, m)'
    <3>1. \A i \in interest', j \in edge : j.pd = i.pd => j \in edge'  BY <1>0, <2>1 DEF TypeOK
    <3> QED  BY <2>1, <3>1 DEF Tells, UnderWay
  <2> QED  BY <2>1, <2>2, <2>3, TellingFrame
<1>5. CASE Remove(q)
  <2> DEFINE s == SlotOf(my[q])
  <2>1. /\ reg' = [reg EXCEPT ![s] = None] /\ UNCHANGED <<word, interest, edge, avail, batch, cur>>
        /\ pc[q] = "remove" /\ \A r \in Proc : r # q => pc'[r] = pc[r]
    BY <1>0, <1>5 DEF Remove, Goto, TypeOK, desc, kernel, pollers
  <2>2. my[q] \in Regd  BY <2>1 DEF Inv, Holding, Holds, Sole
  <2>3. s \in Slot /\ reg[s] = my[q]  BY <2>2 DEF SlotOf, Regd
  <2> HIDE DEF s
  <2>4. \A h \in IO : pc'[h] \notin Quiet => pc[h] \notin Quiet  BY <1>0, <2>1 DEF Quiet
  <2>5. \A i \in interest : i.pd # my[q]  BY <2>1 DEF Inv, Registry
  <2>6. ASSUME NEW i \in interest, NEW t \in Slot, reg[t] = i.pd PROVE reg'[t] = i.pd
    <3>1. t # s  BY <2>3, <2>5, <2>6
    <3> QED  BY <1>0, <2>1, <2>6, <3>1 DEF TypeOK
  <2>7. \A u \in Poller : \A e \in batch[u] : e.slot \in Slot  BY <1>0 DEF TypeOK, Event
  <2>8. \A i \in interest : \A m : UnderWay(i.pd, m) => UnderWay(i.pd, m)'
    BY <2>1, <2>6, <2>7 DEF UnderWay
  <2>9. \A i \in interest : \A m : Tells(i.pd, m) => Tells(i.pd, m)'  BY <2>1, <2>8 DEF Tells
  <2> QED  BY <2>1, <2>4, <2>9, TellingFrame
<1> QED  BY <1>1, <1>2, <1>3, <1>4, <1>5, OpenEffect DEF Ensure

\* An event goes from epoll into a poller's batch, past the filter for stale events and
\* into the word.
LEMMA PollTells ==
  ASSUME Inv, NEW t \in Poller, PollStep(t)
  PROVE  Telling'
<1>0. /\ TypeOK /\ IO \subseteq Proc /\ None \notin PD
      /\ \A h \in IO : h[1] \in Conn /\ h[2] \in Mode /\ h = <<h[1], h[2]>>
      /\ \A i \in interest : i.pd \in PD /\ i.slot \in Slot /\ i.tag = 1 /\ reg[i.slot] = i.pd /\ fdseq[i.pd] = 1
  BY Names DEF Inv, TypeOK, Entry, Registry
<1>1. ASSUME NEW s \in Shard, Fetch(t, s) PROVE Telling'
  <2>1. /\ batch[t] = {} /\ cur[t] = None /\ batch'[t] = Events(s)
        /\ (\A u \in Poller : u # t => batch'[u] = batch[u])
        /\ edge' = {i \in edge : i.shard # s}
        /\ UNCHANGED <<word, reg, avail, interest, pc, cur>>
    BY <1>0, <1>1 DEF Fetch, TypeOK, desc, procs
  <2>2. ASSUME NEW h \in IO, NEW i \in interest, avail[h], i.fd = h[1], Tells(i.pd, h[2])
        PROVE  Tells(i.pd, h[2])'
    <3>1. CASE \E j \in edge : j.pd = i.pd
      <4>1. i \in edge  BY <1>0, <3>1 DEF Inv, Single, TypeOK
      <4>2. CASE i.shard # s  BY <2>1, <4>1, <4>2 DEF Tells, UnderWay
      <4>3. CASE i.shard = s
        <5>1. h[2] \in Ready(i.fd)  BY <1>0, <2>2 DEF Ready
        <5>2. [slot |-> i.slot, tag |-> i.tag, modes |-> Ready(i.fd)] \in batch'[t]
          BY <2>1, <4>1, <4>3, <5>1 DEF Events
        <5>3. PICK e \in batch'[t] : e.slot = i.slot /\ h[2] \in e.modes  BY <5>1, <5>2
        <5>4. reg'[e.slot] = i.pd  BY <1>0, <2>1, <5>3
        <5> QED  BY <5>3, <5>4 DEF Tells, UnderWay
      <4> QED  BY <4>2, <4>3
    <3>2. ASSUME NEW u \in Poller, NEW e \in batch[u], reg[e.slot] = i.pd, h[2] \in e.modes
          PROVE  Tells(i.pd, h[2])'
      <4>1. e \in batch'[u]  BY <2>1, <3>2
      <4> QED  BY <2>1, <3>2, <4>1 DEF Tells, UnderWay
    <3>3. ASSUME NEW u \in Poller, cur[u] # None, cur[u][1] = i.pd, h[2] \in cur[u][2]
          PROVE  Tells(i.pd, h[2])'
      BY <2>1, <3>3 DEF Tells, UnderWay
    <3>4. CASE word[i.pd][h[2]] = PD_READY  BY <2>1, <3>4 DEF Tells
    <3> QED  BY <2>2, <3>1, <3>2, <3>3, <3>4 DEF Tells, UnderWay
  <2> QED  BY <2>1, <2>2, TellingFrame
<1>2. CASE Lookup(t)
  <2>1. PICK e \in batch[t] :
            /\ cur[t] = None
            /\ batch' = [batch EXCEPT ![t] = @ \ {e}]
            /\ cur' = [cur EXCEPT ![t] = IF Fresh(e, reg[e.slot]) THEN <<reg[e.slot], e.modes>> ELSE None]
            /\ UNCHANGED <<desc, reg, kernel, pd, procs, expired, firing, now, missed>>
    BY <1>2 DEF Lookup
  <2>2. UNCHANGED <<word, reg, avail, interest, edge, pc>>  BY <2>1 DEF desc, kernel, procs
  <2>3. e.slot \in Slot /\ e.tag = 1  BY <1>0, <2>1 DEF TypeOK, Event
  <2>4. /\ batch'[t] = batch[t] \ {e} /\ \A u \in Poller : u # t => batch'[u] = batch[u] /\ cur'[u] = cur[u]
    BY <1>0, <2>1 DEF TypeOK
  <2>5. ASSUME NEW i \in interest, reg[e.slot] = i.pd
        PROVE  cur'[t] # None /\ cur'[t][1] = i.pd /\ cur'[t][2] = e.modes
    <3>1. Fresh(e, reg[e.slot])  BY <1>0, <2>3, <2>5 DEF Fresh
    <3>2. cur'[t] = <<i.pd, e.modes>>  BY <1>0, <2>1, <2>5, <3>1 DEF TypeOK
    <3>3. e.modes \subseteq Mode  BY <1>0, <2>1 DEF TypeOK, Event
    <3>4. <<i.pd, e.modes>> \in PD \X SUBSET Mode  BY <1>0, <3>3
    <3> QED  BY <3>2, <3>4, Names
  <2>6. ASSUME NEW h \in IO, NEW i \in interest, Tells(i.pd, h[2])
        PROVE  Tells(i.pd, h[2])'
    <3>1. CASE (\E j \in edge : j.pd = i.pd) \/ word[i.pd][h[2]] = PD_READY
      BY <2>2, <3>1 DEF Tells, UnderWay
    <3>2. ASSUME NEW u \in Poller, NEW f \in batch[u], reg[f.slot] = i.pd, h[2] \in f.modes
          PROVE  Tells(i.pd, h[2])'
      <4>1. CASE u = t /\ f = e  BY <2>5, <3>2, <4>1 DEF Tells, UnderWay
      <4>2. CASE f \in batch'[u]  BY <2>2, <3>2, <4>2 DEF Tells, UnderWay
      <4> QED  BY <2>4, <4>1, <4>2
    <3>3. ASSUME NEW u \in Poller, cur[u] # None, cur[u][1] = i.pd, h[2] \in cur[u][2]
          PROVE  Tells(i.pd, h[2])'
      <4>1. u # t  BY <2>1, <3>3
      <4> QED  BY <2>4, <3>3, <4>1 DEF Tells, UnderWay
    <3> QED  BY <2>6, <3>1, <3>2, <3>3 DEF Tells, UnderWay
  <2> QED  BY <2>2, <2>6, TellingFrame
<1>3. CASE Deliver(t)
  <2>1. PICK p \in PD, ms \in SUBSET Mode : p = cur[t][1] /\ ms = cur[t][2]  BY <1>3, DeliverFrees
  <2>2. Freed(p, ms) /\ \A m \in ms : word'[p][m] = PD_READY  BY <1>3, <2>1, DeliverFrees
  <2>3. UNCHANGED <<reg, avail, interest, edge, batch>>  BY <1>3 DEF Deliver, kernel
  <2>4. \A u \in Poller : u # t => cur'[u] = cur[u]  BY <1>0, <1>3 DEF Deliver, TypeOK
  <2>5. \A h \in IO : pc'[h] \notin Quiet => pc[h] \notin Quiet
    <3>1. \A h \in IO : (\E m \in ms : word[p][m] = h) => pc[h] = "parked"
      BY DEF Inv, Agree, Parked
    <3> QED  BY <2>2, <3>1 DEF Freed, Quiet
  <2>6. ASSUME NEW h \in IO, NEW i \in interest, Tells(i.pd, h[2])
        PROVE  Tells(i.pd, h[2])'
    <3>1. CASE \/ \E j \in edge : j.pd = i.pd
               \/ \E u \in Poller : \E e \in batch[u] : reg[e.slot] = i.pd /\ h[2] \in e.modes
      BY <2>3, <3>1 DEF Tells, UnderWay
    <3>2. ASSUME NEW u \in Poller, cur[u] # None, cur[u][1] = i.pd, h[2] \in cur[u][2]
          PROVE  Tells(i.pd, h[2])'
      <4>1. CASE u = t  BY <2>1, <2>2, <3>2, <4>1 DEF Tells
      <4>2. CASE u # t  BY <2>4, <3>2, <4>2 DEF Tells, UnderWay
      <4> QED  BY <4>1, <4>2
    <3>3. CASE word[i.pd][h[2]] = PD_READY  BY <1>0, <2>2, <3>3 DEF Tells, Freed
    <3> QED  BY <2>6, <3>1, <3>2, <3>3 DEF Tells, UnderWay
  <2> QED  BY <2>3, <2>5, <2>6, TellingFrame
<1> QED  BY <1>1, <1>2, <1>3 DEF PollStep

\* Every step: readiness that a waiting goroutine does not know of is on its way to it.
LEMMA StepTelling == ASSUME Inv, [Next]_vars, ~reused' PROVE Telling'
<1>0. /\ TypeOK /\ IO \subseteq Proc /\ \A c \in Conn : <<c, "ctl">> = ctl(c) /\ ctl(c) \in Proc /\ ctl(c) \notin IO
      /\ \A g \in IO : g[1] \in Conn
  BY Names DEF Inv
<1>1. ASSUME NEW p \in PD, NEW ms, ms \subseteq Mode, Freed(p, ms),
             UNCHANGED <<reg, avail, interest, edge, batch, cur>>
      PROVE  Telling'
  <2>1. \A h \in IO : (\E m \in ms : word[p][m] = h) => pc[h] = "parked"
    BY <1>1 DEF Inv, Agree, Parked
  <2>2. Tacit  BY <1>1, <2>1 DEF Tacit, Freed, Quiet
  <2> QED  BY <2>2, TacitKeeps
<1>2. ASSUME NEW g \in IO, Arrive(g) \/ Call(g) \/ IOStep(g) PROVE Telling'
  <2>1. CASE Call(g) \/ Sys(g) \/ Check(g)
    <3>1. \A h \in IO : h # g => pc'[h] = pc[h] /\ avail'[h] = avail[h]
      BY <1>0, <2>1 DEF Call, Sys, Check, Return, Goto, TypeOK, kernel
    <3>2. pc'[g] \notin Quiet /\ avail'[g] => pc[g] \notin Quiet /\ avail[g]
      <4>1. CASE Call(g)  BY <1>0, <4>1 DEF Call, Goto, TypeOK, Quiet
      <4>2. CASE Sys(g)  BY <1>0, <4>2 DEF Sys, Return, Goto, TypeOK, Quiet
      <4>3. CASE Check(g)  BY <1>0, <4>3 DEF Check, kernel, Quiet
      <4> QED  BY <2>1, <4>1, <4>2, <4>3
    <3>3. Tacit  BY <2>1, <3>1, <3>2 DEF Tacit, Call, Sys, Check, desc, kernel, pollers
    <3> QED  BY <3>3, TacitKeeps
  <2> QED  BY <1>0, <1>2, <2>1, ArriveTells, BlockTells, EnsureTells DEF IOStep
<1>3. ASSUME NEW c \in Conn, CallSetDeadline(c) \/ CallClose(c) \/ CtlStep(c) PROVE Telling'
  <2>1. ASSUME Goto(ctl(c), "unblock") \/ Goto(ctl(c), "idle") \/ Goto(ctl(c), "ensure")
                \/ Goto(ctl(c), "fdclose") \/ Goto(ctl(c), "evict") \/ Goto(ctl(c), "evict2")
        PROVE  \A g \in IO : pc'[g] = pc[g]
    BY <1>0, <2>1 DEF Goto, TypeOK
  <2>2. CASE CallSetDeadline(c) \/ CallClose(c) \/ Apply(c) \/ Evict(c)
    <3>1. \A g \in IO : pc'[g] = pc[g]
      BY <1>0, <2>1, <2>2 DEF CallSetDeadline, CallClose, Apply, Evict, Return
    <3>2. Tacit
      BY <2>2, <3>1 DEF CallSetDeadline, CallClose, Apply, Evict, Tacit, desc, kernel, pollers
    <3> QED  BY <3>2, TacitKeeps
  <2>3. CASE ApplyUnblock(c) \/ EvictUnblock(c)
    <3>1. PICK p \in PD, m \in Mode : Freed(p, {m})  BY <2>3, ControlFrees
    <3>2. {m} \subseteq Mode  OBVIOUS
    <3>3. UNCHANGED <<reg, avail, interest, edge, batch, cur>>
      BY <2>3 DEF ApplyUnblock, EvictUnblock, kernel, pollers
    <3> QED  BY <1>1, <3>1, <3>2, <3>3
  <2>4. CASE FdClose(c)
    <3>1. /\ interest' = {i \in interest : i.fd # c} /\ edge' = edge \cap interest'
          /\ UNCHANGED <<word, reg, avail, batch, cur>> /\ \A g \in IO : pc'[g] = pc[g]
      BY <1>0, <2>1, <2>4 DEF FdClose, desc, pollers
    <3>2. \A i \in interest', j \in edge : j.pd = i.pd => j \in edge'
      BY <1>0, <3>1 DEF Inv, Single, TypeOK
    <3>3. \A i \in interest' : \A m : Tells(i.pd, m) => Tells(i.pd, m)'
      BY <3>1, <3>2 DEF Tells, UnderWay
    <3> QED  BY <3>1, <3>3, TellingFrame
  <2> QED  BY <1>0, <1>3, <2>2, <2>3, <2>4, EnsureTells DEF CtlStep
<1>4. ASSUME NEW t \in Poller, PollStep(t) PROVE Telling'  BY <1>4, PollTells
<1>5. CASE Scan \/ Fire \/ Clock \/ UNCHANGED vars
  <2>1. Tacit  BY <1>5 DEF Scan, Fire, Clock, Tacit, vars, desc, kernel, procs, pollers
  <2> QED  BY <2>1, TacitKeeps
<1>6. CASE FireUnblock
  <2>1. PICK p \in PD, m \in Mode : Freed(p, {m})  BY <1>6, FireFrees
  <2>2. {m} \subseteq Mode  OBVIOUS
  <2>3. UNCHANGED <<reg, avail, interest, edge, batch, cur>>  BY <1>6 DEF FireUnblock, kernel
  <2> QED  BY <1>1, <2>1, <2>2, <2>3
<1> QED  BY <1>2, <1>3, <1>4, <1>5, <1>6 DEF Next, SysmonStep

-----------------------------------------------------------------------------
(* Deadlines and Close.                                                    *)

\* g goes on in block with its descriptor, its deadline and its connection.
Follows(g) ==
    /\ pc[g] \in InBlock /\ my'[g] = my[g] /\ (Armed(g)' => Armed(g))
    /\ g \in missed => g \in missed'
    /\ pd[g[1]] = my[g] => pd'[g[1]] = my[g]
    /\ dl'[my[g]][g[2]] = dl[my[g]][g[2]]

\* Such a goroutine is awaited as long as those who await it do.
LEMMA FollowsKeeps ==
  ASSUME Inv, NEW c \in Conn, NEW p \in PD, NEW m \in Mode, NEW g \in IO, g[1] = c, g[2] = m, my[g] = p,
         Follows(g), ToExpire(c, p, m) => ToExpire(c, p, m)', ToEvict(c, p, m) => ToEvict(c, p, m)',
         Expiring(p, m) => Expiring(p, m)'
  PROVE  Awaited(g)'
<1>1. pc[g] \in InBlock /\ my'[g] = p /\ (Armed(g)' => Armed(g)) /\ dl'[p][m] = dl[p][m]
      /\ (g \in missed => g \in missed') /\ (pd[c] = p => pd'[c] = p)
  BY DEF Follows
<1>2. Awaited(g)  BY DEF Inv, Awaiting
<1>3. pd[c] = p \/ dl[p][m] < 0 \/ ToExpire(c, p, m)  BY <1>1, <1>2 DEF Awaited
<1>4. Armed(g) /\ g \notin missed =>
        (dl[p][m] < 0 => Expiring(p, m)) /\ (pd[c] = p \/ ToEvict(c, p, m))
  BY <1>2 DEF Awaited
<1>5. pd'[c] = p \/ dl'[p][m] < 0 \/ ToExpire(c, p, m)'  BY <1>1, <1>3
<1>6. Armed(g)' /\ g \notin missed' =>
        (dl'[p][m] < 0 => Expiring(p, m)') /\ (pd'[c] = p \/ ToEvict(c, p, m)')
  BY <1>1, <1>4
<1>7. ToExpire(g[1], my[g], g[2])' <=> ToExpire(c, p, m)'  BY <1>1 DEF ToExpire
<1>8. ToEvict(g[1], my[g], g[2])' <=> ToEvict(c, p, m)'  BY <1>1 DEF ToEvict
<1>9. Expiring(my[g], g[2])' <=> Expiring(p, m)'  BY <1>1 DEF Expiring
<1> QED  BY <1>1, <1>5, <1>6, <1>7, <1>8, <1>9 DEF Awaited

\* Outside block, or at its first line with the descriptor of the connection, nothing is awaited.
LEMMA EntersKeeps ==
  ASSUME NEW g \in IO, pc'[g] \in InBlock => pc'[g] = "check" /\ my'[g] = pd'[g[1]]
  PROVE  Awaited(g)'
BY DEF Awaited, InBlock, Armed, Parked

\* A step of nobody that expires or unblocks anything.
Calm ==
    /\ firing' = firing
    /\ \A c \in Conn : pc[ctl(c)] \in {"unblock", "evict", "evict2"} =>
          pc'[ctl(c)] = pc[ctl(c)] /\ my'[ctl(c)] = my[ctl(c)] /\ arg'[c] = arg[c]
\* Who is about to unblock a direction still is.
LEMMA ExpiringKeeps ==
  ASSUME NEW p, NEW m, firing = <<p, m>> => firing' = <<p, m>>,
         \A c \in Conn : pc[ctl(c)] \in {"unblock", "evict2"} /\ my[ctl(c)] = p /\ arg[c] = m =>
            pc'[ctl(c)] \in {"unblock", "evict2"} /\ my'[ctl(c)] = p /\ arg'[c] = m
  PROVE  Expiring(p, m) => Expiring(p, m)'
<1> SUFFICES ASSUME NEW c \in Conn, pc[ctl(c)] \in {"unblock", "evict2"}, my[ctl(c)] = p, arg[c] = m
             PROVE  Expiring(p, m)'
  BY DEF Expiring, ctl
<1>1. pc'[ctl(c)] \in {"unblock", "evict2"} /\ my'[ctl(c)] = p /\ arg'[c] = m  OBVIOUS
<1> QED  BY <1>1 DEF Expiring, ctl

\* Such a step leaves a goroutine that follows its way awaited.
LEMMA CalmKeeps ==
  ASSUME Inv, Calm, NEW g \in IO,
         pc'[g] \in InBlock => Follows(g) \/ (pc'[g] = "check" /\ my'[g] = pd'[g[1]])
  PROVE  Awaited(g)'
<1>1. CASE pc'[g] \in InBlock => pc'[g] = "check" /\ my'[g] = pd'[g[1]]  BY <1>1, EntersKeeps
<1>2. CASE Follows(g)
  <2>1. g \in Proc /\ g[1] \in Conn /\ g[2] \in Mode  BY Names
  <2>2. my[g] \in PD  BY <1>2, <2>1 DEF Follows, InBlock, Inv, Holding, Holds, Uses
  <2>3. PICK c \in Conn, p \in PD, m \in Mode : g[1] = c /\ my[g] = p /\ g[2] = m  BY <2>1, <2>2
  <2>4. ToExpire(c, p, m) => ToExpire(c, p, m)'  BY DEF Calm, ToExpire
  <2>5. ToEvict(c, p, m) => ToEvict(c, p, m)'  BY DEF Calm, ToEvict
  <2>6. Expiring(p, m) => Expiring(p, m)'  BY ExpiringKeeps DEF Calm
  <2> QED  BY <1>2, <2>3, <2>4, <2>5, <2>6, FollowsKeeps
<1> QED  BY <1>1, <1>2

\* unblock takes every armed goroutine of the directions ms of p off its word.
LEMMA FreedFollows ==
  ASSUME Inv, NEW p \in PD, NEW ms, ms \subseteq Mode, Freed(p, ms), UNCHANGED <<dl, missed, pd>>,
         NEW g \in IO, pc'[g] \in InBlock
  PROVE  Follows(g) /\ (my[g] = p /\ g[2] \in ms => ~Armed(g)')
<1>0. /\ g \in Proc /\ g[2] \in Mode /\ PD_NIL \notin IO /\ PD_READY \notin IO /\ PD_WAIT \notin IO
      /\ PD_WAIT # PD_NIL /\ PD_WAIT # PD_READY
  BY Names
<1>1. my'[g] = my[g] /\ pc'[g] = IF \E m \in ms : word[p][m] = g THEN "resume" ELSE pc[g]
  BY DEF Freed
<1>2. pc[g] \in InBlock
  <2>1. (\E m \in ms : word[p][m] = g) => pc[g] = "parked"  BY DEF Inv, Agree, Parked
  <2> QED  BY <1>1, <2>1 DEF InBlock
<1>3. my[g] \in PD  BY <1>0, <1>2 DEF InBlock, Inv, Holding, Holds, Uses
<1>4. IF my[g] = p /\ g[2] \in ms THEN word'[my[g]][g[2]] \in {PD_NIL, PD_READY}
                                  ELSE word'[my[g]][g[2]] = word[my[g]][g[2]]
  BY <1>0, <1>3 DEF Freed
<1>5. pc'[g] = "parked" => pc[g] = "parked" /\ word[my[g]][g[2]] = g /\ ~(my[g] = p /\ g[2] \in ms)
  BY <1>0, <1>1 DEF Inv, Agree, Parked
<1>6. pc'[g] = "park" => pc[g] = "park"  BY <1>1
<1>7. Armed(g)' => Armed(g) /\ ~(my[g] = p /\ g[2] \in ms)
  BY <1>0, <1>1, <1>4, <1>5, <1>6 DEF Armed, Parked
<1> QED  BY <1>1, <1>2, <1>7 DEF Follows

\* Of a goroutine that a deadline has taken off its word nothing but its place is asked.
LEMMA FreedAwaited ==
  ASSUME Inv, NEW c \in Conn, NEW p \in PD, NEW m \in Mode, NEW g \in IO, g[1] = c, g[2] = m, my[g] = p,
         Follows(g), ~Armed(g)', ToExpire(c, p, m) => ToExpire(c, p, m)'
  PROVE  Awaited(g)'
<1>1. pc[g] \in InBlock /\ my'[g] = p /\ dl'[p][m] = dl[p][m] /\ (pd[c] = p => pd'[c] = p)
  BY DEF Follows
<1>2. pd[c] = p \/ dl[p][m] < 0 \/ ToExpire(c, p, m)  BY <1>1 DEF Inv, Awaiting, Awaited
<1>3. pd'[c] = p \/ dl'[p][m] < 0 \/ ToExpire(c, p, m)'  BY <1>1, <1>2
<1>4. ToExpire(g[1], my[g], g[2])' <=> ToExpire(c, p, m)'  BY <1>1 DEF ToExpire
<1> QED  BY <1>1, <1>3, <1>4 DEF Awaited

\* The goroutines: block looks at the deadline before it arms the word; who arms it
\* after that is missed, or is awaited.
LEMMA IOAwaits ==
  ASSUME Inv, NEW g \in IO, Arrive(g) \/ Call(g) \/ Sys(g) \/ Check(g) \/ Arm(g) \/ Commit(g) \/ Resume(g)
  PROVE  Awaiting'
<1> DEFINE p == my[g]
           m == g[2]
<1>0. /\ TypeOK /\ g \in Proc /\ IO \subseteq Proc /\ g[1] \in Conn /\ m \in Mode
      /\ \A c \in Conn : ctl(c) \in Proc /\ ctl(c) \notin IO
      /\ \A h \in IO : h[2] \in Mode
      /\ PD_NIL # PD_READY /\ PD_READY # PD_WAIT /\ PD_WAIT # PD_NIL /\ PD_WAIT \notin IO
  BY Names DEF Inv
<1>1. /\ UNCHANGED <<dl, pd, arg, firing>>
      /\ \A r \in Proc : r # g => pc'[r] = pc[r] /\ my'[r] = my[r]
      /\ \A h \in IO : h # g /\ h \in missed => h \in missed'
  <2>1. CASE Arrive(g) \/ Call(g) \/ Sys(g) \/ Check(g) \/ Commit(g)
    BY <1>0, <2>1 DEF Arrive, Call, Sys, Check, Commit, Committed, Return, Goto, TypeOK, desc, procs, pollers
  <2>2. CASE Arm(g) \/ Resume(g)
    BY <1>0, <2>2 DEF Arm, Resume, Goto, TypeOK, pollers
  <2> QED  BY <2>1, <2>2
<1>2. Calm  BY <1>0, <1>1 DEF Calm
<1>3. pc[g] \in {"arm", "park", "resume"} => p \in PD  BY <1>0 DEF Inv, Holding, Holds, Uses
<1>4. word' # word => /\ p \in PD
                      /\ \A r \in PD, k \in Mode : r # p \/ k # m => word'[r][k] = word[r][k]
  <2>1. CASE Arrive(g) \/ Call(g) \/ Sys(g) \/ Check(g)
    BY <2>1 DEF Arrive, Call, Sys, Check, desc
  <2>2. CASE Arm(g) \/ Commit(g) \/ Resume(g)
    <3>1. p \in PD  BY <1>3, <2>2 DEF Arm, Commit, Resume
    <3>2. word' = word \/ \E v : word' = [word EXCEPT ![p][m] = v]
      BY <2>2 DEF Arm, Commit, Committed, Resume, SetWord
    <3> QED  BY <1>0, <3>1, <3>2 DEF TypeOK
  <2> QED  BY <2>1, <2>2
<1>5. ASSUME NEW h \in IO, h # g PROVE Awaited(h)'
  <2>1. pc'[h] = pc[h] /\ my'[h] = my[h]  BY <1>0, <1>1, <1>5
  <2>2. ASSUME pc[h] \in InBlock PROVE Follows(h)
    <3>1. my[h] \in PD /\ h[2] \in Mode  BY <1>0, <2>2 DEF InBlock, Inv, Holding, Holds, Uses
    <3>2. ~(my[h] = p /\ h[2] = m)  BY <1>0, <1>5, <3>1, SoleUser
    <3>3. word'[my[h]][h[2]] = word[my[h]][h[2]]  BY <1>4, <3>1, <3>2
    <3>4. Armed(h)' => Armed(h)  BY <2>1, <3>3 DEF Armed, Parked
    <3> QED  BY <1>1, <1>5, <2>1, <2>2, <3>4 DEF Follows
  <2> QED  BY <1>2, <2>1, <2>2, CalmKeeps
<1>6. Awaited(g)'
  <2>1. CASE Arrive(g)
    <3>1. UNCHANGED <<pc, my, word, missed>>  BY <2>1 DEF Arrive, desc, procs
    <3>2. pc[g] \in InBlock => Follows(g)  BY <1>1, <3>1 DEF Follows, Armed, Parked
    <3> QED  BY <1>2, <3>1, <3>2, CalmKeeps
  <2>2. CASE Call(g) \/ Sys(g)
    <3>1. pc'[g] \notin InBlock  BY <1>0, <2>2 DEF Call, Sys, Return, Goto, TypeOK, InBlock
    <3> QED  BY <3>1, EntersKeeps
  <2>3. CASE Check(g)
    <3>1. pc[g] = "check" /\ pc'[g] \in {"idle", "arm"} /\ (pc'[g] = "arm" => my'[g] = my[g]) /\ missed' = missed
      BY <1>0, <2>3 DEF Check, Return, Goto, TypeOK
    <3>2. pc'[g] \in InBlock => Follows(g)  BY <1>1, <3>1 DEF Follows, InBlock, Armed, Parked
    <3> QED  BY <1>2, <3>2, CalmKeeps
  <2>4. CASE Commit(g)
    <3>1. /\ pc[g] = "park" /\ my' = my /\ missed' = missed
          /\ \/ word[p][m] = PD_WAIT /\ pc'[g] = "parked"
             \/ pc'[g] = "resume"
      BY <1>0, <2>4 DEF Commit, Committed, Goto, TypeOK
    <3>2. Follows(g)  BY <1>1, <3>1 DEF Follows, InBlock, Armed, Parked
    <3> QED  BY <1>2, <3>2, CalmKeeps
  <2>5. CASE Resume(g)
    <3>1. pc'[g] \notin InBlock  BY <1>0, <2>5 DEF Resume, Goto, TypeOK, InBlock
    <3> QED  BY <3>1, EntersKeeps
  <2>6. CASE Arm(g)
    <3>1. pc[g] = "arm" /\ missed' = IF dl[p][m] < 0 THEN missed \cup {g} ELSE missed \ {g}
      BY <2>6 DEF Arm
    <3>2. CASE word[p][m] # PD_NIL
      <4>1. pc' = [pc EXCEPT ![g] = "sys"] \/ pc' = [pc EXCEPT ![g] = "panic"]
        BY <1>0, <2>6, <3>2 DEF Arm, Goto
      <4>2. pc'[g] \notin InBlock  BY <1>0, <4>1 DEF TypeOK, InBlock
      <4> QED  BY <4>2, EntersKeeps
    <3>3. CASE word[p][m] = PD_NIL
      <4>1. my'[g] = p  BY <1>0, <2>6, <3>3 DEF Arm
      <4>2. PICK c \in Conn, r \in PD, k \in Mode : c = g[1] /\ r = p /\ k = m  BY <1>0, <1>3, <3>1
      <4>3. pd[c] = r \/ dl[r][k] < 0 \/ ToExpire(c, r, k)
        BY <3>1, <4>2 DEF Inv, Awaiting, Awaited, InBlock
      <4>4. ToExpire(c, r, k) => ToEvict(c, r, k)  BY DEF ToExpire, ToEvict
      <4>5. ToExpire(c, r, k) => ToExpire(c, r, k)'  BY <1>2 DEF Calm, ToExpire
      <4>6. ToEvict(c, r, k) => ToEvict(c, r, k)'  BY <1>2 DEF Calm, ToEvict
      <4>7. g \notin missed' => dl[r][k] >= 0  BY <1>0, <3>1, <4>2 DEF TypeOK
      <4>8. ToExpire(g[1], my[g], g[2])' <=> ToExpire(c, r, k)'  BY <4>1, <4>2 DEF ToExpire
      <4>9. ToEvict(g[1], my[g], g[2])' <=> ToEvict(c, r, k)'  BY <4>1, <4>2 DEF ToEvict
      <4>10. dl'[my'[g]][g[2]] = dl[r][k] /\ pd'[g[1]] = pd[c] /\ my'[g] = r /\ dl[r][k] \in Int
        BY <1>0, <1>1, <4>1, <4>2 DEF TypeOK
      <4> QED  BY <4>3, <4>4, <4>5, <4>6, <4>7, <4>8, <4>9, <4>10 DEF Awaited
    <3> QED  BY <3>2, <3>3
  <2> QED  BY <2>1, <2>2, <2>3, <2>4, <2>5, <2>6
<1> QED  BY <1>5, <1>6 DEF Awaiting

\* ensure_pd gives block the descriptor of the connection.
LEMMA EnsureAwaits ==
  ASSUME Inv, NEW q \in Proc, Ensure(q), ~reused'
  PROVE  Awaiting'
<1>0. /\ TypeOK /\ IO \subseteq Proc /\ None \notin PD /\ q[1] \in Conn
      /\ \A c \in Conn : ctl(c) \in Proc /\ ctl(c)[1] = c
      /\ \A h \in IO : h[1] \in Conn /\ h[2] \in Mode
  BY Names DEF Inv
<1>1. pc[q] \in {"ensure", "open", "install", "reload", "del", "remove"}
  BY DEF Ensure, EnsureLoad, Open, Install, EnsureReload, Del, Remove
<1>2. ASSUME UNCHANGED <<arg, firing, missed>>, \A c \in Conn : pd[c] # None => pd'[c] = pd[c],
             \A r \in Proc : r # q => pc'[r] = pc[r] /\ my'[r] = my[r],
             \A h \in IO : pc[h] \in InBlock => /\ word'[my[h]][h[2]] = word[my[h]][h[2]]
                                                /\ dl'[my[h]][h[2]] = dl[my[h]][h[2]],
             pc'[q] \in InBlock => pc'[q] = "check" /\ my'[q] = pd'[q[1]]
      PROVE  Awaiting'
  <2>1. Calm  BY <1>0, <1>1, <1>2 DEF Calm
  <2>2. ASSUME NEW h \in IO, h # q, pc'[h] \in InBlock PROVE Follows(h)
    <3>1. pc'[h] = pc[h] /\ my'[h] = my[h]  BY <1>0, <1>2, <2>2
    <3>2. my[h] \in PD  BY <1>0, <2>2, <3>1 DEF InBlock, Inv, Holding, Holds, Uses
    <3>3. Armed(h)' => Armed(h)  BY <1>2, <2>2, <3>1 DEF Armed, Parked
    <3> QED  BY <1>0, <1>2, <2>2, <3>1, <3>2, <3>3 DEF Follows
  <2>3. \A h \in IO : Awaited(h)'  BY <1>2, <2>1, <2>2, CalmKeeps
  <2> QED  BY <2>3 DEF Awaiting
<1>3. CASE EnsureLoad(q) \/ EnsureReload(q)
  <2>1. /\ UNCHANGED <<arg, firing, missed, pd, word, dl>> /\ my'[q] = pd[q[1]]
        /\ pc'[q] \in {"open", "idle", "check", "apply"}
        /\ \A r \in Proc : r # q => pc'[r] = pc[r] /\ my'[r] = my[r]
    BY <1>0, <1>3 DEF EnsureLoad, EnsureReload, Goto, Body, TypeOK, desc, pollers
  <2> QED  BY <1>2, <2>1 DEF InBlock
<1>4. CASE Install(q)
  <2>1. /\ UNCHANGED <<arg, firing, missed, my, word, dl>> /\ \A r \in Proc : r # q => pc'[r] = pc[r]
    BY <1>0, <1>4 DEF Install, Installed, Goto, TypeOK, desc, pollers
  <2>2. /\ pd[q[1]] # None => pd' = pd /\ pc'[q] = "del"
        /\ pd[q[1]] = None => pd' = [pd EXCEPT ![q[1]] = my[q]] /\ pc'[q] \in {"check", "apply"}
    BY <1>0, <1>4 DEF Install, Installed, Goto, Body, TypeOK
  <2>3. \A c \in Conn : pd[c] # None => pd'[c] = pd[c]  BY <1>0, <2>2 DEF TypeOK
  <2>4. pc'[q] \in InBlock => pc'[q] = "check" /\ my'[q] = pd'[q[1]]
    BY <1>0, <2>1, <2>2 DEF TypeOK, InBlock
  <2> QED  BY <1>2, <2>1, <2>3, <2>4
<1>5. CASE OpenFails(q)
  <2>1. /\ UNCHANGED <<arg, firing, missed, pd, my, word, dl>> /\ pc'[q] = "reload"
        /\ \A r \in Proc : r # q => pc'[r] = pc[r]
    BY <1>0, <1>5 DEF OpenFails, TypeOK, desc, pollers
  <2> QED  BY <1>2, <2>1 DEF InBlock
<1>6. ASSUME NEW n \in PD, NEW i \in Entry, Opens(q, n, i) PROVE Awaiting'
  <2>1. /\ UNCHANGED <<arg, firing, missed, pd>> /\ pc'[q] = "install"
        /\ \A r \in Proc : r # q => pc'[r] = pc[r] /\ my'[r] = my[r]
    BY <1>0, <1>6 DEF Opens, TypeOK
  <2>2. \A r \in PD, m \in Mode : r # n => word'[r][m] = word[r][m] /\ dl'[r][m] = dl[r][m]
    BY <1>0, <1>6 DEF Opens, TypeOK
  <2>3. \A h \in IO : my[h] # n  BY <1>0, <1>6 DEF Opens
  <2>4. \A h \in IO : pc[h] \in InBlock => my[h] \in PD  BY <1>0 DEF InBlock, Inv, Holding, Holds, Uses
  <2> QED  BY <1>0, <1>2, <2>1, <2>2, <2>3, <2>4 DEF InBlock
<1>7. CASE Del(q) \/ Remove(q)
  <2>1. /\ UNCHANGED <<arg, firing, missed, pd, word, dl>> /\ pc'[q] \in {"remove", "fdclose", "reload"}
        /\ \A r \in Proc : r # q => pc'[r] = pc[r] /\ my'[r] = my[r]
    BY <1>0, <1>7 DEF Del, Remove, Goto, TypeOK, desc, pollers
  <2> QED  BY <1>2, <2>1 DEF InBlock
<1> QED  BY <1>3, <1>4, <1>5, <1>6, <1>7, OpenEffect DEF Ensure

\* SetDeadline: who expires a deadline unblocks its direction before it returns.
LEMMA ApplyAwaits ==
  ASSUME Inv, NEW c \in Conn, Apply(c) \/ ApplyUnblock(c)
  PROVE  Awaiting'
<1> DEFINE q == ctl(c)
<1>0. /\ TypeOK /\ q \in Proc /\ q \notin IO /\ <<c, "ctl">> = q /\ q[1] = c /\ IO \subseteq Proc
      /\ (\A d \in Conn : ctl(d) \in Proc /\ ctl(d) \notin IO)
      /\ \A h \in IO : h[1] \in Conn /\ h[2] \in Mode
  BY Names DEF Inv
<1>1. \A d \in Conn : d # c => ctl(d) # q  BY DEF ctl
<1>2. pc[q] \in {"apply", "unblock"}  BY <1>0 DEF Apply, ApplyUnblock
<1>3. my[q] = pd[c] /\ arg[c] \in Mode  BY <1>2 DEF Inv, Control
<1>4. my[q] \in PD  BY <1>0, <1>2 DEF Inv, Holding, Holds, Uses
<1> HIDE DEF q
<1>5. PICK r \in PD, k \in Mode : r = my[q] /\ k = arg[c]  BY <1>3, <1>4
<1>6. \A h \in IO : my[h] = r => h[1] = c
  <2>1. Owns(c, r)  BY <1>0, <1>5 DEF Owns
  <2> QED  BY <1>0, <2>1 DEF Owns, Inv, OneConn
<1>7. CASE Apply(c)
  <2>1. PICK v \in {-1, 0} \cup now + 1..MaxTime :
            /\ SetDl(r, k, v)
            /\ IF v < 0 THEN Goto(q, "unblock") /\ UNCHANGED <<my, arg>>
                        ELSE Return(q) /\ arg' = [arg EXCEPT ![c] = None]
    BY <1>0, <1>5, <1>7 DEF Apply
  <2>2. v \in Int  BY <1>0, NetpollAssumption DEF TypeOK
  <2>3. \A s \in PD, j \in Mode : dl'[s][j] = IF s = r /\ j = k THEN v ELSE dl[s][j]
    BY <1>0, <2>1, <2>2, SetEffect
  <2>4. /\ UNCHANGED <<word, pd, firing, missed>> /\ pc[q] = "apply"
        /\ \A p \in Proc : p # q => pc'[p] = pc[p] /\ my'[p] = my[p]
        /\ \A d \in Conn : d # c => arg'[d] = arg[d]
    BY <1>0, <1>7, <2>1 DEF Apply, Return, Goto, TypeOK, pollers
  <2>5. v < 0 => pc'[q] = "unblock" /\ my' = my /\ arg' = arg
    BY <1>0, <2>1 DEF Goto, TypeOK
  <2>6. Calm  BY <1>0, <1>1, <2>4 DEF Calm, q
  <2> SUFFICES ASSUME NEW g \in IO PROVE Awaited(g)'  BY DEF Awaiting
  <2>7. pc'[g] = pc[g] /\ my'[g] = my[g]  BY <1>0, <2>4
  <2>8. CASE my[g] = r /\ g[2] = k
    <3>1. pd'[g[1]] = my'[g]  BY <1>3, <1>5, <1>6, <2>4, <2>7, <2>8
    <3>2. dl'[my'[g]][g[2]] < 0 => Expiring(my[g], g[2])'
      <4> HAVE dl'[my'[g]][g[2]] < 0
      <4>1. v < 0  BY <2>3, <2>7, <2>8
      <4>2. pc'[<<c, "ctl">>] = "unblock" /\ my'[<<c, "ctl">>] = my'[g] /\ arg'[c] = g[2]
        BY <1>0, <1>5, <2>5, <2>7, <2>8, <4>1
      <4> QED  BY <4>2 DEF Expiring
    <3> QED  BY <3>1, <3>2 DEF Awaited
  <2>9. CASE ~(my[g] = r /\ g[2] = k)
    <3>1. ASSUME pc[g] \in InBlock PROVE Follows(g)
      <4>1. my[g] \in PD  BY <1>0, <3>1 DEF InBlock, Inv, Holding, Holds, Uses
      <4>2. dl'[my[g]][g[2]] = dl[my[g]][g[2]]  BY <1>0, <2>3, <2>9, <4>1
      <4> QED  BY <2>4, <2>7, <3>1, <4>2 DEF Follows, Armed, Parked
    <3> QED  BY <2>6, <2>7, <3>1, CalmKeeps
  <2> QED  BY <2>8, <2>9
<1>8. CASE ApplyUnblock(c)
  <2>1. Freed(r, {k})  BY <1>5, <1>8, ControlFrees DEF q
  <2>2. /\ UNCHANGED <<dl, pd, firing, missed>> /\ pc[q] = "unblock"
        /\ \A p \in Proc : p \notin IO /\ p # q => pc'[p] = pc[p] /\ my'[p] = my[p]
        /\ \A d \in Conn : d # c => arg'[d] = arg[d]
    BY <1>0, <1>8 DEF ApplyUnblock, Unblock, Parkers, TypeOK, pollers
  <2>3. \A d \in Conn : d # c => pc'[ctl(d)] = pc[ctl(d)] /\ my'[ctl(d)] = my[ctl(d)] /\ arg'[d] = arg[d]
    BY <1>0, <1>1, <2>2
  <2> SUFFICES ASSUME NEW g \in IO PROVE Awaited(g)'  BY DEF Awaiting
  <2>4. CASE pc'[g] \notin InBlock  BY <2>4, EntersKeeps
  <2>5. CASE pc'[g] \in InBlock
    <3>1. Follows(g) /\ (my[g] = r /\ g[2] = k => ~Armed(g)')
      <4>1. {k} \subseteq Mode  OBVIOUS
      <4> QED  BY <2>1, <2>2, <2>5, <4>1, FreedFollows
    <3>2. my[g] \in PD  BY <1>0, <3>1 DEF Follows, InBlock, Inv, Holding, Holds, Uses
    <3>3. PICK d \in Conn, p \in PD, m \in Mode : g[1] = d /\ my[g] = p /\ g[2] = m  BY <1>0, <3>2
    <3>4. ToExpire(d, p, m) => ToExpire(d, p, m)'  BY <2>2, <2>3 DEF ToExpire, q
    <3>5. ToEvict(d, p, m) => ToEvict(d, p, m)'  BY <2>2, <2>3 DEF ToEvict, q
    <3>6. CASE p = r /\ m = k  BY <3>1, <3>3, <3>4, <3>6, FreedAwaited
    <3>7. CASE ~(p = r /\ m = k)
      <4>1. Expiring(p, m) => Expiring(p, m)'  BY <1>5, <2>2, <2>3, <3>7, ExpiringKeeps DEF q
      <4> QED  BY <3>1, <3>3, <3>4, <3>5, <4>1, FollowsKeeps
    <3> QED  BY <3>6, <3>7
  <2> QED  BY <2>4, <2>5
<1> QED  BY <1>7, <1>8

\* Close: whoever uses the descriptor that Close has taken out of the connection is
\* still to be expired, or has been.
LEMMA CloseAwaits ==
  ASSUME Inv, NEW c \in Conn, CallClose(c)
  PROVE  Awaiting'
<1> DEFINE q == ctl(c)
<1>0. /\ TypeOK /\ q \in Proc /\ q \notin IO /\ <<c, "ctl">> = q /\ IO \subseteq Proc
      /\ (\A d \in Conn : ctl(d) \in Proc /\ ctl(d) \notin IO)
      /\ \A h \in IO : h[1] \in Conn /\ h[2] \in Mode
      /\ Mode \subseteq {FirstMode, LastMode} /\ None \notin PD
  BY Names DEF Inv
<1>1. \A d \in Conn : d # c => ctl(d) # q  BY DEF ctl
<1> HIDE DEF q
<1>2. /\ UNCHANGED <<word, dl, firing, missed>> /\ pc[q] = "idle"
      /\ my'[q] = pd[c] /\ pd'[c] = None /\ \A d \in Conn : d # c => pd'[d] = pd[d] /\ arg'[d] = arg[d]
      /\ pd[c] # None => arg'[c] = FirstMode /\ pc'[q] = "evict"
      /\ \A p \in Proc : p # q => pc'[p] = pc[p] /\ my'[p] = my[p]
  BY <1>0 DEF CallClose, Goto, TypeOK, desc, pollers
<1>3. \A d \in Conn : d # c => pc'[ctl(d)] = pc[ctl(d)] /\ my'[ctl(d)] = my[ctl(d)] /\ arg'[d] = arg[d]
  BY <1>0, <1>1, <1>2
<1>4. Calm  BY <1>2, <1>3 DEF Calm, q
<1> SUFFICES ASSUME NEW g \in IO PROVE Awaited(g)'  BY DEF Awaiting
<1>5. pc'[g] = pc[g] /\ my'[g] = my[g]  BY <1>0, <1>2
<1>6. CASE pc[g] \notin InBlock  BY <1>5, <1>6, EntersKeeps
<1>7. CASE pc[g] \in InBlock
  <2>1. my[g] \in PD  BY <1>0, <1>7 DEF InBlock, Inv, Holding, Holds, Uses
  <2>2. CASE g[1] = c /\ pd[c] = my[g]
    <3>1. PICK p \in PD, m \in Mode : my[g] = p /\ g[2] = m  BY <1>0, <2>1
    <3>2. pc'[ctl(c)] = "evict" /\ my'[ctl(c)] = p /\ arg'[c] = FirstMode
      BY <1>0, <1>2, <2>1, <2>2, <3>1 DEF q
    <3>3. ToExpire(c, p, m)' /\ ToEvict(c, p, m)'  BY <1>0, <3>2 DEF ToExpire, ToEvict
    <3>4. Expiring(p, m) => Expiring(p, m)'  BY <1>4, ExpiringKeeps DEF Calm
    <3>5. Armed(g)' => Armed(g)  BY <1>2, <1>5 DEF Armed, Parked
    <3>6. Armed(g) /\ g \notin missed => (dl[p][m] < 0 => Expiring(p, m))
      BY <3>1 DEF Inv, Awaiting, Awaited
    <3>7. ToExpire(g[1], my[g], g[2])' /\ ToEvict(g[1], my[g], g[2])'
      BY <1>5, <2>2, <3>1, <3>3 DEF ToExpire, ToEvict
    <3>8. Expiring(my[g], g[2])' <=> Expiring(p, m)'  BY <1>5, <3>1 DEF Expiring
    <3> QED  BY <1>2, <1>5, <3>1, <3>4, <3>5, <3>6, <3>7, <3>8 DEF Awaited
  <2>3. CASE ~(g[1] = c /\ pd[c] = my[g])
    <3>1. Follows(g)  BY <1>0, <1>2, <1>5, <1>7, <2>3 DEF Follows, Armed, Parked
    <3> QED  BY <1>4, <3>1, CalmKeeps
  <2> QED  BY <2>2, <2>3
<1> QED  BY <1>6, <1>7

\* Close expires and unblocks one direction after the other.
LEMMA EvictAwaits ==
  ASSUME Inv, NEW c \in Conn, Evict(c) \/ EvictUnblock(c)
  PROVE  Awaiting'
<1> DEFINE q == ctl(c)
<1>0. /\ TypeOK /\ q \in Proc /\ q \notin IO /\ <<c, "ctl">> = q /\ q[1] = c /\ IO \subseteq Proc
      /\ (\A d \in Conn : ctl(d) \in Proc /\ ctl(d) \notin IO)
      /\ \A h \in IO : h[1] \in Conn /\ h[2] \in Mode
  BY Names DEF Inv
<1>1. \A d \in Conn : d # c => ctl(d) # q  BY DEF ctl
<1>2. pc[q] \in {"evict", "evict2"}  BY <1>0 DEF Evict, EvictUnblock
<1>3. arg[c] \in Mode  BY <1>2 DEF Inv, Control
<1>4. my[q] \in PD  BY <1>0, <1>2 DEF Inv, Holding, Holds, Uses, Sole
<1> HIDE DEF q
<1>5. PICK r \in PD, k \in Mode : r = my[q] /\ k = arg[c]  BY <1>3, <1>4
<1>6. \A h \in IO : my[h] = r => h[1] = c
  <2>1. Owns(c, r)  BY <1>0, <1>5 DEF Owns
  <2> QED  BY <1>0, <2>1 DEF Owns, Inv, OneConn
<1>7. CASE Evict(c)
  <2>1. /\ UNCHANGED <<word, pd, firing, missed, my, arg>> /\ pc[q] = "evict" /\ pc'[q] = "evict2"
        /\ \A p \in Proc : p # q => pc'[p] = pc[p]
    BY <1>0, <1>7 DEF Evict, Goto, TypeOK, pollers
  <2>2. \A s \in PD, j \in Mode : dl'[s][j] = IF s = r /\ j = k THEN -1 ELSE dl[s][j]
    <3>1. SetDl(r, k, -1)  BY <1>0, <1>5, <1>7 DEF Evict
    <3> QED  BY <1>0, <3>1, SetEffect
  <2>3. \A d \in Conn : d # c => pc'[ctl(d)] = pc[ctl(d)]  BY <1>0, <1>1, <2>1
  <2> SUFFICES ASSUME NEW g \in IO PROVE Awaited(g)'  BY DEF Awaiting
  <2>4. pc'[g] = pc[g] /\ my'[g] = my[g]  BY <1>0, <2>1
  <2>5. CASE pc[g] \notin InBlock  BY <2>4, <2>5, EntersKeeps
  <2>6. CASE pc[g] \in InBlock
    <3>1. my[g] \in PD  BY <1>0, <2>6 DEF InBlock, Inv, Holding, Holds, Uses
    <3>2. PICK d \in Conn, p \in PD, m \in Mode : g[1] = d /\ my[g] = p /\ g[2] = m  BY <1>0, <3>1
    <3>3. ToEvict(d, p, m) => ToEvict(d, p, m)'  BY <2>1, <2>3 DEF ToEvict, q
    <3>4. Expiring(p, m) => Expiring(p, m)'  BY <2>1, <2>3, ExpiringKeeps DEF q
    <3>5. CASE p = r /\ m = k
      <4>1. dl'[my'[g]][g[2]] < 0  BY <2>2, <2>4, <3>2, <3>5
      <4>2. Expiring(my[g], g[2])'  BY <1>0, <1>5, <2>1, <2>4, <3>2, <3>5 DEF Expiring
      <4>3. d = c  BY <1>6, <3>2, <3>5
      <4>4. ToEvict(c, p, m)'  BY <1>5, <2>1, <3>5 DEF ToEvict, q
      <4>5. ToEvict(g[1], my[g], g[2])'  BY <2>4, <3>2, <4>3, <4>4 DEF ToEvict
      <4> QED  BY <4>1, <4>2, <4>5 DEF Awaited
    <3>6. CASE ~(p = r /\ m = k)
      <4>1. Follows(g)  BY <2>1, <2>2, <2>4, <2>6, <3>2, <3>6 DEF Follows, Armed, Parked
      <4>2. ToExpire(d, p, m) => ToExpire(d, p, m)'
        <5>1. CASE d = c  BY <1>5, <2>1, <3>6, <5>1 DEF ToExpire, q
        <5>2. CASE d # c  BY <2>1, <2>3, <5>2 DEF ToExpire
        <5> QED  BY <5>1, <5>2
      <4> QED  BY <3>2, <3>3, <3>4, <4>1, <4>2, FollowsKeeps
    <3> QED  BY <3>5, <3>6
  <2> QED  BY <2>5, <2>6
<1>8. CASE EvictUnblock(c)
  <2>1. Freed(r, {k})  BY <1>5, <1>8, ControlFrees DEF q
  <2>2. /\ UNCHANGED <<dl, pd, firing, missed, my>> /\ pc[q] = "evict2"
        /\ pc'[q] = IF k = LastMode THEN "del" ELSE "evict"
        /\ k # LastMode => arg'[c] = LastMode
        /\ \A p \in Proc : p \notin IO /\ p # q => pc'[p] = pc[p]
        /\ \A d \in Conn : d # c => arg'[d] = arg[d]
    BY <1>0, <1>5, <1>8 DEF EvictUnblock, AfterMode, Unblock, Parkers, TypeOK, pollers
  <2>3. \A d \in Conn : d # c => pc'[ctl(d)] = pc[ctl(d)] /\ arg'[d] = arg[d]  BY <1>0, <1>1, <2>2
  <2> SUFFICES ASSUME NEW g \in IO PROVE Awaited(g)'  BY DEF Awaiting
  <2>4. CASE pc'[g] \notin InBlock  BY <2>4, EntersKeeps
  <2>5. CASE pc'[g] \in InBlock
    <3>1. Follows(g) /\ (my[g] = r /\ g[2] = k => ~Armed(g)')
      <4>1. {k} \subseteq Mode  OBVIOUS
      <4> QED  BY <2>1, <2>2, <2>5, <4>1, FreedFollows
    <3>2. my[g] \in PD  BY <1>0, <3>1 DEF Follows, InBlock, Inv, Holding, Holds, Uses
    <3>3. PICK d \in Conn, p \in PD, m \in Mode : g[1] = d /\ my[g] = p /\ g[2] = m  BY <1>0, <3>2
    <3>4. ToExpire(d, p, m) => ToExpire(d, p, m)'
      <4>1. CASE d = c
        <5>1. ToExpire(d, p, m) => my[q] = p /\ m # k /\ m = LastMode  BY <1>5, <2>2, <4>1 DEF ToExpire, q
        <5>2. my[q] = p /\ m # k /\ m = LastMode => ToExpire(d, p, m)'  BY <2>2, <4>1 DEF ToExpire, q
        <5> QED  BY <5>1, <5>2
      <4>2. CASE d # c  BY <2>2, <2>3, <4>2 DEF ToExpire
      <4> QED  BY <4>1, <4>2
    <3>5. CASE p = r /\ m = k  BY <3>1, <3>3, <3>4, <3>5, FreedAwaited
    <3>6. CASE ~(p = r /\ m = k)
      <4>1. ToEvict(d, p, m) => ToEvict(d, p, m)'
        <5>1. CASE d = c
          <6>1. ToEvict(d, p, m) => my[q] = p /\ m # k /\ m = LastMode
            BY <1>5, <2>2, <3>6, <5>1 DEF ToEvict, q
          <6>2. my[q] = p /\ m # k /\ m = LastMode => ToEvict(d, p, m)'  BY <2>2, <5>1 DEF ToEvict, q
          <6> QED  BY <6>1, <6>2
        <5>2. CASE d # c  BY <2>2, <2>3, <5>2 DEF ToEvict
        <5> QED  BY <5>1, <5>2
      <4>2. Expiring(p, m) => Expiring(p, m)'  BY <1>5, <2>2, <2>3, <3>6, ExpiringKeeps DEF q
      <4> QED  BY <3>1, <3>3, <3>4, <4>1, <4>2, FollowsKeeps
    <3> QED  BY <3>5, <3>6
  <2> QED  BY <2>4, <2>5
<1> QED  BY <1>7, <1>8

\* sysmon: what it expires it unblocks.
LEMMA FireAwaits ==
  ASSUME Inv, Fire \/ FireUnblock
  PROVE  Awaiting'
<1>0. /\ TypeOK /\ IO \subseteq Proc /\ None \notin IO /\ None \notin PD \X Mode
      /\ (\A d \in Conn : ctl(d) \in Proc /\ ctl(d) \notin IO)
      /\ \A h \in IO : h[1] \in Conn /\ h[2] \in Mode
  BY Names DEF Inv
<1>1. UNCHANGED <<pd, missed, my, arg>>  BY DEF Fire, FireUnblock, procs
<1>2. \A d \in Conn : pc'[ctl(d)] = pc[ctl(d)]
  <2>1. CASE Fire  BY <2>1 DEF Fire, procs
  <2>2. CASE FireUnblock
    <3>1. \A q \in Proc : q \notin IO => pc'[q] = IF q = None THEN "idle" ELSE pc[q]
      BY <2>2 DEF FireUnblock, Unblock, Parkers
    <3> QED  BY <1>0, <3>1, Names
  <2> QED  BY <2>1, <2>2
<1>3. \A d \in Conn, p \in PD, m \in Mode : /\ ToExpire(d, p, m) => ToExpire(d, p, m)'
                                            /\ ToEvict(d, p, m) => ToEvict(d, p, m)'
  BY <1>1, <1>2 DEF ToExpire, ToEvict
<1> SUFFICES ASSUME NEW g \in IO PROVE Awaited(g)'  BY DEF Awaiting
<1>4. CASE pc'[g] \notin InBlock  BY <1>4, EntersKeeps
<1>5. CASE Fire /\ pc'[g] \in InBlock
  <2>1. PICK e \in expired :
            /\ firing = None
            /\ IF StillThat(e) THEN SetDl(e[1], e[2], -1) /\ firing' = <<e[1], e[2]>>
                               ELSE UNCHANGED <<dl, firing>>
            /\ UNCHANGED <<word, pc>>
    BY <1>5 DEF Fire, procs
  <2>2. PICK r \in PD, k \in Mode : r = e[1] /\ k = e[2]  BY <1>0, <2>1 DEF TypeOK
  <2>3. \/ UNCHANGED <<dl, firing>>
        \/ /\ firing' = <<r, k>>
           /\ \A s \in PD, j \in Mode : dl'[s][j] = IF s = r /\ j = k THEN -1 ELSE dl[s][j]
    <3>1. UNCHANGED <<dl, firing>> \/ (SetDl(r, k, -1) /\ firing' = <<r, k>>)  BY <2>1, <2>2 DEF StillThat
    <3> QED  BY <1>0, <3>1, SetEffect
  <2>4. pc[g] \in InBlock /\ my'[g] = my[g]  BY <1>1, <1>5, <2>1
  <2>5. my[g] \in PD  BY <1>0, <2>4 DEF InBlock, Inv, Holding, Holds, Uses
  <2>6. PICK d \in Conn, p \in PD, m \in Mode : g[1] = d /\ my[g] = p /\ g[2] = m  BY <1>0, <2>5
  <2>7. Expiring(p, m) => Expiring(p, m)'
    <3>1. firing # <<p, m>>  BY <1>0, <2>1
    <3> QED  BY <1>1, <1>2, <3>1, ExpiringKeeps
  <2>8. Armed(g)' => Armed(g)  BY <1>1, <2>1 DEF Armed, Parked
  <2>9. CASE dl'[p][m] = dl[p][m]
    <3>1. Follows(g)  BY <1>1, <2>4, <2>6, <2>8, <2>9 DEF Follows
    <3> QED  BY <1>3, <2>6, <2>7, <3>1, FollowsKeeps
  <2>10. CASE firing' = <<p, m>> /\ dl'[p][m] = -1
    <3>1. Expiring(my[g], g[2])'  BY <2>4, <2>6, <2>10 DEF Expiring
    <3>2. Armed(g) /\ g \notin missed => pd[d] = p \/ ToEvict(d, p, m)
      BY <2>6 DEF Inv, Awaiting, Awaited
    <3>3. ToEvict(g[1], my[g], g[2])' <=> ToEvict(d, p, m)'  BY <2>4, <2>6 DEF ToEvict
    <3>4. dl'[my'[g]][g[2]] < 0 /\ pd'[g[1]] = pd[d] /\ my'[g] = p  BY <1>1, <2>4, <2>6, <2>10
    <3> QED  BY <1>1, <1>3, <2>8, <3>1, <3>2, <3>3, <3>4 DEF Awaited
  <2> QED  BY <2>3, <2>9, <2>10
<1>6. CASE FireUnblock /\ pc'[g] \in InBlock
  <2>1. PICK r \in PD, k \in Mode : r = firing[1] /\ k = firing[2] /\ Freed(r, {k})
    BY <1>6, FireFrees
  <2>2. firing = <<r, k>> /\ dl' = dl  BY <1>0, <1>6, <2>1 DEF FireUnblock, TypeOK
  <2>3. Follows(g) /\ (my[g] = r /\ g[2] = k => ~Armed(g)')
    <3>1. {k} \subseteq Mode  OBVIOUS
    <3> QED  BY <1>1, <1>6, <2>1, <2>2, <3>1, FreedFollows
  <2>4. my[g] \in PD  BY <1>0, <2>3 DEF Follows, InBlock, Inv, Holding, Holds, Uses
  <2>5. PICK d \in Conn, p \in PD, m \in Mode : g[1] = d /\ my[g] = p /\ g[2] = m  BY <1>0, <2>4
  <2>6. CASE p = r /\ m = k  BY <1>3, <2>3, <2>5, <2>6, FreedAwaited
  <2>7. CASE ~(p = r /\ m = k)
    <3>1. firing # <<p, m>>  BY <2>2, <2>7
    <3>2. Expiring(p, m) => Expiring(p, m)'  BY <1>1, <1>2, <3>1, ExpiringKeeps
    <3> QED  BY <1>3, <2>3, <2>5, <3>2, FollowsKeeps
  <2> QED  BY <2>6, <2>7
<1> QED  BY <1>4, <1>5, <1>6

\* Every step: whoever is armed on an expired deadline, or on a closed connection, is
\* awaited, or was missed.
LEMMA StepAwaiting == ASSUME Inv, [Next]_vars, ~reused' PROVE Awaiting'
<1>0. /\ TypeOK /\ IO \subseteq Proc /\ \A c \in Conn : <<c, "ctl">> = ctl(c) /\ ctl(c) \in Proc /\ ctl(c) \notin IO
  BY Names DEF Inv
<1>1. ASSUME UNCHANGED <<pc, my, arg, word, dl, pd, firing, missed>> PROVE Awaiting'
  <2>1. Calm  BY <1>1 DEF Calm
  <2>2. \A g \in IO : pc'[g] \in InBlock => Follows(g)  BY <1>1 DEF Follows, Armed, Parked
  <2> QED  BY <2>1, <2>2, CalmKeeps DEF Awaiting
<1>2. ASSUME NEW g \in IO, Arrive(g) \/ Call(g) \/ IOStep(g) PROVE Awaiting'
  BY <1>0, <1>2, IOAwaits, EnsureAwaits DEF IOStep
<1>3. ASSUME NEW c \in Conn, CallSetDeadline(c) \/ CallClose(c) \/ CtlStep(c) PROVE Awaiting'
  <2>1. CASE CallSetDeadline(c) \/ FdClose(c)
    <3>1. /\ UNCHANGED <<word, dl, pd, firing, missed, my>> /\ pc[ctl(c)] \in {"idle", "fdclose"}
          /\ (Goto(ctl(c), "ensure") \/ Goto(ctl(c), "idle")) /\ \A d \in Conn : d # c => arg'[d] = arg[d]
      BY <1>0, <2>1 DEF CallSetDeadline, FdClose, TypeOK, desc, pollers
    <3>2. \A q \in Proc : q # ctl(c) => pc'[q] = pc[q]  BY <1>0, <3>1 DEF Goto, TypeOK
    <3>3. \A d \in Conn : d # c => ctl(d) # ctl(c)  BY DEF ctl
    <3>4. Calm  BY <1>0, <3>1, <3>2, <3>3 DEF Calm
    <3>5. \A g \in IO : pc'[g] \in InBlock => Follows(g)
      BY <1>0, <3>1, <3>2 DEF Follows, Armed, Parked
    <3> QED  BY <3>4, <3>5, CalmKeeps DEF Awaiting
  <2> QED  BY <1>0, <1>3, <2>1, EnsureAwaits, ApplyAwaits, CloseAwaits, EvictAwaits DEF CtlStep
<1>4. ASSUME NEW t \in Poller, PollStep(t) PROVE Awaiting'
  <2>1. CASE (\E s \in Shard : Fetch(t, s)) \/ Lookup(t)
    BY <1>1, <2>1 DEF Fetch, Lookup, desc, procs
  <2>2. CASE Deliver(t)
    <3>1. PICK p \in PD, ms \in SUBSET Mode : Freed(p, ms)  BY <2>2, DeliverFrees
    <3>2. UNCHANGED <<dl, missed, pd, my, arg, firing>>  BY <2>2 DEF Deliver
    <3>3. \A c \in Conn : pc'[ctl(c)] = pc[ctl(c)]
      BY <1>0, <2>2, Names DEF Deliver, Unblock, Parkers
    <3>4. Calm  BY <3>2, <3>3 DEF Calm
    <3>5. \A g \in IO : pc'[g] \in InBlock => Follows(g)  BY <3>1, <3>2, FreedFollows
    <3> QED  BY <3>4, <3>5, CalmKeeps DEF Awaiting
  <2> QED  BY <1>4, <2>1, <2>2 DEF PollStep
<1>5. CASE Scan \/ Clock \/ UNCHANGED vars
  BY <1>1, <1>5 DEF Scan, Clock, vars, desc, procs, pollers
<1> QED  BY <1>2, <1>3, <1>4, <1>5, FireAwaits DEF Next, SysmonStep

-----------------------------------------------------------------------------
(* The theorems.                                                           *)

\* Memory that was used again too early stays recorded.
LEMMA ReusedStays == [Next]_vars /\ ~reused' => ~reused
<1> SUFFICES ASSUME [Next]_vars, ~reused' PROVE ~reused  OBVIOUS
<1>1. ASSUME NEW q \in Proc, Open(q) PROVE ~reused
  <2>1. PICK s \in Shard : Open(q)!(s)  BY <1>1 DEF Open
  <2>2. CASE fd[q[1]] = "closed" \/ EExist(q[1], s)  BY <2>1, <2>2
  <2>3. CASE ~(fd[q[1]] = "closed" \/ EExist(q[1], s))
    <3>1. PICK n \in PD \ Allocated : Opening(q, n, s)  BY <2>1, <2>3 DEF Opening
    <3> QED  BY <3>1 DEF Opening
  <2> QED  BY <2>2, <2>3
<1>2. ASSUME NEW q \in Proc, Ensure(q) PROVE ~reused
  BY <1>1, <1>2 DEF Ensure, EnsureLoad, Install, EnsureReload, Del, Remove
<1>3. ASSUME NEW g \in IO, Arrive(g) \/ Call(g) \/ IOStep(g) PROVE ~reused
  BY <1>2, <1>3, Names DEF IOStep, Arrive, Call, Sys, Check, Arm, Commit, Resume
<1>4. ASSUME NEW c \in Conn, CallSetDeadline(c) \/ CallClose(c) \/ CtlStep(c) PROVE ~reused
  <2>1. <<c, "ctl">> \in Proc  BY Names
  <2> QED  BY <1>2, <1>4, <2>1 DEF CallSetDeadline, CallClose, CtlStep, Apply, ApplyUnblock, Evict,
             EvictUnblock, FdClose
<1>5. ASSUME NEW t \in Poller, PollStep(t) PROVE ~reused
  BY <1>5 DEF PollStep, Fetch, Lookup, Deliver
<1>6. CASE SysmonStep \/ Clock \/ UNCHANGED vars
  <2>1. CASE Scan  BY <2>1 DEF Scan
  <2>2. CASE Fire  BY <2>2 DEF Fire
  <2>3. CASE FireUnblock  BY <2>3 DEF FireUnblock
  <2>4. CASE Clock  BY <2>4 DEF Clock
  <2>5. CASE UNCHANGED vars  BY <2>5 DEF vars
  <2> QED  BY <1>6, <2>1, <2>2, <2>3, <2>4, <2>5 DEF SysmonStep
<1> QED  BY <1>3, <1>4, <1>5, <1>6 DEF Next

\* The invariant holds initially, and every step keeps it that does not use memory again
\* which is still pointed at.
LEMMA InvInductive == Spec => [](~reused => Inv)
<1>1. Init => Inv
  <2> SUFFICES ASSUME Init PROVE Inv  OBVIOUS
  <2>0. /\ None \notin PD /\ PD_NIL \notin IO /\ PD_NIL # PD_WAIT
        /\ \A c \in Conn : ctl(c) \in Proc
        /\ IO \subseteq Proc /\ \A g \in IO : g \in Proc
    BY Names
  <2>1. TypeOK  
    <3>1. "idle" \in Labels /\ PD_NIL \in Words  BY DEF Labels, Words
    <3> QED  BY <3>1 DEF Init, TypeOK
  <2>2. OneConn  BY <2>0, Names DEF Init, OneConn, Owns
  <2>3. Holding  BY DEF Init, Holding, Holds, Uses, Sole
  <2>4. Registry /\ Single  BY DEF Init, Registry, Single
  <2>5. Control  BY <2>0 DEF Init, Control
  <2>6. WordsIn /\ Agree  BY <2>0 DEF Init, WordsIn, Agree, Parked
  <2>7. Telling  BY <2>0 DEF Init, Telling, Told, Quiet
  <2>8. Awaiting  BY <2>0 DEF Init, Awaiting, Awaited, InBlock, Armed, Parked
  <2> QED  BY <2>1, <2>2, <2>3, <2>4, <2>5, <2>6, <2>7, <2>8 DEF Inv
<1>2. (~reused => Inv) /\ [Next]_vars => (~reused => Inv)'
  <2> SUFFICES ASSUME ~reused => Inv, [Next]_vars, ~reused' PROVE Inv'  OBVIOUS
  <2>1. Inv  BY ReusedStays
  <2> QED
    BY <2>1, StepType, StepOwners, StepSingle, StepControl, StepWords, StepTelling, StepAwaiting DEF Inv
<1> QED  BY <1>1, <1>2, PTL DEF Spec

\* Every variable of the netpoller keeps its type, the deadlines that a scan of sysmon
\* collects are due, while no memory is used again that a goroutine inside block points at.
THEOREM TypeCorrect == Spec => [](~reused => TypeOK)
<1>1. Inv => TypeOK  BY DEF Inv
<1> QED  BY <1>1, InvInductive, PTL

\* Until the memory of a closed descriptor is used again under a goroutine that is still
\* inside block, the word of a descriptor holds G exactly while that goroutine is parked on
\* it, and WAIT only while it is about to be: whoever takes G off the word readies a parked
\* goroutine, once, and block reaches neither "double wait" nor "corrupted polldesc",
\* whatever the connections, the pollers and the races with Close.
THEOREM WordsHaveOwners == Spec => []WordOwner
<1>1. (~reused => Inv) => WordOwner  BY DEF Inv, Agree, WordOwner
<1> QED  BY <1>1, InvInductive, PTL

\* Edge-triggered readiness is not lost between the system call's EAGAIN and the park, in
\* epoll, in a poller's batch, at the filter for stale events or in the word
\* (as long as no memory is used again that a goroutine inside block points at).
THEOREM ReadinessIsNotLost == Spec => []NoLostReadiness
<1>1. (~reused => Inv) => NoLostReadiness
  <2> SUFFICES ASSUME Inv, NEW g \in IO, Parked(g), avail[g], NEW i \in interest, i.pd = my[g]
               PROVE  UnderWay(my[g], g[2])
    BY DEF NoLostReadiness
  <2>1. g \in Proc /\ g[1] \in Conn /\ PD_READY \notin IO  BY Names
  <2>2. i.fd = g[1]  BY <2>1 DEF Inv, Registry, Owns
  <2>3. Tells(my[g], g[2])  BY <2>2 DEF Inv, Telling, Told, Quiet, Parked
  <2>4. word[my[g]][g[2]] # PD_READY  BY <2>1 DEF Inv, Agree
  <2> QED  BY <2>3, <2>4 DEF Tells
<1> QED  BY <1>1, InvInductive, PTL

\* A goroutine stays parked on an expired deadline, or on a closed connection, only if the
\* deadline expired between block's look at it and its WAIT, or if ensure_pd registered
\* the fd anew while Close ran (as long as no memory is used again that a goroutine inside
\* block points at).
THEOREM OnlyTheWindowStrands == Spec => []StrandedOnlyInWindow
<1>1. (~reused => Inv) => StrandedOnlyInWindow
  <2> SUFFICES ASSUME Inv, NEW g \in IO, Parked(g)
               PROVE  /\ dl[my[g]][g[2]] < 0 => g \in missed \/ Expiring(my[g], g[2])
                      /\ fd[g[1]] = "closed" => g \in missed \/ my[g] = pd[g[1]]
    BY DEF StrandedOnlyInWindow
  <2>1. g[1] \in Conn  BY Names
  <2>2. g \notin missed => /\ dl[my[g]][g[2]] < 0 => Expiring(my[g], g[2])
                           /\ pd[g[1]] = my[g] \/ ToEvict(g[1], my[g], g[2])
    BY DEF Inv, Awaiting, Awaited, Armed
  <2>3. fd[g[1]] = "closed" => ~ToEvict(g[1], my[g], g[2])  BY <2>1 DEF Inv, Control, ToEvict
  <2> QED  BY <2>2, <2>3
<1> QED  BY <1>1, InvInductive, PTL

\* What a scan found expired was due then, and is still due: this needs nothing else.
Due == now \in Nat /\ expired \subseteq PD \X Mode \X (1..now)

\* Only sysmon moves its list or what it fires.
LEMMA SysmonOnly == [Next]_vars => UNCHANGED <<now, expired, firing>> \/ SysmonStep \/ Clock
<1> SUFFICES ASSUME [Next]_vars PROVE UNCHANGED <<now, expired, firing>> \/ SysmonStep \/ Clock  OBVIOUS
<1>1. ASSUME NEW q \in Proc, Ensure(q) PROVE UNCHANGED <<now, expired, firing>>
  BY <1>1 DEF Ensure, EnsureLoad, Open, Install, EnsureReload, Del, Remove, pollers
<1>2. ASSUME NEW g \in IO, Arrive(g) \/ Call(g) \/ IOStep(g) PROVE UNCHANGED <<now, expired, firing>>
  BY <1>1, <1>2, Names DEF IOStep, Arrive, Call, Sys, Check, Arm, Commit, Resume, pollers
<1>3. ASSUME NEW c \in Conn, CallSetDeadline(c) \/ CallClose(c) \/ CtlStep(c)
      PROVE  UNCHANGED <<now, expired, firing>>
  <2>1. <<c, "ctl">> \in Proc  BY Names
  <2> QED  BY <1>1, <1>3, <2>1 DEF CallSetDeadline, CallClose, CtlStep, Apply, ApplyUnblock, Evict,
             EvictUnblock, FdClose, pollers
<1>4. ASSUME NEW t \in Poller, PollStep(t) PROVE UNCHANGED <<now, expired, firing>>
  BY <1>4 DEF PollStep, Fetch, Lookup, Deliver
<1>5. CASE UNCHANGED vars  BY <1>5 DEF vars, pollers
<1> QED  BY <1>2, <1>3, <1>4, <1>5 DEF Next

\* sysmon expires only a deadline that is due and is still the one its scan saw, whatever
\* becomes of the memory of closed descriptors.
THEOREM FiresWhatIsDue == Spec => FiresOnlyDue
<1>1. Init => Due  BY DEF Init, Due
<1>2. Due /\ [Next]_vars => Due'
  <2> SUFFICES ASSUME Due, [Next]_vars PROVE Due'  OBVIOUS
  <2>1. CASE UNCHANGED <<now, expired>>  BY <2>1 DEF Due
  <2>2. CASE Scan
    <3>1. expired' \subseteq PD \X Mode \X (1..now) /\ now' = now  BY <2>2 DEF Scan
    <3> QED  BY <3>1 DEF Due
  <2>3. CASE Fire
    <3>1. expired' \subseteq expired /\ now' = now  BY <2>3 DEF Fire
    <3> QED  BY <3>1 DEF Due
  <2>4. CASE Clock
    <3>1. expired' = expired /\ now' = now + 1  BY <2>4 DEF Clock, pollers
    <3>2. 1..now \subseteq 1..now'  BY <3>1 DEF Due
    <3>3. PD \X Mode \X (1..now) \subseteq PD \X Mode \X (1..now')  BY <3>2
    <3> QED  BY <3>1, <3>3 DEF Due
  <2> QED  BY <2>1, <2>2, <2>3, <2>4, SysmonOnly DEF SysmonStep, FireUnblock
<1>3. Due /\ [Next]_vars => \A p \in PD, m \in Mode :
        firing' = <<p, m>> /\ firing # firing' => dl[p][m] \in 1..now
  <2> SUFFICES ASSUME Due, [Next]_vars, NEW p \in PD, NEW m \in Mode, firing' = <<p, m>>, firing # firing'
               PROVE  dl[p][m] \in 1..now
    OBVIOUS
  <2>1. None \notin PD \X Mode /\ <<p, m>> \in PD \X Mode  BY Names
  <2>2. Fire
    <3>1. CASE Scan \/ Clock  BY <3>1 DEF Scan, Clock, pollers
    <3>2. CASE FireUnblock  BY <2>1, <3>2 DEF FireUnblock
    <3> QED  BY <3>1, <3>2, SysmonOnly DEF SysmonStep
  <2>3. PICK e \in expired : StillThat(e) /\ firing' = <<e[1], e[2]>>  BY <2>2 DEF Fire, StillThat
  <2>4. e[3] \in 1..now /\ e[1] = p /\ e[2] = m  BY <2>3 DEF Due
  <2> QED  BY <2>3, <2>4 DEF StillThat
<1> QED  BY <1>1, <1>2, <1>3, PTL DEF Spec, FiresOnlyDue

=============================================================================
