------------------------ MODULE LockFreeRing_proofs ------------------------
(***************************************************************************)
(* Proofs about LockFreeRing, for any set of threads, any number of calls  *)
(* and any capacity of at least 2 (in a ring of one slot the sequence      *)
(* number of a published value is that of a free slot for the next ticket, *)
(* and the ring overfills).                                                *)
(*                                                                         *)
(* The N youngest tickets, tail - N .. tail - 1, use a slot each.  The     *)
(* inductive invariant says what the sequence number of that slot tells    *)
(* about the ticket: it is being filled, is published, is being drained,   *)
(* or its slot is free for the ticket of the next lap.                     *)
(***************************************************************************)
EXTENDS LockFreeRing, SequenceTheorems, TLAPS

Window == (tail - N)..(tail - 1)
FillingAt(k)  == \E t \in T : Filling(t) /\ pos[t] = k
DrainingAt(k) == \E t \in T : Draining(t) /\ pos[t] = k

Fills(k)    == k >= head /\ FillingAt(k) /\ ~DrainingAt(k) /\ seq[SlotOf(k)] = k
Full(k)     == k >= head /\ ~FillingAt(k) /\ ~DrainingAt(k) /\ seq[SlotOf(k)] = k + 1
Drains(k)   == k < head /\ ~FillingAt(k) /\ DrainingAt(k) /\ seq[SlotOf(k)] = k + 1
Recycled(k) == k < head /\ ~FillingAt(k) /\ ~DrainingAt(k) /\ seq[SlotOf(k)] = k + N
SlotStates == \A k \in Window : Fills(k) \/ Full(k) \/ Drains(k) \/ Recycled(k)

\* Whoever holds a ticket holds one of the youngest N, and holds it alone.
Holding(t) == Filling(t) \/ Draining(t)
Tickets ==
    /\ tail <= head + N
    /\ \A t \in T : Holding(t) => pos[t] \in Window
    /\ \A t, u \in T : Holding(t) /\ Holding(u) /\ pos[t] = pos[u] => t = u

\* What a thread has seen of its ticket: a claim that succeeds finds the slot as it was.
Sending(t)   == pc[t] \in {"sendSeq", "sendReload", "sendClaim"}
Receiving(t) == pc[t] \in {"recvSeq", "recvReload", "recvClaim"}
Seen == \A t \in T :
    /\ pc[t] # "idle" => ops[t] \in 1..MaxOps
    /\ Sending(t) => pos[t] <= tail
    /\ Receiving(t) => pos[t] <= head
    /\ pc[t] = "sendClaim" /\ pos[t] = tail => seq[SlotOf(tail)] = tail
    /\ pc[t] = "recvClaim" /\ pos[t] = head => seq[SlotOf(head)] = head + 1

\* Where the values are.
Data ==
    /\ \A t \in T : pc[t] = "sendPublish" => val[SlotOf(pos[t])] = Arg(t)
    /\ \A t \in T : IF pc[t] = "recvRecycle" THEN got[t] \in Values ELSE got[t] = NoVal
    /\ \A k \in Window : seq[SlotOf(k)] = k + 1 => val[SlotOf(k)] \in Values

Inv == TypeOK /\ SlotStates /\ Tickets /\ Seen
IInv == Inv /\ Data

-----------------------------------------------------------------------------
(* Slots and tickets.                                                      *)

\* Every ticket has a slot, which it shares with the ticket of the next lap.
LEMMA SlotType ==
  ASSUME NEW k \in Int
  PROVE  SlotOf(k) \in Slots /\ SlotOf(k + N) = SlotOf(k) /\ SlotOf(k - N) = SlotOf(k)
<1> N \in Nat /\ N > 0  BY SlotAssumption
<1> DEFINE q == k \div N
           p == k % N
<1>1. q \in Int /\ p \in 0..(N - 1) /\ k = (N * q) + p  OBVIOUS
<1> HIDE DEF q, p
<1>2. k + N = (N * (q + 1)) + p /\ k - N = (N * (q - 1)) + p  BY <1>1
<1>3. \A x \in Int : ((N * x) + p) % N = p  BY <1>1
<1>4. (k + N) % N = p /\ (k - N) % N = p /\ k % N = p  BY <1>1, <1>2, <1>3
<1> QED  BY <1>1, <1>4 DEF SlotOf, Slots

\* Two tickets of one slot are a lap apart, or the same.
LEMMA SameSlot ==
  ASSUME NEW j \in Int, NEW k \in Int, SlotOf(j) = SlotOf(k), j - k < N, k - j < N
  PROVE  j = k
<1> N \in Nat /\ N > 0  BY SlotAssumption
<1> DEFINE a == j \div N
           b == k \div N
           p == k % N
<1>1. a \in Int /\ j = (N * a) + (j % N)  OBVIOUS
<1>2. b \in Int /\ p \in Int /\ k = (N * b) + p  OBVIOUS
<1>3. j % N = p  BY DEF SlotOf
<1> HIDE DEF a, b, p
<1>4. j = (N * a) + p  BY <1>1, <1>3
<1>5. N * (a - b) < N /\ N * (a - b) > -N  BY <1>1, <1>2, <1>4
<1>6. a = b  BY <1>1, <1>2, <1>5
<1> QED  BY <1>2, <1>4, <1>6

\* The window has a ticket for every slot.
LEMMA InWindow ==
  ASSUME NEW x \in Int, tail \in Nat
  PROVE  \E k \in Window : SlotOf(k) = SlotOf(x)
<1> N \in Nat /\ N > 0  BY SlotAssumption
<1> DEFINE a == tail - N
           q == (x - a) \div N
           p == (x - a) % N
           y == x % N
           z == x \div N
<1>1. q \in Int /\ p \in 0..(N - 1) /\ x - a = (N * q) + p  OBVIOUS
<1>2. a + p \in Window  BY <1>1 DEF Window
<1>3. z \in Int /\ y \in 0..(N - 1) /\ x = (N * z) + y  OBVIOUS
<1> HIDE DEF q, p, y, z
<1>4. a + p = (N * (z - q)) + y  BY <1>1, <1>3
<1>5. \A w \in Int : ((N * w) + y) % N = y  BY <1>3
<1>6. (a + p) % N = y
  <2>1. z - q \in Int  BY <1>1, <1>3
  <2>2. ((N * (z - q)) + y) % N = y  BY <1>5, <2>1
  <2> QED  BY <1>4, <2>2
<1>7. SlotOf(a + p) = SlotOf(x)  BY <1>6 DEF SlotOf, y
<1> QED  BY <1>2, <1>7

-----------------------------------------------------------------------------
(* The invariant.                                                          *)

\* The invariant holds initially: every slot is free for the ticket of its index.
LEMMA InitInv == ASSUME Cap >= 2 PROVE Init => IInv
<1> SUFFICES ASSUME Init PROVE IInv  OBVIOUS
<1> N \in Nat /\ N >= 2  BY SlotAssumption, RingAssumption
<1> USE DEF Init, Filling, Draining
<1>1. TypeOK  BY DEF TypeOK, PC, Slots
<1>2. \A k \in Window : Recycled(k)
  <2> SUFFICES ASSUME NEW k \in Window PROVE Recycled(k)  OBVIOUS
  <2>1. k \in Int /\ k + N \in 0..(N - 1)  BY DEF Window
  <2>2. SlotOf(k) = k + N
    <3>1. (k + N) % N = k + N  BY <2>1
    <3> QED  BY <2>1, <3>1, SlotType DEF SlotOf
  <2>3. seq[SlotOf(k)] = k + N  BY <2>1, <2>2 DEF Slots
  <2> QED  BY <2>1, <2>3 DEF Recycled, FillingAt, DrainingAt
<1>3. Tickets /\ Seen  BY DEF Tickets, Seen, Holding, Sending, Receiving
<1>4. Data
  <2>1. \A k \in Window : seq[SlotOf(k)] = k + N  BY <1>2 DEF Recycled
  <2> QED  BY <2>1 DEF Data, Window
<1> QED  BY <1>1, <1>2, <1>3, <1>4 DEF Inv, IInv, SlotStates

\* A slot with the number of the next ticket was recycled: the ring is not full.
LEMMA FreeForTail ==
  ASSUME Inv, Cap >= 2, seq[SlotOf(tail)] = tail
  PROVE  tail < head + N /\ Recycled(tail - N)
<1> N \in Nat /\ N >= 2  BY SlotAssumption, RingAssumption
<1> head \in Nat /\ tail \in Nat  BY DEF Inv, TypeOK
<1>1. tail - N \in Window  BY DEF Window
<1>2. SlotOf(tail - N) = SlotOf(tail)  BY SlotType
<1>3. seq[SlotOf(tail - N)] = tail  BY <1>2
<1>4. Recycled(tail - N)  BY <1>1, <1>3 DEF Inv, SlotStates, Fills, Full, Drains
<1> QED  BY <1>4 DEF Recycled

\* A slot one ahead of the oldest ticket holds its value: the ring is not empty.
LEMMA ReadyForHead ==
  ASSUME Inv, Cap >= 2, seq[SlotOf(head)] = head + 1
  PROVE  head < tail /\ head \in Window /\ Full(head)
<1> N \in Nat /\ N >= 2  BY SlotAssumption, RingAssumption
<1> head \in Nat /\ tail \in Nat /\ head <= tail /\ tail <= head + N  BY DEF Inv, TypeOK, Tickets
<1>1. head # tail
  <2> SUFFICES ASSUME head = tail PROVE FALSE  OBVIOUS
  <2>1. tail - N \in Window  BY DEF Window
  <2>2. seq[SlotOf(tail - N)] = tail + 1  BY SlotType
  <2> QED  BY <2>1, <2>2 DEF Inv, SlotStates, Fills, Full, Drains, Recycled
<1>2. head \in Window  BY <1>1 DEF Window
<1> QED  BY <1>1, <1>2 DEF Inv, SlotStates, Fills, Full, Drains, Recycled

\* A step that moves no ticket and no sequence number keeps the states of the slots.
LEMMA Quiet ==
  ASSUME Inv, UNCHANGED <<head, tail, seq>>,
         \A u \in T : /\ Filling(u)' = Filling(u) /\ Draining(u)' = Draining(u)
                      /\ Holding(u) => pos'[u] = pos[u]
  PROVE  SlotStates' /\ Tickets'
<1>1. Window' = Window  BY DEF Window
<1>2. \A k : FillingAt(k)' = FillingAt(k) /\ DrainingAt(k)' = DrainingAt(k)
  BY DEF FillingAt, DrainingAt, Holding
<1>3. \A k : SlotOf(k)' = SlotOf(k)  BY DEF SlotOf
<1>4. SlotStates'
  BY <1>1, <1>2, <1>3 DEF Inv, SlotStates, Fills, Full, Drains, Recycled
<1>5. Tickets'  BY <1>1 DEF Inv, Tickets, Holding
<1> QED  BY <1>4, <1>5

\* The steps before a claim, and those on a slot's value, are quiet.
LEMMA StepQuiet ==
  ASSUME Inv, NEW t \in T,
         \/ SendStart(t) \/ SendSeq(t) \/ SendReload(t) \/ SendLost(t) \/ SendWrite(t)
         \/ RecvStart(t) \/ RecvSeq(t) \/ RecvReload(t) \/ RecvLost(t) \/ RecvRead(t)
  PROVE  TypeOK' /\ SlotStates' /\ Tickets' /\ Seen'
<1> N \in Nat /\ N > 0  BY SlotAssumption
<1> USE DEF Inv, TypeOK, Goto
<1>1. UNCHANGED <<head, tail, seq>>
  BY DEF SendStart, SendSeq, SendReload, SendLost, SendWrite,
         RecvStart, RecvSeq, RecvReload, RecvLost, RecvRead
<1>2. \A u \in T : /\ Filling(u)' = Filling(u) /\ Draining(u)' = Draining(u)
                   /\ Holding(u) => pos'[u] = pos[u]
  BY DEF SendStart, SendSeq, SendReload, SendLost, SendWrite, SendVerdict,
         RecvStart, RecvSeq, RecvReload, RecvLost, RecvRead, RecvVerdict,
         Holding, Filling, Draining
<1>3. TypeOK'
  <2>1. CASE SendWrite(t)
    <3>1. SlotOf(pos[t]) \in Slots  BY SlotType
    <3>2. ops[t] \in 1..MaxOps  BY <2>1 DEF Seen, SendWrite
    <3>3. Arg(t) \in Values  BY <3>2 DEF Arg, Values
    <3> QED  BY <2>1, <3>1, <3>3 DEF SendWrite, PC
  <2>2. CASE RecvRead(t)
    <3>1. SlotOf(pos[t]) \in Slots  BY SlotType
    <3> QED  BY <2>2, <3>1 DEF RecvRead, PC
  <2>3. CASE SendStart(t) \/ SendSeq(t) \/ SendReload(t) \/ SendLost(t)
    BY <2>3 DEF SendStart, SendSeq, SendReload, SendLost, SendVerdict, PC
  <2>4. CASE RecvStart(t) \/ RecvSeq(t) \/ RecvReload(t) \/ RecvLost(t)
    BY <2>4 DEF RecvStart, RecvSeq, RecvReload, RecvLost, RecvVerdict, PC
  <2> QED  BY <2>1, <2>2, <2>3, <2>4
<1>4. Seen'
  <2> USE <1>1 DEF Seen, Sending, Receiving
  <2>1. CASE SendSeq(t)
    <3>1. pc'[t] = "sendClaim" => seq[SlotOf(pos[t])] = pos[t]
      <4>1. SlotOf(pos[t]) \in Slots  BY SlotType
      <4>2. seq[SlotOf(pos[t])] \in Nat /\ pos[t] \in Nat  BY <4>1
      <4> QED  BY <2>1, <4>2 DEF SendSeq, SendVerdict
    <3> QED  BY <2>1, <3>1 DEF SendSeq, SendVerdict, SlotOf
  <2>2. CASE RecvSeq(t)
    <3>1. pc'[t] = "recvClaim" => seq[SlotOf(pos[t])] = pos[t] + 1
      <4>1. SlotOf(pos[t]) \in Slots  BY SlotType
      <4>2. seq[SlotOf(pos[t])] \in Nat /\ pos[t] \in Nat  BY <4>1
      <4> QED  BY <2>2, <4>2 DEF RecvSeq, RecvVerdict
    <3> QED  BY <2>2, <3>1 DEF RecvSeq, RecvVerdict, SlotOf
  <2>3. CASE SendStart(t) \/ SendReload(t) \/ SendLost(t) \/ SendWrite(t)
    BY <2>3, RingAssumption DEF SendStart, SendReload, SendLost, SendWrite, SlotOf
  <2>4. CASE RecvStart(t) \/ RecvReload(t) \/ RecvLost(t) \/ RecvRead(t)
    BY <2>4, RingAssumption DEF RecvStart, RecvReload, RecvLost, RecvRead, SlotOf
  <2> QED  BY <2>1, <2>2, <2>3, <2>4
<1> QED  BY <1>1, <1>2, <1>3, <1>4, Quiet

\* The claim of a ticket by a producer: the window moves on past a recycled slot.
LEMMA StepSendClaim ==
  ASSUME Inv, Cap >= 2, NEW t \in T, SendClaim(t)
  PROVE  TypeOK' /\ SlotStates' /\ Tickets' /\ Seen'
<1> N \in Nat /\ N >= 2  BY SlotAssumption, RingAssumption
<1> USE DEF Inv, TypeOK, Goto
<1>1. /\ pc[t] = "sendClaim" /\ pos[t] = tail /\ tail' = tail + 1
      /\ UNCHANGED <<head, seq, val, ops, pos, got>> /\ pc' = [pc EXCEPT ![t] = "sendWrite"]
  BY DEF SendClaim
<1>2. seq[SlotOf(tail)] = tail  BY <1>1 DEF Seen
<1>3. tail < head + N /\ Recycled(tail - N)  BY <1>2, FreeForTail
<1>4. TypeOK'  BY <1>1 DEF PC
<1>5. /\ \A k : FillingAt(k)' = (FillingAt(k) \/ k = tail)
      /\ \A k : DrainingAt(k)' = DrainingAt(k)
  BY <1>1 DEF FillingAt, DrainingAt, Filling, Draining
<1>6. \A u \in T : Holding(u) => pos[u] \in Window /\ pos[u] # tail - N
  BY <1>3 DEF Recycled, FillingAt, DrainingAt, Holding, Tickets
<1>7. Window' = (Window \ {tail - N}) \cup {tail}  BY <1>1 DEF Window
<1>8. SlotStates'
  <2> SUFFICES ASSUME NEW k \in Window'
               PROVE (Fills(k) \/ Full(k) \/ Drains(k) \/ Recycled(k))'
    BY DEF SlotStates
  <2>1. SlotOf(k)' = SlotOf(k)  BY DEF SlotOf
  <2>2. CASE k = tail
    <3>1. ~DrainingAt(tail)  BY <1>6 DEF DrainingAt, Holding, Window
    <3> QED  BY <1>1, <1>2, <1>5, <2>1, <2>2, <3>1 DEF Fills
  <2>3. CASE k # tail
    <3>1. k \in Window  BY <1>7, <2>3
    <3> QED  BY <1>1, <1>5, <2>1, <2>3, <3>1 DEF SlotStates, Fills, Full, Drains, Recycled
  <2> QED  BY <2>2, <2>3
<1>9. Tickets'
  <2>1. \A u \in T : Holding(u)' = (Holding(u) \/ u = t)
    BY <1>1 DEF Holding, Filling, Draining
  <2>2. \A u \in T : Holding(u)' => pos'[u] \in Window'  BY <1>1, <1>6, <1>7, <2>1
  <2>3. \A u \in T : Holding(u) => pos[u] # tail  BY <1>6 DEF Window
  <2>4. ASSUME NEW u \in T, NEW v \in T, Holding(u)', Holding(v)', pos'[u] = pos'[v]
        PROVE  u = v
    BY <1>1, <2>1, <2>3, <2>4 DEF Tickets
  <2> QED  BY <1>1, <1>3, <2>2, <2>4 DEF Tickets
<1>10. Seen'
  BY <1>1 DEF Seen, Sending, Receiving, SlotOf
<1> QED  BY <1>4, <1>8, <1>9, <1>10

\* The claim of a ticket by a consumer: the oldest value is taken out by one thread.
LEMMA StepRecvClaim ==
  ASSUME Inv, Cap >= 2, NEW t \in T, RecvClaim(t)
  PROVE  TypeOK' /\ SlotStates' /\ Tickets' /\ Seen'
<1> N \in Nat /\ N >= 2  BY SlotAssumption, RingAssumption
<1> USE DEF Inv, TypeOK, Goto
<1>1. /\ pc[t] = "recvClaim" /\ pos[t] = head /\ head' = head + 1
      /\ UNCHANGED <<tail, seq, val, ops, pos, got>> /\ pc' = [pc EXCEPT ![t] = "recvRead"]
  BY DEF RecvClaim
<1>2. seq[SlotOf(head)] = head + 1  BY <1>1 DEF Seen
<1>3. head < tail /\ head \in Window /\ Full(head)  BY <1>2, ReadyForHead
<1>4. TypeOK'  BY <1>1, <1>3 DEF PC
<1>5. /\ \A k : DrainingAt(k)' = (DrainingAt(k) \/ k = head)
      /\ \A k : FillingAt(k)' = FillingAt(k)
  BY <1>1 DEF FillingAt, DrainingAt, Filling, Draining
<1>6. Window' = Window  BY <1>1 DEF Window
<1>7. SlotStates'
  <2> SUFFICES ASSUME NEW k \in Window
               PROVE (Fills(k) \/ Full(k) \/ Drains(k) \/ Recycled(k))'
    BY <1>6 DEF SlotStates
  <2>1. SlotOf(k)' = SlotOf(k) /\ k \in Int  BY DEF SlotOf, Window
  <2>2. CASE k = head
    <3>1. DrainingAt(k)' /\ ~FillingAt(k)'  BY <1>3, <1>5, <2>2 DEF Full
    <3>2. (seq[SlotOf(k)] = k + 1)'  BY <1>1, <1>2, <2>1, <2>2
    <3>3. (k < head)'  BY <1>1, <2>2
    <3> QED  BY <3>1, <3>2, <3>3 DEF Drains
  <2>3. CASE k # head
    <3>1. (DrainingAt(k)' <=> DrainingAt(k)) /\ (FillingAt(k)' <=> FillingAt(k))
      BY <1>5, <2>3
    <3>2. (k >= head) <=> (k >= head)'  BY <1>1, <2>1, <2>3
    <3>3. (k < head) <=> (k < head)'  BY <1>1, <2>1, <2>3
    <3>4. seq[SlotOf(k)]' = seq[SlotOf(k)]  BY <1>1, <2>1
    <3> QED  BY <3>1, <3>2, <3>3, <3>4 DEF SlotStates, Fills, Full, Drains, Recycled
  <2> QED  BY <2>2, <2>3
<1>8. Tickets'
  <2>1. \A u \in T : Holding(u)' = (Holding(u) \/ u = t)
    BY <1>1 DEF Holding, Filling, Draining
  <2>2. \A u \in T : Holding(u) => pos[u] # head
    BY <1>3 DEF Full, FillingAt, DrainingAt, Holding
  <2>3. ASSUME NEW u \in T, NEW v \in T, Holding(u)', Holding(v)', pos'[u] = pos'[v]
        PROVE  u = v
    BY <1>1, <2>1, <2>2, <2>3 DEF Tickets
  <2>4. (tail <= head + N)'  BY <1>1 DEF Tickets
  <2>5. ASSUME NEW u \in T, Holding(u)' PROVE pos'[u] \in Window'
    BY <1>1, <1>3, <1>6, <2>1, <2>5 DEF Tickets
  <2> QED  BY <2>3, <2>4, <2>5 DEF Tickets
<1>9. Seen'  BY <1>1 DEF Seen, Sending, Receiving, SlotOf
<1> QED  BY <1>4, <1>7, <1>8, <1>9

\* The publication of a value: the slot goes over to the consumer of its ticket.
LEMMA StepPublish ==
  ASSUME Inv, Cap >= 2, NEW t \in T, SendPublish(t)
  PROVE  TypeOK' /\ SlotStates' /\ Tickets' /\ Seen'
<1> N \in Nat /\ N >= 2  BY SlotAssumption, RingAssumption
<1> DEFINE k == pos[t]
<1>1. /\ pc[t] = "sendPublish" /\ UNCHANGED <<head, tail, val, ops, pos, got>>
      /\ seq' = [seq EXCEPT ![SlotOf(k)] = k + 1] /\ pc' = [pc EXCEPT ![t] = "idle"]
  BY DEF SendPublish, Goto
<1>2. head \in Nat /\ tail \in Nat /\ k \in Nat /\ seq \in [Slots -> Nat] /\ pc \in [T -> PC]
  BY DEF Inv, TypeOK
<1>3. k \in Window /\ FillingAt(k)
  BY <1>1 DEF Inv, Tickets, Holding, Filling, FillingAt
<1>4. Fills(k)  BY <1>3 DEF Inv, SlotStates, Full, Drains, Recycled
<1>5. SlotOf(k) \in Slots  BY <1>2, SlotType
<1>6. TypeOK'  BY <1>1, <1>2, <1>5 DEF Inv, TypeOK, PC
<1>7. \A u \in T : /\ Filling(u)' <=> Filling(u) /\ u # t
                   /\ Draining(u)' <=> Draining(u)
  BY <1>1, <1>2 DEF Filling, Draining
<1>8. \A u \in T : Holding(u) /\ u # t => pos[u] # k
  <2>1. Holding(t)  BY <1>1 DEF Holding, Filling
  <2> QED  BY <2>1 DEF Inv, Tickets
<1>9. Window' = Window  BY <1>1 DEF Window
<1>10. \A j \in Window : j # k => seq'[SlotOf(j)] = seq[SlotOf(j)]
  <2> SUFFICES ASSUME NEW j \in Window, j # k PROVE seq'[SlotOf(j)] = seq[SlotOf(j)]
    OBVIOUS
  <2>1. SlotOf(j) # SlotOf(k)  BY <1>2, <1>3, SameSlot DEF Window
  <2>2. SlotOf(j) \in Slots  BY <1>2, SlotType DEF Window
  <2> QED  BY <1>1, <1>2, <2>1, <2>2
<1>11. SlotStates'
  <2> SUFFICES ASSUME NEW j \in Window
               PROVE (Fills(j) \/ Full(j) \/ Drains(j) \/ Recycled(j))'
    BY <1>9 DEF SlotStates
  <2>1. SlotOf(j)' = SlotOf(j)  BY DEF SlotOf
  <2>2. DrainingAt(j)' <=> DrainingAt(j)  BY <1>1, <1>7 DEF DrainingAt
  <2>3. CASE j = k
    <3>1. ~FillingAt(k)'  BY <1>1, <1>7, <1>8 DEF FillingAt, Holding
    <3>2. seq'[SlotOf(k)] = k + 1  BY <1>1, <1>2, <1>5
    <3> QED  BY <1>1, <1>4, <2>1, <2>2, <2>3, <3>1, <3>2 DEF Fills, Full
  <2>4. CASE j # k
    <3>1. FillingAt(j)' <=> FillingAt(j)  BY <1>1, <1>7, <2>4 DEF FillingAt
    <3>2. (seq[SlotOf(j)])' = seq[SlotOf(j)]  BY <1>10, <2>1, <2>4
    <3> QED  BY <1>1, <2>2, <3>1, <3>2 DEF Inv, SlotStates, Fills, Full, Drains, Recycled
  <2> QED  BY <2>3, <2>4
<1>12. Tickets'  BY <1>1, <1>7, <1>9 DEF Inv, Tickets, Holding
<1>13. Seen'
  <2>1. \A u \in T : Sending(u)' = Sending(u) /\ Receiving(u)' = Receiving(u)
    BY <1>1, <1>2 DEF Sending, Receiving
  <2>2. seq[SlotOf(tail)] = tail => seq'[SlotOf(tail)] = tail
    <3> HAVE seq[SlotOf(tail)] = tail
    <3>1. Recycled(tail - N)  BY FreeForTail
    <3>2. tail - N # k /\ tail - N \in Window  BY <1>2, <1>3, <3>1 DEF Recycled, Window
    <3>3. SlotOf(tail - N) = SlotOf(tail)  BY <1>2, SlotType
    <3> QED  BY <1>10, <3>2, <3>3
  <2>3. seq[SlotOf(head)] = head + 1 => seq'[SlotOf(head)] = head + 1
    <3> HAVE seq[SlotOf(head)] = head + 1
    <3>1. Full(head) /\ head \in Window  BY ReadyForHead
    <3> QED  BY <1>3, <1>10, <3>1 DEF Full
  <2> QED  BY <1>1, <1>2, <2>1, <2>2, <2>3 DEF Inv, Seen, SlotOf
<1> QED  BY <1>6, <1>11, <1>12, <1>13

\* The recycling of a slot: it goes over to the producer of the next lap.
LEMMA StepRecycle ==
  ASSUME Inv, Cap >= 2, NEW t \in T, RecvRecycle(t)
  PROVE  TypeOK' /\ SlotStates' /\ Tickets' /\ Seen'
<1> N \in Nat /\ N >= 2  BY SlotAssumption, RingAssumption
<1> DEFINE k == pos[t]
<1>1. /\ pc[t] = "recvRecycle" /\ UNCHANGED <<head, tail, val, ops, pos>>
      /\ seq' = [seq EXCEPT ![SlotOf(k)] = k + N]
      /\ got' = [got EXCEPT ![t] = NoVal] /\ pc' = [pc EXCEPT ![t] = "idle"]
  BY DEF RecvRecycle, NextLap, Goto
<1>2. head \in Nat /\ tail \in Nat /\ k \in Nat /\ seq \in [Slots -> Nat] /\ pc \in [T -> PC]
  BY DEF Inv, TypeOK
<1>3. k \in Window /\ DrainingAt(k)
  BY <1>1 DEF Inv, Tickets, Holding, Draining, DrainingAt
<1>4. Drains(k)  BY <1>3 DEF Inv, SlotStates, Full, Fills, Recycled
<1>5. SlotOf(k) \in Slots  BY <1>2, SlotType
<1>6. TypeOK'  BY <1>1, <1>2, <1>5 DEF Inv, TypeOK, PC
<1>7. \A u \in T : /\ Draining(u)' <=> Draining(u) /\ u # t
                   /\ Filling(u)' <=> Filling(u)
  BY <1>1, <1>2 DEF Filling, Draining
<1>8. \A u \in T : Holding(u) /\ u # t => pos[u] # k
  <2>1. Holding(t)  BY <1>1 DEF Holding, Draining
  <2> QED  BY <2>1 DEF Inv, Tickets
<1>9. Window' = Window  BY <1>1 DEF Window
<1>10. \A j \in Window : j # k => seq'[SlotOf(j)] = seq[SlotOf(j)]
  <2> SUFFICES ASSUME NEW j \in Window, j # k PROVE seq'[SlotOf(j)] = seq[SlotOf(j)]
    OBVIOUS
  <2>1. SlotOf(j) # SlotOf(k)  BY <1>2, <1>3, SameSlot DEF Window
  <2>2. SlotOf(j) \in Slots  BY <1>2, SlotType DEF Window
  <2> QED  BY <1>1, <1>2, <2>1, <2>2
<1>11. SlotStates'
  <2> SUFFICES ASSUME NEW j \in Window
               PROVE (Fills(j) \/ Full(j) \/ Drains(j) \/ Recycled(j))'
    BY <1>9 DEF SlotStates
  <2>1. SlotOf(j)' = SlotOf(j)  BY DEF SlotOf
  <2>2. FillingAt(j)' <=> FillingAt(j)  BY <1>1, <1>7 DEF FillingAt
  <2>3. CASE j = k
    <3>1. ~DrainingAt(k)'  BY <1>1, <1>7, <1>8 DEF DrainingAt, Holding
    <3>2. seq'[SlotOf(k)] = k + N  BY <1>1, <1>2, <1>5
    <3> QED  BY <1>1, <1>4, <2>1, <2>2, <2>3, <3>1, <3>2 DEF Drains, Recycled
  <2>4. CASE j # k
    <3>1. DrainingAt(j)' <=> DrainingAt(j)  BY <1>1, <1>7, <2>4 DEF DrainingAt
    <3>2. (seq[SlotOf(j)])' = seq[SlotOf(j)]  BY <1>10, <2>1, <2>4
    <3> QED  BY <1>1, <2>2, <3>1, <3>2 DEF Inv, SlotStates, Fills, Full, Drains, Recycled
  <2> QED  BY <2>3, <2>4
<1>12. Tickets'  BY <1>1, <1>7, <1>9 DEF Inv, Tickets, Holding
<1>13. Seen'
  <2>1. \A u \in T : Sending(u)' = Sending(u) /\ Receiving(u)' = Receiving(u)
    BY <1>1, <1>2 DEF Sending, Receiving
  <2>2. seq[SlotOf(tail)] = tail => seq'[SlotOf(tail)] = tail
    <3> HAVE seq[SlotOf(tail)] = tail
    <3>1. Recycled(tail - N)  BY FreeForTail
    <3>2. tail - N # k /\ tail - N \in Window  BY <1>2, <1>3, <3>1 DEF Recycled, Window
    <3>3. SlotOf(tail - N) = SlotOf(tail)  BY <1>2, SlotType
    <3> QED  BY <1>10, <3>2, <3>3
  <2>3. seq[SlotOf(head)] = head + 1 => seq'[SlotOf(head)] = head + 1
    <3> HAVE seq[SlotOf(head)] = head + 1
    <3>1. Full(head) /\ head \in Window  BY ReadyForHead
    <3> QED  BY <1>3, <1>10, <3>1 DEF Full
  <2> QED  BY <1>1, <1>2, <2>1, <2>2, <2>3 DEF Inv, Seen, SlotOf
<1> QED  BY <1>6, <1>11, <1>12, <1>13

\* Inv is an inductive invariant.
LEMMA StepInv ==
  ASSUME Cap >= 2, Inv, [Next]_vars
  PROVE  Inv'
<1>1. ASSUME NEW t \in T, SendStart(t) \/ RecvStart(t) \/ Send(t) \/ Recv(t) PROVE Inv'
  BY <1>1, StepQuiet, StepSendClaim, StepRecvClaim, StepPublish, StepRecycle
     DEF Send, Recv, Inv
<1>2. CASE UNCHANGED vars
  BY <1>2 DEF vars, Inv, TypeOK, SlotStates, Tickets, Seen, Holding, Sending, Receiving,
              Window, Fills, Full, Drains, Recycled, FillingAt, DrainingAt, Filling,
              Draining, SlotOf
<1> QED  BY <1>1, <1>2 DEF Next

\* Two threads that hold a ticket hold different slots: their tickets are less than a
\* lap apart.
LEMMA InvExclusive == ASSUME Inv PROVE SlotExclusive
<1> SUFFICES ASSUME NEW t \in T, NEW u \in T, Holding(t), Holding(u),
                    SlotOf(pos[t]) = SlotOf(pos[u])
             PROVE  t = u
  BY DEF SlotExclusive, Holding
<1>1. tail \in Nat /\ N \in Nat  BY SlotAssumption DEF Inv, TypeOK
<1>2. pos[t] \in Window /\ pos[u] \in Window  BY DEF Inv, Tickets
<1>3. pos[t] = pos[u]  BY <1>1, <1>2, SameSlot DEF Window
<1> QED  BY <1>3 DEF Inv, Tickets

\* The types, and that head does not overtake tail.
THEOREM TypeCorrect == ASSUME Cap >= 2 PROVE Spec => []TypeOK
<1>1. Init => Inv  BY InitInv DEF IInv
<1>2. Inv /\ [Next]_vars => Inv'  BY StepInv
<1>3. Inv => TypeOK  BY DEF Inv
<1> QED  BY <1>1, <1>2, <1>3, PTL DEF Spec

\* No two threads touch the value of a slot at the same time, whatever the number of
\* threads and calls: the accesses to `slot.val` in try_send and try_recv do not race.
THEOREM Exclusive == ASSUME Cap >= 2 PROVE Spec => []SlotExclusive
<1>1. Init => Inv  BY InitInv DEF IInv
<1>2. Inv /\ [Next]_vars => Inv'  BY StepInv
<1>3. Inv => SlotExclusive  BY InvExclusive
<1> QED  BY <1>1, <1>2, <1>3, PTL DEF Spec

\* A try_send that gives up has met a slot that the last lap still occupies, at a ticket
\* that is not older than tail: the ring is full, or a receive is under way.  A try_recv
\* that gives up has met a slot that is not published yet.
THEOREM Honest == ASSUME Cap >= 2 PROVE Spec => HonestFailure
<1> N \in Nat /\ N >= 2  BY SlotAssumption, RingAssumption
<1>1. Init => Inv  BY InitInv DEF IInv
<1>2. Inv /\ [Next]_vars => Inv'  BY StepInv
<1>3. ASSUME Inv, NEW t \in T, SendSeq(t), pc'[t] = "idle"
      PROVE  tail - head >= N \/ \E u \in T : Draining(u)
  <2>1. tail \in Nat /\ head \in Nat /\ pos[t] \in Nat /\ seq \in [Slots -> Nat] /\ pc \in [T -> PC]
    BY <1>3 DEF Inv, TypeOK
  <2>2. pos[t] <= tail  BY <1>3 DEF Inv, Seen, Sending, SendSeq
  <2>3. seq[SlotOf(pos[t])] < pos[t]
    <3>1. seq[SlotOf(pos[t])] \in Nat  BY <2>1, SlotType
    <3> QED  BY <1>3, <2>1, <3>1 DEF SendSeq, SendVerdict, Goto
  <2>4. PICK k \in Window : SlotOf(k) = SlotOf(pos[t])  BY <2>1, InWindow
  <2>5. Fills(k) \/ Full(k) \/ Drains(k) \/ Recycled(k)  BY <1>3 DEF Inv, SlotStates
  <2>6. k \in Int /\ k >= tail - N /\ k < tail  BY <2>1 DEF Window
  <2>7. k < pos[t]  BY <2>1, <2>3, <2>4, <2>5, <2>6 DEF Fills, Full, Drains, Recycled
  <2>8. pos[t] - k >= N  BY <2>1, <2>4, <2>6, <2>7, SameSlot
  <2>9. pos[t] = tail /\ k = tail - N  BY <2>1, <2>2, <2>6, <2>8
  <2>10. ~Recycled(k)  BY <2>1, <2>3, <2>4, <2>9 DEF Recycled
  <2> QED  BY <2>1, <2>5, <2>9, <2>10 DEF Fills, Full, Drains, DrainingAt
<1>4. ASSUME Inv, NEW t \in T, RecvSeq(t), pc'[t] = "idle"
      PROVE  tail = head \/ \E u \in T : Filling(u)
  <2> SUFFICES ASSUME tail # head PROVE \E u \in T : Filling(u)  OBVIOUS
  <2>1. /\ tail \in Nat /\ head \in Nat /\ head < tail /\ pos[t] \in Nat
        /\ seq \in [Slots -> Nat] /\ pc \in [T -> PC]
    BY <1>4 DEF Inv, TypeOK
  <2>2. pos[t] <= head  BY <1>4 DEF Inv, Seen, Receiving, RecvSeq
  <2>3. seq[SlotOf(pos[t])] <= pos[t]
    <3>1. seq[SlotOf(pos[t])] \in Nat  BY <2>1, SlotType
    <3> QED  BY <1>4, <2>1, <3>1 DEF RecvSeq, RecvVerdict, Goto
  <2>4. PICK k \in Window : SlotOf(k) = SlotOf(pos[t])  BY <2>1, InWindow
  <2>5. Fills(k) \/ Full(k) \/ Drains(k) \/ Recycled(k)  BY <1>4 DEF Inv, SlotStates
  <2>6. k \in Int /\ k >= tail - N /\ k < tail  BY <2>1 DEF Window
  <2>7. k >= pos[t]  BY <2>1, <2>2, <2>4, <2>6, SameSlot
  <2>8. Fills(k)  BY <2>1, <2>3, <2>4, <2>5, <2>6, <2>7 DEF Full, Drains, Recycled
  <2> QED  BY <2>8 DEF Fills, FillingAt
<1>5. Inv /\ [Next]_vars => [\A t \in T :
        /\ SendSeq(t) /\ pc'[t] = "idle" => \/ tail - head >= N
                                            \/ \E u \in T : Draining(u)
        /\ RecvSeq(t) /\ pc'[t] = "idle" => \/ tail = head
                                            \/ \E u \in T : Filling(u)]_vars
  BY <1>3, <1>4
<1> QED  BY <1>1, <1>2, <1>5, PTL DEF Spec, HonestFailure

-----------------------------------------------------------------------------
(* The refinement of RingSpec.                                             *)

\* The values are where the invariant says: the only write is to a slot being filled.
LEMMA StepData ==
  ASSUME Cap >= 2, IInv, Inv', [Next]_vars
  PROVE  Data'
<1> N \in Nat /\ N >= 2  BY SlotAssumption, RingAssumption
<1> USE DEF IInv
<1>0. /\ head \in Nat /\ tail \in Nat /\ seq \in [Slots -> Nat] /\ pc \in [T -> PC]
      /\ pos \in [T -> Nat] /\ val \in [Slots -> Values \cup {NoVal}]
      /\ got \in [T -> Values \cup {NoVal}] /\ ops \in [T -> Nat]
  BY DEF Inv, TypeOK
<1>1. ASSUME NEW t \in T,
             \/ SendStart(t) \/ SendSeq(t) \/ SendReload(t) \/ SendLost(t)
             \/ RecvStart(t) \/ RecvSeq(t) \/ RecvReload(t) \/ RecvLost(t)
      PROVE  Data'
  <2>1. UNCHANGED <<head, tail, seq, val, got>>
    BY <1>1 DEF SendStart, SendSeq, SendReload, SendLost, RecvStart, RecvSeq, RecvReload, RecvLost
  <2>2. /\ pc'[t] \notin {"sendPublish", "recvRecycle"} /\ pc[t] # "recvRecycle"
        /\ \A u \in T \ {t} : pc'[u] = pc[u] /\ pos'[u] = pos[u] /\ ops'[u] = ops[u]
    BY <1>0, <1>1 DEF SendStart, SendSeq, SendReload, SendLost, SendVerdict, Goto,
                      RecvStart, RecvSeq, RecvReload, RecvLost, RecvVerdict
  <2>3. Window' = Window  BY <2>1 DEF Window
  <2> QED  BY <2>1, <2>2, <2>3 DEF Data, SlotOf, Arg
<1>2. ASSUME NEW t \in T, SendClaim(t) PROVE Data'
  <2>1. /\ pc[t] = "sendClaim" /\ pos[t] = tail /\ tail' = tail + 1
        /\ UNCHANGED <<head, seq, val, ops, pos, got>> /\ pc' = [pc EXCEPT ![t] = "sendWrite"]
    BY <1>2 DEF SendClaim, Goto
  <2>2. seq[SlotOf(tail)] = tail  BY <2>1 DEF Inv, Seen
  <2>3. \A k \in Window' : k = tail \/ k \in Window  BY <1>0, <2>1 DEF Window
  <2>4. \A k \in Window' : seq[SlotOf(k)] = k + 1 => val[SlotOf(k)] \in Values
    BY <1>0, <2>2, <2>3 DEF Data
  <2> QED  BY <1>0, <2>1, <2>4 DEF Data, SlotOf, Arg
<1>3. ASSUME NEW t \in T, SendWrite(t) PROVE Data'
  <2> DEFINE s == SlotOf(pos[t])
  <2>1. /\ pc[t] = "sendWrite" /\ UNCHANGED <<head, tail, seq, ops, pos, got>>
        /\ val' = [val EXCEPT ![s] = Arg(t)] /\ pc' = [pc EXCEPT ![t] = "sendPublish"]
    BY <1>3 DEF SendWrite, Goto
  <2>2. s \in Slots  BY <1>0, SlotType
  <2>3. val'[s] = Arg(t) /\ \A i \in Slots : i # s => val'[i] = val[i]  BY <1>0, <2>1, <2>2
  <2>4. Holding(t) /\ Filling(t)  BY <2>1 DEF Holding, Filling
  <2>5. Arg(t) \in Values  BY <2>1 DEF Inv, Seen, Arg, Values
  <2>6. \A k \in Window : seq[SlotOf(k)] = k + 1 => val'[SlotOf(k)] \in Values
    BY <1>0, <2>3, <2>5, SlotType DEF Data, Window
  <2>7. \A u \in T : pc[u] = "sendPublish" => val'[SlotOf(pos[u])] = Arg(u)
    <3> SUFFICES ASSUME NEW u \in T, pc[u] = "sendPublish"
                 PROVE  val'[SlotOf(pos[u])] = Arg(u)
      OBVIOUS
    <3>1. Filling(u) /\ u # t  BY <2>1 DEF Filling
    <3>2. SlotOf(pos[u]) # s  BY <2>4, <3>1, InvExclusive DEF SlotExclusive
    <3> QED  BY <1>0, <2>3, <3>2, SlotType DEF Data
  <2>8. \A u \in T : Arg(u)' = Arg(u)  BY <2>1 DEF Arg
  <2>9. \A k : SlotOf(k)' = SlotOf(k)  BY DEF SlotOf
  <2>10. \A u \in T : pc'[u] = (IF u = t THEN "sendPublish" ELSE pc[u])  BY <1>0, <2>1
  <2>11. Window' = Window  BY <2>1 DEF Window
  <2> QED  BY <2>1, <2>3, <2>6, <2>7, <2>8, <2>9, <2>10, <2>11 DEF Data
<1>4. ASSUME NEW t \in T, SendPublish(t) PROVE Data'
  <2>1. /\ pc[t] = "sendPublish" /\ UNCHANGED <<head, tail, val, ops, pos, got>>
        /\ seq' = [seq EXCEPT ![SlotOf(pos[t])] = pos[t] + 1] /\ pc' = [pc EXCEPT ![t] = "idle"]
    BY <1>4 DEF SendPublish, Goto
  <2>2. pos[t] \in Window  BY <2>1 DEF Inv, Tickets, Holding, Filling
  <2>3. val[SlotOf(pos[t])] \in Values
    <3>1. Arg(t) \in Values  BY <2>1 DEF Inv, Seen, Arg, Values
    <3> QED  BY <2>1, <3>1 DEF Data
  <2>4. \A k \in Window : seq'[SlotOf(k)] = k + 1 => val[SlotOf(k)] \in Values
    <3> SUFFICES ASSUME NEW k \in Window, k # pos[t]
                 PROVE  seq'[SlotOf(k)] = seq[SlotOf(k)]
      BY <2>3 DEF Data
    <3>1. SlotOf(k) # SlotOf(pos[t])  BY <1>0, <2>2, SameSlot DEF Window
    <3> QED  BY <1>0, <2>1, <3>1, SlotType DEF Window
  <2>5. Window' = Window  BY <2>1 DEF Window
  <2> QED  BY <1>0, <2>1, <2>4, <2>5 DEF Data, SlotOf, Arg
<1>5. ASSUME NEW t \in T, RecvClaim(t) PROVE Data'
  <2>1. /\ pc[t] = "recvClaim" /\ UNCHANGED <<tail, seq, val, ops, pos, got>>
        /\ pc' = [pc EXCEPT ![t] = "recvRead"]
    BY <1>5 DEF RecvClaim, Goto
  <2>2. Window' = Window  BY <2>1 DEF Window
  <2> QED  BY <1>0, <2>1, <2>2 DEF Data, SlotOf, Arg
<1>6. ASSUME NEW t \in T, RecvRead(t) PROVE Data'
  <2>1. /\ pc[t] = "recvRead" /\ UNCHANGED <<head, tail, seq, val, ops, pos>>
        /\ got' = [got EXCEPT ![t] = val[SlotOf(pos[t])]] /\ pc' = [pc EXCEPT ![t] = "recvRecycle"]
    BY <1>6 DEF RecvRead, Goto
  <2>2. pos[t] \in Window /\ DrainingAt(pos[t])
    BY <2>1 DEF Inv, Tickets, Holding, Draining, DrainingAt
  <2>3. Drains(pos[t])  BY <2>2 DEF Inv, SlotStates, Fills, Full, Recycled
  <2>4. val[SlotOf(pos[t])] \in Values  BY <2>2, <2>3 DEF Drains, Data
  <2>5. Window' = Window  BY <2>1 DEF Window
  <2> QED  BY <1>0, <2>1, <2>4, <2>5 DEF Data, SlotOf, Arg
<1>7. ASSUME NEW t \in T, RecvRecycle(t) PROVE Data'
  <2>1. /\ pc[t] = "recvRecycle" /\ UNCHANGED <<head, tail, val, ops, pos>>
        /\ seq' = [seq EXCEPT ![SlotOf(pos[t])] = pos[t] + N]
        /\ got' = [got EXCEPT ![t] = NoVal] /\ pc' = [pc EXCEPT ![t] = "idle"]
    BY <1>7 DEF RecvRecycle, NextLap, Goto
  <2>2. pos[t] \in Window  BY <2>1 DEF Inv, Tickets, Holding, Draining
  <2>3. \A k \in Window : seq'[SlotOf(k)] = k + 1 => val[SlotOf(k)] \in Values
    <3>1. seq'[SlotOf(pos[t])] # pos[t] + 1  BY <1>0, <2>1, SlotType
    <3> SUFFICES ASSUME NEW k \in Window, k # pos[t]
                 PROVE  seq'[SlotOf(k)] = seq[SlotOf(k)]
      BY <3>1 DEF Data
    <3>2. SlotOf(k) # SlotOf(pos[t])  BY <1>0, <2>2, SameSlot DEF Window
    <3> QED  BY <1>0, <2>1, <3>2, SlotType DEF Window
  <2>4. Window' = Window  BY <2>1 DEF Window
  <2> QED  BY <1>0, <2>1, <2>3, <2>4 DEF Data, SlotOf, Arg
<1>8. CASE UNCHANGED vars  BY <1>8 DEF vars, Data, Window, SlotOf, Arg
<1> QED  BY <1>1, <1>2, <1>3, <1>4, <1>5, <1>6, <1>7, <1>8 DEF Next, Send, Recv

\* The abstract queue gives a ticket that is being filled the value of its producer.
LEMMA TicketFilling == Tickets => \A t \in T : Filling(t) => Ticket(pos[t]) = Arg(t)
<1> SUFFICES ASSUME Tickets, NEW t \in T, Filling(t) PROVE Ticket(pos[t]) = Arg(t)
  OBVIOUS
<1> DEFINE u == CHOOSE u \in T : Filling(u) /\ pos[u] = pos[t]
<1>1. u \in T /\ Filling(u) /\ pos[u] = pos[t]  OBVIOUS
<1>2. u = t  BY <1>1 DEF Tickets, Holding
<1> QED  BY <1>2 DEF Ticket

\* The same in the next state.
LEMMA TicketFillingNext == Tickets' => \A t \in T : Filling(t)' => Ticket(pos[t])' = Arg(t)'
<1>1. (Tickets => \A t \in T : Filling(t) => Ticket(pos[t]) = Arg(t))'
  BY TicketFilling, PTL
<1> QED  BY <1>1

\* Any other ticket has the value in its slot.
LEMMA TicketPublished == \A k : ~FillingAt(k) => Ticket(k) = val[SlotOf(k)]
  BY DEF Ticket, FillingAt

\* The abstract queue is a sequence of values that were sent.
LEMMA AbsQueue ==
  IInv => absQ \in Seq(Values) /\ Len(absQ) = tail - head /\ \A k \in head..(tail - 1) : Ticket(k) \in Values
<1> SUFFICES ASSUME IInv
             PROVE  /\ absQ \in Seq(Values) /\ Len(absQ) = tail - head
                    /\ \A k \in head..(tail - 1) : Ticket(k) \in Values
  OBVIOUS
<1>0. head \in Nat /\ tail \in Nat /\ head <= tail /\ tail <= head + N /\ N \in Nat
  BY SlotAssumption DEF IInv, Inv, TypeOK, Tickets
<1>1. ASSUME NEW k \in head..(tail - 1) PROVE Ticket(k) \in Values
  <2>1. k \in Window /\ k >= head  BY <1>0 DEF Window
  <2>2. CASE FillingAt(k)
    <3>1. PICK t \in T : Filling(t) /\ pos[t] = k  BY <2>2 DEF FillingAt
    <3>2. Ticket(k) = Arg(t)  BY <3>1, TicketFilling DEF IInv, Inv
    <3>3. ops[t] \in 1..MaxOps  BY <3>1 DEF IInv, Inv, Seen, Filling
    <3> QED  BY <3>2, <3>3 DEF Arg, Values
  <2>3. CASE ~FillingAt(k)
    <3>1. Full(k)  BY <1>0, <2>1, <2>3 DEF IInv, Inv, SlotStates, Fills, Drains, Recycled
    <3> QED  BY <2>1, <2>3, <3>1, TicketPublished DEF IInv, Data, Full
  <2> QED  BY <2>2, <2>3
<1>2. \A i \in 1..(tail - head) : Ticket(head + i - 1) \in Values
  <2> SUFFICES ASSUME NEW i \in 1..(tail - head) PROVE Ticket(head + i - 1) \in Values
    OBVIOUS
  <2>1. head + i - 1 \in head..(tail - 1)  BY <1>0
  <2> QED  BY <1>1, <2>1
<1>3. absQ \in [1..(tail - head) -> Values]  BY <1>2 DEF absQ
<1>4. tail - head \in Nat  BY <1>0
<1>5. absQ \in Seq(Values)  BY <1>3, <1>4, SeqDef
<1>6. Len(absQ) = tail - head  BY <1>3, <1>4, <1>5, LenProperties
<1> QED  BY <1>1, <1>5, <1>6

\* The ticket keeps its value while it is filled, when it is published, and after.
LEMMA TicketStays ==
  ASSUME Tickets, Tickets', NEW k,
         \/ ~FillingAt(k) /\ ~FillingAt(k)' /\ val'[SlotOf(k)] = val[SlotOf(k)]
         \/ \E t \in T : /\ Filling(t) /\ pos[t] = k
                         /\ \/ Filling(t)' /\ pos'[t] = k /\ Arg(t)' = Arg(t)
                            \/ ~FillingAt(k)' /\ val'[SlotOf(k)] = Arg(t)
  PROVE  Ticket(k)' = Ticket(k)
<1>1. \A t \in T : Filling(t)' => Ticket(pos[t])' = Arg(t)'  BY TicketFillingNext
<1>2. ~FillingAt(k)' => Ticket(k)' = val'[SlotOf(k)]
  BY DEF Ticket, FillingAt, SlotOf
<1>3. CASE ~FillingAt(k)  BY <1>2, <1>3, TicketPublished DEF FillingAt
<1>4. CASE FillingAt(k)
  <2>1. PICK t \in T : /\ Filling(t) /\ pos[t] = k
                       /\ \/ Filling(t)' /\ pos'[t] = k /\ Arg(t)' = Arg(t)
                          \/ ~FillingAt(k)' /\ val'[SlotOf(k)] = Arg(t)
    BY <1>4
  <2>2. Ticket(k) = Arg(t)  BY <2>1, TicketFilling
  <2>3. CASE Filling(t)' /\ pos'[t] = k /\ Arg(t)' = Arg(t)
    <3>1. Ticket(pos[t])' = Arg(t)'  BY <1>1, <2>3
    <3>2. Ticket(k)' = Ticket(pos[t])'  BY <2>3 DEF Ticket
    <3> QED  BY <2>2, <2>3, <3>1, <3>2
  <2>4. CASE ~FillingAt(k)' /\ val'[SlotOf(k)] = Arg(t)  BY <1>2, <2>2, <2>4
  <2> QED  BY <2>1, <2>3, <2>4
<1> QED  BY <1>3, <1>4

\* The abstract queue stays while its tickets do.
LEMMA QueueStays ==
  ASSUME head \in Nat, tail \in Nat, UNCHANGED <<head, tail>>,
         \A k \in head..(tail - 1) : Ticket(k)' = Ticket(k)
  PROVE  absQ' = absQ
<1>1. \A i \in 1..(tail - head) : Ticket(head + i - 1)' = Ticket(head + i - 1)
  <2> SUFFICES ASSUME NEW i \in 1..(tail - head)
               PROVE  Ticket(head + i - 1)' = Ticket(head + i - 1)
    OBVIOUS
  <2>1. head + i - 1 \in head..(tail - 1)  OBVIOUS
  <2> QED  BY <2>1 DEF Ticket
<1> QED  BY <1>1 DEF absQ

\* A send takes effect when it claims its ticket.
LEMMA RefineSendClaim ==
  ASSUME Cap >= 2, IInv, IInv', NEW t \in T, SendClaim(t)
  PROVE  Abs!Enqueue
<1> N \in Nat /\ N >= 2  BY SlotAssumption, RingAssumption
<1>0. /\ head \in Nat /\ tail \in Nat /\ head <= tail /\ pc \in [T -> PC] /\ Tickets /\ Tickets'
      /\ Inv /\ Data /\ Seen
  BY DEF IInv, Inv, TypeOK
<1>1. /\ pc[t] = "sendClaim" /\ pos[t] = tail /\ tail' = tail + 1
      /\ UNCHANGED <<head, seq, val, ops, pos, got>> /\ pc' = [pc EXCEPT ![t] = "sendWrite"]
  BY DEF SendClaim, Goto
<1>2. tail < head + N  BY <1>0, <1>1, FreeForTail DEF Seen
<1>3. absQ \in Seq(Values) /\ Len(absQ) = tail - head  BY AbsQueue
<1>4. Arg(t) \in Values  BY <1>0, <1>1 DEF Seen, Arg, Values
<1>5. \A k \in head..(tail - 1) : Ticket(k)' = Ticket(k)
  <2> SUFFICES ASSUME NEW k \in head..(tail - 1) PROVE Ticket(k)' = Ticket(k)  OBVIOUS
  <2>1. \A u \in T : /\ Filling(u)' <=> Filling(u) \/ u = t
                     /\ pos'[u] = pos[u] /\ Arg(u)' = Arg(u)
    BY <1>0, <1>1 DEF Filling, Arg
  <2>2. CASE FillingAt(k)  BY <1>0, <2>1, <2>2, TicketStays DEF FillingAt
  <2>3. CASE ~FillingAt(k)
    <3>1. ~FillingAt(k)'  BY <1>0, <1>1, <2>1, <2>3 DEF FillingAt
    <3> QED  BY <1>0, <1>1, <2>3, <3>1, TicketStays
  <2> QED  BY <2>2, <2>3
<1>6. \A k : k = tail => Ticket(k)' = Arg(t)
  <2>1. Filling(t)' /\ pos'[t] = tail /\ Arg(t)' = Arg(t)
    BY <1>0, <1>1 DEF Filling, Arg
  <2>2. Ticket(pos[t])' = Arg(t)  BY <1>0, <2>1, TicketFillingNext
  <2> QED  BY <2>1, <2>2 DEF Ticket
<1>7. absQ' = Append(absQ, Arg(t))
  <2> DEFINE n == tail - head
  <2>1. n \in Nat /\ absQ \in [1..n -> Values] /\ absQ = [i \in 1..n |-> Ticket(head + i - 1)]
    BY <1>0, <1>3, LenProperties DEF absQ
  <2>2. absQ' = [i \in 1..(n + 1) |-> IF i = n + 1 THEN Arg(t) ELSE absQ[i]]
    <3>1. ASSUME NEW i \in 1..(n + 1)
          PROVE  Ticket(head + i - 1)' = IF i = n + 1 THEN Arg(t) ELSE absQ[i]
      <4>1. PICK k : k = head + i - 1  OBVIOUS
      <4>2. Ticket(head + i - 1)' = Ticket(k)'  BY <1>1, <4>1 DEF Ticket
      <4>3. CASE i = n + 1
        <5>1. k = tail  BY <1>0, <4>1, <4>3
        <5> QED  BY <1>6, <4>2, <4>3, <5>1
      <4>4. CASE i # n + 1
        <5>1. i \in 1..n /\ k \in head..(tail - 1)  BY <1>0, <4>1, <4>4
        <5> QED  BY <1>5, <2>1, <4>1, <4>2, <4>4, <5>1
      <4> QED  BY <4>3, <4>4
    <3>2. (tail - head)' = n + 1  BY <1>0, <1>1
    <3> QED  BY <3>1, <3>2 DEF absQ
  <2>3. Append(absQ, Arg(t)) = [i \in 1..(n + 1) |-> IF i = n + 1 THEN Arg(t) ELSE absQ[i]]
    BY <1>3, <2>1
  <2> QED  BY <2>2, <2>3
<1>8. absOut' = absOut  BY <1>0, <1>1 DEF absOut, SlotOf
<1>9. Len(absQ) < N  BY <1>0, <1>2, <1>3
<1> QED  BY <1>4, <1>7, <1>8, <1>9 DEF Abs!Enqueue

\* A receive takes effect when it claims the oldest ticket, whose value is in the slot.
LEMMA RefineRecvClaim ==
  ASSUME Cap >= 2, IInv, IInv', NEW t \in T, RecvClaim(t)
  PROVE  Abs!Dequeue(t)
<1> N \in Nat /\ N >= 2  BY SlotAssumption, RingAssumption
<1>0. /\ head \in Nat /\ tail \in Nat /\ head <= tail /\ pc \in [T -> PC] /\ Tickets /\ Tickets'
      /\ Inv /\ Data /\ Seen
  BY DEF IInv, Inv, TypeOK
<1>1. /\ pc[t] = "recvClaim" /\ pos[t] = head /\ head' = head + 1
      /\ UNCHANGED <<tail, seq, val, ops, pos, got>> /\ pc' = [pc EXCEPT ![t] = "recvRead"]
  BY DEF RecvClaim, Goto
<1>2. head < tail /\ Full(head)  BY <1>0, <1>1, ReadyForHead DEF Seen
<1>3. absQ \in Seq(Values) /\ Len(absQ) = tail - head  BY AbsQueue
<1>4. absQ # << >>  BY <1>0, <1>2, <1>3
<1>5. absQ = [i \in 1..(tail - head) |-> Ticket(head + i - 1)]  BY DEF absQ
<1>6. Head(absQ) = val[SlotOf(head)]
  <2>1. Head(absQ) = absQ[1]  BY <1>3, <1>4
  <2>2. absQ[1] = Ticket(head + 1 - 1)  BY <1>0, <1>2, <1>5
  <2>3. head + 1 - 1 = head  BY <1>0
  <2>4. Ticket(head) = val[SlotOf(head)]  BY <1>2, TicketPublished DEF Full
  <2> QED  BY <2>1, <2>2, <2>3, <2>4
<1>7. \A k : Ticket(k)' = Ticket(k)
  <2> SUFFICES ASSUME NEW k PROVE Ticket(k)' = Ticket(k)  OBVIOUS
  <2>1. \A u \in T : /\ Filling(u)' <=> Filling(u)
                     /\ pos'[u] = pos[u] /\ Arg(u)' = Arg(u)
    BY <1>0, <1>1 DEF Filling, Arg
  <2>2. CASE FillingAt(k)  BY <1>0, <2>1, <2>2, TicketStays DEF FillingAt
  <2>3. CASE ~FillingAt(k)
    <3>1. ~FillingAt(k)'  BY <2>1, <2>3 DEF FillingAt
    <3> QED  BY <1>0, <1>1, <2>3, <3>1, TicketStays
  <2> QED  BY <2>2, <2>3
<1>8. absQ' = Tail(absQ)
  <2> DEFINE n == tail - head
  <2>1. n \in Nat /\ n >= 1  BY <1>0, <1>2
  <2>2. Tail(absQ) = [i \in 1..(n - 1) |-> absQ[i + 1]]
    <3>1. /\ Tail(absQ) \in Seq(Values) /\ Len(Tail(absQ)) = n - 1
          /\ \A i \in 1..(n - 1) : Tail(absQ)[i] = absQ[i + 1]
      BY <1>3, <1>4, HeadTailProperties
    <3>2. Tail(absQ) \in [1..(n - 1) -> Values]  BY <3>1, LenProperties
    <3> QED  BY <3>1, <3>2
  <2>3. absQ' = [i \in 1..(n - 1) |-> Ticket(head + i)]
    <3>1. (tail - head)' = n - 1  BY <1>0, <1>1
    <3>2. ASSUME NEW i \in 1..(n - 1) PROVE Ticket(head + i - 1)' = Ticket(head + i)
      <4>1. PICK k : k = head + i  OBVIOUS
      <4>2. (head + i - 1)' = k  BY <1>0, <1>1, <4>1
      <4>3. Ticket(head + i - 1)' = Ticket(k)'  BY <4>2 DEF Ticket
      <4> QED  BY <1>7, <4>1, <4>3
    <3> QED  BY <3>1, <3>2 DEF absQ
  <2>4. \A i \in 1..(n - 1) : absQ[i + 1] = Ticket(head + i)
    <3> SUFFICES ASSUME NEW i \in 1..(n - 1) PROVE absQ[i + 1] = Ticket(head + i)  OBVIOUS
    <3>1. i + 1 \in 1..n /\ head + (i + 1) - 1 = head + i  BY <1>0, <2>1
    <3> QED  BY <1>5, <3>1
  <2> QED  BY <2>2, <2>3, <2>4
<1>9. absOut[t] = NoVal /\ absOut' = [absOut EXCEPT ![t] = val[SlotOf(head)]]
  BY <1>0, <1>1 DEF absOut, Data, SlotOf
<1> QED  BY <1>4, <1>6, <1>8, <1>9 DEF Abs!Dequeue

\* The steps up to a claim, and the read of a value, change nothing in the abstract ring.
LEMMA RefineQuiet ==
  ASSUME Cap >= 2, IInv, IInv', NEW t \in T,
         \/ SendStart(t) \/ SendSeq(t) \/ SendReload(t) \/ SendLost(t)
         \/ RecvStart(t) \/ RecvSeq(t) \/ RecvReload(t) \/ RecvLost(t) \/ RecvRead(t)
  PROVE  UNCHANGED <<absQ, absOut>>
<1>0. /\ head \in Nat /\ tail \in Nat /\ pc \in [T -> PC] /\ got \in [T -> Values \cup {NoVal}]
      /\ pos \in [T -> Nat] /\ ops \in [T -> Nat] /\ Tickets /\ Tickets' /\ Data
  BY DEF IInv, Inv, TypeOK
<1>1. UNCHANGED <<head, tail, val>>
  BY DEF SendStart, SendSeq, SendReload, SendLost,
         RecvStart, RecvSeq, RecvReload, RecvLost, RecvRead
<1>2. \A u \in T : /\ Filling(u)' <=> Filling(u)
                   /\ Filling(u) => pos'[u] = pos[u] /\ Arg(u)' = Arg(u)
  BY <1>0 DEF SendStart, SendSeq, SendReload, SendLost, SendVerdict, Goto, Filling, Arg,
              RecvStart, RecvSeq, RecvReload, RecvLost, RecvVerdict, RecvRead
<1>3. \A k : Ticket(k)' = Ticket(k)
  <2> SUFFICES ASSUME NEW k PROVE Ticket(k)' = Ticket(k)  OBVIOUS
  <2>1. CASE FillingAt(k)
    <3>1. PICK u \in T : Filling(u) /\ pos[u] = k  BY <2>1 DEF FillingAt
    <3>2. Filling(u)' /\ pos'[u] = k /\ Arg(u)' = Arg(u)  BY <1>2, <3>1
    <3> QED  BY <1>0, <3>1, <3>2, TicketStays
  <2>2. CASE ~FillingAt(k)
    <3>1. ~FillingAt(k)'  BY <1>2, <2>2 DEF FillingAt
    <3> QED  BY <1>0, <1>1, <2>2, <3>1, TicketStays
  <2> QED  BY <2>1, <2>2
<1>4. absQ' = absQ  BY <1>0, <1>1, <1>3, QueueStays
<1>5. absOut' = absOut
  <2>1. CASE RecvRead(t)  BY <1>0, <1>1, <2>1 DEF RecvRead, absOut, Goto, SlotOf
  <2>2. CASE ~RecvRead(t)
    <3>1. /\ got' = got /\ pc'[t] # "recvRead" /\ pc[t] # "recvRead"
          /\ \A u \in T \ {t} : pc'[u] = pc[u] /\ pos'[u] = pos[u]
      BY <1>0, <2>2 DEF SendStart, SendSeq, SendReload, SendLost, SendVerdict, Goto,
                        RecvStart, RecvSeq, RecvReload, RecvLost, RecvVerdict
    <3> QED  BY <1>1, <3>1 DEF absOut, SlotOf
  <2> QED  BY <2>1, <2>2
<1> QED  BY <1>4, <1>5

\* Nor do the write and the publication of a value that already counts as sent.
LEMMA RefineFill ==
  ASSUME Cap >= 2, IInv, IInv', NEW t \in T, SendWrite(t) \/ SendPublish(t)
  PROVE  UNCHANGED <<absQ, absOut>>
<1> N \in Nat /\ N >= 2  BY SlotAssumption, RingAssumption
<1>0. /\ head \in Nat /\ tail \in Nat /\ pc \in [T -> PC] /\ val \in [Slots -> Values \cup {NoVal}]
      /\ pos \in [T -> Nat] /\ Tickets /\ Tickets' /\ Inv /\ Data
  BY DEF IInv, Inv, TypeOK
<1>1. /\ Filling(t) /\ UNCHANGED <<head, tail, ops, pos, got>>
      /\ \A u \in T \ {t} : pc'[u] = pc[u]
      /\ pc'[t] \in {"idle", "sendPublish"} /\ (Filling(t)' <=> SendWrite(t))
  BY <1>0 DEF SendWrite, SendPublish, Goto, Filling
<1>2. ASSUME NEW k \in Int, SlotOf(k) # SlotOf(pos[t]) \/ SendPublish(t)
      PROVE  val'[SlotOf(k)] = val[SlotOf(k)]
  BY <1>0, <1>2, SlotType DEF SendWrite, SendPublish
<1>3. ASSUME NEW k \in head..(tail - 1) PROVE Ticket(k)' = Ticket(k)
  <2>1. k \in Window /\ k \in Int  BY <1>0 DEF Window, Tickets
  <2>2. \A u \in T : u # t => (Filling(u)' <=> Filling(u)) /\ pos'[u] = pos[u] /\ Arg(u)' = Arg(u)
    BY <1>1 DEF Filling, Arg
  <2>3. CASE k = pos[t]
    <3>1. CASE SendWrite(t)
      <4>1. Filling(t)' /\ pos'[t] = k /\ Arg(t)' = Arg(t)  BY <1>1, <2>3, <3>1 DEF Arg
      <4> QED  BY <1>0, <1>1, <2>3, <4>1, TicketStays
    <3>2. CASE SendPublish(t)
      <4>1. ~Filling(t)'  BY <1>1, <3>2 DEF SendWrite, SendPublish
      <4>2. ~FillingAt(k)'
        BY <1>0, <1>1, <2>2, <2>3, <4>1 DEF FillingAt, Tickets, Holding
      <4>3. val[SlotOf(k)] = Arg(t)  BY <1>0, <2>3, <3>2 DEF SendPublish, Data
      <4>4. val'[SlotOf(k)] = Arg(t)  BY <1>2, <2>1, <3>2, <4>3
      <4> QED  BY <1>0, <1>1, <2>3, <4>2, <4>4, TicketStays
    <3> QED  BY <3>1, <3>2
  <2>4. CASE k # pos[t]
    <3>1. pos[t] \in Window  BY <1>0, <1>1 DEF Tickets, Holding
    <3>2. SlotOf(k) # SlotOf(pos[t])  BY <1>0, <2>1, <2>4, <3>1, SameSlot DEF Window
    <3>3. val'[SlotOf(k)] = val[SlotOf(k)]  BY <1>2, <2>1, <3>2
    <3>4. CASE FillingAt(k)
      <4>1. PICK u \in T : Filling(u) /\ pos[u] = k  BY <3>4 DEF FillingAt
      <4> QED  BY <1>0, <2>2, <2>4, <4>1, TicketStays
    <3>5. CASE ~FillingAt(k)
      <4>1. ~FillingAt(k)'  BY <1>1, <2>2, <2>4, <3>5 DEF FillingAt
      <4> QED  BY <1>0, <3>3, <3>5, <4>1, TicketStays
    <3> QED  BY <3>4, <3>5
  <2> QED  BY <2>3, <2>4
<1>4. absQ' = absQ  BY <1>0, <1>1, <1>3, QueueStays
<1>5. ASSUME NEW u \in T, pc[u] = "recvRead" PROVE val'[SlotOf(pos[u])] = val[SlotOf(pos[u])]
  <2>1. Draining(u) /\ u # t  BY <1>1, <1>5 DEF Draining, Filling
  <2>2. SlotOf(pos[u]) # SlotOf(pos[t])  BY <1>0, <1>1, <2>1, InvExclusive DEF SlotExclusive
  <2> QED  BY <1>0, <1>2, <2>2
<1>6. absOut' = absOut
  <2>1. pc[t] # "recvRead" /\ pc'[t] # "recvRead"  BY <1>1 DEF Filling
  <2>2. \A u \in T : pc'[u] = "recvRead" <=> pc[u] = "recvRead"  BY <1>1, <2>1
  <2> QED  BY <1>1, <1>5, <2>2 DEF absOut, SlotOf
<1> QED  BY <1>4, <1>6

\* try_recv returns with its value when it has recycled the slot.
LEMMA RefineRecycle ==
  ASSUME Cap >= 2, IInv, IInv', NEW t \in T, RecvRecycle(t)
  PROVE  Abs!Return(t)
<1>0. /\ head \in Nat /\ tail \in Nat /\ pc \in [T -> PC] /\ got \in [T -> Values \cup {NoVal}]
      /\ Tickets /\ Tickets' /\ Data
  BY DEF IInv, Inv, TypeOK
<1>1. /\ pc[t] = "recvRecycle" /\ UNCHANGED <<head, tail, val, ops, pos>>
      /\ got' = [got EXCEPT ![t] = NoVal] /\ pc' = [pc EXCEPT ![t] = "idle"]
  BY DEF RecvRecycle, Goto
<1>2. \A k : Ticket(k)' = Ticket(k)
  <2> SUFFICES ASSUME NEW k PROVE Ticket(k)' = Ticket(k)  OBVIOUS
  <2>1. \A u \in T : /\ Filling(u)' <=> Filling(u)
                     /\ pos'[u] = pos[u] /\ Arg(u)' = Arg(u)
    BY <1>0, <1>1 DEF Filling, Arg
  <2>2. CASE FillingAt(k)  BY <1>0, <2>1, <2>2, TicketStays DEF FillingAt
  <2>3. CASE ~FillingAt(k)
    <3>1. ~FillingAt(k)'  BY <2>1, <2>3 DEF FillingAt
    <3> QED  BY <1>0, <1>1, <2>3, <3>1, TicketStays
  <2> QED  BY <2>2, <2>3
<1>3. absQ' = absQ  BY <1>0, <1>1, <1>2, QueueStays
<1>4. absOut[t] # NoVal
  <2>1. got[t] \in Values  BY <1>0, <1>1 DEF Data
  <2> QED  BY <1>1, <2>1, SlotAssumption DEF absOut
<1>5. absOut' = [absOut EXCEPT ![t] = NoVal]  BY <1>0, <1>1 DEF absOut, SlotOf
<1> QED  BY <1>3, <1>4, <1>5 DEF Abs!Return

\* The ring implements the bounded FIFO with atomic operations, for every number of
\* threads and calls and every capacity above 1: nothing is lost, duplicated, reordered
\* or read before it is written, although slots are filled and drained out of order.
THEOREM Refinement == ASSUME Cap >= 2 PROVE Spec => ImplementsRingSpec
<1>1. Init => IInv  BY InitInv
<1>2. IInv /\ [Next]_vars => IInv'
  <2> SUFFICES ASSUME IInv, [Next]_vars PROVE IInv'  OBVIOUS
  <2>1. Inv'  BY StepInv DEF IInv
  <2> QED  BY <2>1, StepData DEF IInv
<1>3. Init => Abs!Init
  <2> SUFFICES ASSUME Init PROVE absQ = << >> /\ absOut = [t \in T |-> NoVal]
    BY DEF Abs!Init
  <2>1. absOut = [t \in T |-> NoVal]  BY DEF Init, absOut
  <2>2. IInv /\ tail = 0 /\ head = 0  BY InitInv DEF Init
  <2>3. absQ \in Seq(Values) /\ Len(absQ) = 0  BY <2>2, AbsQueue
  <2> QED  BY <2>1, <2>3, EmptySeq
<1>4. IInv /\ IInv' /\ [Next]_vars => [Abs!Next]_<<absQ, absOut>>
  <2> SUFFICES ASSUME IInv, IInv', [Next]_vars PROVE [Abs!Next]_<<absQ, absOut>>  OBVIOUS
  <2>1. ASSUME NEW t \in T, SendStart(t) \/ RecvStart(t) \/ Send(t) \/ Recv(t)
        PROVE  [Abs!Next]_<<absQ, absOut>>
    BY <2>1, RefineQuiet, RefineFill, RefineSendClaim, RefineRecvClaim, RefineRecycle
       DEF Send, Recv, Abs!Next
  <2>2. CASE UNCHANGED vars
    <3>1. absOut' = absOut  BY <2>2 DEF vars, absOut, SlotOf
    <3>2. absQ' = absQ  BY <2>2 DEF vars, absQ, Ticket, Filling, Arg, SlotOf
    <3> QED  BY <3>1, <3>2
  <2> QED  BY <2>1, <2>2 DEF Next
<1> QED  BY <1>1, <1>2, <1>3, <1>4, PTL DEF Spec, ImplementsRingSpec, Abs!Spec
=============================================================================
