---------------------------- MODULE LockFreeRing ----------------------------
(***************************************************************************)
(* The bounded multi-producer multi-consumer ring that buffers a channel   *)
(* (runtime/lockfree_ring.rs).  A producer claims ticket `tail`, a         *)
(* consumer ticket `head`, by compare-and-swap; the sequence number of the *)
(* ticket's slot says whose turn the slot is.  A step below is one atomic  *)
(* access, or one access of the slot's (non-atomic) value.                 *)
(*                                                                         *)
(* Tickets are unbounded here: the code's 64-bit counters wrap only after  *)
(* 2^64 operations, and the slot count divides 2^64.                       *)
(***************************************************************************)
EXTENDS Integers, Sequences

CONSTANTS T,        \* threads
          Cap,      \* the capacity asked of LockFreeRing::new
          MaxOps,   \* bound: try_send and try_recv calls of a thread
          NoVal     \* an uninitialised slot

ASSUME RingAssumption == Cap \in Nat /\ MaxOps \in Nat

\* LockFreeRing::new rounds the capacity up to a power of two, at least 1.
Powers == {2^k : k \in 0..Cap}
N == CHOOSE n \in Powers : n >= Cap /\ \A m \in Powers : m >= Cap => n <= m

Slots  == 0..(N - 1)
Values == T \X (1..MaxOps)          \* the k-th operation of t sends <<t, k>>

\* Rounding up gives at least what was asked for; no operation sends garbage.
ASSUME SlotAssumption == N \in Nat \ {0} /\ N >= Cap /\ NoVal \notin Values

VARIABLES head, tail,
          seq, val,                 \* per slot
          pc, ops,
          pos,                      \* pos[t]: the local `tail` / `head`
          got                       \* got[t]: what try_recv read from the slot

vars == <<head, tail, seq, val, pc, ops, pos, got>>

Init ==
    /\ head = 0 /\ tail = 0
    /\ seq = [i \in Slots |-> i]
    /\ val = [i \in Slots |-> NoVal]
    /\ pc  = [t \in T |-> "idle"]
    /\ ops = [t \in T |-> 0]
    /\ pos = [t \in T |-> 0]
    /\ got = [t \in T |-> NoVal]

SlotOf(k) == k % N                  \* k & cap_mask
Arg(t)    == <<t, ops[t]>>
Goto(t, l) == pc' = [pc EXCEPT ![t] = l]

-----------------------------------------------------------------------------
(* try_send                                                                *)

SendStart(t) ==
    /\ pc[t] = "idle" /\ ops[t] < MaxOps
    /\ ops' = [ops EXCEPT ![t] = @ + 1]
    /\ pos' = [pos EXCEPT ![t] = tail]
    /\ Goto(t, "sendSeq")
    /\ UNCHANGED <<head, tail, seq, val, got>>

\* Load the slot's sequence number.  It equals the ticket: try to claim it.  It is
\* behind: the ring is full, return Err.  It is ahead: another producer was here.
SendVerdict_NoReload(diff)  == IF diff = 0 THEN "sendClaim" ELSE IF diff < 0 THEN "idle" ELSE "sendSeq"
SendVerdict(diff) == IF diff = 0 THEN "sendClaim" ELSE IF diff < 0 THEN "idle" ELSE "sendReload"

SendSeq(t) ==
    /\ pc[t] = "sendSeq"
    /\ Goto(t, SendVerdict(seq[SlotOf(pos[t])] - pos[t]))
    /\ UNCHANGED <<head, tail, seq, val, ops, pos, got>>

SendReload(t) ==
    /\ pc[t] = "sendReload"
    /\ pos' = [pos EXCEPT ![t] = tail]
    /\ Goto(t, "sendSeq")
    /\ UNCHANGED <<head, tail, seq, val, ops, got>>

\* compare_exchange_weak on tail.
SendClaim_NoCompare(t) ==
    /\ pc[t] = "sendClaim"
    /\ tail' = tail + 1
    /\ Goto(t, "sendWrite")
    /\ UNCHANGED <<head, seq, val, ops, pos, got>>
SendClaim(t) ==
    /\ pc[t] = "sendClaim" /\ tail = pos[t]
    /\ tail' = tail + 1
    /\ Goto(t, "sendWrite")
    /\ UNCHANGED <<head, seq, val, ops, pos, got>>

\* The exchange failed, because tail moved or spuriously; go on with what it saw.
SendLost(t) ==
    /\ pc[t] = "sendClaim"
    /\ pos' = [pos EXCEPT ![t] = tail]
    /\ Goto(t, "sendSeq")
    /\ UNCHANGED <<head, tail, seq, val, ops, got>>

SendWrite(t) ==
    /\ pc[t] = "sendWrite"
    /\ val' = [val EXCEPT ![SlotOf(pos[t])] = Arg(t)]
    /\ Goto(t, "sendPublish")
    /\ UNCHANGED <<head, tail, seq, ops, pos, got>>

SendPublish(t) ==
    /\ pc[t] = "sendPublish"
    /\ seq' = [seq EXCEPT ![SlotOf(pos[t])] = pos[t] + 1]
    /\ Goto(t, "idle")
    /\ UNCHANGED <<head, tail, val, ops, pos, got>>

-----------------------------------------------------------------------------
(* try_recv; Drop is try_recv until it returns None.                       *)

RecvStart(t) ==
    /\ pc[t] = "idle" /\ ops[t] < MaxOps
    /\ ops' = [ops EXCEPT ![t] = @ + 1]
    /\ pos' = [pos EXCEPT ![t] = head]
    /\ Goto(t, "recvSeq")
    /\ UNCHANGED <<head, tail, seq, val, got>>

\* The sequence number of an unpublished slot is behind head + 1: return None.
RecvVerdict(diff) == IF diff = 0 THEN "recvClaim" ELSE IF diff < 0 THEN "idle" ELSE "recvReload"

RecvSeq(t) ==
    /\ pc[t] = "recvSeq"
    /\ Goto(t, RecvVerdict(seq[SlotOf(pos[t])] - (pos[t] + 1)))
    /\ UNCHANGED <<head, tail, seq, val, ops, pos, got>>

RecvReload(t) ==
    /\ pc[t] = "recvReload"
    /\ pos' = [pos EXCEPT ![t] = head]
    /\ Goto(t, "recvSeq")
    /\ UNCHANGED <<head, tail, seq, val, ops, got>>

RecvClaim_NoCompare(t) ==
    /\ pc[t] = "recvClaim"
    /\ head' = head + 1
    /\ Goto(t, "recvRead")
    /\ UNCHANGED <<tail, seq, val, ops, pos, got>>
RecvClaim(t) ==
    /\ pc[t] = "recvClaim" /\ head = pos[t]
    /\ head' = head + 1
    /\ Goto(t, "recvRead")
    /\ UNCHANGED <<tail, seq, val, ops, pos, got>>

RecvLost(t) ==
    /\ pc[t] = "recvClaim"
    /\ pos' = [pos EXCEPT ![t] = head]
    /\ Goto(t, "recvSeq")
    /\ UNCHANGED <<head, tail, seq, val, ops, got>>

RecvRead(t) ==
    /\ pc[t] = "recvRead"
    /\ got' = [got EXCEPT ![t] = val[SlotOf(pos[t])]]
    /\ Goto(t, "recvRecycle")
    /\ UNCHANGED <<head, tail, seq, val, ops, pos>>

\* The slot is ready for the producer of the next lap.
NextLap_SameLap(k) == k
NextLap(k) == k + N

RecvRecycle(t) ==
    /\ pc[t] = "recvRecycle"
    /\ seq' = [seq EXCEPT ![SlotOf(pos[t])] = NextLap(pos[t])]
    /\ got' = [got EXCEPT ![t] = NoVal]
    /\ Goto(t, "idle")
    /\ UNCHANGED <<head, tail, val, ops, pos>>

-----------------------------------------------------------------------------
Send(t) == SendSeq(t) \/ SendReload(t) \/ SendClaim(t) \/ SendLost(t) \/ SendWrite(t) \/ SendPublish(t)
Recv(t) == RecvSeq(t) \/ RecvReload(t) \/ RecvClaim(t) \/ RecvLost(t) \/ RecvRead(t) \/ RecvRecycle(t)

Next == \E t \in T : SendStart(t) \/ RecvStart(t) \/ Send(t) \/ Recv(t)

\* A thread inside a call keeps running, and the weak exchange does not fail
\* for ever while its operands match.
Fairness == \A t \in T : WF_vars(Send(t) \/ Recv(t)) /\ SF_vars(SendClaim(t) \/ RecvClaim(t))

Spec == Init /\ [][Next]_vars /\ Fairness

-----------------------------------------------------------------------------
(* Properties.                                                             *)

PC == {"idle", "sendSeq", "sendReload", "sendClaim", "sendWrite", "sendPublish",
       "recvSeq", "recvReload", "recvClaim", "recvRead", "recvRecycle"}

\* Every variable has its type, and consumers never overtake producers.
TypeOK ==
    /\ head \in Nat /\ tail \in Nat /\ head <= tail
    /\ seq \in [Slots -> Nat]
    /\ val \in [Slots -> Values \cup {NoVal}]
    /\ pc \in [T -> PC]
    /\ ops \in [T -> Nat]
    /\ pos \in [T -> Nat]
    /\ got \in [T -> Values \cup {NoVal}]

\* Between the claim of a ticket and the publication of its slot a thread is the
\* only one touching the slot's value: what makes the unsafe writes and reads of
\* `slot.val` free of data races.
Filling(t)  == pc[t] \in {"sendWrite", "sendPublish"}
Draining(t) == pc[t] \in {"recvRead", "recvRecycle"}
SlotExclusive == \A t, u \in T :
    /\ Filling(t) \/ Draining(t)
    /\ Filling(u) \/ Draining(u)
    /\ SlotOf(pos[t]) = SlotOf(pos[u])
    => t = u

\* The ring implements a bounded FIFO: a send takes effect when it claims its
\* ticket, a receive when it claims the oldest one, and the value the receiver
\* reads from the slot later is still the one that was sent with that ticket.
Ticket(k) == IF \E t \in T : Filling(t) /\ pos[t] = k
             THEN Arg(CHOOSE t \in T : Filling(t) /\ pos[t] = k)
             ELSE val[SlotOf(k)]
absQ   == [i \in 1..(tail - head) |-> Ticket(head + i - 1)]
absOut == [t \in T |-> IF pc[t] = "recvRead" THEN val[SlotOf(pos[t])] ELSE got[t]]

Abs == INSTANCE RingSpec WITH q <- absQ, out <- absOut, Bound <- N
ImplementsRingSpec == Abs!Spec

\* A failed try is honest: try_send gives up only while the ring is full or a
\* receive is in flight, try_recv only while it is empty or a send is in flight.
HonestFailure == [][\A t \in T :
    /\ SendSeq(t) /\ pc'[t] = "idle" => \/ tail - head >= N
                                        \/ \E u \in T : Draining(u)
    /\ RecvSeq(t) /\ pc'[t] = "idle" => \/ tail = head
                                        \/ \E u \in T : Filling(u)]_vars

\* Every call returns: a retry is always caused by another thread's success.
CallReturns == \A t \in T : pc[t] # "idle" ~> pc[t] = "idle"
=============================================================================
