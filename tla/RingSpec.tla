------------------------------ MODULE RingSpec ------------------------------
(***************************************************************************)
(* What runtime/lockfree_ring.rs promises its users: a bounded FIFO with   *)
(* atomic enqueue and dequeue.  A try may also fail and change nothing.    *)
(***************************************************************************)
EXTENDS Naturals, Sequences

CONSTANTS T,       \* threads
          Bound,   \* capacity
          Values,
          NoVal

VARIABLES q,       \* the queued values
          out      \* out[t]: the value t dequeued and has not returned with

Init == q = << >> /\ out = [t \in T |-> NoVal]

Enqueue == /\ Len(q) < Bound
           /\ \E v \in Values : q' = Append(q, v)
           /\ UNCHANGED out

Dequeue(t) == /\ q # << >> /\ out[t] = NoVal
              /\ out' = [out EXCEPT ![t] = Head(q)]
              /\ q' = Tail(q)

Return(t) == /\ out[t] # NoVal
             /\ out' = [out EXCEPT ![t] = NoVal]
             /\ UNCHANGED q

Next == Enqueue \/ \E t \in T : Dequeue(t) \/ Return(t)
Spec == Init /\ [][Next]_<<q, out>>
=============================================================================
