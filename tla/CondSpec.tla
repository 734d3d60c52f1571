------------------------------ MODULE CondSpec ------------------------------
(***************************************************************************)
(* What sync.Cond promises: waiters are notified in the order in which     *)
(* they called Wait, and a call of Wait returns only once notified.        *)
(***************************************************************************)
EXTENDS Naturals, Sequences

CONSTANT G
VARIABLES waiting,    \* those in Wait that nothing has notified, oldest first
          notified    \* those in Wait that have been notified

Init == waiting = << >> /\ notified = {}

Elems(s) == {s[i] : i \in DOMAIN s}

Enroll(g) == /\ g \notin notified /\ g \notin Elems(waiting)
             /\ waiting' = Append(waiting, g)
             /\ UNCHANGED notified

Signal == /\ waiting # << >>
          /\ notified' = notified \cup {Head(waiting)}
          /\ waiting' = Tail(waiting)

Broadcast == /\ notified' = notified \cup Elems(waiting)
             /\ waiting' = << >>

Return(g) == /\ g \in notified
             /\ notified' = notified \ {g}
             /\ UNCHANGED waiting

Next == Signal \/ Broadcast \/ \E g \in G : Enroll(g) \/ Return(g)
Spec == Init /\ [][Next]_<<waiting, notified>>
=============================================================================
