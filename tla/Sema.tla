-------------------------------- MODULE Sema --------------------------------
(***************************************************************************)
(* The semaphore of sync/sema.rs, as a value: a credit and a FIFO of       *)
(* parked goroutines.  Every operation runs under the semaphore's spin     *)
(* lock, and acquire keeps that lock until chan_park_commit releases it    *)
(* with the goroutine already Waiting, so each is one step of its user.    *)
(***************************************************************************)
EXTENDS Integers, Sequences

NewSema == [credit |-> 0, q |-> << >>]

\* acquire: consume a credit, or join the back of the queue and park.
HasCredit(s)  == s.credit > 0
Consumed(s)   == [s EXCEPT !.credit = @ - 1]
Joined_Front(s, g) == [s EXCEPT !.q = <<g>> \o @]
Joined(s, g)  == [s EXCEPT !.q = Append(@, g)]

\* release: wake the head of the queue, or leave a credit behind.
Wakes(s)    == s.q # << >>
Wakee(s)    == Head(s.q)
Released(s) == IF Wakes(s) THEN [s EXCEPT !.q = Tail(@)]
                           ELSE [s EXCEPT !.credit = @ + 1]

\* release_n pops one waiter per critical section; when it finds none, all that
\* is left becomes credit.
Credited(s, left) == [s EXCEPT !.credit = @ + left]
=============================================================================
