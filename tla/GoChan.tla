------------------------------- MODULE GoChan -------------------------------
(***************************************************************************)
(* Channels and select of goish: chan<T>.Send / Recv / Close (gochan.rs),  *)
(* the three passes of select! (select_macro.rs) and the park/ready        *)
(* protocol they rest on (gopark, park_m, chan_park_commit, selparkcommit  *)
(* and goready of runtime/sched/scheduler.rs).                             *)
(*                                                                         *)
(* A goroutine runs one operation at a time.  An operation is a list of    *)
(* cases; a plain Send or Recv has one case and no SelectCoord.  Each      *)
(* channel is guarded by its own spin lock; an operation takes the locks   *)
(* of all its channels in address order, polls its cases, and either       *)
(* leaves at once or queues one sudog per case and parks.  The locks of a  *)
(* parked goroutine are released by the M it ran on, one at a time, while  *)
(* another M may already be running the goroutine again.                   *)
(***************************************************************************)
EXTENDS Integers, Sequences, SequencesExt

CONSTANTS
    G,        \* goroutines
    NChan,    \* channels are 1..NChan; the number is the lock's address
    Cap,      \* Cap[c]: buffer capacity, 0 for an unbuffered channel
    Menu,     \* Menu[g]: the operations goroutine g may start
    MaxOps,   \* bound: how many operations each goroutine starts
    None      \* no goroutine / no value; also the zero value of T

Chans == 1..NChan
Nil   == 0      \* Go's nil channel: has no lock, is never ready

Case == [dir : {"send", "recv", "close"}, c : Chans \cup {Nil}]
Op   == [kind : {"plain", "select", "close"}, cases : Seq(Case), dflt : BOOLEAN]
NoOp == [kind |-> "plain", cases |-> << >>, dflt |-> FALSE]

ASSUME ConstAssumption ==
    /\ NChan \in Nat
    /\ MaxOps \in [G -> Nat]
    /\ Cap \in [Chans -> Nat]
    /\ None \notin G /\ None \notin G \X Nat
    /\ \A g \in G : Menu[g] \subseteq Op
    /\ \A g \in G : \A o \in Menu[g] :
          /\ o.kind = "close" => /\ Len(o.cases) = 1
                                 /\ o.cases[1].dir = "close"
          /\ o.kind # "close" => \A i \in DOMAIN o.cases : o.cases[i].dir # "close"
          /\ o.kind = "plain" => Len(o.cases) = 1

Val    == (G \X Nat) \cup {None}      \* the n-th value goroutine g offers is <<g, n>>
Sudog  == G \X Nat                    \* case i of the operation g is in
Result == [i : Nat, v : Val, ok : BOOLEAN]

VARIABLES
    closed, buf, sendq, recvq,   \* HchanState, per channel
    lock,                        \* lock[c]: the goroutine on whose behalf c is locked
    pc, op, ops,                 \* where g is, in which operation, how many it started
    todo,                        \* locks g has yet to take, or yet to release
    next,                        \* case index of pass-2 registration and of pass-3
    sd,                          \* sd[g][i]: value and success of g's i-th sudog
    done,                        \* SelectCoord.done
    winners,                     \* pass-3: the cases whose sudog was gone from its queue
    commit,                      \* locks the M that parked g has yet to release
    res,                         \* outcome of g's last operation: case, value, ok
    fatal                        \* "none", or why the process died

chanVars == <<closed, buf, sendq, recvq>>
gVars    == <<op, ops, todo, next, winners, commit, res>>
vars     == <<closed, buf, sendq, recvq, lock, pc, op, ops, todo, next, sd,
              done, winners, commit, res, fatal>>

Init ==
    /\ closed = [c \in Chans |-> FALSE]
    /\ buf    = [c \in Chans |-> << >>]
    /\ sendq  = [c \in Chans |-> << >>]
    /\ recvq  = [c \in Chans |-> << >>]
    /\ lock   = [c \in Chans |-> None]
    /\ pc     = [g \in G |-> "idle"]
    /\ op     = [g \in G |-> NoOp]
    /\ ops    = [g \in G |-> 0]
    /\ todo   = [g \in G |-> {}]
    /\ next   = [g \in G |-> 1]
    /\ sd     = [g \in G |-> << >>]
    /\ done   = [g \in G |-> FALSE]
    /\ winners = [g \in G |-> {}]
    /\ commit = [g \in G |-> {}]
    /\ res    = [g \in G |-> [i |-> 0, v |-> None, ok |-> FALSE]]
    /\ fatal  = "none"

-----------------------------------------------------------------------------
(* The wait queues.                                                        *)

\* Case i of g's operation and the locks the operation needs (nil: none).
case(g, i) == op[g].cases[i]
locks(o)   == {o.cases[i].c : i \in DOMAIN o.cases} \ {Nil}

\* The order in which an operation walks its channels' locks: by address.
Lowest(S, c) == \A d \in S : c <= d

\* try_claim_sudog would succeed: a plain sudog always, a select's sudog while
\* no other case of its select has fired.
Live_IgnoresDone(s) == TRUE
Live(s) == op[s[1]].kind # "select" \/ ~done[s[1]]

\* The first sudog of q, in FIFO order, that a waker can claim; stale entries
\* are passed over and stay queued.
FirstLive(q, k) ==
    /\ k \in DOMAIN q
    /\ Live(q[k])
    /\ \A j \in 1..(k - 1) : ~Live(q[j])

Claimable(q) == \E k \in DOMAIN q : Live(q[k])

\* goready on the goroutine of the claimed sudog s, after its value and success
\* are written.  goready asserts that its target is parked.
Wake(s, v, ok) ==
    /\ sd'   = [sd EXCEPT ![s[1]][s[2]] = [v |-> v, ok |-> ok]]
    /\ done' = [done EXCEPT ![s[1]] = (op[s[1]].kind = "select")]

Readied(s) == IF pc[s[1]] = "parked" THEN "none" ELSE "goready: target G is not parked"

-----------------------------------------------------------------------------
(* Taking the locks.                                                       *)

\* g enters an operation of its menu; the distinct channels are collected.
Start(g) ==
    /\ fatal = "none" /\ pc[g] = "idle" /\ ops[g] < MaxOps[g]
    /\ \E o \in Menu[g] :
          /\ op'   = [op EXCEPT ![g] = o]
          /\ sd'   = [sd EXCEPT ![g] = [i \in DOMAIN o.cases |->
                                          [v |-> IF o.cases[i].dir = "send"
                                                 THEN <<g, ops[g] + 1>> ELSE None,
                                           ok |-> FALSE]]]
          /\ todo' = [todo EXCEPT ![g] = locks(o)]
    /\ ops' = [ops EXCEPT ![g] = @ + 1]
    /\ pc'  = [pc EXCEPT ![g] = "lock"]
    /\ UNCHANGED <<chanVars, lock, next, done, winners, commit, res, fatal>>

\* raw_lock on the lowest-addressed lock still missing.
Acquire(g) ==
    /\ fatal = "none" /\ pc[g] = "lock"
    /\ \E c \in todo[g] :
          /\ Lowest(todo[g], c)
          /\ lock[c] = None
          /\ lock' = [lock EXCEPT ![c] = g]
          /\ todo' = [todo EXCEPT ![g] = @ \ {c}]
    /\ UNCHANGED <<chanVars, pc, op, ops, next, sd, done, winners, commit, res, fatal>>

\* raw_unlock, lowest address first, then return to the caller.
Release(g) ==
    /\ fatal = "none" /\ pc[g] = "unlock"
    /\ \/ \E c \in todo[g] :
             /\ Lowest(todo[g], c)
             /\ lock' = [lock EXCEPT ![c] = None]
             /\ todo' = [todo EXCEPT ![g] = @ \ {c}]
             /\ UNCHANGED <<pc, op, sd>>
       \/ /\ todo[g] = {}
          /\ pc' = [pc EXCEPT ![g] = "idle"]
          /\ op' = [op EXCEPT ![g] = NoOp]
          /\ sd' = [sd EXCEPT ![g] = << >>]
          /\ UNCHANGED <<lock, todo>>
    /\ UNCHANGED <<chanVars, ops, next, done, winners, commit, res, fatal>>

-----------------------------------------------------------------------------
(* Pass 1: poll the cases with every lock held.                            *)

Holding(g) == fatal = "none" /\ pc[g] = "lock" /\ todo[g] = {}

RecvReady(c) == \/ closed[c] /\ buf[c] = << >>
                \/ Claimable(sendq[c])
                \/ buf[c] # << >>
HasRoom(c)   == Len(buf[c]) < Cap[c]
SendReady(c) == closed[c] \/ Claimable(recvq[c]) \/ HasRoom(c)

Ready(g, i) == LET cs == case(g, i) IN
    /\ cs.c # Nil
    /\ IF cs.dir = "recv" THEN RecvReady(cs.c) ELSE SendReady(cs.c)

\* Case i succeeded with (v, ok): record it and go release the locks.
Fired(g, i, v, ok) ==
    /\ res'  = [res EXCEPT ![g] = [i |-> i, v |-> v, ok |-> ok]]
    /\ todo' = [todo EXCEPT ![g] = locks(op[g])]
    /\ UNCHANGED <<closed, lock, op, ops, next, winners, commit>>

\* __try_recv_locked on a closed and drained channel: (zero, false).
RecvClosed(g, i) == LET c == case(g, i).c IN
    /\ closed[c] /\ buf[c] = << >>
    /\ Fired(g, i, None, FALSE)
    /\ pc' = [pc EXCEPT ![g] = "unlock"]
    /\ UNCHANGED <<buf, sendq, recvq, sd, done, fatal>>

\* What a receiver gets, and what the buffer holds, when it meets a parked sender
\* of v: an unbuffered channel hands v over, a buffered one yields its head and
\* takes v at the tail.
Received_SkipsBuffer(c, v) == v
Received(c, v) == IF Cap[c] = 0 THEN v
                  ELSE IF buf[c] = << >> THEN None ELSE Head(buf[c])
Rotated(c, v)  == IF Cap[c] = 0 \/ buf[c] = << >> THEN buf[c]
                  ELSE Append(Tail(buf[c]), v)

\* __try_recv_locked with a parked sender.
RecvFromSender(g, i) == LET c == case(g, i).c IN
    /\ ~(closed[c] /\ buf[c] = << >>)
    /\ \E k \in DOMAIN sendq[c] :
          LET s == sendq[c][k]
              v == sd[s[1]][s[2]].v
          IN  /\ FirstLive(sendq[c], k)
              /\ sendq' = [sendq EXCEPT ![c] = RemoveAt(@, k)]
              /\ Wake(s, None, TRUE)
              /\ pc' = [pc EXCEPT ![g] = "unlock", ![s[1]] = "woken"]
              /\ Fired(g, i, Received(c, v), TRUE)
              /\ buf' = [buf EXCEPT ![c] = Rotated(c, v)]
              /\ fatal' = IF v = None THEN "recv: sender sudog empty"
                          ELSE IF Cap[c] > 0 /\ buf[c] = << >>
                          THEN "recv: buf empty with parked sender"
                          ELSE Readied(s)
    /\ UNCHANGED recvq

\* __try_recv_locked with no parked sender: pop the buffer.
RecvFromBuf(g, i) == LET c == case(g, i).c IN
    /\ ~Claimable(sendq[c]) /\ buf[c] # << >>
    /\ Fired(g, i, Head(buf[c]), TRUE)
    /\ buf' = [buf EXCEPT ![c] = Tail(@)]
    /\ pc' = [pc EXCEPT ![g] = "unlock"]
    /\ UNCHANGED <<sendq, recvq, sd, done, fatal>>

\* __try_send_locked on a closed channel ends the process.
SendClosed(g, i) ==
    /\ closed[case(g, i).c]
    /\ fatal' = "send on closed channel"
    /\ UNCHANGED <<chanVars, lock, pc, sd, done, gVars>>

\* __try_send_locked with a parked receiver: hand the value over.
SendToReceiver(g, i) == LET c == case(g, i).c IN
    /\ ~closed[c]
    /\ \E k \in DOMAIN recvq[c] :
          LET r == recvq[c][k]
          IN  /\ FirstLive(recvq[c], k)
              /\ recvq' = [recvq EXCEPT ![c] = RemoveAt(@, k)]
              /\ Wake(r, sd[g][i].v, TRUE)
              /\ pc' = [pc EXCEPT ![g] = "unlock", ![r[1]] = "woken"]
              /\ fatal' = Readied(r)
    /\ Fired(g, i, None, TRUE)
    /\ UNCHANGED <<buf, sendq>>

\* __try_send_locked with room in the buffer.
SendToBuf(g, i) == LET c == case(g, i).c IN
    /\ ~closed[c] /\ ~Claimable(recvq[c]) /\ HasRoom(c)
    /\ Fired(g, i, None, TRUE)
    /\ buf' = [buf EXCEPT ![c] = Append(@, sd[g][i].v)]
    /\ pc' = [pc EXCEPT ![g] = "unlock"]
    /\ UNCHANGED <<sendq, recvq, sd, done, fatal>>

\* The poll order is random, and a case that is not ready leaves no trace: any
\* ready case may be the one that fires.
Poll(g) ==
    /\ Holding(g)
    /\ \E i \in DOMAIN op[g].cases :
          /\ case(g, i).c # Nil
          /\ \/ case(g, i).dir = "recv" /\ (\/ RecvClosed(g, i)
                                            \/ RecvFromSender(g, i)
                                            \/ RecvFromBuf(g, i))
             \/ case(g, i).dir = "send" /\ (\/ SendClosed(g, i)
                                            \/ SendToReceiver(g, i)
                                            \/ SendToBuf(g, i))

NoneReady_Unchecked(g) == TRUE
NoneReady(g) == \A i \in DOMAIN op[g].cases : ~Ready(g, i)

-----------------------------------------------------------------------------
(* Pass 2: the default case, or register a sudog per case and park.        *)

Default(g) ==
    /\ Holding(g) /\ op[g].kind # "close" /\ NoneReady(g) /\ op[g].dflt
    /\ Fired(g, 0, None, FALSE)
    /\ pc' = [pc EXCEPT ![g] = "unlock"]
    /\ UNCHANGED <<buf, sendq, recvq, sd, done, fatal>>

Block(g) ==
    /\ Holding(g) /\ op[g].kind # "close" /\ NoneReady(g) /\ ~op[g].dflt
    /\ pc' = [pc EXCEPT ![g] = "register"]
    /\ UNCHANGED <<chanVars, lock, op, ops, todo, next, sd, done, winners, commit, res, fatal>>

\* __register_*_locked pushes the sudog of case next[g] (nil cases have none).
\* After the last one gopark runs: park_m marks the goroutine Waiting and leaves
\* the locks to the commit function.
Register(g) ==
    /\ fatal = "none" /\ pc[g] = "register"
    /\ IF next[g] > Len(op[g].cases)
       THEN /\ pc'     = [pc EXCEPT ![g] = "parked"]
            /\ next'   = [next EXCEPT ![g] = 1]
            /\ commit' = [commit EXCEPT ![g] = locks(op[g])]
            /\ UNCHANGED <<sendq, recvq, fatal>>
       ELSE LET cs == case(g, next[g]) IN
            /\ next' = [next EXCEPT ![g] = @ + 1]
            /\ sendq' = IF cs.c # Nil /\ cs.dir = "send"
                        THEN [sendq EXCEPT ![cs.c] = Append(@, <<g, next[g]>>)] ELSE sendq
            /\ recvq' = IF cs.c # Nil /\ cs.dir = "recv"
                        THEN [recvq EXCEPT ![cs.c] = Append(@, <<g, next[g]>>)] ELSE recvq
            /\ fatal' = IF cs.c # Nil /\ closed[cs.c]
                           /\ (cs.dir = "send" \/ buf[cs.c] = << >>)
                        THEN "select pass-2 saw a closed channel" ELSE "none"
            /\ UNCHANGED <<pc, commit>>
    /\ UNCHANGED <<closed, buf, lock, op, ops, todo, sd, done, winners, res>>

\* The locks left for the commit function once c is released.
CommitRest_Cleared(g, c) == {}
CommitRest(g, c) == commit[g] \ {c}

\* chan_park_commit / selparkcommit, on the M that parked g: release the locks
\* of g's frame one at a time, in lock order.  From the first release on, g may
\* be woken and run elsewhere.
Commit(g) ==
    /\ fatal = "none"
    /\ \E c \in commit[g] :
          /\ Lowest(commit[g], c)
          /\ lock'   = [lock EXCEPT ![c] = None]
          /\ commit' = [commit EXCEPT ![g] = CommitRest(g, c)]
    /\ UNCHANGED <<chanVars, pc, op, ops, todo, next, sd, done, winners, res, fatal>>

-----------------------------------------------------------------------------
(* Waking up.                                                              *)

\* What the sudog of case i says.
Outcome(g, i) == [i  |-> i, ok |-> sd[g][i].ok,
                  v  |-> IF case(g, i).dir = "recv" THEN sd[g][i].v ELSE None]

\* Back to the caller with the outcome of case i.
Finish(g, i) ==
    /\ res' = [res EXCEPT ![g] = Outcome(g, i)]
    /\ pc'  = [pc EXCEPT ![g] = "idle"]
    /\ op'  = [op EXCEPT ![g] = NoOp]
    /\ sd'  = [sd EXCEPT ![g] = << >>]
    /\ done' = [done EXCEPT ![g] = FALSE]

\* A sender that finds !success was woken by Close: the process ends.
FailedSend(g, i) == IF case(g, i).dir = "send" /\ ~sd[g][i].ok
                    THEN "send on closed channel" ELSE "none"

\* The scheduler runs a plain Send or Recv again: its only sudog tells the outcome.
ResumePlain(g) ==
    /\ fatal = "none" /\ pc[g] = "woken" /\ op[g].kind = "plain"
    /\ Finish(g, 1)
    /\ fatal' = IF case(g, 1).dir = "recv" /\ sd[g][1].ok /\ sd[g][1].v = None
                THEN "recv: sudog empty after wake" ELSE FailedSend(g, 1)
    /\ UNCHANGED <<chanVars, lock, ops, todo, next, winners, commit>>

\* The scheduler runs a select again: pass 3 begins.
ResumeSelect(g) ==
    /\ fatal = "none" /\ pc[g] = "woken" /\ op[g].kind = "select"
    /\ pc' = [pc EXCEPT ![g] = "pass3"]
    /\ UNCHANGED <<chanVars, lock, op, ops, todo, next, sd, done, winners, commit, res, fatal>>

\* Pass 3 visits every case before it dispatches the winner.
Pass3Over_AtWinner(g) == winners[g] # {} \/ next[g] > Len(op[g].cases)
Pass3Over(g) == next[g] > Len(op[g].cases)

\* __cancel_* locks the channel of the case.
CanCancel_Unlocked(c) == TRUE
CanCancel(c) == c # Nil => lock[c] = None

\* __cancel_send / __cancel_recv of case next[g], under that channel's lock: a
\* sudog still queued lost and is unlinked, one that is gone won.
Cancel(g) ==
    /\ fatal = "none" /\ pc[g] = "pass3" /\ ~Pass3Over(g)
    /\ LET cs == case(g, next[g])
           me == <<g, next[g]>>
           q  == IF cs.c = Nil THEN << >> ELSE IF cs.dir = "send" THEN sendq[cs.c] ELSE recvq[cs.c]
       IN  /\ CanCancel(cs.c)
           /\ IF \E k \in DOMAIN q : q[k] = me
              THEN \E k \in DOMAIN q :
                      /\ q[k] = me
                      /\ sendq' = IF cs.dir = "send"
                                  THEN [sendq EXCEPT ![cs.c] = RemoveAt(@, k)] ELSE sendq
                      /\ recvq' = IF cs.dir = "recv"
                                  THEN [recvq EXCEPT ![cs.c] = RemoveAt(@, k)] ELSE recvq
                      /\ winners' = winners
              ELSE /\ winners' = IF cs.c = Nil THEN winners
                                 ELSE [winners EXCEPT ![g] = @ \cup {next[g]}]
                   /\ UNCHANGED <<sendq, recvq>>
    /\ next' = [next EXCEPT ![g] = @ + 1]
    /\ UNCHANGED <<closed, buf, lock, pc, op, ops, todo, sd, done, commit, res, fatal>>

\* Dispatch the winner found by pass 3.
Dispatch(g) ==
    /\ fatal = "none" /\ pc[g] = "pass3" /\ Pass3Over(g)
    /\ IF winners[g] = {}
       THEN /\ fatal' = "select pass-3 found no winner"
            /\ UNCHANGED <<res, pc, op, sd, done>>
       ELSE \E w \in winners[g] :
               /\ Lowest(winners[g], w)
               /\ Finish(g, w)
               /\ fatal' = FailedSend(g, w)
    /\ next'    = [next EXCEPT ![g] = 1]
    /\ winners' = [winners EXCEPT ![g] = {}]
    /\ UNCHANGED <<chanVars, lock, ops, todo, commit>>

-----------------------------------------------------------------------------
(* Close.                                                                  *)

\* Mark the channel closed under its lock; close of nil or twice ends the process.
CloseMark(g) == LET c == case(g, 1).c IN
    /\ Holding(g) /\ op[g].kind = "close"
    /\ IF c = Nil \/ (c # Nil /\ closed[c])
       THEN fatal' = "close of nil or closed channel" /\ UNCHANGED <<closed, pc>>
       ELSE /\ closed' = [closed EXCEPT ![c] = TRUE]
            /\ pc' = [pc EXCEPT ![g] = "closing"]
            /\ UNCHANGED fatal
    /\ UNCHANGED <<buf, sendq, recvq, lock, op, ops, todo, next, sd, done, winners, commit, res>>

\* Wake one claimable receiver with (zero, false), or, when there is none left,
\* one claimable sender with success = false; then release the lock.
CloseWake(g) == LET c == case(g, 1).c IN
    /\ fatal = "none" /\ pc[g] = "closing"
    /\ \/ \E k \in DOMAIN recvq[c] :
             /\ FirstLive(recvq[c], k)
             /\ recvq' = [recvq EXCEPT ![c] = RemoveAt(@, k)]
             /\ Wake(recvq[c][k], None, FALSE)
             /\ pc' = [pc EXCEPT ![recvq[c][k][1]] = "woken"]
             /\ fatal' = Readied(recvq[c][k])
             /\ UNCHANGED <<sendq, todo, res>>
       \/ \E k \in DOMAIN sendq[c] :
             LET s == sendq[c][k] IN
             /\ ~Claimable(recvq[c])
             /\ FirstLive(sendq[c], k)
             /\ sendq' = [sendq EXCEPT ![c] = RemoveAt(@, k)]
             /\ Wake(s, sd[s[1]][s[2]].v, FALSE)
             /\ pc' = [pc EXCEPT ![s[1]] = "woken"]
             /\ fatal' = Readied(s)
             /\ UNCHANGED <<recvq, todo, res>>
       \/ /\ ~Claimable(recvq[c]) /\ ~Claimable(sendq[c])
          /\ todo' = [todo EXCEPT ![g] = {c}]
          /\ pc'   = [pc EXCEPT ![g] = "unlock"]
          /\ res'  = [res EXCEPT ![g] = [i |-> 1, v |-> None, ok |-> TRUE]]
          /\ UNCHANGED <<sendq, recvq, sd, done, fatal>>
    /\ UNCHANGED <<closed, buf, lock, op, ops, next, winners, commit>>

-----------------------------------------------------------------------------
Step(g) ==
    \/ Acquire(g) \/ Release(g) \/ Poll(g) \/ Default(g) \/ Block(g) \/ Register(g)
    \/ ResumePlain(g) \/ ResumeSelect(g) \/ Cancel(g) \/ Dispatch(g)
    \/ CloseMark(g) \/ CloseWake(g)

Next == \E g \in G : Start(g) \/ Step(g) \/ Commit(g)

\* Every M keeps executing and the scheduler runs every readied goroutine; only
\* starting another operation is the program's choice.
Fairness == \A g \in G : WF_vars(Step(g)) /\ WF_vars(Commit(g))

Spec == Init /\ [][Next]_vars /\ Fairness

-----------------------------------------------------------------------------
(* Properties.                                                             *)

Fatal == {"none", "send on closed channel", "close of nil or closed channel",
          "goready: target G is not parked", "recv: sender sudog empty",
          "recv: buf empty with parked sender", "select pass-2 saw a closed channel",
          "recv: sudog empty after wake", "select pass-3 found no winner"}

\* Every variable has its type, and no buffer grows past its capacity: the only
\* room check of the send paths is `buf.len() < cap`.
TypeOK ==
    /\ closed \in [Chans -> BOOLEAN]
    /\ buf \in [Chans -> Seq(Val)]
    /\ \A c \in Chans : Len(buf[c]) <= Cap[c]
    /\ sendq \in [Chans -> Seq(Sudog)]
    /\ recvq \in [Chans -> Seq(Sudog)]
    /\ lock \in [Chans -> G \cup {None}]
    /\ pc \in [G -> {"idle", "lock", "register", "parked", "woken", "pass3",
                     "closing", "unlock"}]
    /\ op \in [G -> Op]
    /\ ops \in [G -> Nat]
    /\ todo \in [G -> SUBSET Chans]
    /\ next \in [G -> Nat]
    /\ sd \in [G -> Seq([v : Val, ok : BOOLEAN])]
    /\ done \in [G -> BOOLEAN]
    /\ winners \in [G -> SUBSET Nat]
    /\ commit \in [G -> SUBSET Chans]
    /\ res \in [G -> Result]
    /\ fatal \in Fatal

\* Whose sudog, and on which queue.
Queued(q, s) == \E k \in DOMAIN q : q[k] = s
OnSend(c, g) == \E k \in DOMAIN sendq[c] : Live(sendq[c][k]) /\ sendq[c][k][1] = g
OnRecv(c, g) == \E k \in DOMAIN recvq[c] : Live(recvq[c][k]) /\ recvq[c][k][1] = g

\* No rendezvous is ever missed: while a claimable receiver is queued the buffer
\* is empty and no other goroutine's claimable sender is queued; while a
\* claimable sender is queued the buffer is full; once Close has released the
\* lock nobody claimable is left behind on the closed channel.
NoMissedRendezvous == \A c \in Chans :
    /\ \A g \in G : OnRecv(c, g) => /\ buf[c] = << >>
                                    /\ \A h \in G \ {g} : ~OnSend(c, h)
    /\ \A g \in G : OnSend(c, g) => Len(buf[c]) = Cap[c]
    /\ closed[c] /\ lock[c] = None => ~Claimable(recvq[c]) /\ ~Claimable(sendq[c])

\* A wait queue never holds a pointer into a stack frame that is gone: the owner
\* of a queued sudog is registering, parked, or on its way to cancel it.
InFrame(g, i, dir, c) ==
    /\ i \in DOMAIN op[g].cases /\ case(g, i) = [dir |-> dir, c |-> c]
    /\ \/ pc[g] = "register" /\ i < next[g]
       \/ pc[g] \in {"parked", "woken"}
       \/ pc[g] = "pass3" /\ i >= next[g]
NoDanglingSudog == \A c \in Chans :
    /\ \A k \in DOMAIN sendq[c] : InFrame(sendq[c][k][1], sendq[c][k][2], "send", c)
    /\ \A k \in DOMAIN recvq[c] : InFrame(recvq[c][k][1], recvq[c][k][2], "recv", c)

\* selparkcommit reads the array of locks in the parked goroutine's frame while
\* that goroutine may run again on another M: the frame must stay, and the locks
\* stay those it took, until the last one is released.
CommitFrameAlive == \A g \in G : commit[g] # {} =>
    /\ pc[g] \in {"parked", "woken", "pass3"}
    /\ commit[g] \subseteq locks(op[g])
    /\ \A c \in commit[g] : lock[c] = g

\* The panics that only a broken channel implementation can reach (goready of a
\* running goroutine, a sudog without its value, a select woken without a
\* winner, a closed channel met in pass 2) are never reached.
NoInternalPanic ==
    fatal \in {"none", "send on closed channel", "close of nil or closed channel"}

\* The channels and select implement ChanSpec.  An operation takes effect when its
\* own poll succeeds or when a waker claims one of its sudogs; from then on its
\* outcome is what the claimed sudog says, and it is what the caller later gets.
TookEffect(g, i) ==
    LET cs == case(g, i) IN
    /\ cs.c # Nil
    /\ \/ i \in winners[g]
       \/ /\ i >= next[g]
          /\ ~Queued(IF cs.dir = "send" THEN sendq[cs.c] ELSE recvq[cs.c], <<g, i>>)

absPhase == [g \in G |->
    CASE pc[g] = "idle" -> "idle"
      [] pc[g] \in {"lock", "register", "parked"} -> "pending"
      [] OTHER -> "fired"]

absOut == [g \in G |->
    CASE pc[g] \in {"woken", "pass3"} ->
            Outcome(g, CHOOSE i \in DOMAIN op[g].cases : TookEffect(g, i))
      [] pc[g] = "closing" -> [i |-> 1, v |-> None, ok |-> TRUE]
      [] OTHER -> res[g]]

Abs == INSTANCE ChanSpec WITH
    phase <- absPhase, out <- absOut, val <- [g \in G |-> <<g, ops[g]>>],
    dead <- (fatal # "none")

ImplementsChanSpec == Abs!Spec

\* Operations go on.  Locks are taken in address order, so operations over the same
\* channels in different case orders never wait for each other in a circle; and a
\* goroutine that was readied gets to the end of its operation, although select still
\* has to take every channel lock again to cancel its other cases.
OperationsReturn == \A g \in G :
    /\ pc[g] = "lock" ~> (pc[g] # "lock" \/ fatal # "none")
    /\ pc[g] = "woken" ~> (pc[g] = "idle" \/ fatal # "none")
=============================================================================
