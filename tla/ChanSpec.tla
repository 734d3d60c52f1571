------------------------------ MODULE ChanSpec ------------------------------
(***************************************************************************)
(* What goish's channels and select promise, with no locks, no wait queues *)
(* and no parking: a channel is a bounded FIFO, an operation takes effect  *)
(* in one step through exactly one of its cases, a rendezvous completes    *)
(* the sender's and the receiver's operation in that same step, and the    *)
(* process dies only by sending on, or closing, a closed channel.          *)
(***************************************************************************)
EXTENDS Integers, Sequences

CONSTANTS G, Chans, Nil, Cap, Menu, None, NoOp

VARIABLES
    closed, buf,      \* per channel
    phase,            \* phase[g]: "idle", "pending" or "fired"
    op,               \* the operation g is in
    val,              \* the value g offers in its send cases
    out,              \* outcome of g's last operation to take effect
    dead              \* the process has ended

vars == <<closed, buf, phase, op, val, out, dead>>

Init ==
    /\ closed = [c \in Chans |-> FALSE]
    /\ buf    = [c \in Chans |-> << >>]
    /\ phase  = [g \in G |-> "idle"]
    /\ op     = [g \in G |-> NoOp]
    /\ val    = [g \in G |-> <<g, 0>>]
    /\ out    = [g \in G |-> [i |-> 0, v |-> None, ok |-> FALSE]]
    /\ dead   = FALSE

\* Case i of g's pending operation, on a real channel, in direction dir.
Offers(g, i, dir, c) ==
    /\ phase[g] = "pending" /\ i \in DOMAIN op[g].cases
    /\ op[g].cases[i] = [dir |-> dir, c |-> c] /\ c # Nil

result(i, v, ok) == [i |-> i, v |-> v, ok |-> ok]

Fire(g, r) ==
    /\ phase' = [phase EXCEPT ![g] = "fired"]
    /\ out'   = [out EXCEPT ![g] = r]
    /\ UNCHANGED <<op, val, dead>>

Fire2(g, r, h, t) ==
    /\ g # h
    /\ phase' = [phase EXCEPT ![g] = "fired", ![h] = "fired"]
    /\ out'   = [out EXCEPT ![g] = r, ![h] = t]
    /\ UNCHANGED <<op, val, dead>>

Begin(g) ==
    /\ phase[g] = "idle"
    /\ \E o \in Menu[g] : op' = [op EXCEPT ![g] = o]
    /\ val'   = [val EXCEPT ![g] = <<g, @[2] + 1>>]
    /\ phase' = [phase EXCEPT ![g] = "pending"]
    /\ UNCHANGED <<closed, buf, out, dead>>

\* The caller sees the outcome its operation took effect with.
Return(g) ==
    /\ phase[g] = "fired"
    /\ phase' = [phase EXCEPT ![g] = "idle"]
    /\ op'    = [op EXCEPT ![g] = NoOp]
    /\ dead'  = (op[g].kind # "close" /\ out[g].i # 0
                 /\ op[g].cases[out[g].i].dir = "send" /\ ~out[g].ok)
    /\ UNCHANGED <<closed, buf, val, out>>

SendBuf(g, i, c) ==
    /\ Offers(g, i, "send", c) /\ ~closed[c] /\ Len(buf[c]) < Cap[c]
    /\ buf' = [buf EXCEPT ![c] = Append(@, val[g])]
    /\ Fire(g, result(i, None, TRUE)) /\ UNCHANGED closed

RecvBuf(g, i, c) ==
    /\ Offers(g, i, "recv", c) /\ buf[c] # << >>
    /\ buf' = [buf EXCEPT ![c] = Tail(@)]
    /\ Fire(g, result(i, Head(buf[c]), TRUE)) /\ UNCHANGED closed

\* h's value goes to g, past an empty buffer.
Rendezvous(g, i, h, j, c) ==
    /\ Offers(g, i, "recv", c) /\ Offers(h, j, "send", c)
    /\ ~closed[c] /\ buf[c] = << >>
    /\ Fire2(g, result(i, val[h], TRUE), h, result(j, None, TRUE))
    /\ UNCHANGED <<closed, buf>>

\* g takes the head of a full buffer and h's value takes the freed place.
Rotate(g, i, h, j, c) ==
    /\ Offers(g, i, "recv", c) /\ Offers(h, j, "send", c)
    /\ ~closed[c] /\ buf[c] # << >> /\ Len(buf[c]) = Cap[c]
    /\ Fire2(g, result(i, Head(buf[c]), TRUE), h, result(j, None, TRUE))
    /\ buf' = [buf EXCEPT ![c] = Append(Tail(@), val[h])]
    /\ UNCHANGED closed

RecvZero(g, i, c) ==
    /\ Offers(g, i, "recv", c) /\ closed[c] /\ buf[c] = << >>
    /\ Fire(g, result(i, None, FALSE)) /\ UNCHANGED <<closed, buf>>

\* A sender overtaken by Close is told so, and dies when it returns.
SendFails(g, i, c) ==
    /\ Offers(g, i, "send", c) /\ closed[c]
    /\ Fire(g, result(i, None, FALSE)) /\ UNCHANGED <<closed, buf>>

\* Default is taken only when neither a buffer nor a closed channel serves a case.
Default(g) ==
    /\ phase[g] = "pending" /\ op[g].dflt
    /\ \A i \in DOMAIN op[g].cases : \A c \in Chans :
          /\ ~(Offers(g, i, "recv", c) /\ (closed[c] \/ buf[c] # << >>))
          /\ ~(Offers(g, i, "send", c) /\ (closed[c] \/ Len(buf[c]) < Cap[c]))
    /\ Fire(g, result(0, None, FALSE)) /\ UNCHANGED <<closed, buf>>

Close(g, c) ==
    /\ Offers(g, 1, "close", c) /\ ~closed[c]
    /\ closed' = [closed EXCEPT ![c] = TRUE]
    /\ Fire(g, result(1, None, TRUE)) /\ UNCHANGED buf

\* send on closed channel, close of closed channel, close of nil channel.
Crash(g) ==
    /\ phase[g] = "pending"
    /\ \/ \E i \in DOMAIN op[g].cases, c \in Chans :
             (Offers(g, i, "send", c) \/ Offers(g, i, "close", c)) /\ closed[c]
       \/ op[g].kind = "close" /\ op[g].cases[1].c = Nil
    /\ dead' = TRUE
    /\ UNCHANGED <<closed, buf, phase, op, val, out>>

Next == /\ ~dead
        /\ \E g \in G :
              \/ Begin(g) \/ Return(g) \/ Default(g) \/ Crash(g)
              \/ \E c \in Chans : Close(g, c)
              \/ \E i \in DOMAIN op[g].cases, c \in Chans :
                    \/ SendBuf(g, i, c) \/ RecvBuf(g, i, c)
                    \/ RecvZero(g, i, c) \/ SendFails(g, i, c)
                    \/ \E h \in G : \E j \in DOMAIN op[h].cases :
                          Rendezvous(g, i, h, j, c) \/ Rotate(g, i, h, j, c)

Spec == Init /\ [][Next]_vars
=============================================================================
