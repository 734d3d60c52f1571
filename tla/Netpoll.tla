------------------------------ MODULE Netpoll ------------------------------
(***************************************************************************)
(* The netpoller (runtime/netpoll/mod.rs) under its clients in net/mod.rs. *)
(* A connection or listener registers its fd lazily (ensure_pd); a         *)
(* goroutine whose system call says EAGAIN parks on the word rg or wg of   *)
(* the poll descriptor (block); an epoll event, an expired deadline and    *)
(* Close take it off the word again (unblock).  Threads poll epoll in any  *)
(* order; sysmon polls too and fires the deadlines it finds expired.       *)
(*                                                                         *)
(* A goroutine inside block has a plain pointer to the descriptor, which   *)
(* Close may free under it.  Freed memory keeps its contents here until it *)
(* becomes another descriptor, the first of which reused records.          *)
(***************************************************************************)
EXTENDS Integers, FiniteSets, Sequences

CONSTANTS Conn, Mode,   \* connections; {"r", "w"} or one of them
          PD,           \* memory for poll descriptors
          Poller,       \* threads that poll; sysmon's sweep of all shards is one of them
          NShards,      \* epoll instances
          MaxTime,      \* the clock stops here; every deadline is due by then
          Controlled,   \* bound: the connections that are given deadlines and are closed
          PD_NIL, PD_READY, PD_WAIT, None

IO == Conn \X Mode               \* one goroutine per connection and direction
Ctl == Conn \X {"ctl"}           \* one that sets deadlines and closes
Proc == IO \cup Ctl
Shard == 0..NShards - 1
Slot == 1..Cardinality(PD)

ASSUME NetpollAssumption ==
    /\ Mode \subseteq {"r", "w"} /\ Mode # {}
    /\ IsFiniteSet(PD)
    /\ PD_NIL # PD_READY /\ PD_READY # PD_WAIT /\ PD_WAIT # PD_NIL
    /\ {PD_NIL, PD_READY, PD_WAIT} \cap IO = {}
    /\ None \notin UNION {PD, Proc, PD \X Mode, PD \X SUBSET Mode}
    /\ NShards \in Nat \ {0} /\ MaxTime \in Nat \ {0} /\ Controlled \subseteq Conn

VARIABLES
    word, dl, fdseq,                 \* the fields rg/wg, rd/wd and fdseq of each PollDesc
    reg,                             \* REGISTRY's slots
    fd, avail,                       \* the kernel: open sockets; what is readable, writable
    interest, edge,                  \* ... epoll's interest lists; registrations with a new edge
    pd,                              \* the pointer in each Conn
    pc, my, arg,                     \* control state, local pd, argument of each process
    batch, cur,                      \* events each poller holds; the one it delivers
    expired, firing,                 \* sysmon: the list of its scan; whom it unblocks
    now,
    missed,                          \* parked although already expired (not in the code)
    reused                           \* a descriptor was made where one was still pointed at (not in the code)

desc == <<word, dl, fdseq>>
kernel == <<fd, avail, interest, edge>>
procs == <<pc, my, arg>>
pollers == <<batch, cur, expired, firing>>
vars == <<desc, reg, kernel, pd, procs, pollers, now, missed, reused>>

Init ==
    /\ word = [p \in PD |-> [m \in Mode |-> PD_NIL]]
    /\ dl = [p \in PD |-> [m \in Mode |-> 0]]
    /\ fdseq = [p \in PD |-> 1]
    /\ reg = [s \in Slot |-> None]
    /\ fd = [c \in Conn |-> "open"] /\ avail = [g \in IO |-> FALSE]
    /\ interest = {} /\ edge = {}
    /\ pd = [c \in Conn |-> None]
    /\ pc = [p \in Proc |-> "idle"] /\ my = [p \in Proc |-> None]
    /\ arg = [c \in Conn |-> None]
    /\ batch = [t \in Poller |-> {}] /\ cur = [t \in Poller |-> None]
    /\ expired = {} /\ firing = None
    /\ now = 0 /\ missed = {} /\ reused = FALSE

Goto(p, l) == pc' = [pc EXCEPT ![p] = l]
\* A call ends; its local pointer is gone.
Return(p) == Goto(p, "idle") /\ my' = [my EXCEPT ![p] = None]
\* Who owns a descriptor (an Arc): the registry, a Conn, ensure_pd before it has installed
\* it, Close after it has taken it out, pollers and sysmon.
Owning == {"install", "evict", "evict2", "del", "remove"}
Pointed == {my[p] : p \in Proc}
Allocated == {reg[s] : s \in Slot} \cup {pd[c] : c \in Conn}
             \cup {my[p] : p \in {q \in Proc : pc[q] \in Owning}}
             \cup {cur[t][1] : t \in {u \in Poller : cur[u] # None}}
             \cup {e[1] : e \in expired}
             \cup (IF firing = None THEN {} ELSE {firing[1]})

-----------------------------------------------------------------------------
(* The kernel and the clock.                                               *)

\* Data or buffer space arrives: an edge for every registration of the fd.
Arrive(g) ==
    /\ fd[g[1]] = "open"
    /\ avail' = [avail EXCEPT ![g] = TRUE]
    /\ edge' = edge \cup {i \in interest : i.fd = g[1]}
    /\ UNCHANGED <<desc, reg, fd, interest, pd, procs, pollers, now, missed, reused>>

Clock ==
    /\ now < MaxTime /\ now' = now + 1
    /\ UNCHANGED <<desc, reg, kernel, pd, procs, pollers, missed, reused>>

-----------------------------------------------------------------------------
(* open, close and ensure_pd.                                              *)

\* A new descriptor goes to a free slot, an event names its slot and its tag.
SlotOf(p) == CHOOSE s \in Slot : reg[s] = p
FreeSlot == SlotOf(None)

Ready(c) == {m \in Mode : avail[<<c, m>>]}
EExist(c, s) == \E i \in interest : i.fd = c /\ i.shard = s

\* ensure_pd: load the pointer; with a pd go on to block or set_deadline.
Body(p) == IF p \in IO THEN "check" ELSE "apply"
EnsureLoad(p) ==
    /\ pc[p] = "ensure"
    /\ my' = [my EXCEPT ![p] = pd[p[1]]]
    /\ Goto(p, IF pd[p[1]] = None THEN "open" ELSE Body(p))
    /\ UNCHANGED <<desc, reg, kernel, pd, arg, pollers, now, missed, reused>>

\* netpoll::open: a fresh PollDesc in a free slot, added to one shard's epoll (the
\* round robin counts every open) with the current readiness as its first edge.
Open(p) == \E s \in Shard :
    /\ pc[p] = "open"
    /\ IF fd[p[1]] = "closed" \/ EExist(p[1], s)
       THEN /\ Goto(p, "reload")
            /\ UNCHANGED <<desc, reg, kernel, my, reused>>
       ELSE \E n \in PD \ Allocated :
            LET i == [pd |-> n, slot |-> FreeSlot, tag |-> 1, fd |-> p[1], shard |-> s] IN
            /\ word' = [word EXCEPT ![n] = [m \in Mode |-> PD_NIL]]
            /\ dl' = [dl EXCEPT ![n] = [m \in Mode |-> 0]]
            /\ fdseq' = [fdseq EXCEPT ![n] = 1]
            /\ reg' = [reg EXCEPT ![FreeSlot] = n]
            /\ interest' = interest \cup {i}
            /\ edge' = IF Ready(p[1]) = {} THEN edge ELSE edge \cup {i}
            /\ my' = [my EXCEPT ![p] = n]
            /\ reused' = (reused \/ n \in Pointed)
            /\ Goto(p, "install")
            /\ UNCHANGED <<fd, avail>>
    /\ UNCHANGED <<pd, arg, pollers, now, missed>>

\* The swap null -> pd; the loser closes its own.
Installed(p) == pd[p[1]] = None
Install(p) ==
    /\ pc[p] = "install"
    /\ IF Installed(p) THEN pd' = [pd EXCEPT ![p[1]] = my[p]] /\ Goto(p, Body(p))
                       ELSE Goto(p, "del") /\ UNCHANGED pd
    /\ UNCHANGED <<desc, reg, kernel, my, arg, pollers, now, missed, reused>>

EnsureReload(p) ==
    /\ pc[p] = "reload"
    /\ my' = [my EXCEPT ![p] = pd[p[1]]]
    /\ Goto(p, IF pd[p[1]] = None THEN "idle" ELSE Body(p))
    /\ UNCHANGED <<desc, reg, kernel, pd, arg, pollers, now, missed, reused>>

\* netpoll::close: EPOLL_CTL_DEL and a new fdseq, then the slot is given back.
\* It ends ensure_pd's loss of the install race, or Close before it closes the fd.
Del(p) ==
    /\ pc[p] = "del"
    /\ interest' = {i \in interest : i.pd # my[p]} /\ edge' = edge \cap interest'
    /\ fdseq' = [fdseq EXCEPT ![my[p]] = 2]
    /\ Goto(p, "remove")
    /\ UNCHANGED <<word, dl, reg, fd, avail, pd, my, arg, pollers, now, missed, reused>>

Closing(p) == p \in Ctl /\ arg[p[1]] = "close"
Remove(p) ==
    /\ pc[p] = "remove"
    /\ reg' = [reg EXCEPT ![SlotOf(my[p])] = None]
    /\ my' = [my EXCEPT ![p] = None]
    /\ Goto(p, IF Closing(p) THEN "fdclose" ELSE "reload")
    /\ UNCHANGED <<desc, kernel, pd, arg, pollers, now, missed, reused>>

-----------------------------------------------------------------------------
(* Read, Write and Accept around block.                                    *)

Call(g) ==
    /\ pc[g] = "idle" /\ Goto(g, "sys")
    /\ UNCHANGED <<desc, reg, kernel, pd, my, arg, pollers, now, missed, reused>>

\* The system call: done (perhaps with more left), an error, or EAGAIN.
Sys(g) ==
    /\ pc[g] = "sys"
    /\ IF fd[g[1]] = "closed" THEN Return(g) /\ UNCHANGED avail
       ELSE IF avail[g] THEN /\ Return(g)
                             /\ \E more \in BOOLEAN : avail' = [avail EXCEPT ![g] = more]
       ELSE Goto(g, "ensure") /\ UNCHANGED <<avail, my>>
    /\ UNCHANGED <<desc, reg, fd, interest, edge, pd, arg, pollers, now, missed, reused>>

\* block: the deadline is looked at once, before the word.
Check(g) ==
    /\ pc[g] = "check"
    /\ IF dl[my[g]][g[2]] < 0 THEN Return(g) ELSE Goto(g, "arm") /\ UNCHANGED my
    /\ UNCHANGED <<desc, reg, kernel, pd, arg, pollers, now, missed, reused>>

SetWord(p, m, v) == word' = [word EXCEPT ![p][m] = v]
\* block: consume READY and retry, or NIL -> WAIT and park.
Arm(g) ==
    LET w == word[my[g]][g[2]] IN
    /\ pc[g] = "arm"
    /\ SetWord(my[g], g[2], CASE w = PD_READY -> PD_NIL [] w = PD_NIL -> PD_WAIT [] OTHER -> w)
    /\ Goto(g, CASE w = PD_READY -> "sys" [] w = PD_NIL -> "park" [] OTHER -> "panic")
    /\ my' = IF w = PD_READY THEN [my EXCEPT ![g] = None] ELSE my
    /\ missed' = IF dl[my[g]][g[2]] < 0 THEN missed \cup {g} ELSE missed \ {g}
    /\ UNCHANGED <<dl, fdseq, reg, kernel, pd, arg, pollers, now, reused>>

\* netpoll_block_commit on g0: WAIT -> G, or the park is aborted and g runs on.
Committed_Always(w) == TRUE
Committed(w) == w = PD_WAIT
Commit(g) ==
    /\ pc[g] = "park"
    /\ IF Committed(word[my[g]][g[2]])
       THEN SetWord(my[g], g[2], g) /\ Goto(g, "parked")
       ELSE Goto(g, "resume") /\ UNCHANGED word
    /\ UNCHANGED <<dl, fdseq, reg, kernel, pd, my, arg, pollers, now, missed, reused>>

\* block after gopark: drain the word; Ready and Aborted retry, Timedout returns.
Resume(g) ==
    LET w == word[my[g]][g[2]]
        late == w # PD_READY /\ dl[my[g]][g[2]] < 0 IN
    /\ pc[g] = "resume"
    /\ SetWord(my[g], g[2], PD_NIL)
    /\ Goto(g, IF w \in IO THEN "panic" ELSE IF late THEN "idle" ELSE "sys")
    /\ my' = [my EXCEPT ![g] = None]
    /\ missed' = missed \ {g}
    /\ UNCHANGED <<dl, fdseq, reg, kernel, pd, arg, pollers, now, reused>>

-----------------------------------------------------------------------------
(* unblock, and those who call it.                                         *)

\* unblock moves the word to READY (an event) or NIL (a deadline); a deadline does
\* nothing to NIL, nobody does anything to READY.
Unblocked_Forgets(w, ioready) == IF w = PD_NIL THEN w ELSE IF ioready THEN PD_READY ELSE PD_NIL
Unblocked_KeepsG(w, ioready) ==
    IF w \in IO \cup {PD_READY} \/ (w = PD_NIL /\ ~ioready) THEN w
    ELSE IF ioready THEN PD_READY ELSE PD_NIL
Unblocked(w, ioready) ==
    IF w = PD_READY \/ (w = PD_NIL /\ ~ioready) THEN w
    ELSE IF ioready THEN PD_READY ELSE PD_NIL
Parkers(p, ms) == {word[p][m] : m \in ms} \cap IO

\* unblock in the directions ms, and goready of whom it took off the word;
\* the caller goes on to l.
Unblock(p, ms, ioready, caller, l) ==
    /\ word' = [word EXCEPT ![p] = [m \in Mode |->
            IF m \in ms THEN Unblocked(@[m], ioready) ELSE @[m]]]
    /\ pc' = [q \in Proc |-> IF q \in Parkers(p, ms) THEN "resume"
                             ELSE IF q = caller THEN l ELSE pc[q]]

FirstMode == IF "r" \in Mode THEN "r" ELSE "w"
LastMode == IF "w" \in Mode THEN "w" ELSE "r"
AfterMode(m) == IF m = LastMode THEN "del" ELSE "evict"

\* SetReadDeadline, SetWriteDeadline, SetDeadline: ensure_pd, then set_deadline.
CallSetDeadline(c) ==
    LET p == <<c, "ctl">> IN
    /\ c \in Controlled /\ pc[p] = "idle" /\ fd[c] = "open"
    /\ \E m \in Mode : arg' = [arg EXCEPT ![c] = m]
    /\ Goto(p, "ensure")
    /\ UNCHANGED <<desc, reg, kernel, pd, my, pollers, now, missed, reused>>

SetDl(p, m, v) == dl' = [dl EXCEPT ![p][m] = v]
\* set_deadline: clear, arm, or expire at once and unblock.
Apply(c) ==
    LET p == <<c, "ctl">> IN
    /\ pc[p] = "apply"
    /\ \E v \in {-1, 0} \cup now + 1..MaxTime :
        /\ SetDl(my[p], arg[c], v)
        /\ IF v < 0 THEN Goto(p, "unblock") /\ UNCHANGED <<my, arg>>
                    ELSE Return(p) /\ arg' = [arg EXCEPT ![c] = None]
    /\ UNCHANGED <<word, fdseq, reg, kernel, pd, pollers, now, missed, reused>>

ApplyUnblock(c) ==
    LET p == <<c, "ctl">> IN
    /\ pc[p] = "unblock"
    /\ Unblock(my[p], {arg[c]}, FALSE, p, "idle")
    /\ my' = [my EXCEPT ![p] = None] /\ arg' = [arg EXCEPT ![c] = None]
    /\ UNCHANGED <<dl, fdseq, reg, kernel, pd, pollers, now, missed, reused>>

\* Close: take the pointer, expire each direction, netpoll::close, close(2).
CallClose(c) ==
    LET p == <<c, "ctl">> IN
    /\ c \in Controlled /\ pc[p] = "idle" /\ fd[c] = "open"
    /\ my' = [my EXCEPT ![p] = pd[c]] /\ pd' = [pd EXCEPT ![c] = None]
    /\ arg' = [arg EXCEPT ![c] = IF pd[c] = None THEN "close" ELSE FirstMode]
    /\ Goto(p, IF pd[c] = None THEN "fdclose" ELSE "evict")
    /\ UNCHANGED <<desc, reg, kernel, pollers, now, missed, reused>>

Evict(c) ==
    LET p == <<c, "ctl">> IN
    /\ pc[p] = "evict" /\ SetDl(my[p], arg[c], -1) /\ Goto(p, "evict2")
    /\ UNCHANGED <<word, fdseq, reg, kernel, pd, my, arg, pollers, now, missed, reused>>

EvictUnblock(c) ==
    LET p == <<c, "ctl">> IN
    /\ pc[p] = "evict2"
    /\ Unblock(my[p], {arg[c]}, FALSE, p, AfterMode(arg[c]))
    /\ arg' = [arg EXCEPT ![c] = IF AfterMode(@) = "del" THEN "close" ELSE LastMode]
    /\ UNCHANGED <<dl, fdseq, reg, kernel, pd, my, pollers, now, missed, reused>>

FdClose(c) ==
    LET p == <<c, "ctl">> IN
    /\ pc[p] = "fdclose" /\ Goto(p, "idle")
    /\ fd' = [fd EXCEPT ![c] = "closed"]
    /\ interest' = {i \in interest : i.fd # c} /\ edge' = edge \cap interest'
    /\ arg' = [arg EXCEPT ![c] = None]
    /\ UNCHANGED <<desc, reg, avail, pd, my, pollers, now, missed, reused>>

-----------------------------------------------------------------------------
(* poll_shard and fire_expired_deadlines.                                  *)

\* epoll_pwait: every descriptor with an edge that is still ready, by slot and tag.
Events(s) == {[slot |-> i.slot, tag |-> i.tag, modes |-> Ready(i.fd)] :
                i \in {j \in edge : j.shard = s /\ Ready(j.fd) # {}}}
Fetch(t, s) ==
    /\ batch[t] = {} /\ cur[t] = None
    /\ batch' = [batch EXCEPT ![t] = Events(s)]
    /\ edge' = {i \in edge : i.shard # s}
    /\ UNCHANGED <<desc, reg, fd, avail, interest, pd, procs, cur, expired, firing, now, missed, reused>>

\* registry_get and the filter for stale events.
Fresh(e, p) == p # None /\ fdseq[p] = e.tag
Lookup(t) == \E e \in batch[t] :
    /\ cur[t] = None
    /\ batch' = [batch EXCEPT ![t] = @ \ {e}]
    /\ cur' = [cur EXCEPT ![t] = IF Fresh(e, reg[e.slot]) THEN <<reg[e.slot], e.modes>> ELSE None]
    /\ UNCHANGED <<desc, reg, kernel, pd, procs, expired, firing, now, missed, reused>>

Deliver(t) ==
    /\ cur[t] # None
    /\ Unblock(cur[t][1], cur[t][2], TRUE, None, "idle")
    /\ cur' = [cur EXCEPT ![t] = None]
    /\ UNCHANGED <<dl, fdseq, reg, kernel, pd, my, arg, batch,
                   expired, firing, now, missed, reused>>

\* fire_expired_deadlines: collect what has expired under the registry's lock, fire
\* it outside.
Scan ==
    /\ expired = {} /\ firing = None
    /\ expired' = {<<p, m, dl[p][m]>> : p \in {reg[s] : s \in Slot} \ {None}, m \in Mode}
                    \cap (PD \X Mode \X (1..now))
    /\ UNCHANGED <<desc, reg, kernel, pd, procs, batch, cur, firing, now, missed, reused>>

StillThat_Unchecked(e) == TRUE
StillThat(e) == dl[e[1]][e[2]] = e[3]
Fire == \E e \in expired :
    /\ firing = None
    /\ expired' = expired \ {e}
    /\ IF StillThat(e) THEN SetDl(e[1], e[2], -1) /\ firing' = <<e[1], e[2]>>
                       ELSE UNCHANGED <<dl, firing>>
    /\ UNCHANGED <<word, fdseq, reg, kernel, pd, procs,
                   batch, cur, now, missed, reused>>

FireUnblock ==
    /\ firing # None
    /\ Unblock(firing[1], {firing[2]}, FALSE, None, "idle")
    /\ firing' = None
    /\ UNCHANGED <<dl, fdseq, reg, kernel, pd, my, arg,
                   batch, cur, expired, now, missed, reused>>

-----------------------------------------------------------------------------
Ensure(p) == EnsureLoad(p) \/ Open(p) \/ Install(p) \/ EnsureReload(p) \/ Del(p) \/ Remove(p)
IOStep(g) == Sys(g) \/ Ensure(g) \/ Check(g) \/ Arm(g) \/ Commit(g) \/ Resume(g)
CtlStep(c) == Ensure(<<c, "ctl">>) \/ Apply(c) \/ ApplyUnblock(c)
              \/ Evict(c) \/ EvictUnblock(c) \/ FdClose(c)
PollStep(t) == (\E s \in Shard : Fetch(t, s)) \/ Lookup(t) \/ Deliver(t)
SysmonStep == Scan \/ Fire \/ FireUnblock

Next ==
    \/ \E g \in IO : Arrive(g) \/ Call(g) \/ IOStep(g)
    \/ \E c \in Conn : CallSetDeadline(c) \/ CallClose(c) \/ CtlStep(c)
    \/ \E t \in Poller : PollStep(t)
    \/ SysmonStep \/ Clock

\* Goroutines inside a call run on, sysmon's loop goes round and time passes.  A
\* poller delivers what it has taken; sysmon's sweep comes to every shard again.
Fairness ==
    /\ \A g \in IO : WF_vars(IOStep(g))
    /\ \A c \in Conn : WF_vars(CtlStep(c))
    /\ \A t \in Poller : WF_vars(Lookup(t) \/ Deliver(t))
    /\ \A s \in Shard : SF_vars(\E t \in Poller : Fetch(t, s))
    /\ WF_vars(SysmonStep) /\ WF_vars(Clock)
Spec == Init /\ [][Next]_vars /\ Fairness

-----------------------------------------------------------------------------
Parked(g) == pc[g] = "parked"

\* The word of a descriptor and the goroutine that uses it agree: it holds G exactly
\* while that goroutine is parked on it (so whoever takes G off the word readies a
\* parked goroutine, and only once), and WAIT only while it is about to be.  Hence
\* neither "double wait" nor "corrupted polldesc" is reached, until the memory of a
\* closed descriptor is used again under a goroutine that is still inside block.
WordOwner == ~reused =>
    /\ \A p \in PD, m \in Mode :
        /\ word[p][m] = PD_WAIT => \E g \in IO : pc[g] = "park" /\ my[g] = p /\ g[2] = m
        /\ word[p][m] \in IO => Parked(word[p][m]) /\ my[word[p][m]] = p
    /\ \A g \in IO : /\ Parked(g) => word[my[g]][g[2]] = g
                     /\ pc[g] # "panic"

\* Edge-triggered readiness is not lost: while a goroutine is parked on an open
\* socket that is ready, the event is still in epoll or in the hands of a poller.
UnderWay(p, m) ==
    \/ \E i \in edge : i.pd = p
    \/ \E t \in Poller : \/ \E e \in batch[t] : reg[e.slot] = p /\ m \in e.modes
                         \/ cur[t] # None /\ cur[t][1] = p /\ m \in cur[t][2]
NoLostReadiness == \A g \in IO :
    ~reused /\ Parked(g) /\ avail[g] /\ fd[g[1]] = "open" /\ (\E i \in interest : i.pd = my[g])
    => UnderWay(my[g], g[2])

Expiring(p, m) ==
    \/ firing = <<p, m>>
    \/ \E c \in Conn : /\ pc[<<c, "ctl">>] \in {"unblock", "evict2"}
                       /\ my[<<c, "ctl">>] = p /\ arg[c] = m

\* set_deadline: a deadline is the time "at which the corresponding parker wakes
\* with BlockResult::Timedout".  So no goroutine stays parked on an expired one.
ExpiredWakes == \A g \in IO :
    ~reused /\ Parked(g) /\ dl[my[g]][g[2]] < 0 => Expiring(my[g], g[2])

\* What does hold: a goroutine stays parked on an expired deadline only if it expired
\* between block's look at the deadline and its WAIT; and on a closed connection only
\* for that reason, or because ensure_pd registered the fd anew while Close ran.
StrandedOnlyInWindow == \A g \in IO : ~reused /\ Parked(g) =>
    /\ dl[my[g]][g[2]] < 0 => g \in missed \/ Expiring(my[g], g[2])
    /\ fd[g[1]] = "closed" => g \in missed \/ my[g] = pd[g[1]]

\* sysmon expires only what is due: a deadline that was moved or cleared after the
\* scan survives the late fire.
FiresOnlyDue == [][\A p \in PD, m \in Mode :
    firing' = <<p, m>> /\ firing # firing' => dl[p][m] \in 1..now]_vars

\* A goroutine parked on a socket that is ready is woken, unless the socket is closed.
ReadableReturns == \A g \in IO :
    Parked(g) /\ avail[g] ~> ~Parked(g) \/ fd[g[1]] = "closed" \/ reused
=============================================================================
