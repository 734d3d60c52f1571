-------------------------------- MODULE Cond --------------------------------
(***************************************************************************)
(* sync.Cond (sync/cond.rs) over the ticket list of sync/notifylist.rs.    *)
(* A waiter takes ticket `wait` before it releases L; tickets below        *)
(* `notify` are notified.  Both counters wrap.  The list and `notify` are  *)
(* changed under the list's spin lock only, and a waiter that parks keeps  *)
(* that lock until it is Waiting, so each critical section is one step;    *)
(* the fast path of the notifiers reads the counters outside it, and       *)
(* goready runs outside it.  The Locker L is a mutex with one owner.       *)
(***************************************************************************)
EXTENDS Integers, Sequences, SequencesExt

CONSTANTS Parties,
          TicketWidth,    \* bits of a ticket: 32 in the code
          Nobody

ASSUME CondAssumption ==
    /\ TicketWidth \in Nat \ {0} /\ Nobody \notin Parties
    /\ 2^(TicketWidth - 1) \in Nat \ {0} /\ 2^TicketWidth = 2 * 2^(TicketWidth - 1)

Tickets == 0..(2^TicketWidth - 1)

VARIABLES L,              \* owner of L
          wait, notify,
          list,           \* parked waiters, oldest enqueued first
          stage,
          ticket,         \* ticket[g]: g.notify_ticket, and the local t of Wait
          sawWait,        \* sawWait[g]: `wait` as the fast path loaded it (both are 0
                          \* when out of use)
          chain,          \* chain[g]: waiters a notifier has yet to ready
          owed            \* owed[g]: the Waits pending since before g's notify call
                          \* (not in the code)

condVars == <<L, wait, notify, list, stage, ticket, sawWait, chain, owed>>

CondInit ==
    /\ L = Nobody
    /\ wait = 0 /\ notify = 0
    /\ list    = << >>
    /\ stage   = [g \in Parties |-> "idle"]
    /\ ticket  = [g \in Parties |-> 0]
    /\ sawWait = [g \in Parties |-> 0]
    /\ chain   = [g \in Parties |-> << >>]
    /\ owed    = [g \in Parties |-> {}]

Enter(g, x) == stage' = [stage EXCEPT ![g] = x]
Wrap(n)    == n % 2^TicketWidth

\* less: `a - b` as a signed number of Width bits is negative.
less_Plain(a, b) == a < b
less(a, b) == Wrap(a - b) >= 2^(TicketWidth - 1)

\* A call of Wait that holds a ticket; one that nothing has notified.
Holds(g)   == stage[g] \in {"unlock", "wait", "parked", "relock"}
Pending(g) == Holds(g) /\ ~less(ticket[g], notify)

-----------------------------------------------------------------------------
(* L and Wait.                                                             *)

LockL(g) ==
    /\ stage[g] \in {"idle", "relock"} /\ L = Nobody
    /\ L' = g
    /\ Enter(g, "locked")
    /\ ticket' = [ticket EXCEPT ![g] = 0]
    /\ owed' = [h \in Parties |-> owed[h] \ {g}]
    /\ UNCHANGED <<wait, notify, list, sawWait, chain>>

UnlockL(g) ==
    /\ stage[g] = "locked"
    /\ L' = Nobody
    /\ Enter(g, "idle")
    /\ UNCHANGED <<wait, notify, list, ticket, sawWait, chain, owed>>

\* Bound: the tickets in use lie within half the range of the counter.
CloseBy == \A h \in Parties : Holds(h) => Wrap(wait - ticket[h]) < 2^(TicketWidth - 1) - 1

\* Cond.Wait, first half: the ticket is taken while L is held.
ListAdd(g) ==
    /\ stage[g] = "locked" /\ CloseBy
    /\ ticket' = [ticket EXCEPT ![g] = wait]
    /\ wait' = Wrap(wait + 1)
    /\ Enter(g, "unlock")
    /\ UNCHANGED <<L, notify, list, sawWait, chain, owed>>

WaitUnlock(g) ==
    /\ stage[g] = "unlock"
    /\ L' = Nobody
    /\ Enter(g, "wait")
    /\ UNCHANGED <<wait, notify, list, ticket, sawWait, chain, owed>>

\* NotifyList.Wait: return if notified already, else queue and park.
Already_Unchecked(t) == FALSE
Already(t) == less(t, notify)
ListWait(g) ==
    /\ stage[g] = "wait"
    /\ IF Already(ticket[g]) THEN UNCHANGED list /\ Enter(g, "relock")
                             ELSE list' = Append(list, g) /\ Enter(g, "parked")
    /\ UNCHANGED <<L, wait, notify, ticket, sawWait, chain, owed>>

-----------------------------------------------------------------------------
(* Signal and Broadcast, with or without L.                                *)

Back(g) == IF L = g THEN "locked" ELSE "idle"

\* The fast path loads wait, then notify.
Notify(g, how) ==
    /\ stage[g] \in {"idle", "locked"}
    /\ sawWait' = [sawWait EXCEPT ![g] = wait]
    /\ owed' = [owed EXCEPT ![g] = {h \in Parties : Pending(h)}]
    /\ Enter(g, how)
    /\ UNCHANGED <<L, wait, notify, list, ticket, chain>>

NoneNew_EmptyList(g) == list = << >>
NoneNew(g) == sawWait[g] = notify
FastPath(g) ==
    /\ stage[g] \in {"signal", "broadcast"}
    /\ IF NoneNew(g)
       THEN Enter(g, Back(g)) /\ owed' = [owed EXCEPT ![g] = {}]
       ELSE /\ Enter(g, IF stage[g] = "signal" THEN "one" ELSE "all")
            /\ UNCHANGED owed
    /\ sawWait' = [sawWait EXCEPT ![g] = 0]
    /\ UNCHANGED <<L, wait, notify, list, ticket, chain>>

\* NotifyOne under the lock: the waiter with the next ticket is notified and, if
\* it is parked already, taken out of the list.
Next1_Head(i) == i = 1
Next1(i) == ticket[list[i]] = notify
NotifyOne(g) ==
    /\ stage[g] = "one"
    /\ IF notify = wait
       THEN Enter(g, Back(g)) /\ UNCHANGED <<notify, list, chain>>
       ELSE /\ notify' = Wrap(notify + 1)
            /\ \/ \E i \in DOMAIN list :
                     /\ Next1(i)
                     /\ chain' = [chain EXCEPT ![g] = <<list[i]>>]
                     /\ list'  = RemoveAt(list, i)
                     /\ Enter(g, "ready")
               \/ /\ ~\E i \in DOMAIN list : Next1(i)
                  /\ Enter(g, Back(g))
                  /\ UNCHANGED <<list, chain>>
    /\ owed' = [owed EXCEPT ![g] = {}]
    /\ UNCHANGED <<L, wait, ticket, sawWait>>

\* NotifyAll under the lock: detach the list, notify every ticket handed out.
NotifyAll(g) ==
    /\ stage[g] = "all"
    /\ chain' = [chain EXCEPT ![g] = list]
    /\ list'  = << >>
    /\ notify' = wait
    /\ owed' = [owed EXCEPT ![g] = {}]
    /\ Enter(g, "ready")
    /\ UNCHANGED <<L, wait, ticket, sawWait>>

\* goready of the next waiter of the chain, outside the lock.
Ready(g) ==
    /\ stage[g] = "ready"
    /\ IF chain[g] = << >> THEN Enter(g, Back(g)) /\ UNCHANGED chain
       ELSE /\ chain' = [chain EXCEPT ![g] = Tail(@)]
            /\ stage' = [stage EXCEPT ![Head(chain[g])] = "relock"]
    /\ UNCHANGED <<L, wait, notify, list, ticket, sawWait, owed>>

-----------------------------------------------------------------------------
NotifyStep(g) == FastPath(g) \/ NotifyOne(g) \/ NotifyAll(g) \/ Ready(g)
CondNext == \E g \in Parties :
    \/ LockL(g) \/ UnlockL(g) \/ ListAdd(g) \/ WaitUnlock(g) \/ ListWait(g)
    \/ (\E how \in {"signal", "broadcast"} : Notify(g, how)) \/ NotifyStep(g)

\* Calls run on, critical sections of L end, and a goroutine that wants L back
\* gets it (RegisteredGetsLock of Mutex).
CondFairness == \A g \in Parties :
    /\ WF_condVars(WaitUnlock(g) \/ ListWait(g) \/ NotifyStep(g))
    /\ SF_condVars(UnlockL(g) \/ (stage[g] = "relock" /\ LockL(g)))
CondBehavior == CondInit /\ [][CondNext]_condVars /\ CondFairness

-----------------------------------------------------------------------------
(* Properties.                                                             *)

\* Every variable has its type.
CondTypeOK ==
    /\ L \in Parties \cup {Nobody}
    /\ wait \in Tickets /\ notify \in Tickets
    /\ list \in Seq(Parties)
    /\ stage \in [Parties -> {"idle", "locked", "unlock", "wait", "parked", "relock", "signal",
                     "broadcast", "one", "all", "ready"}]
    /\ ticket \in [Parties -> Tickets] /\ sawWait \in [Parties -> Tickets]
    /\ chain \in [Parties -> Seq(Parties)]
    /\ owed \in [Parties -> SUBSET Parties]

\* A waiter sleeps for a reason: whoever is parked is in the list with a ticket not
\* yet notified, or in exactly one notifier's hands.
ParkedIsReachable == \A g \in Parties : stage[g] = "parked" =>
    \/ /\ Pending(g)
       /\ \E i \in DOMAIN list : list[i] = g
       /\ \A h \in Parties : ~Contains(chain[h], g)
    \/ /\ ~Pending(g)
       /\ ~\E i \in DOMAIN list : list[i] = g
       /\ \E h \in Parties : /\ Contains(chain[h], g)
                             /\ \A k \in Parties \ {h} : ~Contains(chain[k], g)

\* The ticket list implements the condition variable, wrap-around included.
HolderOf(t) == LET hs == {g \in Parties : Holds(g) /\ ticket[g] = t}
               IN  IF hs = {} THEN Nobody ELSE CHOOSE g \in hs : TRUE
absWaiting == [i \in 1..Wrap(wait - notify) |-> HolderOf(Wrap(notify + i - 1))]
absNotified == {g \in Parties : Holds(g) /\ ~Pending(g)}
Abs == INSTANCE CondSpec WITH G <- Parties, waiting <- absWaiting, notified <- absNotified
ImplementsCondSpec == Abs!Spec

\* No notification is lost: a Signal or Broadcast that returns without notifying
\* anyone finds that all who waited when it was called are notified by then.
NoLostNotification == [][\A g \in Parties :
    stage[g] \in {"signal", "broadcast", "one"} /\ stage'[g] \in {"idle", "locked"}
        /\ notify' = notify
    => \A h \in owed[g] : ~Pending(h)]_condVars

\* A notified waiter returns from Wait.
NotifiedReturns == \A g \in Parties : Holds(g) /\ ~Pending(g) ~> stage[g] = "locked"
=============================================================================
