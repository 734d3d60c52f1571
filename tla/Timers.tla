------------------------------- MODULE Timers -------------------------------
(***************************************************************************)
(* Timers: the heap of parked sleepers and sysmon's loop over it           *)
(* (runtime/sysmon.rs), under Sleep, Timer and AfterFunc (time/sleep.rs)   *)
(* and Ticker (time/tick.rs).  A timer is a goroutine parked on the heap;  *)
(* its token decides between sysmon (FIRED) and timer_cancel (CANCELLED),  *)
(* and the winner readies the goroutine.  Nobody takes the heap entry of a *)
(* cancelled park out: it is skipped when it comes due.                    *)
(*                                                                         *)
(* sysmon reads the clock once a round and judges by that reading what is  *)
(* due and how long to nap.  Deadlines count from that reading, so that    *)
(* time may pass for ever; how long one is overdue is not told apart.  A   *)
(* token and the goroutine it was made for have one name.                  *)
(***************************************************************************)
EXTENDS Naturals, SequencesExt

CONSTANTS Tok,         \* tokens, and their goroutines
          D,           \* durations
          Nap,         \* FORCE_PREEMPT_NS: sysmon naps no longer
          MaxHeap,     \* bound: entries in the heap
          MaxScan,     \* bound: time of a round of sysmon outside its nap
          MaxResets,   \* bound: Resets of the Ticker
          None

Obj == {"timer", "ticker"}       \* a Timer or AfterFunc, and a Ticker

ASSUME TimersAssumption ==
    /\ D \subseteq Nat /\ Nap \in Nat \ {0} /\ MaxHeap \in Nat \ {0}
    /\ MaxScan \in Nat \ {0} /\ MaxResets \in Nat /\ None \notin Tok \cup Obj

VARIABLES
    st, tg,                      \* each token's state; is its g set?
    kind, dur, pc,               \* each goroutine: what it is; its duration or, at "push", its
                                 \* deadline; its control state
    heap,                        \* TIMER_HEAP: [left, g], the earliest deadline first
    obj, cur,                    \* is it a Timer or a Ticker; the token in it
    stopped, period,             \* the Ticker's flag and period
    call, upc,                   \* the user's call: the duration for a new token; control state
    mon, sg, until, signalled,   \* sysmon: control state, G to ready, end of nap; SYSMON_PARK # sample
    late,                        \* time since sysmon read the clock
    broken,                      \* goready met a G that is not parked
    resets, stopWon,             \* Resets of the Ticker; Timers whose Stop said true (not in the code)
    took                         \* what late was when sysmon began its nap (not in the code)

tokens == <<st, tg>>
sleepers == <<kind, dur, pc>>
ticker == <<stopped, period>>
user == <<obj, cur, call, upc>>
sysmon == <<mon, sg, until, signalled, late, took>>
ghosts == <<resets, stopWon>>
vars == <<tokens, sleepers, heap, ticker, user, sysmon, broken, ghosts>>

Init ==
    /\ st = [k \in Tok |-> "armed"] /\ tg = [k \in Tok |-> FALSE]
    /\ kind = [k \in Tok |-> None] /\ dur = [k \in Tok |-> 0]
    /\ pc = [k \in Tok |-> "dead"]
    /\ heap = <<>>
    /\ obj = None /\ cur = None /\ stopped = FALSE /\ period = 0
    /\ call = None /\ upc = "idle"
    /\ mon = "scan" /\ sg = None /\ until = 0 /\ signalled = FALSE /\ late = 0 /\ took = 0
    /\ broken = FALSE /\ resets = 0 /\ stopWon = {}

Entries == ToSet(heap)
Left == {e.left : e \in Entries}
Least(S) == CHOOSE n \in S : \A m \in S : n <= m
Goto(k, l) == pc' = [pc EXCEPT ![k] = l]

\* goready: its debug assertion says that the G is parked.
Goready(k) ==
    IF pc[k] = "parked" THEN Goto(k, "woken") /\ UNCHANGED broken
                        ELSE broken' = TRUE /\ UNCHANGED pc

\* Memory of a token is free once its goroutine is dead and nothing refers to it.
Free == {k \in Tok : pc[k] = "dead" /\ cur # k /\ \A e \in Entries : e.g # k}

\* A new token, and go!() of the goroutine that will park with it.
Spawn(k, o, d) ==
    /\ k = CHOOSE f \in Free : TRUE
    /\ st' = [st EXCEPT ![k] = "armed"] /\ tg' = [tg EXCEPT ![k] = FALSE]
    /\ kind' = [kind EXCEPT ![k] = o] /\ dur' = [dur EXCEPT ![k] = d]
    /\ Goto(k, IF o = "ticker" THEN "top" ELSE "park")

-----------------------------------------------------------------------------
(* The sleeping goroutine.                                                 *)

Sleep(d) == \E k \in Free :
    /\ d > 0 /\ Spawn(k, "sleep", d)
    /\ UNCHANGED <<heap, ticker, user, sysmon, broken, ghosts>>

\* spawn_tick_loop: the head of the loop.
Top(k) ==
    /\ pc[k] = "top"
    /\ IF stopped THEN Goto(k, "dead") /\ UNCHANGED dur
       ELSE Goto(k, "park") /\ dur' = [dur EXCEPT ![k] = period]
    /\ UNCHANGED <<tokens, kind, heap, ticker, user, sysmon, broken, ghosts>>

\* timer_park, timer_park_cancellable: no wait at all, or the deadline, by a reading of
\* the clock before the lock.
Park(k) ==
    /\ pc[k] = "park"
    /\ IF dur[k] = 0
       THEN /\ st' = [st EXCEPT ![k] = IF @ = "armed" THEN "fired" ELSE @]
            /\ Goto(k, "woken") /\ UNCHANGED dur
       ELSE dur' = [dur EXCEPT ![k] = late + @] /\ Goto(k, "push") /\ UNCHANGED st
    /\ UNCHANGED <<tg, kind, heap, ticker, user, sysmon, broken, ghosts>>

\* ... and one critical section from the look at the state to the committed park.
\* sysmon is signalled when the deadline is the earliest.
StillArmed_Unchecked(k) == TRUE
StillArmed(k) == st[k] = "armed"
NeedWake_OnlyFirst(d) == heap = <<>>
NeedWake(d) == \A n \in Left : d < n
Ordered(h) == \A i \in 1..Len(h) - 1 : h[i].left <= h[i + 1].left
Push(k) ==
    /\ pc[k] = "push" /\ dur' = [dur EXCEPT ![k] = 0]
    /\ IF kind[k] # "sleep" /\ ~StillArmed(k)
       THEN Goto(k, "woken") /\ UNCHANGED <<tg, heap, signalled>>
       ELSE /\ Len(heap) < MaxHeap
            /\ tg' = [tg EXCEPT ![k] = kind[k] # "sleep"]
            /\ signalled' = (signalled \/ NeedWake(dur[k]))
            /\ \E i \in 1..Len(heap) + 1 :
                  heap' = InsertAt(heap, i, [left |-> dur[k], g |-> k]) /\ Ordered(heap')
            /\ Goto(k, "parked")
    /\ UNCHANGED <<st, kind, ticker, user, mon, sg, until, late, took, broken, ghosts>>

\* After the park: Sleep returns; a timer that fired delivers, a cancelled one exits;
\* the ticker looks at its flag in either case.
Woken(k) ==
    /\ pc[k] = "woken"
    /\ Goto(k, CASE kind[k] = "sleep" -> "dead"
                 [] kind[k] = "timer" -> IF st[k] = "fired" THEN "send" ELSE "dead"
                 [] kind[k] = "ticker" -> IF stopped THEN "dead"
                                          ELSE IF st[k] = "fired" THEN "send" ELSE "rearm")
    /\ stopWon' = IF pc'[k] = "dead" THEN stopWon \ {k} ELSE stopWon
    /\ UNCHANGED <<tokens, kind, dur, heap, ticker, user, sysmon, broken, resets>>

\* The tick, or AfterFunc's f.
Send(k) ==
    /\ pc[k] = "send"
    /\ Goto(k, IF kind[k] = "ticker" THEN "rearm" ELSE "dead")
    /\ UNCHANGED <<tokens, kind, dur, heap, ticker, user, sysmon, broken, ghosts>>

\* TimerToken::rearm: g is nulled first, then the state is ARMED again.
Rearm(k) ==
    /\ pc[k] = "rearm" /\ tg' = [tg EXCEPT ![k] = FALSE] /\ Goto(k, "rearm2")
    /\ UNCHANGED <<st, kind, dur, heap, ticker, user, sysmon, broken, ghosts>>
RearmState(k) ==
    /\ pc[k] = "rearm2" /\ st' = [st EXCEPT ![k] = "armed"] /\ Goto(k, "top")
    /\ UNCHANGED <<tg, kind, dur, heap, ticker, user, sysmon, broken, ghosts>>

-----------------------------------------------------------------------------
(* The user of a Timer or of a Ticker.                                     *)

\* NewTimer, AfterFunc, After, NewTicker.
New(o, d) == \E k \in Free :
    /\ obj = None /\ (o = "ticker" => d > 0)
    /\ Spawn(k, o, d)
    /\ obj' = o /\ cur' = k
    /\ period' = IF o = "ticker" THEN d ELSE period
    /\ UNCHANGED <<heap, stopped, call, upc, sysmon, broken, ghosts>>

Begin(d, l) == upc = "idle" /\ upc' = l /\ call' = d
End == upc' = "idle" /\ call' = None

\* Stop: the Ticker's flag goes up before the cancel.  Reset: a Timer is cancelled
\* and gets a new token; a Ticker's period is published first.
Stop ==
    /\ obj # None /\ Begin(None, "cancel")
    /\ stopped' = (stopped \/ obj = "ticker")
    /\ UNCHANGED <<tokens, sleepers, heap, period, obj, cur, sysmon, broken, ghosts>>

ResetTimer(d) ==
    /\ obj = "timer" /\ Begin(d, "cancel")
    /\ UNCHANGED <<tokens, sleepers, heap, ticker, obj, cur, sysmon, broken, ghosts>>

ResetTicker(d) ==
    /\ obj = "ticker" /\ d > 0 /\ period' = d
    /\ IF stopped THEN Begin(d, "clear") ELSE Begin(None, "cancel")
    /\ resets < MaxResets /\ resets' = resets + 1
    /\ UNCHANGED <<tokens, sleepers, heap, stopped, obj, cur, sysmon, broken, stopWon>>

\* A stopped Ticker is started again: the flag comes down, then a new token and loop.
Clear ==
    /\ upc = "clear" /\ upc' = "spawn"
    /\ stopped' = FALSE
    /\ UNCHANGED <<tokens, sleepers, heap, period, obj, cur, call, sysmon, broken, ghosts>>

\* timer_cancel's critical section.
Won_Always(k) == TRUE
Won(k) == st[k] = "armed"
AfterCancel == IF call = None THEN End ELSE upc' = "spawn" /\ UNCHANGED call
Cancel ==
    LET k == cur IN
    /\ upc = "cancel"
    /\ st' = IF Won(k) THEN [st EXCEPT ![k] = "cancelled"] ELSE st
    /\ IF Won(k) /\ tg[k] THEN upc' = "ready" /\ UNCHANGED call ELSE AfterCancel
    /\ stopWon' = IF Won(k) /\ obj = "timer" THEN stopWon \cup {k} ELSE stopWon
    /\ UNCHANGED <<tg, sleepers, heap, ticker, obj, cur, sysmon, broken, resets>>

\* ... and the goready after it.
CancelReady ==
    /\ upc = "ready" /\ AfterCancel
    /\ Goready(cur)
    /\ UNCHANGED <<tokens, kind, dur, heap, ticker, obj, cur, sysmon, ghosts>>

Respawn == \E k \in Free :
    /\ upc = "spawn" /\ End
    /\ Spawn(k, obj, call)
    /\ cur' = k
    /\ UNCHANGED <<heap, ticker, obj, sysmon, broken, ghosts>>

-----------------------------------------------------------------------------
(* sysmon.                                                                 *)

\* Pop the first entry if it was due then; a token's entry counts only if the swap
\* ARMED -> FIRED wins.
Fires_Unchecked(k) == TRUE
Fires(k) == kind[k] = "sleep" \/ st[k] = "armed"
Pop ==
    LET k == Head(heap).g IN
    /\ mon = "scan" /\ sg = None /\ 0 \in Left
    /\ heap' = Tail(heap)
    /\ sg' = IF Fires(k) THEN k ELSE None
    /\ st' = IF Fires(k) THEN [st EXCEPT ![k] = "fired"] ELSE st
    /\ UNCHANGED <<tg, sleepers, ticker, user, mon, until, signalled, late, took, broken, ghosts>>

PopReady ==
    /\ sg # None /\ Goready(sg) /\ sg' = None
    /\ UNCHANGED <<tokens, kind, dur, heap, ticker, user, mon, until, signalled, late, took, ghosts>>

\* Nothing was due: nap from now on for as long as the earliest deadline was away when
\* the clock was read, at most Nap.
NapFor == Least(Left \cup {Nap})
StartNap ==
    /\ mon = "scan" /\ sg = None /\ 0 \notin Left
    /\ mon' = "nap" /\ until' = late + NapFor /\ took' = late
    /\ UNCHANGED <<tokens, sleepers, heap, ticker, user, sg, signalled, late, broken, ghosts>>

\* futex_wait returns at the time, or because the counter differs from the sample
\* taken before the heap was looked at.  The loop samples the counter anew and reads the
\* clock: the deadlines count from here.
Since(n) == IF n < late THEN 0 ELSE n - late
EndNap ==
    /\ mon = "nap" /\ (signalled \/ late >= until)
    /\ mon' = "scan" /\ signalled' = FALSE /\ until' = 0 /\ late' = 0 /\ took' = 0
    /\ heap' = [i \in DOMAIN heap |-> [heap[i] EXCEPT !.left = Since(@)]]
    /\ dur' = [k \in Tok |-> IF pc[k] = "push" THEN Since(dur[k]) ELSE dur[k]]
    /\ UNCHANGED <<tokens, kind, pc, ticker, user, sg, broken, ghosts>>

\* Time passes.
Clock ==
    /\ late < until + MaxScan /\ late' = late + 1
    /\ UNCHANGED <<tokens, sleepers, heap, ticker, user, mon, sg, until, signalled, took, broken, ghosts>>

-----------------------------------------------------------------------------
Run(k) == Top(k) \/ Park(k) \/ Push(k) \/ Woken(k) \/ Send(k) \/ Rearm(k) \/ RearmState(k)
Serve == Clear \/ Cancel \/ CancelReady \/ Respawn
Sysmon == Pop \/ PopReady \/ StartNap \/ EndNap

\* The failed assertion of goready ends the program.
Next ==
    /\ ~broken
    /\ \/ \E k \in Tok : Run(k)
       \/ \E d \in D : Sleep(d) \/ ResetTimer(d) \/ ResetTicker(d) \/ \E o \in Obj : New(o, d)
       \/ Stop \/ Serve \/ Sysmon \/ Clock

\* Goroutines and sysmon run on, and time passes.
Fairness ==
    /\ \A k \in Tok : WF_vars(~broken /\ Run(k))
    /\ WF_vars(~broken /\ Serve) /\ WF_vars(~broken /\ Sysmon) /\ WF_vars(~broken /\ Clock)
Spec == Init /\ [][Next]_vars /\ Fairness

-----------------------------------------------------------------------------
\* goready only ever meets a parked goroutine: sysmon and timer_cancel never both wake
\* a sleeper, and neither wakes one that has not parked yet or is gone.  The exception
\* is a Ticker that was Reset while it ran: its token is armed again while the entry of
\* the cancelled park is still in the heap.
OnlyResetBreaks == broken => resets > 0

\* A Timer whose Stop (or Reset) said true does not deliver, however late its old heap
\* entry comes due.
StopPreventsFire == \A k \in stopWon : pc[k] # "send"

\* sysmon sleeps past a deadline at most by the time its round took from the reading of
\* the clock to the nap; whatever is pushed while it scans or naps is not earlier than
\* what it looked at, or the nap is cut short.
OversleepsByScan == mon = "nap" /\ ~signalled => \A n \in Left : until <= n + took

\* Every sleeper wakes, by its deadline or by a cancel.
SleeperWakes == \A k \in Tok : pc[k] = "parked" ~> pc[k] # "parked" \/ broken
=============================================================================
