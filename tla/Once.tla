-------------------------------- MODULE Once --------------------------------
(***************************************************************************)
(* sync.Once (sync/once.rs): a done flag read without a lock, a mutex and  *)
(* a second look under it.  The body f may end its goroutine early: by a   *)
(* panic that a deferred recover!() consumes, or by runtime::Goexit.  The  *)
(* runtime then jumps to on_g_panic_aborted and the frames of do_slow are  *)
(* abandoned, their Drops not run (panic handler in runtime/mod.rs).       *)
(***************************************************************************)
EXTENDS Naturals

CONSTANTS Doers, NoOwner

ASSUME OnceAssumption == NoOwner \notin Doers

VARIABLES done, m,      \* the flag; the owner of the mutex
          at,
          runs,         \* how often f was entered (not in the code)
          finished      \* f has returned (not in the code)

onceVars == <<done, m, at, runs, finished>>

OnceInit ==
    /\ done = FALSE /\ m = NoOwner
    /\ at = [g \in Doers |-> "idle"]
    /\ runs = 0 /\ finished = FALSE

Moves(g, l) == at' = [at EXCEPT ![g] = l]

\* Do: the fast path.
Do(g) ==
    /\ at[g] = "idle" /\ Moves(g, "load")
    /\ UNCHANGED <<done, m, runs, finished>>

FastDone_Started(g) == runs > 0
FastDone(g) == done
Load(g) ==
    /\ at[g] = "load"
    /\ Moves(g, IF FastDone(g) THEN "return" ELSE "lock")
    /\ UNCHANGED <<done, m, runs, finished>>

\* do_slow: lock, look again, run f, set done, unlock.
DoSlow(g) ==
    /\ at[g] = "lock" /\ m = NoOwner
    /\ m' = g
    /\ Moves(g, "check")
    /\ UNCHANGED <<done, runs, finished>>

Recheck(g) == done
Check(g) ==
    /\ at[g] = "check"
    /\ IF Recheck(g) THEN Moves(g, "unlock") /\ UNCHANGED runs
                     ELSE Moves(g, "f") /\ runs' = runs + 1
    /\ UNCHANGED <<done, m, finished>>

F(g) ==
    /\ at[g] = "f" /\ Moves(g, "store")
    /\ finished' = TRUE
    /\ UNCHANGED <<done, m, runs>>

\* f panics and its goroutine's defers recover, or it calls Goexit: the goroutine
\* ends here, with the MutexGuard of do_slow never dropped.
Abandon(g) ==
    /\ at[g] = "f" /\ Moves(g, "dead")
    /\ UNCHANGED <<done, m, runs, finished>>

Store(g) ==
    /\ at[g] = "store" /\ Moves(g, "unlock")
    /\ done' = TRUE
    /\ UNCHANGED <<m, runs, finished>>

Freed_Kept == m
Freed == NoOwner
Unlock(g) ==
    /\ at[g] = "unlock" /\ Moves(g, "return")
    /\ m' = Freed
    /\ UNCHANGED <<done, runs, finished>>

Return(g) ==
    /\ at[g] = "return" /\ Moves(g, "idle")
    /\ UNCHANGED <<done, m, runs, finished>>

DoStep(g) == Load(g) \/ Check(g) \/ F(g) \/ Store(g) \/ Unlock(g) \/ Return(g)
OnceNext == \E g \in Doers : Do(g) \/ DoStep(g) \/ DoSlow(g) \/ Abandon(g)

\* Calls run on, f ends, and the mutex is granted in the end (RegisteredGetsLock).
OnceFairness == \A g \in Doers : WF_onceVars(DoStep(g)) /\ SF_onceVars(DoSlow(g))
OnceSpec == OnceInit /\ [][OnceNext]_onceVars /\ OnceFairness

-----------------------------------------------------------------------------
\* Every variable has its type, and f is entered at most once.
OnceTypeOK ==
    /\ done \in BOOLEAN /\ finished \in BOOLEAN
    /\ m \in Doers \cup {NoOwner}
    /\ at \in [Doers -> {"idle", "load", "lock", "check", "f", "store", "unlock", "return", "dead"}]
    /\ runs \in 0..1

\* f is entered at most once, and no call of Do returns before that call of f has.
ReturnsAfterF == runs <= 1 /\ \A g \in Doers : at[g] = "return" => finished

\* Every call of Do returns unless the body has been abandoned.
DoReturnsOrAbandoned == \A g \in Doers :
    at[g] = "lock" ~> (at[g] = "return" \/ \E h \in Doers : at[h] = "dead")
=============================================================================
