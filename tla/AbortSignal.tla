---------------------------- MODULE AbortSignal ----------------------------
(***************************************************************************)
(* src/abort.rs: an AtomicBool and a tokio Notify shared by controllers    *)
(* that call abort() and tasks that await cancelled().                     *)
(*                                                                         *)
(* Of Notify the code uses notify_waiters() and notified().  A Notified    *)
(* future remembers how many notify_waiters() calls there were when it was *)
(* made, and is ready once there was another: it need not have been polled *)
(* in between, but a call made before it existed does not count.           *)
(***************************************************************************)
EXTENDS Naturals, FiniteSets

CONSTANTS
    Waiters,    \* tasks that call cancelled(), each once
    Aborters    \* threads that call abort(), each at most once

ASSUME AbortAssumption == IsFiniteSet(Aborters)

VARIABLES
    flag,       \* Inner::aborted
    calls,      \* notify_waiters() calls so far
    seen,       \* calls when the task's Notified was made
    waiter,     \* where each task is in cancelled()
    aborter     \* where each thread is in abort()

vars == <<flag, calls, seen, waiter, aborter>>

Init ==
    /\ flag = FALSE
    /\ calls = 0
    /\ seen = [w \in Waiters |-> 0]
    /\ waiter = [w \in Waiters |-> "out"]
    /\ aborter = [a \in Aborters |-> "out"]

-----------------------------------------------------------------------------
\* Faults: the flag is not stored; the waiters are not notified.
StoreNothing(a) ==
    /\ aborter[a] = "out"
    /\ aborter' = [aborter EXCEPT ![a] = "storing"]
    /\ UNCHANGED <<flag, calls, seen, waiter>>

NotifyNobody(a) ==
    /\ aborter[a] = "storing"
    /\ aborter' = [aborter EXCEPT ![a] = "called"]
    /\ UNCHANGED <<flag, calls, seen, waiter>>

\* abort(): store, then notify. The order is what the waiters rely on.
StoreFlag(a) ==
    /\ aborter[a] = "out"
    /\ flag' = TRUE
    /\ aborter' = [aborter EXCEPT ![a] = "storing"]
    /\ UNCHANGED <<calls, seen, waiter>>

NotifyWaiters(a) ==
    /\ aborter[a] = "storing"
    /\ calls' = calls + 1
    /\ aborter' = [aborter EXCEPT ![a] = "called"]
    /\ UNCHANGED <<flag, seen, waiter>>

\* cancelled() is polled for the first time.
Call(w) ==
    /\ waiter[w] = "out"
    /\ waiter' = [waiter EXCEPT ![w] = "loop"]
    /\ UNCHANGED <<flag, calls, seen, aborter>>

\* The first look at the flag in the loop, and the one after waking up.
Check(w) ==
    /\ \/ /\ waiter[w] = "loop"
          /\ waiter' = [waiter EXCEPT ![w] = IF flag THEN "resolved" ELSE "checked"]
       \/ /\ waiter[w] = "woken"
          /\ waiter' = [waiter EXCEPT ![w] = IF flag THEN "resolved" ELSE "loop"]
    /\ UNCHANGED <<flag, calls, seen, aborter>>

\* notified(): from here on a notify_waiters() call is noticed.
Register(w) ==
    /\ waiter[w] = "checked"
    /\ seen' = [seen EXCEPT ![w] = calls]
    /\ waiter' = [waiter EXCEPT ![w] = "waiting"]
    /\ UNCHANGED <<flag, calls, aborter>>

\* .await ends: there was a call since.
Wake(w) ==
    /\ waiter[w] = "waiting"
    /\ calls # seen[w]
    /\ waiter' = [waiter EXCEPT ![w] = "woken"]
    /\ UNCHANGED <<flag, calls, seen, aborter>>

\* The other branch of a select! wins and the future is dropped.
Drop(w) ==
    /\ waiter[w] = "waiting"
    /\ waiter' = [waiter EXCEPT ![w] = "dropped"]
    /\ UNCHANGED <<flag, calls, seen, aborter>>

Cancelled(w) == Check(w) \/ Register(w) \/ Wake(w)

Next ==
    \/ \E a \in Aborters : StoreFlag(a) \/ NotifyWaiters(a)
    \/ \E w \in Waiters : Call(w) \/ Cancelled(w) \/ Drop(w)

Spec == Init /\ [][Next]_vars

\* A task that can run is polled, a thread inside abort() finishes it. Nobody
\* has to call abort(), and nobody to drop a future.
FairSpec ==
    /\ Spec
    /\ \A a \in Aborters : WF_vars(NotifyWaiters(a))
    /\ \A w \in Waiters : WF_vars(Cancelled(w))

-----------------------------------------------------------------------------
TypeOK ==
    /\ flag \in BOOLEAN
    /\ calls \in 0 .. Cardinality(Aborters)
    /\ seen \in [Waiters -> 0 .. Cardinality(Aborters)]
    /\ waiter \in [Waiters -> {"out", "loop", "checked", "waiting", "woken",
                               "resolved", "dropped"}]
    /\ aborter \in [Aborters -> {"out", "storing", "called"}]

Gone(w) == waiter[w] \in {"resolved", "dropped"}

\* cancelled() resolves only after an abort, and a woken task never goes back
\* to sleep: every wake-up finds the flag set (abort.rs:57-58).
WakesForAReason ==
    \A w \in Waiters : waiter[w] \in {"woken", "resolved"} => flag

\* A task asleep when abort() is called resolves, or its future is dropped.
SleeperIsWoken ==
    \A w \in Waiters : [](waiter[w] = "waiting" /\ ~flag => [](flag => <>Gone(w)))

\* "Resolve once the paired controller aborts" (abort.rs:88): whoever is inside
\* cancelled() when the flag is set resolves.
AbortResolves ==
    \A w \in Waiters : flag /\ waiter[w] # "out" ~> Gone(w)
=============================================================================
