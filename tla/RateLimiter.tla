---------------------------- MODULE RateLimiter ----------------------------
(***************************************************************************)
(* src/rate_limit.rs: a semaphore that bounds how many requests are in     *)
(* flight, and a mutex around the instant of the last start that spaces    *)
(* them.  Every clone of a limiter shares both; each clone has a           *)
(* min_interval of its own (with_min_interval changes one field of the     *)
(* clone it is called on), so the interval belongs to the task.            *)
(*                                                                         *)
(* Semaphore and mutex are tokio's: first come first served.  A permit     *)
(* given back while tasks wait goes to the first of them and is never free *)
(* in between; the task holds it from then on, even before it runs again.  *)
(***************************************************************************)
EXTENDS Integers, Sequences, FiniteSets, SequencesExt

CONSTANTS
    Tasks,      \* the acquire calls that may compete for the limiter
    Permits,    \* RateLimiter::new(max_concurrent), after max(1)
    Spaced,     \* tasks whose clone of the limiter has a min_interval
    Interval,   \* that interval, in ticks
    Longest,    \* a bound on every interval: time beyond it need not be told apart
    Nobody      \* no task

ASSUME LimiterAssumption ==
    /\ IsFiniteSet(Tasks)
    /\ Permits \in Nat \ {0}
    /\ Spaced \subseteq Tasks
    /\ Longest \in Nat
    /\ Interval \in [Spaced -> 0 .. Longest]
    /\ Nobody \notin Tasks

VARIABLES
    free,       \* permits nobody holds: Semaphore::available_permits
    waiters,    \* tasks queued for a permit, in order of arrival
    owner,      \* the task that holds the last_started mutex
    lockers,    \* tasks queued for that mutex, in order of arrival
    sinceLast,  \* ticks since *last_started, at most Longest; None counts as Longest
    rest,       \* ticks a task has still to sleep before it may start
    stage       \* where each task is in acquire()

limiterVars == <<free, waiters, owner, lockers, sinceLast, rest, stage>>

Stages == {"out", "queued", "granted", "locking", "locked", "spacing", "held"}

\* A task in one of these stages has a permit of its own.
Owning == Stages \ {"out", "queued"}

Owners == {t \in Tasks : stage[t] \in Owning}

LimiterInit ==
    /\ free = Permits
    /\ waiters = <<>>
    /\ owner = Nobody
    /\ lockers = <<>>
    /\ sinceLast = Longest
    /\ rest = [t \in Tasks |-> 0]
    /\ stage = [t \in Tasks |-> "out"]

\* The task a queue hands over to.
Heir(queue) == IF queue = <<>> THEN Nobody ELSE Head(queue)

\* A permit is given back: to the first waiter, or it becomes free.
ReturnPermit ==
    \/ /\ waiters = <<>>
       /\ free' = free + 1
       /\ UNCHANGED waiters
    \/ /\ waiters # <<>>
       /\ waiters' = Tail(waiters)
       /\ UNCHANGED free

\* The mutex is unlocked: its first waiter has it next.
Unlock ==
    /\ owner' = Heir(lockers)
    /\ lockers' = IF lockers = <<>> THEN <<>> ELSE Tail(lockers)

-----------------------------------------------------------------------------
\* First poll of acquire_owned(): take a free permit or join the queue.
Acquire(t) ==
    /\ stage[t] = "out"
    /\ \/ /\ free > 0
          /\ free' = free - 1
          /\ stage' = [stage EXCEPT ![t] = "granted"]
          /\ UNCHANGED waiters
       \/ /\ free = 0
          /\ waiters' = Append(waiters, t)
          /\ stage' = [stage EXCEPT ![t] = "queued"]
          /\ UNCHANGED free
    /\ UNCHANGED <<owner, lockers, sinceLast, rest>>

\* Fault: the permit goes back at once, as with `let _ = permit`.
TryAcquireLost(t) ==
    /\ stage[t] = "out"
    /\ free > 0
    /\ stage' = [stage EXCEPT ![t] = "held"]
    /\ UNCHANGED <<free, waiters, owner, lockers, sinceLast, rest>>

\* try_acquire(): a free permit or RateLimited at once, and no spacing. The
\* refusal changes nothing and is no step.
TryAcquire(t) ==
    /\ stage[t] = "out"
    /\ free > 0
    /\ free' = free - 1
    /\ stage' = [stage EXCEPT ![t] = "held"]
    /\ UNCHANGED <<waiters, owner, lockers, sinceLast, rest>>

\* Fault: the last start is read without the mutex.
ProceedUnlocked(t) ==
    /\ stage[t] = "granted"
    /\ owner' = t
    /\ stage' = [stage EXCEPT ![t] = IF t \in Spaced THEN "locked" ELSE "held"]
    /\ UNCHANGED <<free, waiters, lockers, sinceLast, rest>>

\* The task runs with its permit: without an interval acquire() returns the
\* guard, with one it locks last_started or queues for it.
Proceed(t) ==
    /\ stage[t] = "granted"
    /\ \/ /\ t \notin Spaced
          /\ stage' = [stage EXCEPT ![t] = "held"]
          /\ UNCHANGED <<owner, lockers>>
       \/ /\ t \in Spaced
          /\ owner = Nobody
          /\ owner' = t
          /\ stage' = [stage EXCEPT ![t] = "locked"]
          /\ UNCHANGED lockers
       \/ /\ t \in Spaced
          /\ owner # Nobody
          /\ lockers' = Append(lockers, t)
          /\ stage' = [stage EXCEPT ![t] = "locking"]
          /\ UNCHANGED owner
    /\ UNCHANGED <<free, waiters, sinceLast, rest>>

\* Under the mutex: how long ago was the last start, how long to sleep. The
\* mutex stays locked while the task sleeps.
Measure(t) ==
    /\ stage[t] = "locked"
    /\ rest' = [rest EXCEPT ![t] = IF sinceLast < Interval[t]
                                   THEN Interval[t] - sinceLast ELSE 0]
    /\ stage' = [stage EXCEPT ![t] = "spacing"]
    /\ UNCHANGED <<free, waiters, owner, lockers, sinceLast>>

\* Fault: the mutex stays locked until the request ends, and nobody is told.
StartLocked(t) ==
    /\ stage[t] = "spacing"
    /\ rest[t] = 0
    /\ sinceLast' = 0
    /\ stage' = [stage EXCEPT ![t] = "held"]
    /\ UNCHANGED <<free, waiters, owner, lockers, rest>>

\* The sleep is over: record the start, unlock, return the guard.
Start(t) ==
    /\ stage[t] = "spacing"
    /\ rest[t] = 0
    /\ sinceLast' = 0
    /\ Unlock
    /\ stage' = [x \in Tasks |-> IF x = t THEN "held"
                                 ELSE IF x = Heir(lockers) THEN "locked"
                                 ELSE stage[x]]
    /\ UNCHANGED <<free, waiters, rest>>

\* Fault: the permit goes to the last of the tasks that wait.
ReleaseToLast(t) ==
    /\ stage[t] = "held"
    /\ IF waiters = <<>> THEN free' = free + 1 /\ UNCHANGED waiters
                         ELSE waiters' = Front(waiters) /\ UNCHANGED free
    /\ stage' = [x \in Tasks |-> IF x = t THEN "out"
                                 ELSE IF waiters # <<>> /\ x = Last(waiters) THEN "granted"
                                 ELSE stage[x]]
    /\ UNCHANGED <<owner, lockers, sinceLast, rest>>

\* The guard is dropped.
Release(t) ==
    /\ stage[t] = "held"
    /\ ReturnPermit
    /\ stage' = [x \in Tasks |-> IF x = t THEN "out"
                                 ELSE IF x = Heir(waiters) THEN "granted"
                                 ELSE stage[x]]
    /\ UNCHANGED <<owner, lockers, sinceLast, rest>>

\* Fault: the permit is forgotten.
DropLockOnly(t) ==
    /\ stage[t] \in {"locked", "spacing"}
    /\ Unlock
    /\ rest' = [rest EXCEPT ![t] = 0]
    /\ stage' = [x \in Tasks |-> IF x = t THEN "out"
                                 ELSE IF x = Heir(lockers) THEN "locked"
                                 ELSE stage[x]]
    /\ UNCHANGED <<free, waiters, sinceLast>>

(***************************************************************************)
(* The future of acquire() is dropped before it returned, and what it      *)
(* holds with it: its place in the queue for a permit, or its permit and   *)
(* its place in the queue for the mutex, or its permit and the mutex.      *)
(***************************************************************************)
LeaveQueue(t) ==
    /\ stage[t] = "queued"
    /\ \E i \in DOMAIN waiters : waiters[i] = t /\ waiters' = RemoveAt(waiters, i)
    /\ stage' = [stage EXCEPT ![t] = "out"]
    /\ UNCHANGED <<free, owner, lockers, sinceLast, rest>>

DropPermit(t) ==
    /\ \/ /\ stage[t] = "granted"
          /\ UNCHANGED lockers
       \/ /\ stage[t] = "locking"
          /\ \E i \in DOMAIN lockers : lockers[i] = t /\ lockers' = RemoveAt(lockers, i)
    /\ ReturnPermit
    /\ stage' = [x \in Tasks |-> IF x = t THEN "out"
                                 ELSE IF x = Heir(waiters) THEN "granted"
                                 ELSE stage[x]]
    /\ UNCHANGED <<owner, sinceLast, rest>>

DropLock(t) ==
    /\ stage[t] \in {"locked", "spacing"}
    /\ Unlock
    /\ ReturnPermit
    /\ rest' = [rest EXCEPT ![t] = 0]
    /\ stage' = [x \in Tasks |-> IF x = t THEN "out"
                                 ELSE IF x = Heir(waiters) THEN "granted"
                                 ELSE IF x = Heir(lockers) THEN "locked"
                                 ELSE stage[x]]
    /\ UNCHANGED sinceLast

Cancel(t) == LeaveQueue(t) \/ DropPermit(t) \/ DropLock(t)

\* Time passes, for the sleepers too.
Tick ==
    /\ sinceLast < Longest
    /\ sinceLast' = sinceLast + 1
    /\ rest' = [t \in Tasks |-> IF rest[t] > 0 THEN rest[t] - 1 ELSE 0]
    /\ UNCHANGED <<free, waiters, owner, lockers, stage>>

LimiterStep(t) ==
    \/ Acquire(t) \/ TryAcquire(t) \/ Proceed(t) \/ Measure(t) \/ Start(t)
    \/ Release(t) \/ Cancel(t)

LimiterNext == Tick \/ \E t \in Tasks : LimiterStep(t)

LimiterSpec == LimiterInit /\ [][LimiterNext]_limiterVars

(***************************************************************************)
(* What the scheduler owes: a task that can run is polled, clocks tick,    *)
(* and a guard is dropped some day, because the request it was taken for   *)
(* ends (the Send module shows that it does).  Nobody owes a cancellation  *)
(* or another acquire.                                                     *)
(***************************************************************************)
LimiterFairness ==
    /\ WF_limiterVars(Tick)
    /\ \A t \in Tasks : /\ WF_limiterVars(Proceed(t))
                        /\ WF_limiterVars(Measure(t))
                        /\ WF_limiterVars(Start(t))
                        /\ WF_limiterVars(Release(t))

FairLimiterSpec == LimiterSpec /\ LimiterFairness
-----------------------------------------------------------------------------
LimiterTypeOK ==
    /\ free \in 0 .. Permits
    /\ waiters \in Seq(Tasks)
    /\ owner \in Tasks \cup {Nobody}
    /\ lockers \in Seq(Tasks)
    /\ sinceLast \in 0 .. Longest
    /\ rest \in [Tasks -> 0 .. Longest]
    /\ stage \in [Tasks -> Stages]

\* Each permit is free or with one task: cancelling acquire() at any of its
\* await points neither loses a permit nor makes one (rate_limit.rs:76-96).
PermitsConserved == free + Cardinality(Owners) = Permits

\* A permit never lies unused while a task waits for one.
NoIdlePermit == free > 0 => waiters = <<>>

\* The queue for permits holds the queued tasks, each once.
QueueIsStage ==
    /\ \A t \in Tasks : stage[t] = "queued" <=> \E i \in DOMAIN waiters : waiters[i] = t
    /\ \A i, j \in DOMAIN waiters : waiters[i] = waiters[j] => i = j

\* The mutex around last_started has one owner at most, who sleeps or is about
\* to, and its queue holds the tasks that lock it, each once.
MutexIsStage ==
    /\ \A t \in Tasks : stage[t] \in {"locked", "spacing"} <=> owner = t
    /\ \A t \in Tasks : stage[t] = "locking" <=> \E i \in DOMAIN lockers : lockers[i] = t
    /\ \A i, j \in DOMAIN lockers : lockers[i] = lockers[j] => i = j
    /\ owner = Nobody => lockers = <<>>
    /\ \A t \in Tasks : stage[t] \in {"locking", "locked", "spacing"} => t \in Spaced

\* What a sleeper has slept and has still to sleep cover its interval.
SleepCoversInterval ==
    \A t \in Tasks : stage[t] = "spacing" => sinceLast + rest[t] >= Interval[t]

\* The inductive invariant: a permit handed over by any release or cancellation
\* belongs to the task that queued first, who is no longer in the queue; the
\* mutex, likewise, and its owner has slept enough when its sleep is over
\* (rate_limit.rs:76-96).
LimiterInv ==
    /\ PermitsConserved
    /\ NoIdlePermit
    /\ QueueIsStage
    /\ MutexIsStage
    /\ SleepCoversInterval

\* Neither a later acquire nor a try_acquire passes a task that waits.
NoOvertaking ==
    [][\A i \in DOMAIN waiters :
          stage'[waiters[i]] = "queued" =>
             \A t \in Tasks \ {waiters[j] : j \in 1 .. i} :
                stage[t] \in {"out", "queued"} => stage'[t] \in {"out", "queued"}
      ]_limiterVars

\* A limiter is a first-come-first-served pool of permits.
Pool == INSTANCE PermitPool WITH holders <- Owners, line <- waiters

IsPermitPool == Pool!PoolSpec

\* A task that waits for a permit gets through acquire() or gives up.
NoStarvation ==
    \A t \in Tasks : stage[t] \in Stages \ {"out", "held"} ~> stage[t] \in {"out", "held"}
=============================================================================
