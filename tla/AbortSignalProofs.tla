------------------------- MODULE AbortSignalProofs -------------------------
(***************************************************************************)
(* For any number of waiters and any finite number of aborters: cancelled() *)
(* resolves, and its task is woken, for no other reason than an abort.     *)
(***************************************************************************)
EXTENDS AbortSignal, FiniteSetTheorems, TLAPS

\* The threads that are through with notify_waiters().
Called == {a \in Aborters : aborter[a] = "called"}

\* Calls are counted, each of them and no other; whoever is past the store left
\* the flag set; and no waiter saw more calls than there were.
CallsFollowStores ==
    /\ calls = Cardinality(Called)
    /\ \A a \in Aborters : aborter[a] # "out" => flag
    /\ \A w \in Waiters : seen[w] <= calls

IInv == TypeOK /\ CallsFollowStores /\ WakesForAReason

-----------------------------------------------------------------------------
\* There are no more calls than threads that make one.
LEMMA CalledFinite ==
    /\ IsFiniteSet(Called) /\ Cardinality(Called) \in Nat
    /\ Cardinality(Called) <= Cardinality(Aborters)
    /\ Cardinality(Aborters) \in Nat
<1>1. Called \in SUBSET Aborters
  BY DEF Called
<1> QED
  BY <1>1, AbortAssumption, FS_Subset, FS_CardinalityType

\* notify_waiters() is one call more, by a thread that had made none.
LEMMA OneMoreCall ==
    ASSUME TypeOK, NEW a \in Aborters, NotifyWaiters(a)
    PROVE  Cardinality(Called') = Cardinality(Called) + 1
<1>1. Called' = Called \cup {a} /\ a \notin Called
  BY DEF NotifyWaiters, Called, TypeOK
<1> QED
  BY <1>1, CalledFinite, FS_AddElement

\* A call there was, there was a store before it.
LEMMA CallsNeedTheFlag == IInv /\ calls # 0 => flag
<1> SUFFICES ASSUME IInv, calls # 0
             PROVE  flag
  OBVIOUS
<1>1. Called # {}
  BY FS_EmptySet DEF IInv, CallsFollowStores
<1> QED
  BY <1>1 DEF Called, IInv, CallsFollowStores

\* At first nobody called anything.
LEMMA InitIsSafe == Init => IInv
<1> SUFFICES ASSUME Init
             PROVE  IInv
  OBVIOUS
<1>1. Called = {}
  BY DEF Init, Called
<1>2. calls = Cardinality(Called)
  BY <1>1, FS_EmptySet DEF Init
<1>3. TypeOK
  <2> DEFINE N == Cardinality(Aborters)
  <2>1. N \in Nat
    BY CalledFinite
  <2> HIDE DEF N
  <2>2. calls \in 0 .. N /\ seen \in [Waiters -> 0 .. N]
    BY <2>1 DEF Init
  <2> QED
    BY <2>2 DEF Init, TypeOK, N
<1>4. CallsFollowStores /\ WakesForAReason
  BY <1>2 DEF Init, CallsFollowStores, WakesForAReason
<1> QED
  BY <1>3, <1>4 DEF IInv

\* The invariant is inductive.
LEMMA StepsStaySafe == IInv /\ [Next]_vars => IInv'
<1> SUFFICES ASSUME IInv, [Next]_vars
             PROVE  IInv'
  OBVIOUS
<1> USE DEF IInv, TypeOK, CallsFollowStores, WakesForAReason
<1>1. ASSUME NEW a \in Aborters, StoreFlag(a)
      PROVE  IInv'
  <2>1. Called' = Called
    BY <1>1 DEF StoreFlag, Called
  <2> QED
    BY <1>1, <2>1 DEF StoreFlag
<1>2. ASSUME NEW a \in Aborters, NotifyWaiters(a)
      PROVE  IInv'
  <2>1. calls' = Cardinality(Called')
    BY <1>2, OneMoreCall DEF NotifyWaiters
  <2>2. Cardinality(Called') <= Cardinality(Aborters)
    <3>1. Called' \in SUBSET Aborters
      BY DEF Called
    <3> QED
      BY <3>1, AbortAssumption, FS_Subset
  <2>3. flag
    BY <1>2 DEF NotifyWaiters
  <2> QED
    BY <1>2, <2>1, <2>2, <2>3, CalledFinite DEF NotifyWaiters
<1>3. UNCHANGED <<aborter, calls>> => Called' = Called
  BY DEF Called
<1>4. ASSUME NEW w \in Waiters, Call(w) \/ Cancelled(w) \/ Drop(w)
      PROVE  IInv'
  <2>1. CASE Call(w) \/ Check(w) \/ Drop(w)
    BY <1>3, <2>1 DEF Call, Check, Drop
  <2>2. CASE Register(w)
    BY <1>3, <2>2, CalledFinite DEF Register
  <2>3. CASE Wake(w)
    <3>1. calls # 0
      BY <2>3, CalledFinite DEF Wake
    <3> QED
      BY <1>3, <2>3, <3>1, CallsNeedTheFlag DEF Wake
  <2> QED
    BY <1>4, <2>1, <2>2, <2>3 DEF Cancelled
<1>5. CASE UNCHANGED vars
  BY <1>3, <1>5 DEF vars
<1> QED
  BY <1>1, <1>2, <1>4, <1>5 DEF Next

\* It holds, then, always.
LEMMA SignalIsSafe == Spec => []IInv
BY InitIsSafe, StepsStaySafe, PTL DEF Spec

\* Calls are counted within bounds and every task and thread is somewhere in its
\* call (abort.rs:56-59, 90-99).
THEOREM SignalIsWellTyped == Spec => []TypeOK
BY SignalIsSafe, PTL DEF IInv

\* cancelled() resolves only after an abort, and a task that was woken finds the
\* flag set (abort.rs:57-58), whatever the number of threads and tasks and
\* however store, notify, look and registration interleave.
THEOREM WakesAreForAReason == Spec => []WakesForAReason
BY SignalIsSafe, PTL DEF IInv
=============================================================================
