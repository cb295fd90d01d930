------------------------- MODULE RateLimiterProofs -------------------------
(***************************************************************************)
(* The rate limiter for any number of tasks and permits and any intervals: *)
(* no permit is lost or made, none lies idle while a task waits, starts    *)
(* are spaced, and the whole is a first-come-first-served pool.            *)
(***************************************************************************)
EXTENDS LimiterStarts, SequenceTheorems, FiniteSetTheorems, TLAPS

-----------------------------------------------------------------------------
(***************************************************************************)
(* First-come-first-served queues of distinct elements, as tokio's         *)
(* semaphore and mutex keep them: which elements a queue lists after one   *)
(* was appended, taken from its head, or taken from its middle.            *)
(***************************************************************************)

\* The queue q lists the elements of S, each of them once.
Lists(q, S) ==
    /\ \A i \in DOMAIN q : q[i] \in S
    /\ \A x \in S : \E i \in DOMAIN q : q[i] = x
    /\ \A i, j \in DOMAIN q : q[i] = q[j] => i = j

\* The empty queue lists nothing, and only the empty queue does.
LEMMA ListsEmpty ==
    ASSUME NEW T, NEW q \in Seq(T)
    PROVE  /\ Lists(<<>>, {})
           /\ \A S : q = <<>> /\ Lists(q, S) => S = {}
           /\ Lists(q, {}) => q = <<>>
  BY LenProperties, EmptySeq DEF Lists

\* A new element goes to the end of the queue (Semaphore and Mutex queue in
\* order of arrival).
LEMMA ListsAppend ==
    ASSUME NEW T, NEW q \in Seq(T), NEW S, NEW x \in T \ S, Lists(q, S)
    PROVE  /\ Append(q, x) \in Seq(T)
           /\ Lists(Append(q, x), S \cup {x})
<1>1. /\ Append(q, x) \in Seq(T)
      /\ Len(q) \in Nat
      /\ DOMAIN q = 1 .. Len(q)
      /\ DOMAIN Append(q, x) = 1 .. Len(q) + 1
      /\ \A i \in 1 .. Len(q) : Append(q, x)[i] = q[i]
      /\ Append(q, x)[Len(q) + 1] = x
  BY AppendProperties, LenProperties
<1>2. \A i \in 1 .. Len(q) + 1 : i \in 1 .. Len(q) \/ i = Len(q) + 1
  BY <1>1
<1> QED
  BY <1>1, <1>2 DEF Lists

\* The head of the queue is handed over to: the rest lists the others.
LEMMA ListsTail ==
    ASSUME NEW T, NEW q \in Seq(T), q # <<>>, NEW S, Lists(q, S)
    PROVE  /\ Head(q) = q[1]
           /\ 1 \in DOMAIN q
           /\ Head(q) \in S \cap T
           /\ Tail(q) \in Seq(T)
           /\ Lists(Tail(q), S \ {Head(q)})
<1>1. /\ Len(q) \in Nat \ {0}
      /\ DOMAIN q = 1 .. Len(q)
      /\ Head(q) = q[1]
      /\ Head(q) \in T
      /\ Tail(q) \in Seq(T)
      /\ DOMAIN Tail(q) = 1 .. Len(q) - 1
      /\ \A i \in 1 .. Len(q) - 1 : Tail(q)[i] = q[i + 1]
  BY HeadTailProperties, LenProperties, EmptySeq
<1>2. /\ \A i \in 1 .. Len(q) - 1 : i + 1 \in 1 .. Len(q) /\ i + 1 # 1
      /\ \A i \in 1 .. Len(q) : i # 1 => i - 1 \in 1 .. Len(q) - 1 /\ (i - 1) + 1 = i
  BY <1>1
<1>3. \A x \in S \ {Head(q)} : \E i \in DOMAIN Tail(q) : Tail(q)[i] = x
  <2>1. SUFFICES ASSUME NEW x \in S, x # Head(q)
                 PROVE  \E i \in 1 .. Len(q) - 1 : Tail(q)[i] = x
    BY <1>1
  <2>2. PICK i \in 1 .. Len(q) : q[i] = x
    BY <1>1 DEF Lists
  <2>3. i # 1
    BY <1>1, <2>1, <2>2
  <2> QED
    BY <1>1, <1>2, <2>2, <2>3
<1>4. \A i \in DOMAIN Tail(q) : Tail(q)[i] \in S \ {Head(q)}
  <2>1. SUFFICES ASSUME NEW i \in 1 .. Len(q) - 1
                 PROVE  Tail(q)[i] \in S /\ Tail(q)[i] # q[1]
    BY <1>1
  <2>2. i + 1 \in 1 .. Len(q) /\ 1 \in 1 .. Len(q) /\ i + 1 # 1
    BY <1>1
  <2> QED
    BY <1>1, <2>2 DEF Lists
<1>5. \A i, j \in DOMAIN Tail(q) : Tail(q)[i] = Tail(q)[j] => i = j
  <2>1. SUFFICES ASSUME NEW i \in 1 .. Len(q) - 1, NEW j \in 1 .. Len(q) - 1,
                        q[i + 1] = q[j + 1]
                 PROVE  i = j
    BY <1>1
  <2>2. i + 1 \in DOMAIN q /\ j + 1 \in DOMAIN q
    BY <1>1
  <2>3. i + 1 = j + 1
    BY <2>1, <2>2 DEF Lists
  <2> QED
    BY <2>3
<1> QED
  BY <1>1, <1>3, <1>4, <1>5 DEF Lists

\* Somebody in the middle of the queue leaves it: the others keep their places
\* relative to each other.
LEMMA ListsRemove ==
    ASSUME NEW T, NEW q \in Seq(T), NEW S, Lists(q, S), NEW k \in DOMAIN q
    PROVE  /\ RemoveAt(q, k) \in Seq(T)
           /\ Lists(RemoveAt(q, k), S \ {q[k]})
<1> DEFINE r == RemoveAt(q, k)
           a == SubSeq(q, 1, k - 1)
           b == SubSeq(q, k + 1, Len(q))
<1>1. /\ Len(q) \in Nat
      /\ DOMAIN q = 1 .. Len(q)
      /\ \A i \in 1 .. Len(q) : q[i] \in T
      /\ k \in 1 .. Len(q)
  BY LenProperties, ElementOfSeq
<1>2. /\ a \in Seq(T)
      /\ Len(a) = k - 1
      /\ \A i \in 1 .. k - 1 : a[i] = q[i]
  <2>1. /\ 1 \in Int /\ k - 1 \in Int
        /\ \A i \in 1 .. k - 1 : q[i] \in T
    BY <1>1
  <2>2. /\ a \in Seq(T)
        /\ Len(a) = IF 1 <= k - 1 THEN (k - 1) - 1 + 1 ELSE 0
        /\ \A i \in 1 .. (k - 1) - 1 + 1 : a[i] = q[1 + i - 1]
    BY <2>1, SubSeqProperties
  <2> QED
    BY <1>1, <2>2
<1>3. /\ b \in Seq(T)
      /\ Len(b) = Len(q) - k
      /\ \A i \in 1 .. Len(q) - k : b[i] = q[k + i]
  <2>1. /\ k + 1 \in Int /\ Len(q) \in Int
        /\ \A i \in k + 1 .. Len(q) : q[i] \in T
    BY <1>1
  <2>2. /\ b \in Seq(T)
        /\ Len(b) = IF k + 1 <= Len(q) THEN Len(q) - (k + 1) + 1 ELSE 0
        /\ \A i \in 1 .. Len(q) - (k + 1) + 1 : b[i] = q[(k + 1) + i - 1]
    BY <2>1, SubSeqProperties
  <2>3. /\ Len(q) - (k + 1) + 1 = Len(q) - k
        /\ \A i \in 1 .. Len(q) - k : (k + 1) + i - 1 = k + i
        /\ (IF k + 1 <= Len(q) THEN Len(q) - (k + 1) + 1 ELSE 0) = Len(q) - k
    BY <1>1
  <2> HIDE DEF b
  <2> QED
    BY <2>2, <2>3
<1>4. /\ r \in Seq(T)
      /\ Len(r) = Len(q) - 1
      /\ \A i \in 1 .. Len(q) - 1 : r[i] = IF i < k THEN q[i] ELSE q[i + 1]
  <2>1. /\ a \o b \in Seq(T)
        /\ Len(a \o b) = Len(a) + Len(b)
        /\ \A i \in 1 .. Len(a) + Len(b) :
              (a \o b)[i] = IF i <= Len(a) THEN a[i] ELSE b[i - Len(a)]
    BY <1>2, <1>3, ConcatProperties
  <2>2. r = a \o b
    BY DEF RemoveAt
  <2>3. ASSUME NEW i \in 1 .. Len(q) - 1
        PROVE  r[i] = IF i < k THEN q[i] ELSE q[i + 1]
    <3>1. CASE i < k
      BY <1>1, <1>2, <1>3, <2>1, <2>2, <3>1
    <3>2. CASE ~(i < k)
      <4>1. /\ i - Len(a) \in 1 .. Len(q) - k
            /\ k + (i - Len(a)) = i + 1
            /\ ~(i <= Len(a))
            /\ i \in 1 .. Len(a) + Len(b)
        BY <1>1, <1>2, <1>3, <3>2
      <4> QED
        BY <1>3, <2>1, <2>2, <3>2, <4>1
    <3> QED
      BY <3>1, <3>2
  <2>4. Len(r) = Len(q) - 1
    <3>1. (k - 1) + (Len(q) - k) = Len(q) - 1
      BY <1>1
    <3> QED
      BY <1>2, <1>3, <2>1, <2>2, <3>1
  <2> QED
    BY <2>1, <2>2, <2>3, <2>4
<1>5. DOMAIN r = 1 .. Len(q) - 1
  BY <1>4, LenProperties
<1> HIDE DEF r
<1>6. ASSUME NEW i \in DOMAIN r
      PROVE  \E m \in DOMAIN q : m # k /\ r[i] = q[m] /\ m = (IF i < k THEN i ELSE i + 1)
  BY <1>1, <1>4, <1>5
<1>7. \A i \in DOMAIN r : r[i] \in S \ {q[k]}
  BY <1>6 DEF Lists
<1>8. \A x \in S \ {q[k]} : \E i \in DOMAIN r : r[i] = x
  <2>1. SUFFICES ASSUME NEW x \in S, x # q[k]
                 PROVE  \E i \in DOMAIN r : r[i] = x
    OBVIOUS
  <2>2. PICK m \in DOMAIN q : q[m] = x
    BY DEF Lists
  <2>3. m # k
    BY <2>1, <2>2
  <2>4. CASE m < k
    BY <1>1, <1>4, <1>5, <2>2, <2>4
  <2>5. CASE m > k
    <3>1. m - 1 \in 1 .. Len(q) - 1 /\ ~(m - 1 < k) /\ (m - 1) + 1 = m
      BY <1>1, <2>5
    <3> QED
      BY <1>4, <1>5, <2>2, <3>1
  <2> QED
    BY <1>1, <2>3, <2>4, <2>5
<1>9. \A i, j \in DOMAIN r : r[i] = r[j] => i = j
  <2>1. SUFFICES ASSUME NEW i \in DOMAIN r, NEW j \in DOMAIN r, r[i] = r[j]
                 PROVE  i = j
    OBVIOUS
  <2>2. PICK m \in DOMAIN q : r[i] = q[m] /\ m = (IF i < k THEN i ELSE i + 1)
    BY <1>6
  <2>3. PICK n \in DOMAIN q : r[j] = q[n] /\ n = (IF j < k THEN j ELSE j + 1)
    BY <1>6
  <2>4. m = n
    BY <2>1, <2>2, <2>3 DEF Lists
  <2> QED
    BY <1>1, <1>5, <2>2, <2>3, <2>4
<1> QED
  BY <1>4, <1>7, <1>8, <1>9 DEF Lists, r

-----------------------------------------------------------------------------
(***************************************************************************)
(* The limiter.                                                            *)
(***************************************************************************)

Waiting == {t \in Tasks : stage[t] = "queued"}
Locking == {t \in Tasks : stage[t] = "locking"}
AtMutex == {"locked", "spacing"}

IInv == LimiterTypeOK /\ LimiterInv

-----------------------------------------------------------------------------
\* One element of a finite set makes way for another: the size stays.
LEMMA Exchange ==
    ASSUME NEW S, IsFiniteSet(S), NEW x \in S, NEW y, y \notin S
    PROVE  Cardinality((S \ {x}) \cup {y}) = Cardinality(S)
<1>1. /\ IsFiniteSet(S \ {x})
      /\ Cardinality(S \ {x}) = Cardinality(S) - 1
      /\ Cardinality(S) \in Nat
  BY FS_RemoveElement, FS_CardinalityType
<1>2. Cardinality((S \ {x}) \cup {y}) = Cardinality(S \ {x}) + 1
  <2>1. y \notin S \ {x}
    OBVIOUS
  <2> QED
    BY <1>1, <2>1, FS_AddElement
<1> QED
  BY <1>1, <1>2

\* The tasks that own permits are finitely many.
LEMMA OwnersFinite ==
    /\ IsFiniteSet(Owners) /\ Cardinality(Owners) \in Nat
    /\ IsFiniteSet(Owners') /\ Cardinality(Owners') \in Nat
<1>1. Owners \in SUBSET Tasks /\ Owners' \in SUBSET Tasks
  BY DEF Owners
<1> QED
  BY <1>1, LimiterAssumption, FS_Subset, FS_CardinalityType

\* The elements of a queue are tasks.
LEMMA QueueOfTasks ==
    ASSUME NEW q \in Seq(Tasks)
    PROVE  \A i \in DOMAIN q : q[i] \in Tasks
  BY LenProperties, ElementOfSeq

-----------------------------------------------------------------------------
PoolInv == PermitsConserved /\ NoIdlePermit /\ QueueIsStage

PoolClass(s) == IF s \in Owning THEN "in" ELSE s

\* PermitPool counts as this module does.
LEMMA PoolCardinality ==
    ASSUME NEW S
    PROVE  Pool!Cardinality(S) = Cardinality(S)
  BY DEF Pool!Cardinality, Cardinality

\* A step that changes no permit, no queue and nobody's share in them.
LEMMA PoolUnchanged ==
    ASSUME LimiterTypeOK, LimiterTypeOK', PoolInv,
           UNCHANGED <<free, waiters>>,
           \A x \in Tasks : PoolClass(stage'[x]) = PoolClass(stage[x])
    PROVE  PoolInv' /\ UNCHANGED Pool!poolVars
<1>1. Owners' = Owners /\ Waiting' = Waiting
  BY DEF Owners, Waiting, PoolClass, LimiterTypeOK, Stages, Owning
<1>2. Lists(waiters, Waiting)
  BY QueueOfTasks DEF PoolInv, QueueIsStage, LimiterTypeOK, Waiting, Lists
<1>3. QueueIsStage'
  BY <1>1, <1>2, QueueOfTasks DEF QueueIsStage, LimiterTypeOK, Waiting, Lists
<1>4. UNCHANGED Pool!poolVars
  BY <1>1 DEF Pool!poolVars
<1> QED
  BY <1>1, <1>3, <1>4 DEF PoolInv, PermitsConserved, NoIdlePermit
\* A permit goes back (Release, DropPermit, DropLock): to the first waiter or
\* among the free ones, and the pool sees a task leave.
LEMMA GiveBack ==
    ASSUME LimiterTypeOK, stage' \in [Tasks -> Stages], PoolInv, ReturnPermit,
           NEW t \in Tasks, stage[t] \in Owning, stage'[t] = "out",
           waiters # <<>> => stage'[Heir(waiters)] = "granted",
           \A x \in Tasks \ {t} :
              x # Heir(waiters) => PoolClass(stage'[x]) = PoolClass(stage[x])
    PROVE  /\ free' \in 0 .. Permits
           /\ waiters' \in Seq(Tasks)
           /\ PoolInv'
           /\ Pool!Leave(t)
<1> USE DEF PoolInv, Stages, Owning
<1>1. Lists(waiters, Waiting)
  BY QueueOfTasks DEF QueueIsStage, LimiterTypeOK, Waiting, Lists
<1>2. t \in Owners
  BY DEF Owners
<1>3. CASE waiters = <<>>
  <2>1. Heir(waiters) \notin Tasks /\ free' = free + 1 /\ waiters' = waiters
    BY <1>3, LimiterAssumption DEF Heir, ReturnPermit
  <2>2. Owners' = Owners \ {t} /\ Waiting' = Waiting
    BY <2>1 DEF Owners, Waiting, PoolClass, LimiterTypeOK
  <2>3. PermitsConserved' /\ free' \in 0 .. Permits
    <3>1. Cardinality(Owners') = Cardinality(Owners) - 1
      BY <1>2, <2>2, OwnersFinite, FS_RemoveElement
    <3> QED
      BY <2>1, <3>1, OwnersFinite, LimiterAssumption DEF PermitsConserved, LimiterTypeOK
  <2>4. QueueIsStage' /\ waiters' \in Seq(Tasks)
    BY <1>1, <2>1, <2>2, QueueOfTasks DEF QueueIsStage, LimiterTypeOK, Waiting, Lists
  <2>5. NoIdlePermit' /\ Pool!Leave(t)
    BY <1>2, <1>3, <2>1, <2>2 DEF NoIdlePermit, Pool!Leave
  <2> QED
    BY <2>3, <2>4, <2>5
<1>4. CASE waiters # <<>>
  <2> DEFINE h == Head(waiters)
  <2>1. Heir(waiters) = h /\ free' = free /\ waiters' = Tail(waiters)
    BY <1>4 DEF Heir, ReturnPermit
  <2>2. /\ h \in Waiting /\ h \in Tasks
        /\ Tail(waiters) \in Seq(Tasks)
        /\ Lists(Tail(waiters), Waiting \ {h})
    BY <1>1, <1>4, ListsTail DEF LimiterTypeOK
  <2> HIDE DEF h
  <2>3. h # t /\ h \notin Owners
    BY <2>2 DEF Waiting, Owners
  <2>4. Owners' = (Owners \ {t}) \cup {h} /\ Waiting' = Waiting \ {h}
    BY <1>4, <2>1, <2>2, <2>3 DEF Owners, Waiting, PoolClass, LimiterTypeOK
  <2>5. PermitsConserved' /\ free' \in 0 .. Permits
    <3>1. Cardinality(Owners') = Cardinality(Owners)
      BY <1>2, <2>3, <2>4, OwnersFinite, Exchange
    <3> QED
      BY <2>1, <3>1 DEF PermitsConserved, LimiterTypeOK
  <2>6. QueueIsStage' /\ waiters' \in Seq(Tasks)
    BY <2>1, <2>2, <2>4, QueueOfTasks DEF QueueIsStage, LimiterTypeOK, Waiting, Lists
  <2>7. NoIdlePermit'
    BY <1>4, <2>1 DEF NoIdlePermit, LimiterTypeOK
  <2>8. Pool!Leave(t)
    BY <1>2, <1>4, <2>1, <2>4 DEF Pool!Leave, h
  <2> QED
    BY <2>5, <2>6, <2>7, <2>8
<1> QED
  BY <1>3, <1>4

\* A task comes in (Acquire, TryAcquire): at once when a permit is free.
LEMMA TakeFree ==
    ASSUME LimiterTypeOK, stage' \in [Tasks -> Stages], PoolInv,
           NEW t \in Tasks, stage[t] = "out", stage'[t] \in Owning,
           free > 0, free' = free - 1, waiters' = waiters,
           \A x \in Tasks \ {t} : stage'[x] = stage[x]
    PROVE  free' \in 0 .. Permits /\ PoolInv' /\ Pool!Enter(t)
<1> USE DEF PoolInv, Stages, Owning
<1>1. Owners' = Owners \cup {t} /\ t \notin Owners /\ Waiting' = Waiting /\ t \notin Waiting
  BY DEF Owners, Waiting, LimiterTypeOK
<1>2. Cardinality(Owners') = Cardinality(Owners) + 1
  BY <1>1, OwnersFinite, FS_AddElement
<1>3. Lists(waiters, Waiting)
  BY QueueOfTasks DEF QueueIsStage, LimiterTypeOK, Waiting, Lists
<1>4. waiters = <<>>
  BY DEF NoIdlePermit
<1>5. free' \in 0 .. Permits /\ PermitsConserved' /\ NoIdlePermit'
  BY <1>2, <1>4, OwnersFinite, LimiterAssumption
     DEF PermitsConserved, NoIdlePermit, LimiterTypeOK
<1>6. QueueIsStage'
  BY <1>1, <1>3, QueueOfTasks DEF QueueIsStage, LimiterTypeOK, Waiting, Lists
<1>7. Pool!Enter(t)
  <2>1. Pool!Cardinality(Owners) < Permits
    BY OwnersFinite, PoolCardinality, LimiterAssumption DEF PermitsConserved, LimiterTypeOK
  <2>2. t \notin Pool!Range(waiters)
    BY <1>4, EmptySeq, LenProperties DEF Pool!Range
  <2>3. t \notin Owners \cup Pool!Range(waiters)
    BY <1>1, <2>2
  <2> QED
    BY ONLY <1>1, <1>4, <2>1, <2>3, waiters' = waiters DEF Pool!Enter
<1> QED
  BY <1>5, <1>6, <1>7
\* A task that finds no permit free joins the line (Acquire).
LEMMA JoinLine ==
    ASSUME LimiterTypeOK, stage' \in [Tasks -> Stages], PoolInv,
           NEW t \in Tasks, stage[t] = "out", stage'[t] = "queued",
           free = 0, free' = free, waiters' = Append(waiters, t),
           \A x \in Tasks \ {t} : stage'[x] = stage[x]
    PROVE  waiters' \in Seq(Tasks) /\ PoolInv' /\ Pool!Enter(t)
<1> USE DEF PoolInv, Stages, Owning
<1>1. /\ Owners' = Owners /\ t \notin Owners
      /\ Waiting' = Waiting \cup {t} /\ t \notin Waiting
  BY DEF Owners, Waiting, LimiterTypeOK
<1>2. Lists(waiters, Waiting)
  BY QueueOfTasks DEF QueueIsStage, LimiterTypeOK, Waiting, Lists
<1>3. waiters' \in Seq(Tasks) /\ Lists(waiters', Waiting')
  BY <1>1, <1>2, ListsAppend DEF LimiterTypeOK
<1>4. QueueIsStage'
  BY <1>3, QueueOfTasks DEF QueueIsStage, LimiterTypeOK, Waiting, Lists
<1>5. PermitsConserved' /\ NoIdlePermit'
  BY <1>1 DEF PermitsConserved, NoIdlePermit
<1>6. Pool!Enter(t)
  <2>1. Pool!Cardinality(Owners) = Permits
    BY OwnersFinite, PoolCardinality, LimiterAssumption DEF PermitsConserved
  <2>2. t \notin Pool!Range(waiters)
    BY <1>1, <1>2 DEF Pool!Range, Lists
  <2>3. t \notin Owners \cup Pool!Range(waiters)
    BY <1>1, <2>2
  <2> QED
    BY ONLY <1>1, <2>1, <2>3, waiters' = Append(waiters, t) DEF Pool!Enter
<1> QED
  BY <1>3, <1>4, <1>5, <1>6

\* A task leaves the line before its turn (LeaveQueue).
LEMMA LeaveLine ==
    ASSUME LimiterTypeOK, stage' \in [Tasks -> Stages], PoolInv,
           NEW t \in Tasks, stage[t] = "queued", stage'[t] = "out", free' = free,
           \E i \in DOMAIN waiters : waiters[i] = t /\ waiters' = RemoveAt(waiters, i),
           \A x \in Tasks \ {t} : stage'[x] = stage[x]
    PROVE  waiters' \in Seq(Tasks) /\ PoolInv' /\ Pool!GiveUp(t)
<1> USE DEF PoolInv, Stages, Owning
<1>1. Owners' = Owners /\ Waiting' = Waiting \ {t}
  BY DEF Owners, Waiting, LimiterTypeOK
<1>2. Lists(waiters, Waiting)
  BY QueueOfTasks DEF QueueIsStage, LimiterTypeOK, Waiting, Lists
<1>3. PICK i \in DOMAIN waiters : waiters[i] = t /\ waiters' = RemoveAt(waiters, i)
  OBVIOUS
<1>4. waiters' \in Seq(Tasks) /\ Lists(waiters', Waiting')
  BY <1>1, <1>2, <1>3, ListsRemove DEF LimiterTypeOK
<1>5. QueueIsStage'
  BY <1>4, QueueOfTasks DEF QueueIsStage, LimiterTypeOK, Waiting, Lists
<1>6. free > 0 => waiters' = <<>>
  <2>1. free > 0 => waiters = <<>>
    BY DEF NoIdlePermit
  <2>2. waiters = <<>> => DOMAIN waiters = {}
    BY EmptySeq, LenProperties
  <2> QED
    BY <1>3, <2>1, <2>2
<1>7. PermitsConserved' /\ NoIdlePermit'
  BY <1>1, <1>6 DEF PermitsConserved, NoIdlePermit
<1>8. Pool!GiveUp(t)
  <2>1. Pool!RemoveAt(waiters, i) = RemoveAt(waiters, i)
    BY DEF Pool!RemoveAt, RemoveAt
  <2> QED
    BY <1>1, <1>3, <2>1 DEF Pool!GiveUp
<1> QED
  BY <1>4, <1>5, <1>7, <1>8
-----------------------------------------------------------------------------
MutexClass(s) ==
    IF s \in AtMutex THEN "owner" ELSE IF s = "locking" THEN "locking" ELSE "none"

\* A step that leaves the mutex, its queue and everybody's place at it alone.
LEMMA MutexUnchanged ==
    ASSUME LimiterTypeOK, stage' \in [Tasks -> Stages], MutexIsStage,
           UNCHANGED <<owner, lockers>>,
           \A x \in Tasks : MutexClass(stage'[x]) = MutexClass(stage[x])
    PROVE  MutexIsStage'
<1>1. \A x \in Tasks : /\ stage'[x] \in AtMutex <=> stage[x] \in AtMutex
                       /\ stage'[x] = "locking" <=> stage[x] = "locking"
  BY DEF MutexClass, AtMutex
<1> QED
  BY <1>1 DEF MutexIsStage, AtMutex

\* The owner unlocks the mutex (Start, DropLock): the first of its queue is the
\* owner from then on.
LEMMA UnlockHandsOver ==
    ASSUME LimiterTypeOK, stage' \in [Tasks -> Stages], MutexIsStage, Unlock,
           NEW t \in Tasks, owner = t, MutexClass(stage'[t]) = "none",
           lockers # <<>> => stage'[Heir(lockers)] = "locked",
           \A x \in Tasks \ {t} :
              x # Heir(lockers) => MutexClass(stage'[x]) = MutexClass(stage[x])
    PROVE  owner' \in Tasks \cup {Nobody} /\ lockers' \in Seq(Tasks) /\ MutexIsStage'
<1>1. Lists(lockers, Locking)
  BY QueueOfTasks DEF MutexIsStage, LimiterTypeOK, Locking, Lists
<1>2. \A x \in Tasks \ {t} :
         x # Heir(lockers) => /\ stage'[x] \in AtMutex <=> stage[x] \in AtMutex
                              /\ stage'[x] = "locking" <=> stage[x] = "locking"
  BY DEF MutexClass, AtMutex
<1>3. /\ \A x \in Tasks : stage[x] \in AtMutex <=> x = t
      /\ stage'[t] \notin AtMutex \cup {"locking"}
  BY DEF MutexIsStage, AtMutex, MutexClass
<1>4. \A x \in Tasks : stage[x] \in {"locking", "locked", "spacing"} => x \in Spaced
  BY DEF MutexIsStage
<1>5. CASE lockers = <<>>
  <2>1. Heir(lockers) \notin Tasks /\ owner' = Nobody /\ lockers' = <<>>
    BY <1>5, LimiterAssumption DEF Heir, Unlock
  <2>2. Locking = {}
    BY <1>1, <1>5, ListsEmpty DEF LimiterTypeOK
  <2>3. \A x \in Tasks : stage'[x] \notin AtMutex \cup {"locking"}
    BY <1>2, <1>3, <2>1, <2>2 DEF Locking, AtMutex
  <2>4. lockers' \in Seq(Tasks) /\ DOMAIN lockers' = {}
    BY <2>1, EmptySeq, LenProperties
  <2> QED
    BY <2>1, <2>3, <2>4, LimiterAssumption DEF MutexIsStage, AtMutex
<1>6. CASE lockers # <<>>
  <2> DEFINE h == Head(lockers)
  <2>1. Heir(lockers) = h /\ owner' = h /\ lockers' = Tail(lockers)
    BY <1>6 DEF Heir, Unlock
  <2>2. /\ h \in Locking /\ h \in Tasks
        /\ Tail(lockers) \in Seq(Tasks)
        /\ Lists(Tail(lockers), Locking \ {h})
    BY <1>1, <1>6, ListsTail DEF LimiterTypeOK
  <2> HIDE DEF h
  <2>3. h # t /\ stage[h] = "locking" /\ stage'[h] = "locked"
    BY <1>3, <1>6, <2>1, <2>2 DEF Locking, AtMutex
  <2>4. Locking' = Locking \ {h}
    BY <1>2, <1>3, <2>1, <2>3 DEF Locking, AtMutex
  <2>5. \A x \in Tasks : stage'[x] \in AtMutex <=> x = h
    BY <1>2, <1>3, <2>1, <2>3 DEF AtMutex
  <2>6. \A x \in Tasks : stage'[x] \in {"locking", "locked", "spacing"} => x \in Spaced
    BY <1>2, <1>3, <1>4, <2>1, <2>3 DEF AtMutex
  <2>7. /\ \A x \in Tasks :
             stage'[x] = "locking" <=> \E i \in DOMAIN lockers' : lockers'[i] = x
        /\ \A i, j \in DOMAIN lockers' : lockers'[i] = lockers'[j] => i = j
    <3>1. Lists(lockers', Locking')
      BY <2>1, <2>2, <2>4
    <3> QED
      BY <2>1, <2>2, <3>1, QueueOfTasks DEF Lists, Locking
  <2>8. owner' # Nobody
    BY <2>1, <2>2, LimiterAssumption
  <2> QED
    BY <2>1, <2>2, <2>5, <2>6, <2>7, <2>8 DEF MutexIsStage, AtMutex
<1> QED
  BY <1>5, <1>6
-----------------------------------------------------------------------------
\* The limiter as new() makes it.
LEMMA InitEstablishes == LimiterInit => IInv /\ Pool!PoolInit
<1> SUFFICES ASSUME LimiterInit
             PROVE  IInv /\ Pool!PoolInit
  OBVIOUS
<1> USE LimiterAssumption DEF LimiterInit
<1>1. LimiterTypeOK
  BY EmptySeq DEF LimiterTypeOK, Stages
<1>2. Owners = {}
  BY DEF Owners, Owning, Stages
<1>3. PermitsConserved /\ NoIdlePermit /\ SleepCoversInterval
  BY <1>2, FS_EmptySet DEF PermitsConserved, NoIdlePermit, SleepCoversInterval
<1>4. DOMAIN <<>> = {}
  OBVIOUS
<1>5. QueueIsStage /\ MutexIsStage
  BY <1>4 DEF QueueIsStage, MutexIsStage
<1> QED
  BY <1>1, <1>2, <1>3, <1>5 DEF IInv, LimiterInv, Pool!PoolInit

\* What every step preserves, and what it is to the pool.
Preserved == LimiterTypeOK' /\ PoolInv' /\ MutexIsStage' /\ SleepCoversInterval'

\* The steps that take or give no permit, with nothing but their own task's
\* stage and the mutex to look after.
LEMMA InnerSteps ==
    ASSUME IInv, NEW t \in Tasks, Proceed(t) \/ Measure(t) \/ Start(t)
    PROVE  Preserved /\ UNCHANGED Pool!poolVars
<1> USE DEF IInv, LimiterInv
<1>1. CASE Proceed(t)
  <2>1. /\ stage' \in [Tasks -> Stages]
        /\ stage[t] = "granted"
        /\ stage'[t] \in {"held", "locked", "locking"}
        /\ \A x \in Tasks \ {t} : stage'[x] = stage[x]
    BY <1>1 DEF Proceed, LimiterTypeOK, Stages
  <2>2. LimiterTypeOK'
    <3>1. Append(lockers, t) \in Seq(Tasks)
      BY AppendProperties DEF LimiterTypeOK
    <3>2. lockers' \in Seq(Tasks) /\ owner' \in Tasks \cup {Nobody}
      BY <1>1, <3>1 DEF Proceed, LimiterTypeOK
    <3> QED
      BY <1>1, <2>1, <3>2 DEF Proceed, LimiterTypeOK
  <2>3. \A x \in Tasks : PoolClass(stage'[x]) = PoolClass(stage[x])
    BY <2>1 DEF PoolClass, Owning, Stages
  <2>4. PoolInv' /\ UNCHANGED Pool!poolVars
    BY <1>1, <2>2, <2>3, PoolUnchanged DEF PoolInv, Proceed
  <2>5. SleepCoversInterval'
    BY <1>1, <2>1 DEF SleepCoversInterval, Proceed
  <2>6. MutexIsStage'
    <3>1. CASE t \notin Spaced
      <4>1. stage'[t] = "held" /\ UNCHANGED <<owner, lockers>>
        BY <1>1, <3>1 DEF Proceed, LimiterTypeOK
      <4> QED
        BY <2>1, <4>1, MutexUnchanged DEF MutexClass, AtMutex
    <3>2. CASE t \in Spaced /\ owner = Nobody
      <4>1. stage'[t] = "locked" /\ owner' = t /\ lockers' = lockers
        BY <1>1, <3>2 DEF Proceed, LimiterTypeOK
      <4>2. t # Nobody /\ lockers = <<>> /\ \A x \in Tasks : x # owner
        BY <3>2, LimiterAssumption DEF MutexIsStage
      <4> QED
        BY <2>1, <3>2, <4>1, <4>2 DEF MutexIsStage
    <3>3. CASE t \in Spaced /\ owner # Nobody
      <4>1. stage'[t] = "locking" /\ owner' = owner /\ lockers' = Append(lockers, t)
        BY <1>1, <3>3 DEF Proceed, LimiterTypeOK
      <4>2. Lists(lockers, Locking)
        BY QueueOfTasks DEF MutexIsStage, LimiterTypeOK, Locking, Lists
      <4>3. t \in Tasks \ Locking /\ Locking' = Locking \cup {t}
        BY <2>1, <4>1 DEF Locking
      <4>4. lockers' \in Seq(Tasks) /\ Lists(lockers', Locking')
        BY <4>1, <4>2, <4>3, ListsAppend DEF LimiterTypeOK
      <4>5. /\ \A x \in Tasks :
                 stage'[x] = "locking" <=> \E i \in DOMAIN lockers' : lockers'[i] = x
            /\ \A i, j \in DOMAIN lockers' : lockers'[i] = lockers'[j] => i = j
        BY <4>4, QueueOfTasks DEF Lists, Locking
      <4>6. \A x \in Tasks : stage'[x] \in {"locked", "spacing"} <=> owner' = x
        BY <2>1, <4>1 DEF MutexIsStage
      <4>7. \A x \in Tasks : stage'[x] \in {"locking", "locked", "spacing"} => x \in Spaced
        BY <2>1, <3>3 DEF MutexIsStage
      <4> QED
        BY <3>3, <4>1, <4>5, <4>6, <4>7 DEF MutexIsStage
    <3> QED
      BY <3>1, <3>2, <3>3
  <2> QED
    BY <2>2, <2>4, <2>5, <2>6 DEF Preserved
<1>2. CASE Measure(t)
  <2>1. /\ stage' \in [Tasks -> Stages]
        /\ stage[t] = "locked" /\ stage'[t] = "spacing"
        /\ \A x \in Tasks \ {t} : stage'[x] = stage[x]
    BY <1>2 DEF Measure, LimiterTypeOK, Stages
  <2>2. t \in Spaced /\ Interval[t] \in 0 .. Longest
    BY <2>1, LimiterAssumption DEF MutexIsStage
  <2>3. /\ rest' \in [Tasks -> 0 .. Longest]
        /\ sinceLast' + rest'[t] >= Interval[t]
        /\ \A x \in Tasks \ {t} : rest'[x] = rest[x]
    BY <1>2, <2>2, LimiterAssumption DEF Measure, LimiterTypeOK
  <2>4. LimiterTypeOK'
    BY <1>2, <2>1, <2>3 DEF Measure, LimiterTypeOK
  <2>5. PoolInv' /\ UNCHANGED Pool!poolVars
    BY <1>2, <2>1, <2>4, PoolUnchanged DEF PoolInv, Measure, PoolClass, Owning, Stages
  <2>6. MutexIsStage'
    BY <1>2, <2>1, MutexUnchanged DEF Measure, MutexClass, AtMutex
  <2>7. SleepCoversInterval'
    BY <1>2, <2>1, <2>3 DEF SleepCoversInterval, Measure
  <2> QED
    BY <2>4, <2>5, <2>6, <2>7 DEF Preserved
<1>3. CASE Start(t)
  <2>1. /\ stage' \in [Tasks -> Stages]
        /\ stage[t] = "spacing" /\ stage'[t] = "held"
        /\ lockers # <<>> => Heir(lockers) \in Tasks /\ stage[Heir(lockers)] = "locking"
        /\ lockers # <<>> => stage'[Heir(lockers)] = "locked"
        /\ \A x \in Tasks \ {t} : x # Heir(lockers) => stage'[x] = stage[x]
    <3>1. lockers # <<>> => Heir(lockers) \in Tasks /\ stage[Heir(lockers)] = "locking"
      <4>1. Lists(lockers, Locking)
        BY QueueOfTasks DEF MutexIsStage, LimiterTypeOK, Locking, Lists
      <4>2. lockers # <<>> => Head(lockers) \in Locking \cap Tasks
        BY <4>1, ListsTail DEF LimiterTypeOK
      <4> QED
        BY <4>2 DEF Heir, Locking
    <3> QED
      BY <1>3, <3>1 DEF Start, LimiterTypeOK, Stages
  <2>2. owner = t
    BY <2>1 DEF MutexIsStage
  <2>3. owner' \in Tasks \cup {Nobody} /\ lockers' \in Seq(Tasks) /\ MutexIsStage'
    BY <1>3, <2>1, <2>2, UnlockHandsOver DEF Start, MutexClass, AtMutex
  <2>4. LimiterTypeOK'
    BY <1>3, <2>1, <2>3, LimiterAssumption DEF Start, LimiterTypeOK
  <2>5. PoolInv' /\ UNCHANGED Pool!poolVars
    <3>1. \A x \in Tasks : PoolClass(stage'[x]) = PoolClass(stage[x])
      <4>1. lockers = <<>> => Heir(lockers) \notin Tasks
        BY LimiterAssumption DEF Heir
      <4> QED
        BY <2>1, <4>1 DEF PoolClass, Owning, Stages
    <3> QED
      BY <1>3, <2>4, <3>1, PoolUnchanged DEF PoolInv, Start
  <2>6. SleepCoversInterval'
    <3>1. \A x \in Tasks : stage'[x] # "spacing"
      <4>1. \A x \in Tasks \ {t} : stage[x] # "spacing"
        BY <2>2 DEF MutexIsStage
      <4> QED
        BY <2>1, <4>1, LimiterAssumption DEF Heir
    <3> QED
      BY <3>1 DEF SleepCoversInterval
  <2> QED
    BY <2>3, <2>4, <2>5, <2>6 DEF Preserved
<1> QED
  BY <1>1, <1>2, <1>3
\* The steps that take a permit or queue for one.
LEMMA EnteringSteps ==
    ASSUME IInv, NEW t \in Tasks, Acquire(t) \/ TryAcquire(t)
    PROVE  Preserved /\ Pool!Enter(t)
<1> USE DEF IInv, LimiterInv
<1>1. /\ stage' \in [Tasks -> Stages]
      /\ stage[t] = "out" /\ stage'[t] \in {"granted", "queued", "held"}
      /\ \A x \in Tasks \ {t} : stage'[x] = stage[x]
      /\ UNCHANGED <<owner, lockers, sinceLast, rest>>
  BY DEF Acquire, TryAcquire, LimiterTypeOK, Stages
<1>2. /\ free' \in 0 .. Permits
      /\ waiters' \in Seq(Tasks)
      /\ PoolInv'
      /\ Pool!Enter(t)
  <2>1. CASE free > 0 /\ waiters' = waiters /\ free' = free - 1 /\ stage'[t] # "queued"
    <3>1. stage'[t] \in Owning
      BY <1>1, <2>1 DEF Owning, Stages
    <3>2. PoolInv
      BY DEF PoolInv
    <3> QED
      BY <1>1, <2>1, <3>1, <3>2, TakeFree DEF LimiterTypeOK
  <2>2. CASE free = 0 /\ waiters' = Append(waiters, t) /\ free' = free /\ stage'[t] = "queued"
    <3>1. PoolInv
      BY DEF PoolInv
    <3> QED
      BY <1>1, <2>2, <3>1, JoinLine DEF LimiterTypeOK
  <2> QED
    BY <2>1, <2>2 DEF Acquire, TryAcquire, LimiterTypeOK
<1>3. LimiterTypeOK'
  BY <1>1, <1>2 DEF LimiterTypeOK
<1>4. MutexIsStage'
  BY <1>1, MutexUnchanged DEF MutexClass, AtMutex
<1>5. SleepCoversInterval'
  BY <1>1 DEF SleepCoversInterval
<1> QED
  BY <1>2, <1>3, <1>4, <1>5 DEF Preserved

\* The steps of a task that gives its permit back: when its guard is dropped,
\* or its future is while it has a permit.
LEMMA LeavingSteps ==
    ASSUME IInv, NEW t \in Tasks, Release(t) \/ DropPermit(t) \/ DropLock(t)
    PROVE  Preserved /\ Pool!Leave(t)
<1> USE DEF IInv, LimiterInv
<1> DEFINE g == Heir(waiters)
           h == Heir(lockers)
<1>1. /\ waiters # <<>> => g \in Tasks /\ stage[g] = "queued"
      /\ waiters = <<>> => g \notin Tasks
  <2>1. Lists(waiters, Waiting)
    BY QueueOfTasks DEF QueueIsStage, LimiterTypeOK, Waiting, Lists
  <2>2. waiters # <<>> => Head(waiters) \in Waiting \cap Tasks
    BY <2>1, ListsTail DEF LimiterTypeOK
  <2> QED
    BY <2>2, LimiterAssumption DEF Heir, Waiting
<1>2. Lists(lockers, Locking)
  BY QueueOfTasks DEF MutexIsStage, LimiterTypeOK, Locking, Lists
<1>3. /\ lockers # <<>> => h \in Tasks /\ stage[h] = "locking"
      /\ lockers = <<>> => h \notin Tasks
  <2>1. lockers # <<>> => Head(lockers) \in Locking \cap Tasks
    BY <1>2, ListsTail DEF LimiterTypeOK
  <2> QED
    BY <2>1, LimiterAssumption DEF Heir, Locking
<1>4. /\ ReturnPermit
      /\ stage' \in [Tasks -> Stages]
      /\ stage[t] \in {"held", "granted", "locking", "locked", "spacing"}
      /\ stage'[t] = "out"
      /\ waiters # <<>> => stage'[g] = "granted"
      /\ \A x \in Tasks \ {t, g, h} : stage'[x] = stage[x]
  BY <1>1 DEF Release, DropPermit, DropLock, LimiterTypeOK, Stages
<1>5. \A x \in Tasks \ {t} :
         x = h => stage'[x] = "locked" \/ stage'[x] = stage[x]
  BY <1>1, <1>3 DEF Release, DropPermit, DropLock
<1>6. \A x \in Tasks \ {t} : x # g => PoolClass(stage'[x]) = PoolClass(stage[x])
  BY <1>3, <1>4, <1>5 DEF PoolClass, Owning, Stages
<1>7. stage[t] \in Owning /\ PoolInv
  BY <1>4 DEF Owning, Stages, PoolInv
<1>8. free' \in 0 .. Permits /\ waiters' \in Seq(Tasks) /\ PoolInv' /\ Pool!Leave(t)
  BY <1>4, <1>6, <1>7, GiveBack
<1>9. owner' \in Tasks \cup {Nobody} /\ lockers' \in Seq(Tasks) /\ MutexIsStage'
  <2>1. CASE DropLock(t)
    <3>1. Unlock /\ owner = t
      BY <2>1 DEF DropLock, MutexIsStage
    <3>2. lockers # <<>> => stage'[h] = "locked"
      BY <1>1, <1>3, <2>1 DEF DropLock
    <3>3. \A x \in Tasks \ {t} : x # h => MutexClass(stage'[x]) = MutexClass(stage[x])
      BY <1>1, <1>4 DEF MutexClass, AtMutex
    <3>4. MutexClass(stage'[t]) = "none"
      BY <1>4 DEF MutexClass, AtMutex
    <3> QED
      BY <1>4, <3>1, <3>2, <3>3, <3>4, UnlockHandsOver
  <2>2. CASE Release(t) \/ (DropPermit(t) /\ stage[t] = "granted")
    <3>1. UNCHANGED <<owner, lockers>> /\ stage[t] \in {"held", "granted"}
      BY <2>2 DEF Release, DropPermit
    <3>2. \A x \in Tasks \ {t, g} : stage'[x] = stage[x]
      BY <2>2 DEF Release, DropPermit
    <3>3. \A x \in Tasks : MutexClass(stage'[x]) = MutexClass(stage[x])
      BY <1>1, <1>4, <3>1, <3>2 DEF MutexClass, AtMutex
    <3>4. owner' \in Tasks \cup {Nobody} /\ lockers' \in Seq(Tasks)
      BY <3>1 DEF LimiterTypeOK
    <3> QED
      BY <1>4, <3>1, <3>3, <3>4, MutexUnchanged
  <2>3. CASE DropPermit(t) /\ stage[t] = "locking"
    <3>1. PICK i \in DOMAIN lockers : lockers[i] = t /\ lockers' = RemoveAt(lockers, i)
      BY <2>3 DEF DropPermit
    <3>2. /\ owner' = owner
          /\ \A x \in Tasks \ {t, g} : stage'[x] = stage[x]
      BY <2>3 DEF DropPermit
    <3>3. \A x \in Tasks \ {t} : MutexClass(stage'[x]) = MutexClass(stage[x])
      BY <1>1, <1>4, <3>2 DEF MutexClass, AtMutex
    <3>4. \A x \in Tasks \ {t} : /\ stage'[x] \in AtMutex <=> stage[x] \in AtMutex
                                 /\ stage'[x] = "locking" <=> stage[x] = "locking"
      BY <3>3 DEF MutexClass, AtMutex
    <3>5. Locking' = Locking \ {t}
      BY <1>4, <3>4 DEF Locking
    <3>6. lockers' \in Seq(Tasks) /\ Lists(lockers', Locking')
      BY <1>2, <3>1, <3>5, ListsRemove DEF LimiterTypeOK
    <3>7. /\ \A x \in Tasks :
                stage'[x] = "locking" <=> \E j \in DOMAIN lockers' : lockers'[j] = x
          /\ \A j, k \in DOMAIN lockers' : lockers'[j] = lockers'[k] => j = k
      BY <3>6, QueueOfTasks DEF Lists, Locking
    <3>8. /\ \A x \in Tasks : stage'[x] \in AtMutex <=> owner' = x
          /\ \A x \in Tasks : stage'[x] \in {"locking", "locked", "spacing"} => x \in Spaced
      BY <1>4, <2>3, <3>2, <3>4 DEF MutexIsStage, AtMutex
    <3>9. owner' # Nobody
      <4>1. lockers # <<>>
        BY <3>1, EmptySeq, LenProperties
      <4> QED
        BY <3>2, <4>1 DEF MutexIsStage
    <3> QED
      BY <3>2, <3>6, <3>7, <3>8, <3>9 DEF MutexIsStage, AtMutex, LimiterTypeOK
  <2> QED
    BY <2>1, <2>2, <2>3 DEF DropPermit
<1>10. LimiterTypeOK'
  BY <1>4, <1>8, <1>9, LimiterAssumption
     DEF LimiterTypeOK, Release, DropPermit, DropLock
<1>11. SleepCoversInterval'
  <2>1. \A x \in Tasks : stage'[x] = "spacing" => stage[x] = "spacing" /\ x # t
    BY <1>1, <1>4, <1>5
  <2>2. \A x \in Tasks \ {t} : rest'[x] = rest[x]
    BY DEF Release, DropPermit, DropLock, LimiterTypeOK
  <2>3. sinceLast' = sinceLast
    BY DEF Release, DropPermit, DropLock
  <2> QED
    BY <2>1, <2>2, <2>3 DEF SleepCoversInterval
<1> QED
  BY <1>8, <1>9, <1>10, <1>11 DEF Preserved
\* A task that gives up its place in the line, and time.
LEMMA OtherSteps ==
    ASSUME IInv
    PROVE  /\ \A t \in Tasks : LeaveQueue(t) => Preserved /\ Pool!GiveUp(t)
           /\ Tick => Preserved /\ UNCHANGED Pool!poolVars
<1> USE DEF IInv, LimiterInv
<1>1. ASSUME NEW t \in Tasks, LeaveQueue(t)
      PROVE  Preserved /\ Pool!GiveUp(t)
  <2>1. /\ stage' \in [Tasks -> Stages]
        /\ stage[t] = "queued" /\ stage'[t] = "out"
        /\ \A x \in Tasks \ {t} : stage'[x] = stage[x]
        /\ UNCHANGED <<free, owner, lockers, sinceLast, rest>>
        /\ \E i \in DOMAIN waiters : waiters[i] = t /\ waiters' = RemoveAt(waiters, i)
        /\ PoolInv
    BY <1>1 DEF LeaveQueue, LimiterTypeOK, Stages, PoolInv
  <2>2. waiters' \in Seq(Tasks) /\ PoolInv' /\ Pool!GiveUp(t)
    BY <2>1, LeaveLine
  <2>3. LimiterTypeOK'
    BY <2>1, <2>2 DEF LimiterTypeOK
  <2>4. MutexIsStage'
    BY <2>1, MutexUnchanged DEF MutexClass, AtMutex
  <2>5. SleepCoversInterval'
    BY <2>1 DEF SleepCoversInterval
  <2> QED
    BY <2>2, <2>3, <2>4, <2>5 DEF Preserved
<1>2. ASSUME Tick
      PROVE  Preserved /\ UNCHANGED Pool!poolVars
  <2>1. /\ sinceLast' \in 0 .. Longest /\ sinceLast' = sinceLast + 1
        /\ rest' \in [Tasks -> 0 .. Longest]
        /\ \A x \in Tasks : rest'[x] >= rest[x] - 1 /\ rest'[x] >= 0
        /\ UNCHANGED <<free, waiters, owner, lockers, stage>>
    BY <1>2, LimiterAssumption DEF Tick, LimiterTypeOK
  <2>2. LimiterTypeOK'
    BY <2>1 DEF LimiterTypeOK
  <2>3. PoolInv' /\ UNCHANGED Pool!poolVars
    BY <2>1, <2>2, PoolUnchanged DEF PoolInv
  <2>4. MutexIsStage'
    BY <2>1 DEF MutexIsStage
  <2>5. SleepCoversInterval'
    <3>1. ASSUME NEW x \in Tasks, stage[x] = "spacing"
          PROVE  sinceLast' + rest'[x] >= Interval[x]
      <4>1. x \in Spaced /\ Interval[x] \in 0 .. Longest
        BY <3>1, LimiterAssumption DEF MutexIsStage
      <4>2. rest[x] \in 0 .. Longest /\ rest'[x] \in 0 .. Longest /\ sinceLast \in 0 .. Longest
        BY <2>1 DEF LimiterTypeOK
      <4>3. sinceLast + rest[x] >= Interval[x] /\ rest'[x] >= rest[x] - 1
        BY <2>1, <3>1 DEF SleepCoversInterval
      <4> QED
        BY <2>1, <4>1, <4>2, <4>3, LimiterAssumption
    <3> QED
      BY <2>1, <3>1 DEF SleepCoversInterval
  <2> QED
    BY <2>2, <2>3, <2>4, <2>5 DEF Preserved
<1> QED
  BY <1>1, <1>2

-----------------------------------------------------------------------------
\* The invariant is inductive, and a step of the limiter is a step of the pool
\* or none.
LEMMA StepPreserves == IInv /\ [LimiterNext]_limiterVars => IInv' /\ [Pool!PoolNext]_Pool!poolVars
<1> SUFFICES ASSUME IInv, [LimiterNext]_limiterVars
             PROVE  IInv' /\ [Pool!PoolNext]_Pool!poolVars
  OBVIOUS
<1>1. Preserved => IInv'
  BY DEF Preserved, IInv, LimiterInv, PoolInv
<1>2. CASE Tick
  BY <1>1, <1>2, OtherSteps
<1>3. ASSUME NEW t \in Tasks, LimiterStep(t)
      PROVE  IInv' /\ [Pool!PoolNext]_Pool!poolVars
  <2>1. CASE Proceed(t) \/ Measure(t) \/ Start(t)
    BY <1>1, <2>1, InnerSteps
  <2>2. CASE Acquire(t) \/ TryAcquire(t)
    BY <1>1, <2>2, EnteringSteps DEF Pool!PoolNext
  <2>3. CASE Release(t) \/ DropPermit(t) \/ DropLock(t)
    BY <1>1, <2>3, LeavingSteps DEF Pool!PoolNext
  <2>4. CASE LeaveQueue(t)
    BY <1>1, <2>4, OtherSteps DEF Pool!PoolNext
  <2> QED
    BY <1>3, <2>1, <2>2, <2>3, <2>4 DEF LimiterStep, Cancel
<1>4. CASE UNCHANGED limiterVars
  <2>1. Owners' = Owners /\ waiters' = waiters
    BY <1>4 DEF limiterVars, Owners
  <2>2. IInv'
    BY <1>4, <2>1 DEF limiterVars, IInv, LimiterInv, LimiterTypeOK, PermitsConserved,
       NoIdlePermit, QueueIsStage, MutexIsStage, SleepCoversInterval
  <2> QED
    BY <2>1, <2>2 DEF Pool!poolVars
<1> QED
  BY <1>2, <1>3, <1>4 DEF LimiterNext

\* Every state the limiter reaches is typed and satisfies its safety invariant:
\* no permit is lost or made by any sequence of acquire, cancellation at any
\* await point and release, and none lies idle while a task waits
\* (rate_limit.rs:76-111).
THEOREM LimiterIsSafe == LimiterSpec => [](LimiterTypeOK /\ LimiterInv)
<1>1. LimiterInit => IInv
  BY InitEstablishes
<1>2. IInv /\ [LimiterNext]_limiterVars => IInv'
  BY StepPreserves
<1> QED
  BY <1>1, <1>2, PTL DEF LimiterSpec, IInv

\* The permits in use and the free ones make up the semaphore's size at all
\* times.
THEOREM PermitsAreConserved == LimiterSpec => []PermitsConserved
<1>1. LimiterTypeOK /\ LimiterInv => PermitsConserved
  BY DEF LimiterInv
<1> QED
  BY <1>1, LimiterIsSafe, PTL

\* For any permits, tasks and intervals the limiter is a first-come-first-served
\* pool of permits.
THEOREM LimiterIsPermitPool == LimiterSpec => IsPermitPool
<1>1. LimiterInit => IInv /\ Pool!PoolInit
  BY InitEstablishes
<1>2. IInv /\ [LimiterNext]_limiterVars => IInv' /\ [Pool!PoolNext]_Pool!poolVars
  BY StepPreserves
<1> QED
  BY <1>1, <1>2, PTL DEF LimiterSpec, IsPermitPool, Pool!PoolSpec

-----------------------------------------------------------------------------
(***************************************************************************)
(* Spacing, by the clock of LimiterStarts.                                 *)
(***************************************************************************)

\* The limiter's own clock is never ahead of the time since the last start of
\* a clone that has an interval.
StartsInv == IInv /\ AgoIsTyped /\ sinceLast <= ago

\* A task with an interval starts through Start alone, and then as much time as
\* that interval has gone by on the limiter's clock.
LEMMA SpacedStart ==
    ASSUME IInv, NEW t \in Tasks, NEW x \in Spaced, LimiterStep(t), Starts(x)
    PROVE  Start(x) /\ sinceLast >= Interval[x]
<1>1. x \in Tasks
  BY LimiterAssumption
<1>2. x = t
  BY <1>1, LimiterAssumption DEF IInv, LimiterTypeOK, Starts, LimiterStep, Acquire,
     TryAcquire, Proceed, Measure, Start, Release, Cancel, LeaveQueue, DropPermit, DropLock
<1>3. Start(x)
  BY <1>1, <1>2 DEF IInv, LimiterTypeOK, Starts, LimiterStep, Acquire, TryAcquire,
     Proceed, Measure, Release, Cancel, LeaveQueue, DropPermit, DropLock
<1>4. sinceLast + rest[x] >= Interval[x] /\ rest[x] = 0
  BY <1>1, <1>3 DEF IInv, LimiterInv, SleepCoversInterval, Start
<1> QED
  BY <1>3, <1>4 DEF IInv, LimiterTypeOK

\* No step of a task sets the limiter's clock but Start, which sets it back.
LEMMA ClockIsSetByStarts ==
    ASSUME IInv, NEW t \in Tasks, LimiterStep(t)
    PROVE  \/ sinceLast' = sinceLast
           \/ Start(t) /\ t \in Spaced /\ Starts(t)
<1>1. CASE Start(t)
  BY <1>1 DEF Start, Starts, IInv, LimiterInv, LimiterTypeOK, MutexIsStage
<1>2. CASE ~Start(t)
  BY <1>2 DEF LimiterStep, Acquire, TryAcquire, Proceed, Measure, Release, Cancel,
     LeaveQueue, DropPermit, DropLock
<1> QED
  BY <1>1, <1>2

LEMMA StartsInvHolds == StartsSpec => []StartsInv
<1>1. StartsInit => StartsInv
  BY InitEstablishes, LimiterAssumption DEF StartsInit, StartsInv, AgoIsTyped, LimiterInit
<1>2. StartsInv /\ [StartsNext]_startVars => StartsInv'
  <2> SUFFICES ASSUME StartsInv, [StartsNext]_startVars
               PROVE  StartsInv'
    OBVIOUS
  <2>1. IInv' /\ sinceLast \in 0 .. Longest /\ sinceLast' \in 0 .. Longest
    <3>1. [LimiterNext]_limiterVars
      BY DEF StartsNext, startVars, TaskStep, TimePasses, LimiterNext
    <3>2. IInv'
      BY <3>1, StepPreserves DEF StartsInv
    <3> QED
      BY <3>2 DEF StartsInv, IInv, LimiterTypeOK
  <2>2. CASE TaskStep
    <3>1. PICK t \in Tasks : LimiterStep(t)
      BY <2>2 DEF TaskStep
    <3>2. ago' = IF \E x \in Spaced : Starts(x) THEN 0 ELSE ago
      BY <2>2 DEF TaskStep
    <3>3. AgoIsTyped'
      BY <2>2, LimiterAssumption DEF TaskStep, StartsInv, AgoIsTyped
    <3>4. sinceLast' <= ago'
      <4>1. CASE \E x \in Spaced : Starts(x)
        <5>1. PICK x \in Spaced : Starts(x)
          BY <4>1
        <5>2. Start(x)
          BY <3>1, <5>1, SpacedStart DEF StartsInv
        <5> QED
          BY <3>2, <4>1, <5>2 DEF Start
      <4>2. CASE ~\E x \in Spaced : Starts(x)
        <5>1. sinceLast' = sinceLast
          BY <3>1, <4>2, ClockIsSetByStarts DEF StartsInv
        <5> QED
          BY <3>2, <4>2, <5>1 DEF StartsInv
      <4> QED
        BY <4>1, <4>2
    <3> QED
      BY <2>1, <3>3, <3>4 DEF StartsInv
  <2>3. CASE TimePasses
    <3>1. sinceLast' <= sinceLast + 1
      BY <2>1, <2>3 DEF TimePasses, Tick, limiterVars
    <3>2. AgoIsTyped' /\ ago' = IF ago < Longest THEN ago + 1 ELSE Longest
      BY <2>3, LimiterAssumption DEF TimePasses, StartsInv, AgoIsTyped
    <3> QED
      BY <2>1, <3>1, <3>2, LimiterAssumption DEF StartsInv, AgoIsTyped
  <2>4. CASE UNCHANGED startVars
    BY <2>1, <2>4 DEF startVars, limiterVars, StartsInv, AgoIsTyped
  <2> QED
    BY <2>2, <2>3, <2>4 DEF StartsNext
<1> QED
  BY <1>1, <1>2, PTL DEF StartsSpec

\* Of two starts through acquire() by clones with an interval, the later comes
\* at least its interval after the earlier (rate_limit.rs:82-93), whatever tasks
\* come in, wait, start without an interval and are cancelled in between.
THEOREM StartsAreAlwaysSpaced == StartsSpec => StartsAreSpaced
<1> DEFINE Spacing == \A t \in Spaced : Starts(t) => ago >= Interval[t]
<1>1. StartsInv /\ [StartsNext]_startVars => [Spacing]_startVars
  <2> SUFFICES ASSUME StartsInv, StartsNext, NEW x \in Spaced, Starts(x)
               PROVE  ago >= Interval[x]
    OBVIOUS
  <2>1. CASE TimePasses
    BY <2>1 DEF TimePasses, Tick, limiterVars, Starts
  <2>2. CASE TaskStep
    <3>1. PICK t \in Tasks : LimiterStep(t)
      BY <2>2 DEF TaskStep
    <3>2. sinceLast >= Interval[x]
      BY <3>1, SpacedStart DEF StartsInv
    <3> QED
      BY <3>2, LimiterAssumption DEF StartsInv, AgoIsTyped, IInv, LimiterTypeOK
  <2> QED
    BY <2>1, <2>2 DEF StartsNext
<1>2. StartsSpec => []StartsInv
  BY StartsInvHolds
<1> QED
  BY <1>1, <1>2, PTL DEF StartsSpec, StartsAreSpaced

-----------------------------------------------------------------------------
\* First come, first served: while a task goes on waiting, nobody who came after
\* it gets a permit, through acquire() or try_acquire() (rate_limit.rs:76-111).
THEOREM NobodyOvertakes == LimiterSpec => NoOvertaking
<1> DEFINE Ahead(i) == {waiters[j] : j \in 1 .. i}
           Order == \A i \in DOMAIN waiters :
                       stage'[waiters[i]] = "queued" =>
                          \A t \in Tasks \ Ahead(i) :
                             stage[t] \in {"out", "queued"} => stage'[t] \in {"out", "queued"}
<1>1. IInv /\ [LimiterNext]_limiterVars => [Order]_limiterVars
  <2> SUFFICES ASSUME IInv, LimiterNext,
                      NEW i \in DOMAIN waiters, stage'[waiters[i]] = "queued",
                      NEW t \in Tasks \ Ahead(i), stage[t] \in {"out", "queued"}
               PROVE  stage'[t] \in {"out", "queued"}
    OBVIOUS
  <2>1. /\ waiters # <<>> /\ i \in 1 .. Len(waiters) /\ Len(waiters) \in Nat
        /\ Heir(waiters) = waiters[1]
        /\ free = 0
    <3>1. i \in 1 .. Len(waiters) /\ Len(waiters) \in Nat
      BY LenProperties DEF IInv, LimiterTypeOK
    <3>2. waiters # <<>>
      BY <3>1, EmptySeq
    <3>3. Head(waiters) = waiters[1]
      OBVIOUS
    <3> QED
      BY <3>1, <3>2, <3>3 DEF Heir, IInv, LimiterInv, NoIdlePermit, LimiterTypeOK
  <2>2. Heir(waiters) \in Ahead(i)
    BY <2>1
  <2>3. t # Heir(waiters) /\ t # Heir(lockers)
    <3>1. Lists(lockers, Locking)
      BY QueueOfTasks DEF IInv, LimiterInv, MutexIsStage, LimiterTypeOK, Locking, Lists
    <3>2. lockers # <<>> => Head(lockers) \in Locking
      BY <3>1, ListsTail DEF IInv, LimiterTypeOK
    <3> QED
      BY <2>2, <3>2, LimiterAssumption DEF Heir, Locking
  <2> HIDE DEF Ahead
  <2>4. CASE Tick
    BY <2>4 DEF Tick
  <2>5. ASSUME NEW x \in Tasks, LimiterStep(x)
        PROVE  stage'[t] \in {"out", "queued"}
    BY <2>1, <2>3, <2>5 DEF IInv, LimiterTypeOK, LimiterStep, Acquire, TryAcquire, Proceed,
       Measure, Start, Release, Cancel, LeaveQueue, DropPermit, DropLock
  <2> QED
    BY <2>4, <2>5 DEF LimiterNext
<1>2. LimiterSpec => []IInv
  BY LimiterIsSafe, PTL DEF IInv
<1> QED
  BY <1>1, <1>2, PTL DEF LimiterSpec, NoOvertaking
=============================================================================
