------------------------ MODULE ResponseCacheProofs ------------------------
(***************************************************************************)
(* InMemoryCache for any number of keys and threads and every size: no     *)
(* thread waits for itself, invalidation is complete, a fresh entry goes   *)
(* only for a reason, and the size is bounded as long as inserts do not    *)
(* overlap.                                                                *)
(***************************************************************************)
EXTENDS ResponseCache, FiniteSetTheorems, TLAPS

InsertPcs == {"scan", "pick", "evict", "evictAny", "put"}

\* Where a thread may have an iterator.
Iterating == {"scan", "pick", "collect"}

\* What a thread holds, and what it still has to do with the entries its iteration
\* cannot miss: those it is to visit, or has collected, or there are none left.
ThreadInv(t) ==
    /\ pc[t] \notin {"got"} \cup Iterating => guards[t] = {}
    /\ pc[t] \notin Iterating \cup {"evict", "evictAny", "removeAll"} => found[t] = {}
    /\ pc[t] \in {"got", "remove"} \cup InsertPcs => key[t] \in Keys
    /\ pc[t] \in InsertPcs => t \in Writers
    /\ pc[t] \in {"remove", "scan", "evict"} => lasting[t] \subseteq Expired
    /\ pc[t] = "clear" => lasting[t] \subseteq todo[t]
    /\ pc[t] = "scan" /\ found[t] = {} => lasting[t] \subseteq todo[t]
    /\ pc[t] \in {"scan", "pick"} /\ found[t] # {} =>
          todo[t] = {} /\ \E k \in Keys : found[t] = {k}
    /\ pc[t] \in {"pick", "evictAny", "invalidated"} => lasting[t] = {}
    /\ pc[t] \in {"evict", "evictAny"} => \E k \in Keys : found[t] = {k}
    /\ pc[t] = "collect" => /\ lasting[t] \subseteq Present \cap SameUrl
                            /\ lasting[t] \subseteq todo[t] \cup found[t]
    /\ pc[t] = "removeAll" => lasting[t] \subseteq found[t]
    /\ pc[t] \in {"collect", "removeAll"} => found[t] \subseteq SameUrl

\* One insert at a time: it has room for its entry, or is about to make some.
RoomInv ==
    ~overlap =>
       /\ Cardinality(Present) <= MaxSize
       /\ \A t, u \in Threads : pc[t] \in InsertPcs /\ pc[u] \in InsertPcs => t = u
       /\ \A t \in Threads :
             /\ pc[t] = "put" => Cardinality(Present) < MaxSize
             /\ pc[t] \in InsertPcs /\ found[t] # {} => Cardinality(Present \ found[t]) < MaxSize
             /\ pc[t] = "pick" /\ found[t] = {} => Present \subseteq todo[t]

IInv == TypeOK /\ \A t \in Threads : ThreadInv(t)

-----------------------------------------------------------------------------
\* What a thread does to another: it may take away what lasted, not what it has,
\* and the entries that go on lasting stay what they are, or expire.
Spared(t) ==
    /\ pc'[t] = pc[t] /\ key'[t] = key[t] /\ guards'[t] = guards[t]
    /\ todo'[t] = todo[t] /\ found'[t] = found[t]
    /\ lasting'[t] \subseteq lasting[t]
    /\ \A k \in lasting'[t] : entries'[k] \in {entries[k], "expired"}

\* A thread that is spared is as safe as it was.
LEMMA SparedStays ==
    ASSUME NEW t \in Threads, TypeOK, TypeOK', ThreadInv(t), Spared(t)
    PROVE  ThreadInv(t)'
<1>1. lasting[t] \subseteq Expired => lasting'[t] \subseteq Expired'
  BY DEF Spared, TypeOK, Expired
<1>2. lasting[t] \subseteq Present => lasting'[t] \subseteq Present'
  BY DEF Spared, TypeOK, Present
<1> QED
  BY <1>1, <1>2 DEF Spared, ThreadInv

\* A write spares the other threads.
LEMMA WriteSpares ==
    ASSUME TypeOK, NEW k \in Keys, NEW age \in {"none", "fresh", "expired"}, Write(k, age),
           NEW t \in Threads
    PROVE  /\ entries' \in [Keys -> {"none", "fresh", "expired"}]
           /\ lasting' \in [Threads -> SUBSET Keys]
           /\ lasting'[t] = lasting[t] \ {k}
           /\ \A x \in Keys \ {k} : entries'[x] = entries[x]
           /\ entries'[k] = age
           /\ UNCHANGED <<guards, overlap>>
BY DEF Write, TypeOK

\* A step by one thread has to keep no more than what holds of that thread.
LEMMA OneThread ==
    ASSUME IInv, TypeOK', NEW t \in Threads, ThreadInv(t)',
           \A u \in Threads \ {t} : Spared(u)
    PROVE  IInv'
BY SparedStays DEF IInv

\* A step without a write: only what thread t has changes.
Quiet(t) ==
    /\ UNCHANGED entries
    /\ \A u \in Threads \ {t} :
          /\ pc'[u] = pc[u] /\ key'[u] = key[u] /\ guards'[u] = guards[u]
          /\ todo'[u] = todo[u] /\ found'[u] = found[u] /\ lasting'[u] = lasting[u]

\* Without a write, the other threads are spared.
LEMMA QuietSpares ==
    ASSUME NEW t \in Threads, Quiet(t), NEW u \in Threads \ {t}
    PROVE  Spared(u)
BY DEF Quiet, Spared

\* get()
LEMMA GetSteps ==
    ASSUME IInv, NEW t \in Readers, Get(t)
    PROVE  IInv'
<1>1. t \in Threads /\ TypeOK /\ ThreadInv(t)
  BY DEF IInv, Threads
<1>2. CASE Lookup(t)
  <2>1. PICK k \in Keys :
          /\ key' = [key EXCEPT ![t] = k]
          /\ \/ Goto(t, "miss") /\ UNCHANGED guards
             \/ Goto(t, "got") /\ guards' = [guards EXCEPT ![t] = {k}]
    BY <1>2 DEF Lookup
  <2>2. TypeOK'
    BY <1>1, <1>2, <2>1 DEF Lookup, TypeOK, Goto, history
  <2>3. Quiet(t)
    BY <1>1, <1>2, <2>1 DEF Lookup, TypeOK, Goto, history, Quiet
  <2>4. ThreadInv(t)'
    BY <1>1, <1>2, <2>1 DEF Lookup, TypeOK, Goto, history, ThreadInv, InsertPcs, Iterating
  <2> QED
    BY <1>1, <2>2, <2>3, <2>4, QuietSpares, OneThread
<1>3. CASE Examine(t)
  <2>1. /\ key[t] \in Keys /\ pc[t] = "got" /\ guards' = [guards EXCEPT ![t] = {}]
        /\ UNCHANGED <<entries, key, todo, found, overlap>>
        /\ \/ Goto(t, "hit") /\ UNCHANGED lasting
           \/ /\ Goto(t, "remove") /\ lasting' = [lasting EXCEPT ![t] = {key[t]}]
              /\ entries[key[t]] = "expired"
    BY <1>1, <1>3 DEF Examine, ThreadInv
  <2>2. TypeOK'
    BY <1>1, <2>1 DEF TypeOK, Goto
  <2>3. Quiet(t)
    BY <1>1, <2>1 DEF TypeOK, Goto, Quiet
  <2>4. ThreadInv(t)'
    BY <1>1, <2>1 DEF TypeOK, Goto, ThreadInv, InsertPcs, Iterating, Expired
  <2> QED
    BY <1>1, <2>2, <2>3, <2>4, QuietSpares, OneThread
<1>4. CASE RemoveExpired(t)
  <2>1. /\ key[t] \in Keys /\ pc[t] = "remove" /\ Write(key[t], "none") /\ Goto(t, "miss")
        /\ UNCHANGED <<key, todo, found>>
    BY <1>1, <1>4 DEF RemoveExpired, ThreadInv
  <2>2. TypeOK'
    BY <1>1, <2>1, WriteSpares DEF TypeOK, Goto
  <2>3. \A u \in Threads \ {t} : Spared(u)
    BY <1>1, <2>1, WriteSpares DEF TypeOK, Goto, Spared
  <2>4. ThreadInv(t)'
    BY <1>1, <2>1, WriteSpares DEF TypeOK, Goto, ThreadInv, InsertPcs, Iterating
  <2> QED
    BY <1>1, <2>2, <2>3, <2>4, OneThread
<1> QED
  BY <1>2, <1>3, <1>4 DEF Get

\* insert()
LEMMA InsertSteps ==
    ASSUME IInv, NEW t \in Writers, Insert(t)
    PROVE  IInv'
<1>1. t \in Threads /\ TypeOK /\ ThreadInv(t)
  BY DEF IInv, Threads
<1>2. CASE Decline(t)
  <2>1. TypeOK'
    BY <1>1, <1>2 DEF Decline, TypeOK, Goto, history
  <2>2. Quiet(t)
    BY <1>1, <1>2 DEF Decline, TypeOK, Goto, history, Quiet
  <2>3. ThreadInv(t)'
    BY <1>1, <1>2 DEF Decline, TypeOK, Goto, history, ThreadInv, InsertPcs, Iterating
  <2> QED
    BY <1>1, <2>1, <2>2, <2>3, QuietSpares, OneThread
<1>3. CASE MeasureSize(t)
  <2>1. /\ \E k \in Keys : key' = [key EXCEPT ![t] = k]
        /\ pc[t] = "out" /\ UNCHANGED <<entries, guards, found>>
        /\ overlap' \in BOOLEAN
        /\ \/ Goto(t, "put") /\ UNCHANGED <<todo, lasting>>
           \/ /\ Goto(t, "scan") /\ todo' = [todo EXCEPT ![t] = Keys]
              /\ lasting' = [lasting EXCEPT ![t] = Expired]
    BY <1>3 DEF MeasureSize, NoteOverlap
  <2>2. Expired \subseteq Keys /\ Expired' = Expired
    BY <2>1 DEF Expired
  <2>3. TypeOK'
    BY <1>1, <2>1, <2>2 DEF TypeOK, Goto
  <2>4. Quiet(t)
    BY <1>1, <2>1 DEF TypeOK, Goto, Quiet
  <2>5. ThreadInv(t)'
    BY <1>1, <2>1, <2>2 DEF TypeOK, Goto, ThreadInv, InsertPcs, Iterating
  <2> QED
    BY <1>1, <2>3, <2>4, <2>5, QuietSpares, OneThread
<1>4. CASE Scan(t)
  <2>1. pc[t] = "scan" /\ UNCHANGED <<entries, key, overlap>> /\ key[t] \in Keys
        /\ lasting[t] \subseteq Expired /\ (found[t] = {} => lasting[t] \subseteq todo[t])
        /\ Expired' = Expired /\ todo[t] \subseteq Keys
        /\ (found[t] # {} => todo[t] = {} /\ \E k \in Keys : found[t] = {k})
    BY <1>1, <1>4 DEF Scan, ThreadInv, InsertPcs, Iterating, Expired, TypeOK
  <2>2. ASSUME NEW k \in todo[t], entries[k] = "expired", found' = [found EXCEPT ![t] = {k}],
               todo' = [todo EXCEPT ![t] = {}], lasting' = [lasting EXCEPT ![t] = {k}],
               Visit(t, k), UNCHANGED pc
        PROVE  IInv'
    <3>1. k \in Keys /\ k \in Expired
      BY <2>1, <2>2 DEF Expired
    <3>2. TypeOK'
      BY <1>1, <2>1, <2>2, <3>1 DEF TypeOK, Visit
    <3>3. Quiet(t)
      BY <1>1, <2>1, <2>2 DEF TypeOK, Visit, Quiet
    <3>4. ThreadInv(t)'
      BY <1>1, <2>1, <2>2, <3>1 DEF TypeOK, Visit, ThreadInv, InsertPcs, Iterating
    <3> QED
      BY <1>1, <3>2, <3>3, <3>4, QuietSpares, OneThread
  <2>3. ASSUME NEW k \in todo[t], entries[k] # "expired", todo' = [todo EXCEPT ![t] = @ \ {k}],
               Visit(t, k), UNCHANGED <<pc, found, lasting>>
        PROVE  IInv'
    <3>1. k \notin lasting[t] /\ k \in Keys /\ found[t] = {}
      BY <2>1, <2>3 DEF Expired
    <3>2. TypeOK'
      BY <1>1, <2>1, <2>3, <3>1 DEF TypeOK, Visit
    <3>3. Quiet(t)
      BY <1>1, <2>1, <2>3 DEF TypeOK, Visit, Quiet
    <3>4. ThreadInv(t)'
      BY <1>1, <2>1, <2>3, <3>1 DEF TypeOK, Visit, ThreadInv, InsertPcs, Iterating
    <3> QED
      BY <1>1, <3>2, <3>3, <3>4, QuietSpares, OneThread
  <2>4. ASSUME todo[t] = {}, DropGuards(t), UNCHANGED <<found, lasting>>,
               \/ found[t] # {} /\ Goto(t, "evict") /\ UNCHANGED todo
               \/ found[t] = {} /\ Goto(t, "pick") /\ todo' = [todo EXCEPT ![t] = Keys]
        PROVE  IInv'
    <3>1. TypeOK'
      BY <1>1, <2>1, <2>4 DEF TypeOK, Goto, DropGuards
    <3>2. Quiet(t)
      BY <1>1, <2>1, <2>4 DEF TypeOK, Goto, DropGuards, Quiet
    <3>3. ThreadInv(t)'
      BY <1>1, <2>1, <2>4 DEF TypeOK, Goto, DropGuards, ThreadInv, InsertPcs, Iterating
    <3> QED
      BY <1>1, <3>1, <3>2, <3>3, QuietSpares, OneThread
  <2> QED
    BY <1>4, <2>2, <2>3, <2>4 DEF Scan
<1>5. CASE PickAny(t)
  <2>1. pc[t] = "pick" /\ UNCHANGED <<entries, key, lasting, overlap>> /\ key[t] \in Keys
        /\ todo[t] \subseteq Keys
        /\ (found[t] # {} => todo[t] = {} /\ \E k \in Keys : found[t] = {k})
    BY <1>1, <1>5 DEF PickAny, history, ThreadInv, InsertPcs, Iterating, TypeOK
  <2>2. ASSUME NEW k \in todo[t], Visit(t, k), UNCHANGED pc,
               \/ /\ found' = [found EXCEPT ![t] = {k}]
                  /\ todo' = [todo EXCEPT ![t] = {}]
               \/ /\ todo' = [todo EXCEPT ![t] = @ \ {k}]
                  /\ UNCHANGED found
        PROVE  IInv'
    <3>1. TypeOK'
      BY <1>1, <2>1, <2>2 DEF TypeOK, Visit
    <3>2. Quiet(t)
      BY <1>1, <2>1, <2>2 DEF TypeOK, Visit, Quiet
    <3>3. ThreadInv(t)'
      BY <1>1, <2>1, <2>2 DEF TypeOK, Visit, ThreadInv, InsertPcs, Iterating
    <3> QED
      BY <1>1, <3>1, <3>2, <3>3, QuietSpares, OneThread
  <2>3. ASSUME todo[t] = {}, DropGuards(t), UNCHANGED <<todo, found>>,
               Goto(t, IF found[t] = {} THEN "put" ELSE "evictAny")
        PROVE  IInv'
    <3>1. TypeOK'
      BY <1>1, <2>1, <2>3 DEF TypeOK, Goto, DropGuards
    <3>2. Quiet(t)
      BY <1>1, <2>1, <2>3 DEF TypeOK, Goto, DropGuards, Quiet
    <3>3. ThreadInv(t)'
      BY <1>1, <2>1, <2>3 DEF TypeOK, Goto, DropGuards, ThreadInv, InsertPcs, Iterating
    <3> QED
      BY <1>1, <3>1, <3>2, <3>3, QuietSpares, OneThread
  <2> QED
    BY <1>5, <2>2, <2>3 DEF PickAny
<1>6. CASE Evict(t)
  <2>1. PICK k \in Keys : found[t] = {k} /\ Write(k, "none")
    BY <1>1, <1>6 DEF Evict, ThreadInv
  <2>2. /\ pc[t] \in {"evict", "evictAny"} /\ found' = [found EXCEPT ![t] = {}]
        /\ Goto(t, "put") /\ UNCHANGED <<key, todo>>
    BY <1>6 DEF Evict
  <2>3. TypeOK'
    BY <1>1, <2>1, <2>2, WriteSpares DEF TypeOK, Goto
  <2>4. \A u \in Threads \ {t} : Spared(u)
    BY <1>1, <2>1, <2>2, WriteSpares DEF TypeOK, Goto, Spared
  <2>5. ThreadInv(t)'
    BY <1>1, <2>1, <2>2, WriteSpares DEF TypeOK, Goto, ThreadInv, InsertPcs, Iterating
  <2> QED
    BY <1>1, <2>3, <2>4, <2>5, OneThread
<1>7. CASE Put(t)
  <2>1. /\ key[t] \in Keys /\ pc[t] = "put" /\ Write(key[t], "fresh") /\ Goto(t, "stored")
        /\ UNCHANGED <<key, todo, found>>
    BY <1>1, <1>7 DEF Put, ThreadInv, InsertPcs, Iterating
  <2>2. TypeOK'
    BY <1>1, <2>1, WriteSpares DEF TypeOK, Goto
  <2>3. \A u \in Threads \ {t} : Spared(u)
    BY <1>1, <2>1, WriteSpares DEF TypeOK, Goto, Spared
  <2>4. ThreadInv(t)'
    BY <1>1, <2>1, WriteSpares DEF TypeOK, Goto, ThreadInv, InsertPcs, Iterating
  <2> QED
    BY <1>1, <2>2, <2>3, <2>4, OneThread
<1> QED
  BY <1>2, <1>3, <1>4, <1>5, <1>6, <1>7 DEF Insert

\* invalidate(), invalidate_url() and clear()
LEMMA InvalidationSteps ==
    ASSUME IInv, NEW t \in Invalidators, InvalidateUrl(t) \/ Invalidate(t) \/ Clear(t)
    PROVE  IInv'
<1>1. t \in Threads /\ TypeOK /\ ThreadInv(t)
  BY DEF IInv, Threads
<1>2. Present \subseteq Keys /\ (UNCHANGED entries => Present' = Present)
  BY DEF Present
<1>3. ASSUME NEW label \in {"collect", "clear"}, NEW L \in SUBSET Present, pc[t] = "out",
             Goto(t, label), todo' = [todo EXCEPT ![t] = Keys],
             lasting' = [lasting EXCEPT ![t] = L],
             label = "collect" => L \subseteq SameUrl,
             UNCHANGED <<entries, guards, key, found, overlap>>
      PROVE  IInv'
  <2>1. TypeOK'
    BY <1>1, <1>2, <1>3 DEF TypeOK, Goto
  <2>2. Quiet(t)
    BY <1>1, <1>3 DEF TypeOK, Goto, Quiet
  <2>3. ThreadInv(t)'
    BY <1>1, <1>2, <1>3 DEF TypeOK, Goto, ThreadInv, InsertPcs, Iterating
  <2> QED
    BY <1>1, <2>1, <2>2, <2>3, QuietSpares, OneThread
<1>4. CASE BeginInvalidate(t) \/ BeginClear(t)
  BY <1>3, <1>4 DEF BeginInvalidate, BeginClear
<1>5. CASE Collect(t)
  <2>1. pc[t] = "collect" /\ UNCHANGED <<entries, key, lasting, overlap>>
        /\ lasting[t] \subseteq Present \cap SameUrl
        /\ lasting[t] \subseteq todo[t] \cup found[t]
        /\ todo[t] \subseteq Keys /\ found[t] \subseteq Keys
    BY <1>1, <1>5 DEF Collect, history, ThreadInv, TypeOK
  <2>2. ASSUME NEW k \in todo[t], todo' = [todo EXCEPT ![t] = @ \ {k}], UNCHANGED pc,
               found' = (IF k \in Present \cap SameUrl
                         THEN [found EXCEPT ![t] = @ \cup {k}] ELSE found),
               Visit(t, k)
        PROVE  IInv'
    <3>1. TypeOK'
      BY <1>1, <2>1, <2>2 DEF TypeOK, Visit
    <3>2. Quiet(t)
      BY <1>1, <2>1, <2>2 DEF TypeOK, Quiet, Visit
    <3>3. lasting[t] \subseteq todo'[t] \cup found'[t]
      BY <1>1, <2>1, <2>2 DEF TypeOK
    <3>4. ThreadInv(t)'
      BY <1>1, <1>2, <2>1, <2>2, <3>3 DEF ThreadInv, InsertPcs, Iterating
    <3> QED
      BY <1>1, <3>1, <3>2, <3>4, QuietSpares, OneThread
  <2>3. ASSUME todo[t] = {}, DropGuards(t), Goto(t, "removeAll"), UNCHANGED <<todo, found>>
        PROVE  IInv'
    <3>1. TypeOK'
      BY <1>1, <2>1, <2>3 DEF TypeOK, Goto, DropGuards
    <3>2. Quiet(t)
      BY <1>1, <2>1, <2>3 DEF TypeOK, Goto, DropGuards, Quiet
    <3>3. ThreadInv(t)'
      BY <1>1, <2>1, <2>3 DEF TypeOK, Goto, DropGuards, ThreadInv, InsertPcs, Iterating
    <3> QED
      BY <1>1, <3>1, <3>2, <3>3, QuietSpares, OneThread
  <2> QED
    BY <1>5, <2>2, <2>3 DEF Collect
<1>6. ASSUME Goto(t, "invalidated"), lasting[t] = {}, guards[t] = {}, found[t] = {},
             UNCHANGED <<entries, guards, todo, found, key, lasting, overlap>>
      PROVE  IInv'
  <2>1. TypeOK'
    BY <1>1, <1>6 DEF TypeOK, Goto
  <2>2. Quiet(t)
    BY <1>1, <1>6 DEF TypeOK, Goto, Quiet
  <2>3. ThreadInv(t)'
    BY <1>1, <1>6 DEF TypeOK, Goto, ThreadInv, InsertPcs, Iterating
  <2> QED
    BY <1>1, <2>1, <2>2, <2>3, QuietSpares, OneThread
<1>7. ASSUME NEW k \in Keys, Write(k, "none"), UNCHANGED <<pc, key>>,
             pc[t] \in {"out", "removeAll", "clear"},
             \/ todo' = todo /\ found' = found
             \/ todo' = todo /\ found' = [found EXCEPT ![t] = @ \ {k}]
             \/ found' = found /\ todo' = [todo EXCEPT ![t] = @ \ {k}]
      PROVE  IInv'
  <2>1. TypeOK'
    BY <1>1, <1>7, WriteSpares DEF TypeOK
  <2>2. \A u \in Threads \ {t} : Spared(u)
    BY <1>1, <1>7, WriteSpares DEF TypeOK, Spared
  <2>3. ThreadInv(t)'
    BY <1>1, <1>7, WriteSpares DEF TypeOK, ThreadInv, InsertPcs, Iterating
  <2> QED
    BY <1>1, <2>1, <2>2, <2>3, OneThread
<1>8. CASE RemoveAll(t)
  BY <1>1, <1>6, <1>7, <1>8 DEF RemoveAll, history, ThreadInv, TypeOK, Iterating
<1>9. CASE Invalidate(t)
  BY <1>7, <1>9 DEF Invalidate
<1>10. CASE ClearShard(t)
  BY <1>1, <1>6, <1>7, <1>10 DEF ClearShard, history, ThreadInv, TypeOK, Iterating
<1> QED
  BY <1>4, <1>5, <1>8, <1>9, <1>10 DEF InvalidateUrl, Clear

\* The invariant is inductive.
LEMMA ThreadsStaySafe == IInv /\ [Next]_vars => IInv'
<1> SUFFICES ASSUME IInv, [Next]_vars
             PROVE  IInv'
  OBVIOUS
<1>1. TypeOK
  BY DEF IInv
<1>2. ASSUME NEW t \in Threads, Return(t)
      PROVE  IInv'
  <2>1. TypeOK'
    BY <1>1, <1>2 DEF Return, TypeOK, Goto
  <2>2. Quiet(t)
    BY <1>1, <1>2 DEF Return, TypeOK, Goto, Quiet
  <2>3. ThreadInv(t)'
    BY <1>1, <1>2 DEF Return, TypeOK, Goto, IInv, ThreadInv, InsertPcs, Iterating
  <2> QED
    BY <2>1, <2>2, <2>3, QuietSpares, OneThread
<1>3. ASSUME NEW k \in Keys, Age(k)
      PROVE  IInv'
  <2>1. TypeOK'
    BY <1>1, <1>3 DEF Age, TypeOK, history
  <2>2. \A t \in Threads : Spared(t)
    BY <1>1, <1>3 DEF Age, TypeOK, history, Spared
  <2> QED
    BY <1>1, <2>1, <2>2, SparedStays DEF IInv
<1>4. CASE UNCHANGED vars
  BY <1>4 DEF vars, history, IInv, TypeOK, ThreadInv, Expired, Present
<1> QED
  BY <1>2, <1>3, <1>4, GetSteps, InsertSteps, InvalidationSteps DEF Next

\* At first nobody is in a call.
LEMMA InitIsSafe == Init => IInv
BY CacheAssumption DEF Init, IInv, TypeOK, ThreadInv, InsertPcs, Iterating

\* It holds, then, always.
LEMMA CacheIsSafe == Spec => []IInv
BY InitIsSafe, ThreadsStaySafe, PTL DEF Spec

-----------------------------------------------------------------------------
\* The entries can be counted.
LEMMA PresentFinite ==
    /\ IsFiniteSet(Present) /\ Cardinality(Present) \in Nat
    /\ \A S : Present \ S \subseteq Present
    /\ \A S \in SUBSET Present : /\ Cardinality(S) \in Nat
                               /\ Cardinality(S) <= Cardinality(Present)
<1>1. Present \in SUBSET Keys
  BY DEF Present
<1>2. IsFiniteSet(Present)
  BY <1>1, CacheAssumption, FS_Subset
<1> QED
  BY <1>2, FS_Subset, FS_CardinalityType

\* One entry less, one entry more.
LEMMA OneLess ==
    ASSUME NEW k \in Present
    PROVE  Cardinality(Present \ {k}) = Cardinality(Present) - 1
BY PresentFinite, FS_RemoveElement

LEMMA OneMore ==
    ASSUME NEW k \in Keys
    PROVE  Cardinality(Present \cup {k}) <= Cardinality(Present) + 1
BY PresentFinite, FS_AddElement

\* Entries leave, or grow old, and no insert gets any further: there is as much
\* room as before.
LEMMA RoomStays ==
    ASSUME RoomInv, Present' \subseteq Present, overlap' = overlap,
           \A u \in Threads : pc'[u] \in InsertPcs =>
              pc'[u] = pc[u] /\ found'[u] = found[u] /\ todo'[u] = todo[u]
    PROVE  RoomInv'
<1> SUFFICES ASSUME ~overlap
             PROVE  /\ Cardinality(Present') <= MaxSize
                    /\ \A t, u \in Threads :
                          pc'[t] \in InsertPcs /\ pc'[u] \in InsertPcs => t = u
                    /\ \A t \in Threads :
                          /\ pc'[t] = "put" => Cardinality(Present') < MaxSize
                          /\ pc'[t] \in InsertPcs /\ found'[t] # {} =>
                                Cardinality(Present' \ found'[t]) < MaxSize
                          /\ pc'[t] = "pick" /\ found'[t] = {} => Present' \subseteq todo'[t]
  BY DEF RoomInv
<1> DEFINE C(S) == Cardinality(S)
<1>1. /\ C(Present') <= C(Present) /\ C(Present') \in Nat /\ C(Present) \in Nat
      /\ C(Present) <= MaxSize /\ MaxSize \in Nat
  BY PresentFinite, CacheAssumption DEF RoomInv
<1>2. \A t, u \in Threads : pc'[t] \in InsertPcs /\ pc'[u] \in InsertPcs => t = u
  BY DEF RoomInv
<1>3. ASSUME NEW t \in Threads, pc'[t] = "put"
      PROVE  C(Present') < MaxSize
  <2>1. pc[t] = "put"
    BY <1>3 DEF InsertPcs
  <2>2. C(Present) < MaxSize
    BY <2>1 DEF RoomInv
  <2> QED
    BY <1>1, <2>2
<1>4. ASSUME NEW t \in Threads, pc'[t] \in InsertPcs, found'[t] # {}
      PROVE  C(Present' \ found'[t]) < MaxSize
  <2>1. pc[t] \in InsertPcs /\ found'[t] = found[t] /\ found[t] # {}
    BY <1>4
  <2>2. C(Present \ found[t]) < MaxSize
    BY <2>1 DEF RoomInv
  <2>3. IsFiniteSet(Present \ found[t])
    BY PresentFinite, FS_Subset
  <2>4. Present' \ found'[t] \subseteq Present \ found[t]
    BY <2>1
  <2>5. C(Present' \ found'[t]) <= C(Present \ found[t]) /\ C(Present' \ found'[t]) \in Nat
        /\ C(Present \ found[t]) \in Nat
    BY <2>3, <2>4, FS_Subset, FS_CardinalityType
  <2> QED
    BY <1>1, <2>2, <2>5
<1>5. ASSUME NEW t \in Threads, pc'[t] = "pick", found'[t] = {}
      PROVE  Present' \subseteq todo'[t]
  BY <1>5 DEF RoomInv, InsertPcs
<1> QED
  BY <1>1, <1>2, <1>3, <1>4, <1>5

\* A step of the only insert there is has to account for itself.
LEMMA RoomForOne ==
    ASSUME IInv, NEW t \in Threads,
           \A u \in Threads \ {t} : pc[u] \notin InsertPcs /\ pc'[u] = pc[u],
           Cardinality(Present') <= MaxSize,
           pc'[t] = "put" => Cardinality(Present') < MaxSize,
           pc'[t] \in InsertPcs /\ found'[t] # {} => Cardinality(Present' \ found'[t]) < MaxSize,
           pc'[t] = "pick" /\ found'[t] = {} => Present' \subseteq todo'[t]
    PROVE  RoomInv'
<1>1. \A u \in Threads : pc'[u] \in InsertPcs => u = t
  OBVIOUS
<1> QED
  BY <1>1 DEF RoomInv, InsertPcs

\* An insert keeps room for its entry, or makes it, as long as it is alone.
LEMMA InsertsKeepRoom ==
    ASSUME IInv, RoomInv, MaxSize # 0, NEW t \in Writers, Insert(t)
    PROVE  RoomInv'
<1>1. t \in Threads /\ TypeOK /\ ThreadInv(t) /\ MaxSize \in Nat
  BY CacheAssumption DEF IInv, Threads
<1>2. CASE Decline(t)
  <2>1. Present' = Present
    BY <1>2 DEF Decline, Present
  <2> QED
    BY <1>1, <1>2, <2>1, RoomStays DEF Decline, TypeOK, Goto, history, InsertPcs
<1>3. CASE MeasureSize(t)
  <2>1. Present' = Present
    BY <1>3 DEF MeasureSize, Present
  <2>2. CASE overlap'
    BY <2>2 DEF RoomInv
  <2>3. CASE ~overlap'
    <3>1. ~overlap /\ Inserting = {}
      BY <1>3, <2>3 DEF MeasureSize, NoteOverlap
    <3>2. \A u \in Threads : pc[u] \notin InsertPcs
      BY <3>1 DEF Inserting, InsertPcs, IInv, ThreadInv
    <3>3. \A u \in Threads \ {t} : pc'[u] = pc[u]
      BY <1>1, <1>3 DEF MeasureSize, Goto, TypeOK
    <3>4. /\ found'[t] = {}
          /\ \/ pc'[t] = "scan"
             \/ pc'[t] = "put" /\ Cardinality(Present) < MaxSize
      BY <1>1, <1>3 DEF MeasureSize, Goto, TypeOK, ThreadInv, Iterating
    <3>5. Cardinality(Present) <= MaxSize
      BY <3>1 DEF RoomInv
    <3> QED
      BY <1>1, <2>1, <3>2, <3>3, <3>4, <3>5, RoomForOne
  <2> QED
    BY <2>2, <2>3
<1>4. ASSUME pc[t] \in InsertPcs, ~overlap
      PROVE  /\ \A u \in Threads \ {t} : pc[u] \notin InsertPcs
             /\ Cardinality(Present) <= MaxSize /\ Cardinality(Present) \in Nat
  BY <1>1, <1>4, PresentFinite DEF RoomInv
<1>5. overlap /\ UNCHANGED overlap => RoomInv'
  BY DEF RoomInv
<1>6. ASSUME pc[t] \in {"scan", "pick"}, UNCHANGED <<entries, overlap>>,
             \A u \in Threads \ {t} : pc'[u] = pc[u],
             pc'[t] \in InsertPcs, pc'[t] = "put" => Present = {},
             \/ found'[t] = found[t]
             \/ \E k \in Present : found'[t] = {k},
             pc'[t] = "pick" /\ found'[t] = {} => Present \subseteq todo'[t]
      PROVE  RoomInv'
  <2>1. pc[t] \in InsertPcs /\ Present' = Present
    BY <1>6 DEF InsertPcs, Present
  <2>2. pc'[t] = "put" => Cardinality(Present') < MaxSize
    BY <1>1, <1>6, <2>1, FS_EmptySet
  <2>3. ASSUME ~overlap, found'[t] # {}
        PROVE  Cardinality(Present' \ found'[t]) < MaxSize
    <3>1. CASE found'[t] = found[t]
      BY <1>1, <2>1, <2>3, <3>1 DEF RoomInv
    <3>2. CASE \E k \in Present : found'[t] = {k}
      <4>1. Cardinality(Present' \ found'[t]) = Cardinality(Present) - 1
        BY <2>1, <3>2, OneLess
      <4> QED
        BY <1>1, <1>4, <2>1, <2>3, <4>1
    <3> QED
      BY <1>6, <3>1, <3>2
  <2>4. ASSUME ~overlap
        PROVE  RoomInv'
    BY <1>1, <1>4, <1>6, <2>1, <2>2, <2>3, <2>4, RoomForOne
  <2> QED
    BY <1>5, <1>6, <2>4
<1>7. CASE Scan(t)
  <2>1. pc[t] = "scan" /\ UNCHANGED <<entries, overlap>> /\ pc'[t] \in {"scan", "evict", "pick"}
    BY <1>1, <1>7 DEF Scan, Goto, TypeOK
  <2>2. \A u \in Threads \ {t} : pc'[u] = pc[u]
    BY <1>1, <1>7 DEF Scan, Goto, TypeOK
  <2>3. found'[t] = found[t] \/ \E k \in Present : found'[t] = {k}
    BY <1>1, <1>7 DEF Scan, TypeOK, Present
  <2>4. pc'[t] = "pick" => todo'[t] = Keys
    BY <1>1, <1>7 DEF Scan, Goto, TypeOK
  <2>5. pc'[t] = "pick" => Present \subseteq todo'[t]
    BY <2>4 DEF Present
  <2> QED
    BY <1>6, <2>1, <2>2, <2>3, <2>5 DEF InsertPcs
<1>10. CASE PickAny(t)
  <2>1. pc[t] = "pick" /\ UNCHANGED <<entries, overlap>> /\ pc'[t] \in {"pick", "put", "evictAny"}
    BY <1>1, <1>10 DEF PickAny, history, Goto, TypeOK
  <2>2. \A u \in Threads \ {t} : pc'[u] = pc[u]
    BY <1>1, <1>10 DEF PickAny, Goto, TypeOK
  <2>3. found'[t] = found[t] \/ \E k \in Present : found'[t] = {k}
    BY <1>1, <1>10 DEF PickAny, TypeOK
  <2>4. ASSUME ~overlap, found[t] = {}
        PROVE  Present \subseteq todo[t]
    BY <1>1, <2>1, <2>4 DEF RoomInv
  <2>5. pc'[t] = "put" => found[t] = {} /\ todo[t] = {}
    BY <1>1, <1>10 DEF PickAny, Goto, TypeOK
  <2>6. ASSUME pc'[t] = "pick", found'[t] = {}, ~overlap
        PROVE  Present \subseteq todo'[t]
    <3>1. PICK k \in todo[t] : k \notin Present /\ found' = found
                               /\ todo' = [todo EXCEPT ![t] = @ \ {k}]
      BY <1>1, <1>10, <2>6 DEF PickAny, Goto, TypeOK
    <3>2. Present \subseteq todo[t]
      BY <2>4, <2>6, <3>1
    <3> QED
      BY <1>1, <3>1, <3>2 DEF TypeOK
  <2>7. CASE overlap
    BY <1>5, <2>1, <2>7
  <2>8. CASE ~overlap
    BY <1>6, <2>1, <2>2, <2>3, <2>4, <2>5, <2>6, <2>8 DEF InsertPcs
  <2> QED
    BY <2>7, <2>8
<1>8. CASE Evict(t)
  <2>1. PICK k \in Keys : found[t] = {k} /\ Write(k, "none")
    BY <1>1, <1>8 DEF Evict, ThreadInv
  <2>2. pc[t] \in {"evict", "evictAny"} /\ Goto(t, "put") /\ UNCHANGED overlap
    BY <1>8, <2>1 DEF Evict, Write
  <2>3. Present' = Present \ found[t]
    BY <1>1, <2>1, WriteSpares DEF Present
  <2>4. \A u \in Threads \ {t} : pc'[u] = pc[u]
    BY <1>1, <2>2 DEF Goto, TypeOK
  <2>5. pc'[t] = "put" /\ found'[t] = {}
    BY <1>1, <1>8, <2>2 DEF Evict, Goto, TypeOK
  <2>6. ~overlap => Cardinality(Present') < MaxSize /\ Cardinality(Present') \in Nat
    BY <1>1, <2>1, <2>2, <2>3, PresentFinite DEF RoomInv, InsertPcs
  <2>7. ASSUME ~overlap
        PROVE  RoomInv'
    <3>1. \A u \in Threads \ {t} : pc[u] \notin InsertPcs
      BY <1>4, <2>2, <2>7 DEF InsertPcs
    <3>2. Cardinality(Present') <= MaxSize
      BY <1>1, <2>6, <2>7
    <3> QED
      BY <1>1, <2>4, <2>5, <2>6, <2>7, <3>1, <3>2, RoomForOne
  <2> QED
    BY <1>5, <2>2, <2>7
<1>9. CASE Put(t)
  <2>1. key[t] \in Keys /\ pc[t] = "put" /\ Write(key[t], "fresh") /\ Goto(t, "stored")
    BY <1>1, <1>9 DEF Put, ThreadInv, InsertPcs, Iterating
  <2>2. Present' = Present \cup {key[t]} /\ UNCHANGED overlap
    BY <1>1, <2>1, WriteSpares DEF Present
  <2>3. \A u \in Threads \ {t} : pc'[u] = pc[u]
    BY <1>1, <2>1 DEF Goto, TypeOK
  <2>4. pc'[t] = "stored"
    BY <1>1, <2>1 DEF Goto, TypeOK
  <2>5. ~overlap => Cardinality(Present) < MaxSize
    BY <1>1, <2>1 DEF RoomInv
  <2>6. /\ Cardinality(Present') <= Cardinality(Present) + 1
        /\ Cardinality(Present') \in Nat /\ Cardinality(Present) \in Nat
    BY <2>1, <2>2, OneMore, PresentFinite, FS_AddElement, FS_CardinalityType
  <2>7. ~overlap => Cardinality(Present') <= MaxSize
    BY <1>1, <2>5, <2>6
  <2> QED
    BY <1>1, <1>4, <1>5, <2>1, <2>2, <2>3, <2>4, <2>7, RoomForOne DEF InsertPcs
<1> QED
  BY <1>2, <1>3, <1>7, <1>8, <1>9, <1>10 DEF Insert

\* The other calls make no entry, and leave the inserts alone.
LEMMA StepsKeepRoom ==
    IInv /\ RoomInv /\ MaxSize # 0 /\ [Next]_vars => RoomInv'
<1> SUFFICES ASSUME IInv, RoomInv, MaxSize # 0, [Next]_vars
             PROVE  RoomInv'
  OBVIOUS
<1>1. TypeOK /\ \A t \in Threads : ThreadInv(t)
  BY DEF IInv
<1>2. UNCHANGED entries => Present' = Present
  BY DEF Present
<1>3. ASSUME NEW k \in Keys, Write(k, "none")
      PROVE  Present' \subseteq Present /\ UNCHANGED overlap
  BY <1>1, <1>3 DEF Write, Present, TypeOK
<1>4. ASSUME NEW t \in Readers, Get(t)
      PROVE  RoomInv'
  <2>1. t \in Threads
    BY <1>4 DEF Threads
  <2>2. CASE Lookup(t)
    <3>1. pc' = [pc EXCEPT ![t] = "miss"] \/ pc' = [pc EXCEPT ![t] = "got"]
      BY <2>2 DEF Lookup, Goto
    <3> QED
      BY <1>1, <1>2, <2>1, <2>2, <3>1, RoomStays DEF Lookup, TypeOK, history, InsertPcs
  <2>3. CASE Examine(t)
    BY <1>1, <1>2, <2>1, <2>3, RoomStays DEF Examine, TypeOK, Goto, InsertPcs
  <2>4. CASE RemoveExpired(t)
    BY <1>1, <1>3, <2>1, <2>4, RoomStays DEF RemoveExpired, ThreadInv, TypeOK, Goto, InsertPcs
  <2> QED
    BY <1>4, <2>2, <2>3, <2>4 DEF Get
<1>5. ASSUME NEW t \in Invalidators, InvalidateUrl(t) \/ Invalidate(t) \/ Clear(t)
      PROVE  RoomInv'
  <2>1. t \in Threads
    BY <1>5 DEF Threads
  <2>2. CASE BeginInvalidate(t) \/ BeginClear(t)
    BY <1>1, <1>2, <2>1, <2>2, RoomStays DEF BeginInvalidate, BeginClear, TypeOK, Goto, InsertPcs
  <2>3. CASE Collect(t)
    BY <1>1, <1>2, <2>1, <2>3, RoomStays DEF Collect, TypeOK, Goto, history, InsertPcs
  <2>4. CASE RemoveAll(t)
    <3>1. Present' \subseteq Present /\ UNCHANGED overlap
      BY <1>1, <1>2, <1>3, <2>1, <2>4 DEF RemoveAll, history, TypeOK
    <3> QED
      BY <1>1, <2>1, <2>4, <3>1, RoomStays DEF RemoveAll, TypeOK, Goto, InsertPcs
  <2>5. CASE Invalidate(t)
    BY <1>3, <2>5, RoomStays DEF Invalidate
  <2>6. CASE ClearShard(t)
    <3>1. Present' \subseteq Present /\ UNCHANGED overlap
      BY <1>1, <1>2, <1>3, <2>1, <2>6 DEF ClearShard, history, TypeOK
    <3> QED
      BY <1>1, <2>1, <2>6, <3>1, RoomStays DEF ClearShard, TypeOK, Goto, InsertPcs
  <2> QED
    BY <1>5, <2>2, <2>3, <2>4, <2>5, <2>6 DEF InvalidateUrl, Clear
<1>6. ASSUME NEW t \in Threads, Return(t)
      PROVE  RoomInv'
  BY <1>1, <1>2, <1>6, RoomStays DEF Return, TypeOK, Goto, InsertPcs
<1>7. ASSUME NEW k \in Keys, Age(k)
      PROVE  RoomInv'
  <2>1. Present' = Present
    BY <1>1, <1>7 DEF Age, Present, TypeOK
  <2> QED
    BY <1>7, <2>1, RoomStays DEF Age, history
<1>8. CASE UNCHANGED vars
  BY <1>2, <1>8, RoomStays DEF vars, history
<1> QED
  BY <1>4, <1>5, <1>6, <1>7, <1>8, InsertsKeepRoom DEF Next

-----------------------------------------------------------------------------
\* Every thread of a cache is somewhere in its call, with keys of the cache.
THEOREM CacheIsWellTyped == Spec => []TypeOK
BY CacheIsSafe, PTL DEF IInv

\* No get, insert or removal writes to the map while its thread has a reference
\* into it (cache.rs:94, 169-172), so it cannot wait for itself.
THEOREM NoThreadWaitsForItself == Spec => []NeverWaitsForItself
<1>1. IInv => NeverWaitsForItself
  BY DEF IInv, ThreadInv, NeverWaitsForItself, Wants, Iterating
<1> QED
  BY <1>1, CacheIsSafe, PTL

\* invalidate_url() and clear() lose no entry that was there when they began
\* (cache.rs:193-211), whatever the other threads do while they iterate.
THEOREM InvalidationsAreComplete == Spec => []InvalidationIsComplete
<1>1. IInv => InvalidationIsComplete
  BY DEF IInv, ThreadInv, InvalidationIsComplete, Threads
<1> QED
  BY <1>1, CacheIsSafe, PTL

\* A fresh entry goes by an invalidation of its key or URL or of everything, as
\* the arbitrary entry an insert met after a search that could not have missed an
\* expired one, or as the very key an expired entry was seen under, and then it
\* was stored since (cache.rs:95, 173-184, 193-208).
THEOREM FreshEntriesLeaveForAReason == Spec => FreshLeavesForAReason
<1> DEFINE Reason(k) ==
      \/ \E t \in Invalidators :
            /\ pc' = pc
            /\ \/ pc[t] = "out"
               \/ pc[t] = "removeAll" /\ k \in found[t] \cap SameUrl
               \/ pc[t] = "clear" /\ k \in todo[t]
      \/ \E t \in Writers :
            pc[t] = "evictAny" /\ pc'[t] = "put" /\ found[t] = {k} /\ lasting[t] = {}
      \/ \E t \in Writers :
            pc[t] = "evict" /\ pc'[t] = "put" /\ found[t] = {k} /\ k \notin lasting[t]
      \/ \E t \in Readers :
            pc[t] = "remove" /\ pc'[t] = "miss" /\ key[t] = k /\ k \notin lasting[t]
<1>1. ASSUME IInv, [Next]_vars, NEW k \in Keys, FreshGoes(k)
      PROVE  Reason(k)
  <2>1. TypeOK /\ \A t \in Threads : ThreadInv(t)
    BY <1>1 DEF IInv
  <2>2. \A t \in Threads : pc[t] \in {"remove", "evict"} => k \notin lasting[t]
    BY <1>1, <2>1 DEF ThreadInv, Expired, FreshGoes
  <2>3. \A t \in Threads : pc[t] = "evictAny" => lasting[t] = {}
    BY <2>1 DEF ThreadInv
  <2>4. ASSUME NEW x \in Keys, NEW age \in {"none", "fresh"}, Write(x, age)
        PROVE  x = k /\ age = "none"
    BY <1>1, <2>1, <2>4 DEF Write, TypeOK, FreshGoes
  <2>5. ASSUME NEW t \in Readers, Get(t)
        PROVE  Reason(k)
    <3>1. RemoveExpired(t)
      BY <1>1, <2>5 DEF Get, Lookup, Examine, FreshGoes
    <3>2. t \in Threads /\ pc[t] = "remove" /\ pc'[t] = "miss" /\ key[t] \in Keys
      BY <2>1, <3>1 DEF RemoveExpired, Goto, TypeOK, Threads, ThreadInv
    <3>3. key[t] = k
      BY <2>4, <3>1, <3>2 DEF RemoveExpired
    <3> QED
      BY <2>2, <3>2, <3>3
  <2>6. ASSUME NEW t \in Writers, Insert(t)
        PROVE  Reason(k)
    <3>1. t \in Threads
      BY DEF Threads
    <3>2. ~Put(t)
      BY <2>1, <2>4, <3>1 DEF Put, ThreadInv, InsertPcs
    <3>3. CASE Evict(t)
      <4>1. pc[t] \in {"evict", "evictAny"} /\ pc'[t] = "put"
        BY <2>1, <3>1, <3>3 DEF Evict, Goto, TypeOK
      <4>2. PICK x \in Keys : found[t] = {x} /\ Write(x, "none")
        BY <2>1, <3>1, <3>3, <4>1 DEF Evict, ThreadInv
      <4>3. found[t] = {k}
        BY <2>4, <4>2
      <4> QED
        BY <2>2, <2>3, <3>1, <4>1, <4>3
    <3>4. CASE Decline(t) \/ MeasureSize(t) \/ Scan(t) \/ PickAny(t)
      BY <1>1, <3>4 DEF Decline, MeasureSize, Scan, PickAny, FreshGoes
    <3> QED
      BY <2>6, <3>2, <3>3, <3>4 DEF Insert
  <2>7. ASSUME NEW t \in Invalidators, InvalidateUrl(t) \/ Invalidate(t) \/ Clear(t)
        PROVE  Reason(k)
    <3>1. CASE Invalidate(t)
      BY <3>1 DEF Invalidate
    <3>2. CASE RemoveAll(t)
      <4>1. PICK x \in found[t] : Write(x, "none") /\ UNCHANGED pc
        BY <1>1, <3>2 DEF RemoveAll, FreshGoes
      <4>2. x \in Keys /\ found[t] \subseteq SameUrl
        BY <2>1, <3>2 DEF TypeOK, Threads, ThreadInv, RemoveAll
      <4> QED
        BY <2>4, <3>2, <4>1, <4>2 DEF RemoveAll
    <3>3. CASE ClearShard(t)
      <4>1. PICK x \in todo[t] : Write(x, "none") /\ UNCHANGED pc
        BY <1>1, <3>3 DEF ClearShard, FreshGoes
      <4>2. x \in Keys
        BY <2>1 DEF TypeOK, Threads
      <4> QED
        BY <2>4, <3>3, <4>1, <4>2 DEF ClearShard
    <3>4. CASE BeginInvalidate(t) \/ Collect(t) \/ BeginClear(t)
      BY <1>1, <3>4 DEF BeginInvalidate, Collect, BeginClear, FreshGoes
    <3> QED
      BY <2>7, <3>1, <3>2, <3>3, <3>4 DEF InvalidateUrl, Clear
  <2>8. \A t \in Threads : ~Return(t)
    BY <1>1 DEF Return, FreshGoes
  <2>9. \A x \in Keys : ~Age(x)
    BY <1>1, <2>1 DEF Age, TypeOK, FreshGoes
  <2>10. ~UNCHANGED vars
    BY <1>1 DEF vars, FreshGoes
  <2> QED
    BY <1>1, <2>5, <2>6, <2>7, <2>8, <2>9, <2>10 DEF Next
<1> HIDE DEF Reason
<1>2. IInv /\ [Next]_vars => [\A k \in Keys : FreshGoes(k) => Reason(k)]_vars
  BY <1>1
<1> QED
  BY <1>2, CacheIsSafe, PTL DEF Spec, FreshLeavesForAReason, Reason

\* One insert after the other, the map never holds more than max_size entries
\* (cache.rs:132-135), for every max_size but 0: with that one entry is kept.
THEOREM SizeIsBoundedAlone == MaxSize # 0 => (Spec => []SizeBoundedAlone)
<1> SUFFICES ASSUME MaxSize # 0
             PROVE  Spec => []SizeBoundedAlone
  OBVIOUS
<1>1. Init => RoomInv
  <2> SUFFICES ASSUME Init
               PROVE  RoomInv
    OBVIOUS
  <2>1. Present = {}
    BY DEF Init, Present
  <2>2. Cardinality(Present) <= MaxSize
    BY <2>1, FS_EmptySet, CacheAssumption
  <2> QED
    BY <2>2 DEF Init, RoomInv, InsertPcs
<1>2. IInv /\ RoomInv /\ [Next]_vars => RoomInv'
  BY StepsKeepRoom
<1>3. RoomInv => SizeBoundedAlone
  BY DEF RoomInv, SizeBoundedAlone
<1> QED
  BY <1>1, <1>2, <1>3, CacheIsSafe, PTL DEF Spec
=============================================================================
