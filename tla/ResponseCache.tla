--------------------------- MODULE ResponseCache ---------------------------
(***************************************************************************)
(* InMemoryCache (src/cache.rs) under threads that call get, insert,       *)
(* invalidate, invalidate_url and clear at the same time.  The map is a    *)
(* DashMap: one call on one key is atomic, and an iteration looks at the   *)
(* entries one after the other while the map changes.  What the code       *)
(* composes of several such calls is therefore several steps here.         *)
(*                                                                         *)
(* A reference into the map keeps a read lock on the entry's shard until it *)
(* is dropped, an iterator one on the shard it is in until it moves on or  *)
(* is dropped, and a write waits for all of them; here a key is a shard of *)
(* its own.  A key is a method and a URL.  Of an entry only its age        *)
(* matters: fresh, or expired because its ttl has passed.  A Cache-Control *)
(* header is the sequence of its directives, records [name, value]; a      *)
(* max-age whose number does not parse has another name.                   *)
(***************************************************************************)
EXTENDS Naturals, FiniteSets, Sequences

CONSTANTS
    Keys,
    NoKey,          \* of a thread that is in no call
    SameUrl,        \* the keys whose URL is the one invalidate_url is called with
    MaxSize,        \* CacheConfig: max_size,
    DefaultTtl,     \* default_ttl in seconds,
    UseControl,     \* and use_cache_control
    Controls,       \* Cache-Control headers; <<>> is a response without one
    Readers, Writers,                \* threads that call get, insert,
    Invalidators                     \* invalidate, invalidate_url or clear

ASSUME CacheAssumption ==
    /\ IsFiniteSet(Keys)
    /\ NoKey \notin Keys
    /\ SameUrl \subseteq Keys
    /\ MaxSize \in Nat /\ DefaultTtl \in Nat /\ UseControl \in BOOLEAN
    /\ \A c \in Controls : \A i \in DOMAIN c : DOMAIN c[i] = {"name", "value"}

Threads == Readers \cup Writers \cup Invalidators

VARIABLES
    entries,    \* the map: "none", "fresh" or "expired" for each key
    guards,     \* the keys each thread has a reference to, or its iterator is at
    pc,         \* where each thread is in its call
    key,        \* the key it was called with
    todo,       \* the keys its iteration has still to visit
    found,      \* the keys its iteration is to remove
    lasting,    \* history: entries its iteration cannot miss, there all the time;
                \* or the expired entry it is to remove, as long as it is that one
    overlap     \* history: two inserts were under way at once

history == <<lasting, overlap>>
vars == <<entries, guards, pc, key, todo, found, history>>

Present == {k \in Keys : entries[k] # "none"}
Expired == {k \in Keys : entries[k] = "expired"}

Init ==
    /\ entries = [k \in Keys |-> "none"]
    /\ guards = [t \in Threads |-> {}]
    /\ pc = [t \in Threads |-> "out"]
    /\ key = [t \in Threads |-> NoKey]
    /\ todo = [t \in Threads |-> {}]
    /\ found = [t \in Threads |-> {}]
    /\ lasting = [t \in Threads |-> {}]
    /\ overlap = FALSE

Goto(t, label) == pc' = [pc EXCEPT ![t] = label]

\* DashMap::insert and remove: no thread has a reference to k, the caller
\* included. The entry that was there did not last.
Write(k, age) ==
    /\ \A t \in Threads : k \notin guards[t]
    /\ entries' = [entries EXCEPT ![k] = age]
    /\ lasting' = [t \in Threads |-> lasting[t] \ {k}]
    /\ UNCHANGED <<guards, overlap>>

-----------------------------------------------------------------------------
\* get(): a reference to the entry, if there is one.
Lookup(t) ==
    /\ pc[t] = "out"
    /\ \E k \in Keys :
          /\ key' = [key EXCEPT ![t] = k]
          /\ IF entries[k] = "none"
             THEN Goto(t, "miss") /\ UNCHANGED guards
             ELSE Goto(t, "got") /\ guards' = [guards EXCEPT ![t] = {k}]
    /\ UNCHANGED <<entries, todo, found, history>>

\* A fresh entry is cloned and returned. The reference goes in either case.
Examine(t) ==
    /\ pc[t] = "got"
    /\ \/ entries[key[t]] = "fresh" /\ Goto(t, "hit") /\ UNCHANGED lasting
       \/ /\ entries[key[t]] = "expired"
          /\ Goto(t, "remove")
          /\ lasting' = [lasting EXCEPT ![t] = {key[t]}]
    /\ guards' = [guards EXCEPT ![t] = {}]
    /\ UNCHANGED <<entries, key, todo, found, overlap>>

\* The key is removed, whatever it holds by now.
RemoveExpired(t) ==
    /\ pc[t] = "remove"
    /\ Write(key[t], "none")
    /\ Goto(t, "miss")
    /\ UNCHANGED <<key, todo, found>>

-----------------------------------------------------------------------------
\* Threads between the start of insert() and its end.
Inserting == {t \in Writers : pc[t] \notin {"out", "stored"}}

NoteOverlap(t) == overlap' = (overlap \/ Inserting # {})

\* parse_max_age(): the first directive that is one.
ParseMaxAge(control) == SelectSeq(control, LAMBDA directive : directive.name = "max-age")

\* resolve_ttl()
ResolveTtl(control) ==
    IF UseControl /\ \E i \in DOMAIN control : control[i].name \in {"no-store", "no-cache"}
    THEN 0
    ELSE IF UseControl /\ ParseMaxAge(control) # <<>> THEN Head(ParseMaxAge(control)).value
    ELSE DefaultTtl

Storable == {c \in Controls : ResolveTtl(c) # 0}

\* insert() does nothing with a response that may not be kept.
Decline(t) ==
    /\ pc[t] = "out"
    /\ Controls \ Storable # {}
    /\ \E k \in Keys : key' = [key EXCEPT ![t] = k]
    /\ Goto(t, "stored")
    /\ UNCHANGED <<entries, guards, todo, found, history>>

\* Fault: off by one.
MeasureSizeLate(t) ==
    /\ pc[t] = "out"
    /\ \E k \in Keys : key' = [key EXCEPT ![t] = k]
    /\ NoteOverlap(t)
    /\ IF Cardinality(Present) <= MaxSize
       THEN Goto(t, "put") /\ UNCHANGED <<todo, lasting>>
       ELSE /\ Goto(t, "scan")
            /\ todo' = [todo EXCEPT ![t] = Keys]
            /\ lasting' = [lasting EXCEPT ![t] = Expired]
    /\ UNCHANGED <<entries, guards, found>>

\* insert(): the size is compared once, before the entry goes in. An insert
\* that evicts starts to iterate.
MeasureSize(t) ==
    /\ pc[t] = "out"
    /\ Storable # {}
    /\ \E k \in Keys : key' = [key EXCEPT ![t] = k]
    /\ NoteOverlap(t)
    /\ \/ /\ Cardinality(Present) < MaxSize
          /\ Goto(t, "put")
          /\ UNCHANGED <<todo, lasting>>
       \/ /\ Cardinality(Present) >= MaxSize
          /\ Goto(t, "scan")
          /\ todo' = [todo EXCEPT ![t] = Keys]
          /\ lasting' = [lasting EXCEPT ![t] = Expired]
    /\ UNCHANGED <<entries, guards, found>>

\* An iterator moves on to k: it lets go of the shard it was in.
Visit(t, k) == guards' = [guards EXCEPT ![t] = {k}]

\* An iterator is dropped, and what it was at with it.
DropGuards(t) == guards' = [guards EXCEPT ![t] = {}]

\* Fault: only the first entry is looked at.
ScanOne(t) ==
    /\ pc[t] = "scan"
    /\ \E k \in todo[t] :
          IF entries[k] = "expired"
          THEN found' = [found EXCEPT ![t] = {k}] /\ Goto(t, "evict") /\ UNCHANGED todo
          ELSE Goto(t, "pick") /\ todo' = [todo EXCEPT ![t] = Keys] /\ UNCHANGED found
    /\ UNCHANGED <<entries, guards, key, history>>

\* Fault: the iterator lives on while its victim is removed, as the temporaries
\* of an `if let` do.
ScanGuarded(t) ==
    /\ pc[t] = "scan"
    /\ \/ \E k \in todo[t] :
             /\ Visit(t, k)
             /\ \/ /\ entries[k] = "expired"
                   /\ found' = [found EXCEPT ![t] = {k}]
                   /\ todo' = [todo EXCEPT ![t] = {}]
                   /\ Goto(t, "evict")
                \/ /\ entries[k] # "expired"
                   /\ todo' = [todo EXCEPT ![t] = @ \ {k}]
                   /\ UNCHANGED <<pc, found>>
       \/ /\ todo[t] = {}
          /\ DropGuards(t)
          /\ Goto(t, "pick")
          /\ todo' = [todo EXCEPT ![t] = Keys]
          /\ UNCHANGED found
    /\ UNCHANGED <<entries, key, history>>

\* evict_one(), first iteration: the first expired entry it meets is the victim.
\* Its key is copied, and the iterator dropped by the end of the statement.
Scan(t) ==
    /\ pc[t] = "scan"
    /\ \/ \E k \in todo[t] :
             /\ Visit(t, k)
             /\ \/ /\ entries[k] = "expired"
                   /\ found' = [found EXCEPT ![t] = {k}]
                   /\ todo' = [todo EXCEPT ![t] = {}]
                   /\ lasting' = [lasting EXCEPT ![t] = {k}]
                \/ /\ entries[k] # "expired"
                   /\ todo' = [todo EXCEPT ![t] = @ \ {k}]
                   /\ UNCHANGED <<found, lasting>>
             /\ UNCHANGED pc
       \/ /\ todo[t] = {}
          /\ DropGuards(t)
          /\ \/ found[t] # {} /\ Goto(t, "evict") /\ UNCHANGED todo
             \/ found[t] = {} /\ Goto(t, "pick") /\ todo' = [todo EXCEPT ![t] = Keys]
          /\ UNCHANGED <<found, lasting>>
    /\ UNCHANGED <<entries, key, overlap>>

\* Fault: the map is taken to have an entry, as it had when it was measured.
PickUnchecked(t) ==
    /\ pc[t] = "pick"
    /\ Goto(t, "evictAny")
    /\ \E k \in (IF Present = {} THEN {NoKey} ELSE Present) :
          found' = [found EXCEPT ![t] = {k}]
    /\ UNCHANGED <<entries, guards, key, todo, history>>

\* Second iteration: the first entry it meets will do, if it meets one.
PickAny(t) ==
    /\ pc[t] = "pick"
    /\ \/ \E k \in todo[t] :
             /\ Visit(t, k)
             /\ \/ /\ k \in Present
                   /\ found' = [found EXCEPT ![t] = {k}]
                   /\ todo' = [todo EXCEPT ![t] = {}]
                \/ /\ k \notin Present
                   /\ todo' = [todo EXCEPT ![t] = @ \ {k}]
                   /\ UNCHANGED found
             /\ UNCHANGED pc
       \/ /\ todo[t] = {}
          /\ DropGuards(t)
          /\ Goto(t, IF found[t] = {} THEN "put" ELSE "evictAny")
          /\ UNCHANGED <<todo, found>>
    /\ UNCHANGED <<entries, key, history>>

\* The victim is removed, whatever it is by now.
Evict(t) ==
    /\ pc[t] \in {"evict", "evictAny"}
    /\ \E k \in found[t] : Write(k, "none")
    /\ found' = [found EXCEPT ![t] = {}]
    /\ Goto(t, "put")
    /\ UNCHANGED <<key, todo>>

Put(t) ==
    /\ pc[t] = "put"
    /\ Write(key[t], "fresh")
    /\ Goto(t, "stored")
    /\ UNCHANGED <<key, todo, found>>

-----------------------------------------------------------------------------
\* invalidate_url(): collect the keys of the URL, then remove them.
BeginInvalidate(t) ==
    /\ pc[t] = "out"
    /\ Goto(t, "collect")
    /\ todo' = [todo EXCEPT ![t] = Keys]
    /\ lasting' = [lasting EXCEPT ![t] = Present \cap SameUrl]
    /\ UNCHANGED <<entries, guards, key, found, overlap>>

\* Fault: one method's entry is enough.
CollectOne(t) ==
    /\ pc[t] = "collect"
    /\ \E k \in todo[t] :
          IF k \in Present \cap SameUrl
          THEN /\ found' = [found EXCEPT ![t] = {k}]
               /\ todo' = [todo EXCEPT ![t] = {}]
               /\ Goto(t, "removeAll")
          ELSE /\ todo' = [todo EXCEPT ![t] = @ \ {k}]
               /\ UNCHANGED <<pc, found>>
    /\ UNCHANGED <<entries, guards, key, history>>

Collect(t) ==
    /\ pc[t] = "collect"
    /\ \/ \E k \in todo[t] :
             /\ Visit(t, k)
             /\ todo' = [todo EXCEPT ![t] = @ \ {k}]
             /\ found' = IF k \in Present \cap SameUrl
                         THEN [found EXCEPT ![t] = @ \cup {k}] ELSE found
             /\ UNCHANGED pc
       \/ /\ todo[t] = {}
          /\ DropGuards(t)
          /\ Goto(t, "removeAll")
          /\ UNCHANGED <<todo, found>>
    /\ UNCHANGED <<entries, key, history>>

RemoveAll(t) ==
    /\ pc[t] = "removeAll"
    /\ \/ /\ found[t] = {}
          /\ Goto(t, "invalidated")
          /\ UNCHANGED <<entries, guards, found, history>>
       \/ \E k \in found[t] :
             /\ Write(k, "none")
             /\ found' = [found EXCEPT ![t] = @ \ {k}]
             /\ UNCHANGED pc
    /\ UNCHANGED <<key, todo>>

\* invalidate()
Invalidate(t) ==
    /\ pc[t] = "out"
    /\ \E k \in Keys : Write(k, "none")
    /\ UNCHANGED <<pc, key, todo, found>>

\* clear(): the shards are emptied one after the other.
BeginClear(t) ==
    /\ pc[t] = "out"
    /\ Goto(t, "clear")
    /\ todo' = [todo EXCEPT ![t] = Keys]
    /\ lasting' = [lasting EXCEPT ![t] = Present]
    /\ UNCHANGED <<entries, guards, key, found, overlap>>

ClearShard(t) ==
    /\ pc[t] = "clear"
    /\ \/ /\ todo[t] = {}
          /\ Goto(t, "invalidated")
          /\ UNCHANGED <<entries, guards, todo, history>>
       \/ \E k \in todo[t] :
             /\ Write(k, "none")
             /\ todo' = [todo EXCEPT ![t] = @ \ {k}]
             /\ UNCHANGED pc
    /\ UNCHANGED <<key, found>>

-----------------------------------------------------------------------------
\* A thread returns and may call again.
Return(t) ==
    /\ pc[t] \in {"hit", "miss", "stored", "invalidated"}
    /\ Goto(t, "out")
    /\ key' = [key EXCEPT ![t] = NoKey]
    /\ lasting' = [lasting EXCEPT ![t] = {}]
    /\ UNCHANGED <<entries, guards, todo, found, overlap>>

\* The ttl of an entry passes.
Age(k) ==
    /\ entries[k] = "fresh"
    /\ entries' = [entries EXCEPT ![k] = "expired"]
    /\ UNCHANGED <<guards, pc, key, todo, found, history>>

Get(t) == Lookup(t) \/ Examine(t) \/ RemoveExpired(t)
Insert(t) == Decline(t) \/ MeasureSize(t) \/ Scan(t) \/ PickAny(t) \/ Evict(t) \/ Put(t)
InvalidateUrl(t) == BeginInvalidate(t) \/ Collect(t) \/ RemoveAll(t)
Clear(t) == BeginClear(t) \/ ClearShard(t)

Next ==
    \/ \E t \in Readers : Get(t)
    \/ \E t \in Writers : Insert(t)
    \/ \E t \in Invalidators : InvalidateUrl(t) \/ Invalidate(t) \/ Clear(t)
    \/ \E t \in Threads : Return(t)
    \/ \E k \in Keys : Age(k)

Spec == Init /\ [][Next]_vars

-----------------------------------------------------------------------------
TypeOK ==
    /\ entries \in [Keys -> {"none", "fresh", "expired"}]
    /\ guards \in [Threads -> SUBSET Keys]
    /\ pc \in [Threads -> {"out", "got", "remove", "hit", "miss", "scan", "pick", "evict",
                           "evictAny", "put", "stored", "collect", "removeAll", "clear",
                           "invalidated"}]
    /\ key \in [Threads -> Keys \cup {NoKey}]
    /\ todo \in [Threads -> SUBSET Keys]
    /\ found \in [Threads -> SUBSET Keys]
    /\ lasting \in [Threads -> SUBSET Keys]
    /\ overlap \in BOOLEAN

\* The keys a thread is about to write to.
Wants(t) ==
    CASE pc[t] \in {"remove", "put"} -> {key[t]}
      [] pc[t] \in {"evict", "evictAny", "removeAll"} -> found[t]
      [] pc[t] = "clear" -> todo[t]
      [] OTHER -> {}

\* A thread that is about to write has no reference and no iterator into the
\* map, to the key it writes or to another: it would wait for itself, which is
\* what the note in evict_one() is about (cache.rs:169-172), or two threads for
\* each other, whatever shards their keys are in.
NeverWaitsForItself == \A t \in Threads : Wants(t) # {} => guards[t] = {}

\* "Drop every entry for url, whatever method it was stored under" and "Remove
\* everything" (cache.rs:193, 207): no entry that was there before the call is
\* there after it, whatever other threads store and remove meanwhile.
InvalidationIsComplete ==
    \A t \in Invalidators : pc[t] = "invalidated" => lasting[t] = {}

\* As long as inserts come one after the other, whatever else happens at the
\* same time, the map never holds more than max_size entries (cache.rs:132-135).
SizeBoundedAlone == overlap \/ Cardinality(Present) <= MaxSize

\* "Upper bound on stored entries" (cache.rs:20).
SizeBounded == Cardinality(Present) <= MaxSize

\* An entry goes in this step though it has not expired.
FreshGoes(k) == entries[k] = "fresh" /\ entries'[k] = "none"

\* An entry that has not expired goes only
\*   - by an invalidation: of its key, of its URL as collected, of everything;
\*   - as the entry an insert met when it made room, after a search in which it
\*     could not have missed an expired one (cache.rs:20-22);
\*   - as the very key a lookup, or an insert that makes room, had seen an expired
\*     entry under, and then it was stored since.
\* The last is more than the documentation allows: "expired entries are dropped as a
\* side effect of being looked up" (:88-89, 59-60), and one is evicted "if any,
\* otherwise an arbitrary one" (:20-22).  But both removals are by key, after the guard
\* on the entry is gone (:95, 179), and lose what was stored under it in between; no
\* other key is ever lost.
FreshLeavesForAReason ==
    [][\A k \in Keys : FreshGoes(k) =>
          \/ \E t \in Invalidators :
                /\ pc' = pc
                /\ \/ pc[t] = "out"
                   \/ pc[t] = "removeAll" /\ k \in found[t] \cap SameUrl
                   \/ pc[t] = "clear" /\ k \in todo[t]
          \/ \E t \in Writers :
                pc[t] = "evictAny" /\ pc'[t] = "put" /\ found[t] = {k} /\ lasting[t] = {}
          \/ \E t \in Writers :
                pc[t] = "evict" /\ pc'[t] = "put" /\ found[t] = {k} /\ k \notin lasting[t]
          \/ \E t \in Readers :
                pc[t] = "remove" /\ pc'[t] = "miss" /\ key[t] = k /\ k \notin lasting[t]]_vars
=============================================================================
