-------------------------------- MODULE Send --------------------------------
(***************************************************************************)
(* HttpRequest::send (src/request_handler.rs) for several requests that    *)
(* share a response cache, a rate limiter and abort signals.  Each call of *)
(* send() is one of the limiter's Tasks, and the limiter's variables and   *)
(* actions are RateLimiter's.  What a task does between two await points   *)
(* runs without suspension, but on another thread than the other tasks, so *)
(* a step here touches shared state once.                                  *)
(*                                                                         *)
(* The network is an adversary: it answers with any of Replies or fails.   *)
(* A redirect chain is one step here; RedirectWalk is about its hops.      *)
(***************************************************************************)
EXTENDS RateLimiter

CONSTANTS
    Spellings,  \* the URLs as callers write them
    Canonical,  \* each spelling's normal form, as reqwest reports URLs
    Config,     \* what is attached to each request: see Configs
    Signals,    \* abort controllers
    Replies     \* [status, headers] a server may answer with

ErrorKinds == {"NetworkTimeout", "ServerError", "RateLimited", "Connection", "Other"}

Configs ==
    [ method   : {"GET", "HEAD", "POST"},
      url      : Spellings,
      limited  : BOOLEAN,              \* with_rate_limiter
      cached   : BOOLEAN,              \* with_cache
      signal   : Signals \cup {Nobody},
      attempts : Nat,                  \* RetryConfig::max_attempts; 1 without one
      retryOn  : SUBSET ErrorKinds,    \* RetryConfig::retry_on; none without one
      follows  : BOOLEAN,              \* RedirectPolicy::follow_redirects
      progress : BOOLEAN,              \* with_progress: the callback may say stop
      intercepted : BOOLEAN ]          \* an interceptor may fail or add headers

HeaderNames == {"set-cookie", "etag", "no-store"}

ASSUME SendAssumption ==
    /\ Canonical \in [Spellings -> Spellings]
    /\ \A u \in Spellings : Canonical[Canonical[u]] = Canonical[u]
    /\ Config \in [Tasks -> Configs]
    /\ Spaced \subseteq {r \in Tasks : Config[r].limited}
    /\ Replies \subseteq [status : 0 .. 599, headers : SUBSET HeaderNames]
    /\ Nobody \notin Signals

VARIABLES
    pc,         \* where each request is in send()
    aborted,    \* AbortController flags
    cache,      \* InMemoryCache::entries
    attempt,    \* the attempt being made, 0 before the first
    cond,       \* whether the request carries If-None-Match
    resp,       \* the response being worked on
    result,     \* what send() returned
    trace       \* history: milestones a request passed

localVars == <<attempt, cond, resp, trace>>
vars == <<pc, aborted, cache, attempt, cond, resp, result, trace, limiterVars>>

-----------------------------------------------------------------------------
Sensitive == {"set-cookie"}

\* redact(): the sensitive headers go (header_validation.rs).
Redact(response) == [response EXCEPT !.headers = @ \ Sensitive]

NoResponse == [status |-> 0, headers |-> {}, url |-> Nobody]
Err(kind) == [ok |-> FALSE, error |-> kind, response |-> NoResponse]
Ok(response) == [ok |-> TRUE, error |-> "none", response |-> response]
Pending == Err("none")

IsRedirect(status) == status \in 300 .. 399 /\ status # 304
IsSuccess(status) == status \in 200 .. 299
IsFailure(status) == status = 429 \/ status \in 500 .. 599

\* Fault: only 5xx statuses are retried.
ShouldRetryServerError(r, status) ==
    status \in 500 .. 599 /\ "ServerError" \in Config[r].retryOn

\* RetryConfig::should_retry_status
ShouldRetryStatus(r, status) ==
    \/ status = 429 /\ "RateLimited" \in Config[r].retryOn
    \/ status \in 500 .. 599 /\ "ServerError" \in Config[r].retryOn

\* The errors send_target() returns, and classify_error.
TransportErrors == {"NetworkTimeout", "RequestFailed", "InvalidConfiguration"}

Classify(error) ==
    CASE error = "NetworkTimeout" -> "NetworkTimeout"
      [] error = "RequestFailed" -> "Connection"
      [] OTHER -> "Other"

ShouldRetry(r, error) == Classify(error) \in Config[r].retryOn

\* Attempts a request may make: max_attempts, but at least one.
Budget(r) == IF Config[r].attempts < 1 THEN 1 ELSE Config[r].attempts

\* The cache is for GET and HEAD. A lookup uses the URL as the caller spelled
\* it, an insert the URL the response reports.
UsesCache(r) == Config[r].cached /\ Config[r].method \in {"GET", "HEAD"}
Keys == {"GET", "HEAD"} \X Spellings
LookupKey(r) == <<Config[r].method, Config[r].url>>

\* Fault: stored under the URL that was asked for, not the one that answered.
InsertAsAsked(r) == LookupKey(r)

InsertKey(r) == <<Config[r].method, resp[r].url>>
NoEntry == [response |-> NoResponse, fresh |-> FALSE]

-----------------------------------------------------------------------------
Init ==
    /\ pc = [r \in Tasks |-> "idle"]
    /\ aborted = [s \in Signals |-> FALSE]
    /\ cache = [k \in Keys |-> NoEntry]
    /\ attempt = [r \in Tasks |-> 0]
    /\ cond = [r \in Tasks |-> FALSE]
    /\ resp = [r \in Tasks |-> NoResponse]
    /\ result = [r \in Tasks |-> Pending]
    /\ trace = [r \in Tasks |-> {}]
    /\ LimiterInit

Goto(r, label) == pc' = [pc EXCEPT ![r] = label]

\* Faults: an early return keeps the permit; one that has none gives one back.
LetGoOfNothing(r) == UNCHANGED limiterVars

LetGoOfMore(r) ==
    \/ /\ stage[r] = "out"
       /\ free' = free + 1
       /\ UNCHANGED <<waiters, owner, lockers, sinceLast, rest, stage>>
    \/ Release(r)
    \/ Cancel(r)

\* What a request holds of the limiter goes with it, however it ends.
LetGo(r) ==
    \/ stage[r] = "out" /\ UNCHANGED limiterVars
    \/ Release(r)
    \/ Cancel(r)

Return(r, outcome) ==
    /\ Goto(r, "done")
    /\ result' = [result EXCEPT ![r] = outcome]
    /\ LetGo(r)

Aborted(r) == Config[r].signal # Nobody /\ aborted[Config[r].signal]

\* Fault: nobody looks at the flag before the request is polled.
BeginUnchecked(r) ==
    /\ pc[r] = "idle"
    /\ Goto(r, "ready")
    /\ UNCHANGED <<result, limiterVars, aborted, cache, localVars>>

\* send(): on_request of the interceptors, then a look at the abort flag.
Begin(r) ==
    /\ pc[r] = "idle"
    /\ \/ /\ Config[r].intercepted
          /\ Return(r, Err("Interceptor"))
       \/ /\ Aborted(r)
          /\ Return(r, Err("RequestAborted"))
       \/ /\ ~Aborted(r)
          /\ Goto(r, "ready")
          /\ UNCHANGED <<result, limiterVars>>
    /\ UNCHANGED <<aborted, cache, localVars>>

\* execute_inner(), first poll: validate, report progress 0, ask for a permit.
Prepare(r) ==
    /\ pc[r] = "ready"
    /\ \/ Return(r, Err("Validation"))
       \/ /\ Config[r].progress
          /\ Return(r, Err("RequestAborted"))
       \/ /\ Goto(r, "permit")
          /\ IF Config[r].limited THEN Acquire(r) ELSE UNCHANGED limiterVars
          /\ UNCHANGED result
    /\ UNCHANGED <<aborted, cache, localVars>>

\* Fault: a permit is enough, the interval is not awaited.
AwaitPermitOnly(r) ==
    /\ pc[r] = "permit"
    /\ stage[r] = "granted"
    /\ stage' = [stage EXCEPT ![r] = "held"]
    /\ UNCHANGED <<free, waiters, owner, lockers, sinceLast, rest>>
    /\ UNCHANGED <<pc, aborted, cache, localVars, result>>

\* The rest of RateLimiter::acquire().
AwaitPermit(r) ==
    /\ pc[r] = "permit"
    /\ Proceed(r) \/ Measure(r) \/ Start(r)
    /\ UNCHANGED <<pc, aborted, cache, localVars, result>>

HasPermit(r) == Config[r].limited => stage[r] = "held"

\* Cache lookup: a fresh entry is the answer, an expired one is to be removed.
CacheGet(r) ==
    LET entry == cache[LookupKey(r)] IN
    /\ pc[r] = "permit"
    /\ HasPermit(r)
    /\ \/ /\ ~UsesCache(r)
          /\ Goto(r, "resolve")
          /\ UNCHANGED <<resp, trace>>
       \/ /\ UsesCache(r)
          /\ entry = NoEntry
          /\ Goto(r, "etag")
          /\ UNCHANGED <<resp, trace>>
       \/ /\ UsesCache(r)
          /\ entry.fresh
          /\ Goto(r, "finish")
          /\ resp' = [resp EXCEPT ![r] = entry.response]
          /\ trace' = [trace EXCEPT ![r] = @ \cup {"hit"}]
       \/ /\ UsesCache(r)
          /\ entry # NoEntry /\ ~entry.fresh
          /\ Goto(r, "drop")
          /\ trace' = IF "etag" \in entry.response.headers
                      THEN [trace EXCEPT ![r] = @ \cup {"stale"}] ELSE trace
          /\ UNCHANGED resp
    /\ UNCHANGED <<aborted, cache, attempt, cond, result, limiterVars>>

\* InMemoryCache::get gave up its guard on the entry before it removes the key.
DropExpired(r) ==
    /\ \/ pc[r] = "drop" /\ Goto(r, "etag")
       \/ pc[r] = "dropped304" /\ Goto(r, "finish")
    /\ cache' = [cache EXCEPT ![LookupKey(r)] = NoEntry]
    /\ UNCHANGED <<aborted, localVars, result, limiterVars>>

\* get_etag(): fresh or not, if there is an entry.
ReadEtag(r) ==
    /\ pc[r] = "etag"
    /\ Goto(r, "resolve")
    /\ cond' = [cond EXCEPT ![r] = "etag" \in cache[LookupKey(r)].response.headers]
    /\ UNCHANGED <<aborted, cache, attempt, resp, trace, result, limiterVars>>

\* pinned_addresses(): once, before the first attempt.
Resolve(r) ==
    /\ pc[r] = "resolve"
    /\ \/ /\ Return(r, Err("Resolution"))
          /\ UNCHANGED attempt
       \/ /\ Goto(r, "attempt")
          /\ attempt' = [attempt EXCEPT ![r] = 1]
          /\ UNCHANGED <<result, limiterVars>>
    /\ UNCHANGED <<aborted, cache, cond, resp, trace>>

(***************************************************************************)
(* An outcome that stands: 429 and 5xx become errors, anything else is     *)
(* redacted and becomes the response; 304 asks the cache again, a success  *)
(* goes into it.                                                           *)
(***************************************************************************)
Settle(r, response) ==
    \/ /\ response.status = 429
       /\ Return(r, Err("RateLimited"))
       /\ UNCHANGED resp
    \/ /\ response.status \in 500 .. 599
       /\ Return(r, Err("ServerError"))
       /\ UNCHANGED resp
    \/ /\ ~IsFailure(response.status)
       /\ resp' = [resp EXCEPT ![r] = Redact(response)]
       /\ Goto(r, CASE UsesCache(r) /\ response.status = 304 -> "revalidate"
                    [] UsesCache(r) /\ IsSuccess(response.status) -> "store"
                    [] OTHER -> "finish")
       /\ UNCHANGED <<result, limiterVars>>

Reply(reply, url) == [status |-> reply.status, headers |-> reply.headers, url |-> url]

\* An attempt ends: repeat it, walk its redirects, or settle.
Answer(r) ==
    /\ pc[r] = "attempt"
    /\ \/ \E reply \in Replies :
             \/ /\ ShouldRetryStatus(r, reply.status) /\ attempt[r] < Budget(r)
                /\ Goto(r, "backoff")
                /\ UNCHANGED <<resp, result, limiterVars>>
             \/ /\ ~(ShouldRetryStatus(r, reply.status) /\ attempt[r] < Budget(r))
                /\ IF Config[r].follows /\ IsRedirect(reply.status)
                   THEN Goto(r, "chain") /\ UNCHANGED <<resp, result, limiterVars>>
                   ELSE Settle(r, Reply(reply, Canonical[Config[r].url]))
       \/ \E error \in TransportErrors :
             /\ IF ShouldRetry(r, error) /\ attempt[r] < Budget(r)
                THEN Goto(r, "backoff") /\ UNCHANGED <<result, limiterVars>>
                ELSE Return(r, Err(error))
             /\ UNCHANGED resp
    /\ UNCHANGED <<aborted, cache, attempt, cond, trace>>

\* The backoff delay is over.
Retry(r) ==
    /\ pc[r] = "backoff"
    /\ Goto(r, "attempt")
    /\ attempt' = [attempt EXCEPT ![r] = @ + 1]
    /\ UNCHANGED <<aborted, cache, cond, resp, trace, result, limiterVars>>

ChainErrors == {"TooManyRedirects", "RedirectBlocked", "Resolution"} \cup TransportErrors

\* follow_chain(): an error of a hop, or a final answer from another URL.
Follow(r) ==
    /\ pc[r] = "chain"
    /\ \/ \E error \in ChainErrors : Return(r, Err(error)) /\ UNCHANGED resp
       \/ \E reply \in Replies, url \in Spellings :
             /\ ~IsRedirect(reply.status)
             /\ url = Canonical[url] /\ url # Canonical[Config[r].url]
             /\ Settle(r, Reply(reply, url))
    /\ trace' = [trace EXCEPT ![r] = @ \cup {"redirected"}]
    /\ UNCHANGED <<aborted, cache, attempt, cond>>

\* 304: the entry, if it is still there and fresh, is the response.
Revalidate(r) ==
    LET entry == cache[LookupKey(r)] IN
    /\ pc[r] = "revalidate"
    /\ \/ /\ entry.fresh
          /\ resp' = [resp EXCEPT ![r] = [entry.response EXCEPT !.status = 304]]
          /\ Goto(r, "finish")
       \/ /\ entry = NoEntry
          /\ Goto(r, "finish")
          /\ UNCHANGED resp
       \/ /\ entry # NoEntry /\ ~entry.fresh
          /\ Goto(r, "dropped304")
          /\ UNCHANGED resp
    /\ UNCHANGED <<aborted, cache, attempt, cond, trace, result, limiterVars>>

\* InMemoryCache::insert, unless the response forbids it. Eviction is Forget.
Store(r) ==
    /\ pc[r] = "store"
    /\ Goto(r, "finish")
    /\ IF "no-store" \in resp[r].headers
       THEN UNCHANGED <<cache, trace>>
       ELSE /\ cache' = [cache EXCEPT ![InsertKey(r)] =
                            [response |-> resp[r], fresh |-> TRUE]]
            /\ trace' = [trace EXCEPT ![r] = @ \cup {"stored"}]
    /\ UNCHANGED <<aborted, attempt, cond, resp, result, limiterVars>>

\* Fault: what interceptors add to the response is not redacted.
FinishUnredacted(r) ==
    /\ pc[r] = "finish"
    /\ \E added \in (IF Config[r].intercepted THEN SUBSET Sensitive ELSE {{}}) :
          Return(r, Ok([resp[r] EXCEPT !.headers = @ \cup added]))
    /\ UNCHANGED <<aborted, cache, localVars>>

\* report_complete(), the permit dropped, on_response of the interceptors, and
\* a last redaction.
Finish(r) ==
    /\ pc[r] = "finish"
    /\ \/ Config[r].progress /\ Return(r, Err("RequestAborted"))
       \/ Config[r].intercepted /\ Return(r, Err("Interceptor"))
       \/ \E added \in (IF Config[r].intercepted THEN SUBSET Sensitive ELSE {{}}) :
             Return(r, Ok(Redact([resp[r] EXCEPT !.headers = @ \cup added])))
    /\ UNCHANGED <<aborted, cache, localVars>>

-----------------------------------------------------------------------------
\* AbortController::abort()
Abort(s) ==
    /\ ~aborted[s]
    /\ aborted' = [aborted EXCEPT ![s] = TRUE]
    /\ UNCHANGED <<pc, cache, localVars, result, limiterVars>>

\* Fault: an abort is noticed wherever the request is.
SuspendedAnywhere(r) == pc[r] \notin {"idle", "done"}

\* Where execute_inner() is suspended, or was not polled yet.
Suspended(r) ==
    \/ pc[r] \in {"ready", "resolve", "attempt", "backoff", "chain"}
    \/ pc[r] = "permit" /\ ~HasPermit(r)

\* The cancelled() branch of send()'s select! wins.
CancelSend(r) ==
    /\ Suspended(r)
    /\ Aborted(r)
    /\ Return(r, Err("RequestAborted"))
    /\ UNCHANGED <<aborted, cache, localVars>>

\* The caller drops the future of send(), as execute_with_abort does.
DropSend(r) ==
    /\ Suspended(r)
    /\ Return(r, Err("dropped"))
    /\ UNCHANGED <<aborted, cache, localVars>>

\* Time passes for a cache entry; somebody evicts or invalidates one.
Expire(k) ==
    /\ cache[k].fresh
    /\ cache' = [cache EXCEPT ![k].fresh = FALSE]
    /\ UNCHANGED <<pc, aborted, localVars, result, limiterVars>>

Forget(k) ==
    /\ cache[k] # NoEntry
    /\ cache' = [cache EXCEPT ![k] = NoEntry]
    /\ UNCHANGED <<pc, aborted, localVars, result, limiterVars>>

LimiterTick ==
    /\ Tick
    /\ UNCHANGED <<pc, aborted, cache, localVars, result>>

\* The code of request r after it began.
Run(r) ==
    \/ Prepare(r) \/ AwaitPermit(r) \/ CacheGet(r) \/ DropExpired(r) \/ ReadEtag(r)
    \/ Resolve(r) \/ Answer(r) \/ Retry(r) \/ Follow(r) \/ Revalidate(r)
    \/ Store(r) \/ Finish(r)

Environment ==
    \/ LimiterTick
    \/ \E s \in Signals : Abort(s)
    \/ \E k \in Keys : Expire(k) \/ Forget(k)

Next ==
    \/ \E r \in Tasks : Begin(r) \/ Run(r) \/ CancelSend(r) \/ DropSend(r)
    \/ Environment

Spec == Init /\ [][Next]_vars

(***************************************************************************)
(* A started request runs whenever it can.  That an attempt ends is owed   *)
(* to Client::builder().timeout(self.timeout), which every client has;     *)
(* that a name resolves or fails to, to the resolver.                      *)
(***************************************************************************)
FairSpec ==
    /\ Spec
    /\ WF_vars(LimiterTick)
    /\ \A r \in Tasks : WF_vars(Run(r))
-----------------------------------------------------------------------------
Responses == [status : 0 .. 599, headers : SUBSET HeaderNames, url : Spellings \cup {Nobody}]
Milestones == {"hit", "stale", "redirected", "stored"}
Inside == {"permit", "drop", "etag", "resolve", "attempt", "backoff", "chain",
           "revalidate", "dropped304", "store", "finish"}

TypeOK ==
    /\ pc \in [Tasks -> {"idle", "ready", "done"} \cup Inside]
    /\ aborted \in [Signals -> BOOLEAN]
    /\ cache \in [Keys -> [response : Responses, fresh : BOOLEAN]]
    /\ attempt \in [Tasks -> Nat]
    /\ cond \in [Tasks -> BOOLEAN]
    /\ resp \in [Tasks -> Responses]
    /\ \A r \in Tasks : /\ result[r].ok \in BOOLEAN
                           /\ result[r].response \in Responses
    /\ trace \in [Tasks -> SUBSET Milestones]
    /\ LimiterTypeOK

\* A limited request is inside execute_inner() exactly as long as it is inside
\* the limiter, and past the lookup it has a permit: "hold a concurrency permit
\* for the whole request lifecycle" (request_handler.rs:737), and not longer,
\* on any of the paths out.
PermitForTheWholeLifecycle ==
    \A r \in Tasks :
       /\ Config[r].limited /\ pc[r] \in Inside <=> stage[r] # "out"
       /\ Config[r].limited /\ pc[r] \in Inside \ {"permit"} => stage[r] = "held"

\* What the limiter is for: no more than Permits limited requests are between
\* their cache lookup and their answer.
InFlightBounded ==
    Cardinality({r \in Tasks : Config[r].limited /\ pc[r] \in Inside \ {"permit"}})
       <= Permits

\* send() uses the limiter as the limiter's own specification says it is used.
UsesLimiterAsSpecified == LimiterSpec

\* Every entry is a redacted success that did not ask not to be stored, under
\* the URL it came from (cache.rs:53-61, 112-116).
CacheSound ==
    \A k \in Keys : cache[k] # NoEntry =>
       /\ IsSuccess(cache[k].response.status)
       /\ cache[k].response.headers \cap (Sensitive \cup {"no-store"}) = {}
       /\ cache[k].response.url = k[2]

\* What a caller gets carries no sensitive header, whatever server, cache and
\* interceptors put in; is never a 429 or 5xx; is no redirect if redirects are
\* followed; and is about the URL that was asked for unless it was redirected.
DeliveredIsClean ==
    \A r \in Tasks : result[r].ok =>
       LET response == result[r].response IN
       /\ response.headers \cap Sensitive = {}
       /\ ~IsFailure(response.status)
       /\ Config[r].follows => ~IsRedirect(response.status)
       /\ "redirected" \notin trace[r] =>
             response.url \in {Config[r].url, Canonical[Config[r].url]}

\* A request cancelled by its signal or its caller had not stored its answer:
\* what it fetched is either delivered or without effect on the cache.
CancelledLeavesNoTrace ==
    \A r \in Tasks :
       (\/ result[r].error = "dropped"
        \/ result[r].error = "RequestAborted" /\ ~Config[r].progress)
          => trace[r] \cap {"hit", "stored"} = {}

\* The error a caller sees for a failure that may be retried.
RetriedAs(error) ==
    CASE error \in {"ServerError", "RateLimited"} -> error
      [] error \in TransportErrors -> Classify(error)
      [] OTHER -> "none"

\* A request makes at most max_attempts attempts, gives up on a failure it may
\* retry only after the last of them, and makes none if the cache answered.
RetriesAreSpent ==
    \A r \in Tasks :
       /\ attempt[r] <= Budget(r)
       /\ /\ RetriedAs(result[r].error) \in Config[r].retryOn
          /\ "redirected" \notin trace[r]
          => attempt[r] = Budget(r)
       /\ "hit" \in trace[r] => attempt[r] = 0

\* "A request that starts with an already-aborted signal fails immediately
\* without opening a connection" (abort.rs:82-83).
AbortedNeverConnects ==
    \A r \in {x \in Tasks : Config[x].signal # Nobody} :
       [](pc[r] = "idle" /\ Aborted(r) => [](attempt[r] = 0))

\* Every send() returns: nobody waits for a permit for ever, and no retry or cache
\* path is without end. A task sends once, so this is to say that no time comes from
\* which on there is always a request under way.
EverySendReturns == []<>(\A r \in Tasks : pc[r] \in {"idle", "done"})

\* "Conditional GETs with ETag support" (architecture.md:396): when the entry
\* for a request has expired and had an ETag, the request carries it.
StaleEntryIsRevalidated ==
    \A r \in Tasks : pc[r] = "attempt" /\ "stale" \in trace[r] => cond[r]
=============================================================================
