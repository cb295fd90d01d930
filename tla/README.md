# TLA+ models of beanstream

beanstream is a Rust HTTP client library that puts validation, name pinning, retries, caching, rate
limiting and cancellation around reqwest. This directory holds TLA+ modules for it: for the parts where
several requests, threads and servers meet, for the path a setting takes to the wire, and for the rules hosts,
addresses, URLs and headers are judged by; the TLC configurations that check them, and TLAPS proofs of what
matters most about them. Source lines below are those of the commit beside this directory; file
names without a directory are under `src/`.

## The system

| Component | State | Operations | Talks to |
|---|---|---|---|
| Rate limiter (`rate_limit.rs`) | a tokio semaphore, a tokio mutex around the last start | `acquire`, `try_acquire`, drop of the guard, drop of the `acquire` future | called by `execute_inner` |
| Request execution (`request_handler.rs`) | the request being run; its permit, attempt, ETag, response | `send`, `execute_inner`, `send_target` | everything below |
| Redirects and pinning (`request_handler.rs`, `redirect_policy.rs`) | chain of URLs, first pin, method, headers and body of the next hop | `resolve_pin`, `follow_chain`, `plan_hop`, `check_redirect`, `check_url` | `url_validation.rs`, resolver |
| Response cache (`cache.rs`) | a DashMap from method and URL to response, age, ETag | `get`, `get_etag`, `insert`, `evict_one`, `invalidate`, `invalidate_url`, `clear` | shared by requests |
| Cancellation (`abort.rs`) | an atomic flag, a tokio `Notify` | `abort`, `is_aborted`, `cancelled`, `execute_with_abort` | raced by `send` |
| Retry policy (`retry.rs`) | none | `should_retry`, `should_retry_status`, `classify_error`, backoff delays | `execute_inner` |
| URL validation (`url_validation.rs`) | none | `validate_url`, `resolve_host`, address ranges | requests, hops, websocket |
| Header rules (`header_validation.rs`) | none | sanitising, validating, redaction | requests, responses |
| Interceptors, progress (`interceptor.rs`, `progress.rs`) | none | callbacks before, during, after a request | `send` |
| Client builder (`builder.rs`) | settings | setters, `create_request`, `build` | makes requests and clients |
| Proxy configuration (`proxy_config.rs`) | none; reads the environment | `ProxyEndpoint::new`, `select_proxy`, `apply` | every client that is built |
| Certificate pinning (`cert_pinning.rs`) | a set of hashes | pin setters, `build_rustls_config`, `spki_sha256`, `verify_server_cert` | every client that is built, rustls |
| Streaming, websocket (`streaming.rs`, `websocket.rs`) | a connection | `download_stream`, `connect_websocket` | validation, pinning, proxy |
| Cookies (`cookies.rs`) | a handle on reqwest's store | `provider` | every client that is built |
| Platform configuration, errors | none | text, conversions | |

What is hard in it:

* **Suspension and cancellation.** A request may be dropped at every `.await`, by `select!`, by
  `execute_with_abort` or by its caller. What it holds of the limiter must come back exactly once.
* **Threads.** Requests run on several threads. The cache composes several DashMap calls into one
  operation, `abort` and `cancelled` share two objects that are not one.
* **Time.** Cache entries expire between two looks; starts are spaced by a clock read under a mutex.
* **Adversaries by nature.** Servers redirect as they like and resolvers change their minds.
* **Many exits.** `execute_inner` has a dozen ways out, each with a cache, a permit and redaction to mind.
* **Many clients.** Every attempt, hop and entry point builds a reqwest client of its own, so each setting and
  each check has to reach all of them, after everything interceptors did, in whatever environment there is.
* **Rules about text.** Host patterns, address ranges, escapes and header names are compared in one form and used
  in another; one form too few is a hole nobody notices.

## Modules

| Module | Models | Relation to the others |
|---|---|---|
| `RateLimiter` | `rate_limit.rs` | implements `PermitPool` |
| `PermitPool` | what the limiter promises about permits | abstract specification |
| `LimiterStarts` | when starts happen, by a clock that is not the limiter's own | extends `RateLimiter` |
| `Send` | `HttpRequest::send`, `execute_inner` for several requests | extends `RateLimiter`: its limiter steps are that module's actions |
| `RedirectWalk` | one request from name resolution through its retries to the end of its redirect chain | the detail behind the steps `Resolve`, `Retry` and `Follow` of `Send`; implements `Exchange`; extends `UrlRules` |
| `Exchange` | what `execute_inner` counts on from lookup to answer | abstract specification |
| `ResponseCache` | `InMemoryCache` under threads | the detail behind `CacheGet`, `DropExpired`, `Store`, `Forget` of `Send` |
| `AbortSignal` | `abort.rs` | the detail behind `CancelSend` of `Send` |
| `EntryPoints` | `create_request`, and `send`, `download_stream` and `connect_websocket` from URL to connection | the step `Resolve` of `Send` for all entry points; its first hop goes on in `RedirectWalk`; extends `UrlRules` |
| `Client` | settings and headers from the builder to the request, through interceptors, to every client a call builds | what `Send`, `EntryPoints` and `RedirectWalk` take for granted; extends `HeaderRules` and `Transport` |
| `HostRules` | host patterns, `RedirectPolicy` and `ScopeValidator` as settings | extended by `UrlRules` |
| `AddressRules` | blocked addresses | extended by `UrlRules` |
| `UrlRules` | `validate_url` | extends the two before |
| `HeaderRules` | `header_validation.rs`, and what reqwest accepts | |
| `Transport` | `proxy_config.rs`, `cert_pinning.rs` | |
| `RateLimiterProofs`, `SendProofs`, `AbortSignalProofs`, `ResponseCacheProofs`, `RedirectWalkProofs`, `EntryPointsProofs`, `ClientProofs` | what is proved of the module of that name | each extends its module; `RateLimiterProofs` also `LimiterStarts`, `SendProofs` also `RateLimiterProofs` |
| `UrlRulesProofs` | what is proved of the rules about addresses and URLs | extended by `RedirectWalkProofs` and `EntryPointsProofs` |
| `MC*` | constants for TLC | |

The modules called Rules, and `Transport`, have no state. Each holds the code's rule and, below it, what the rule
is for in other words: which names a pattern covers, label by label (`Covers`), which addresses lie between the
first and the last of an internal range (`IsInternal`), what a page hides behind six layers of escapes taken in any
order (`TraversingPages`), which key a certificate has (`KeyOf`). The state machines use the rule, their properties the
other, so that the properties would notice a wrong rule.

Beside a definition there may be a fault of it ("Fault: ..."): a bug the code could have, put in its place to
make sure that a property notices it. Faults are no part of the model.

### RateLimiter

`stage[t]` is where a task is in `acquire()`: `queued` for a permit, `granted` (it owns one, perhaps without
having run since), `locking` and `locked` (the mutex around `last_started`), `spacing` (asleep, mutex
locked), `held` (it has the guard). tokio's semaphore and mutex are first come first served and hand over
directly, so `ReturnPermit` and `Unlock` give to the head of the queue. `Cancel` drops the future at any of
the await points; `TryAcquire` takes a free permit and is not spaced. Each task has an interval of its own,
since `with_min_interval` changes one clone and the instant is shared by all. `Tick` is a clock that stops
at `Longest`, the largest interval: beyond it the code cannot tell times apart.

What the limiter measures, the time since the last start it recorded, is not what the spacing is about, the time
since the last start. `LimiterStarts` adds a clock that the starts of clones with an interval restart, whether the
limiter recorded them or not. The run `limiter` is one of `LimiterStarts`, whose steps are those of `RateLimiter`.

### Send

`pc[r]` is the point of `send()` a request is at; what runs between two await points is split wherever it
touches shared state. `Begin` is the interceptors and the abort check, `Prepare` the validation, progress and
the first poll of `acquire`, `AwaitPermit` the rest of it, then `CacheGet`, `DropExpired`, `ReadEtag`,
`Resolve`, `Answer`/`Retry` (the retry loop), `Follow` (a whole chain), `Settle` (status to error, redaction),
`Revalidate` (304), `Store`, `Finish` (progress, permit, interceptors, last redaction). `CancelSend` and
`DropSend` may happen exactly where the code can be suspended. All exits go through `Return`, which lets go of
what the request has of the limiter, as dropping its locals does. Replies are any of a set; `Expire` and
`Forget` stand for time and for every removal somebody else does. `trace` is history for the properties.

### RedirectWalk

URLs are records, a `Location` is the part of one it spells out. `Pins(url)` is what the resolver may say at that
moment, less what `is_blocked_ip` refuses; `Verdict` makes the checks in the code's order, those of `validate_url`
(`UrlRules`) among them. `Retry` is the attempt loop with the backoff crate's arithmetic: `interval` grows and is
capped, `wait` is what the jitter made of it, in units of a delay. A request's configuration is chosen in `Init` and
never changes. `Join` does what the url crate does with a path, which turns backslashes and resolves dots, spelled
out or escaped (`NormalizePage`), before any check of this library sees it. What `Send` takes from here is
`Exchange`: one lookup, as many attempts as the budget has, and an answer of the request's own URL or, if redirects
are followed, one of another URL that redirects no further. `StageOf` says where in that outline each `pc` is.

### ResponseCache

One step per DashMap call, and one per entry an iterator visits. A reference, and an iterator on the entry it is at,
keep a read lock (`guards`), and a write waits for all of them, the thread's own included; an iterator lets go when
it moves on (`Visit`) and when it is dropped (`DropGuards`). Every key is taken for a shard, the finest case.
`len()` is read in one step although DashMap adds up its shards one by one: the findings do not depend on it.
`lasting` is history: the entries an iteration cannot miss because they were there all the time. `overlap` is
history, too: whether two inserts were ever under way at once, which is what the size bound depends on.

### AbortSignal

A tokio `Notified` remembers, when it is made, how many `notify_waiters` calls there were, and is ready once
there is another. `Check` and `Register` are therefore two steps, and so are the two lines of `abort()`.

### EntryPoints

One call, of one of the three kinds, with the settings it was made with (`CallFields`). `Create` is
`HttpRequest::new` or `create_request`: it fixes scope, opt-in and redirect policy. `url` and `parsed` are the two
places a request keeps its host in: an interceptor gets the request itself, and `Retarget` is what it may do to it:
set either or both, and replace scope, redirect policy and the private-network flag by others. What it puts into
`parsed` is what `validate_url` makes of a URL; the type's fields are public, but a host made up by hand is not
considered. `Validate` looks at the first, `Resolve` asks for the second, and `Destinations` says where reqwest then
connects to, given that its resolver is overridden for the second only. `OpenSocket` is the loop of
`connect_websocket`. Retries, the limiter and the cache are in `Send`.

### Client

`builder` and `request` are the settings of `HttpClientBuilder` and `HttpRequest`; `Configure` and `Change` are
their setters, and writes to the request's public fields. `CreateRequest` says what of a builder reaches a request.
`prepared` is the copy `send` and `download_stream` make; `Intercept` runs one interceptor on it, which may do
anything a caller may. `Validate` is `validate()` after the last of them. `SetUp` builds the client for one attempt
or hop: `ClientOf` is `build_client`, `wire` what it and the header loop hand to reqwest, `seen` the environment it
read. `build_request` needs that client only to make its request with, which is returned without it. `Connect`
chooses among the routes reqwest has left and the certificates a server may present; `Hop` is `plan_hop` as far as
headers go; `Build` is the builder's own `build()`. `calls` is history: the calls that were accepted. The properties
compute from it what was asked for (`Asked`, `Wanted`), by nothing but order. Where headers are taken out of a list,
the rest keep their places: what becomes of a header is up to its name alone.

## Runs

| Run | Shows | Bounds |
|---|---|---|
| `limiter` | conservation of permits, queues, no overtaking, starts by clones with an interval are spaced, refinement of `PermitPool`, no starvation | 5 tasks, 3 permits, intervals 2, 2, 1, 0 and none: two can queue for a permit while two queue for the mutex, and a start without an interval or a cancelled sleep may come between two others |
| `send` | the permit spans the request; cache, redaction, retry and cancellation properties; the limiter is used as specified; every `send()` returns; one with an aborted signal never connects | 3 requests, 1 permit, 1 signal: a GET with signal, interceptors and redirects, a POST retried twice, a GET in the spelling that is not canonical; statuses 200, 302, 304, 429, 503 |
| `send_etag` | finding: ETags of expired entries are never used | as `send` |
| `abort` | sleepers are woken, nobody is woken for nothing | 2 waiters, 2 aborters |
| `abort_lost` | finding: lost wake-up | 2 waiters, 1 aborter |
| `cache_shared` | no self-deadlock, a fresh entry goes only for a reason, invalidation is complete, the size bound as long as inserts do not overlap | 2 keys of one URL, 1 place, 2 writers, 1 reader, 1 invalidator; responses with and without `no-store` and `max-age` |
| `cache_overfull` | finding: two writers exceed the bound | 3 keys, 2 places, 2 writers |
| `redirects` | pins, downgrade, credentials, bodies, acceptable hops, waits, refinement of `Exchange`, termination | 4 configurations, 18 locations, 10 hosts of which 3 are literals, 5 patterns, pages with dots, backslashes and escapes under six layers, 2 addresses on either side of a range's end, 5 statuses, 4 attempts, 2 hops and a third that is refused |
| `entry_points` | only vetted addresses are dialed, the target stays in scope, every address is tried, every call returns | every kind of host, with and without builder, base, opt-in, open scope, interceptors that set url, parsed url or both to each kind of host, and replace scope, policy and opt-in; 4 resolver answers, with repetitions and mixed, of addresses at the ends of ranges |
| `retargeted` | finding: an interceptor's dot at the end of the host undoes the pin | `send` and `stream`, with an interceptor that may set the dotted host |
| `client` | settings reach the wire, nothing forbidden is sent, pins are enforced, egress is chosen | any 3 calls of some 30, 2 attempts or hops, 4 environments, one with blank variables before and behind others, 4 certificates: with and without a version, trusted or not |
| `explicit_proxy` | finding: an explicit proxy serves one scheme only | 1 call, `send`, https |

The bounds are the smallest at which each case occurs. Three calls are what it takes to set something on the
builder, again on the request, and once more in an interceptor; two exchanges are a first attempt and either a
retry or a hop, in different environments; more of either repeat the same steps. A chain of three URLs has a first,
a middle and a last hop: it can leave an origin and come back, go to plaintext over TLS, and reach the policy's
bound. The rules that are functions (hosts, addresses, pages, headers) are not enumerated beside the runs but
exercised in them, on values picked at their edges: the last address inside a range and the first outside it, an
allowed name and one that ends in it, escapes that hide escapes. `MCEntryPoints` has TLC evaluate `RulesAreSound`
beside its run: on its hosts and patterns, and on every page of up to five of the characters that hide a backslash,
patterns go by labels, no page hides a traversal behind six layers of escapes or fewer, and no name an internal one.

Symmetry is used in `cache_shared`, which has no liveness: writers are alike, and so are the two keys that
share a URL. Two keys for one place are enough there: an insert that evicts needs one entry more than it may
keep, an iteration that misses something needs one key before and one after; a third key gives more entries of
the same two kinds. Deadlock is checked in the limiter and the caches; elsewhere every request ends and the system
may stop.

### Fairness

* `limiter`: a task that can run is polled, clocks tick, and a guard is dropped some day. The last is not the
  limiter's to give: `send` shows that requests end. Cancellations and new calls are owed by nobody.
* `send`: a request that began runs when it can (weak fairness of `Run`), the clock ticks. That an
  attempt ends is owed to the client's timeout (`request_handler.rs:568`), that a name resolves or fails to the
  resolver. There is no fairness for cancelling. Weak fairness is enough since queues are first come first
  served: a request whose turn came keeps it.
* `abort`: threads inside `abort()` and tasks that can run go on; nobody need call `abort()`.
* `redirects`, `entry_points`: the single task runs.

### Findings

1. `cancelled()` may miss an abort (`abort.rs:92-95`): the flag is read before the `Notified` is made. Making
   it before the look at the flag closes the gap.
2. Concurrent `insert`s exceed `max_size` (`cache.rs:133-146`), and the excess stays, because each insert
   evicts at most one entry.
3. An expired entry is removed before its ETag is read (`request_handler.rs:747`, `:755`): requests are
   conditional only if another request stores the entry between the two.
4. An explicit proxy is used for one scheme of targets only, that of its own URL (`proxy_config.rs:323-326`):
   with the usual `http://` proxy every https request goes out directly. `Proxy::all`, which `Environment` uses,
   would serve both.
5. The addresses that are vetted and pinned are those of `parsed_url` (`request_handler.rs:555`), the connection is to
   `url`. An interceptor that makes them differ without leaving the scope, by a dot at the end of the host, has
   reqwest resolve the host a second time, and nobody checks what it gets, against `request_handler.rs:1029-1030`.
   Running `validate_url` on `url` after the interceptors, and storing its result in `parsed_url`, would close this.
   `DialedWereVetted` says that all other connections are vetted.

Each of these is a run with one property, which says what the quoted line says.

Elsewhere a comment of the code says more than the code does, or another thing. There the property of the passing run
says what the code does, exactly and from both sides, and names the line it departs from:

* `StartsAreSpaced` is about starts by clones with an interval. One through a clone without `min_interval` is not
  recorded (`rate_limit.rs:84`), so that a start that is to be spaced may follow it at once; the documentation
  speaks of "the previous one" (`rate_limit.rs:55-56`).
* `FreshLeavesForAReason`: `get` removes by key what it saw expired (`cache.rs:95`), and loses what was stored in
  between, though it is documented to remove expired entries (`cache.rs:59-60`, `88-89`). An insert that makes room
  removes by key as well (`cache.rs:179`), and may evict what was refreshed since, while an expired entry is there,
  which should have gone first (`cache.rs:20-22`). `remove_if` with the check repeated would do in both places. The
  property shows that no other key is ever lost.
* `ChainIsAcceptable`: a redirect policy of n follows n - 1 hops (`redirect_policy.rs:202`), because the chain it
  measures holds the request's own URL (`request_handler.rs:894`). "Maximum hops" is the documentation
  (`redirect_policy.rs:81`); two tests have n = 1 refuse the first hop. The property has the bound from both sides:
  fewer hops than n, and `TooManyRedirects` only for the one that would make it n.
* `Covers`, which `ChainIsAcceptable` takes patterns by: `*.x` matches `x` and names at any depth below it
  (`redirect_policy.rs:23-24`). One comment has that (`:177-178`), another "one label" (`:86-87`).
* `WaitsFollowTheSchedule`: `max_delay` does not bound the delay (`retry.rs:97-110`): jitter of up to half is added to
  an interval that has reached it, and the first interval is not capped. It is documented as "Ceiling for the delay"
  (`retry.rs:48`).
* `SettingsReachTheWire`: user agent and connect timeout of a builder hold for `build()` only (`builder.rs:414-463`,
  `request_handler.rs:565-609`), though the first is documented "for every request" (`builder.rs:129`); the property
  says that clients of `send` and `download_stream` have neither. And `build_request` returns none of the transport
  settings its documentation mentions (`request_handler.rs:699-700`): they are settings of a client it drops (`:706`).
* `EgressIsChosen`: a variable that is set but blank hides its other spelling (`proxy_config.rs:362-367`), though blank
  variables "are treated as unset" (the test at `:548`). `Speaks` says which variables count.

## Proofs

TLC checks the instances above; the theorems here hold for every value of the constants that their module's
assumption admits. Each module's proof has the same form: an invariant that is inductive as a whole, one lemma per
group of actions that they preserve it, and theorems that read the run's properties off it. TLC checked each
invariant before it was proved.

### Limiter and requests

`RateLimiterProofs` begins with what appending, taking the head and removing do to a sequence that lists a set
without repetition (`Lists`). It proves of `RateLimiter`, for every finite set of tasks, every number of permits
and all intervals:

* `LimiterIsSafe`: `LimiterTypeOK` and `LimiterInv` always hold. `LimiterInv` is inductive as a whole and none
  of its parts is alone: that permits are conserved when one is handed over needs the queue to hold exactly
  the queued tasks (`QueueIsStage`), the same for the mutex (`MutexIsStage`), and spacing needs
  `SleepCoversInterval`, which ticks preserve because they move `rest` and `sinceLast` together and because
  nobody but the mutex's owner resets the clock.
* `PermitsAreConserved`, `NobodyOvertakes`: read off from the invariant, step by step.
* `StartsAreAlwaysSpaced`, of `LimiterStarts`: the limiter's clock is never ahead of the time since the last start by a
  clone with an interval (`StartsInv`), because such a start always resets it (`ClockIsSetByStarts`) and other
  starts leave it alone; and a clone with an interval starts only when that clock says so (`SpacedStart`).
* `LimiterIsPermitPool`: the limiter implements `PermitPool` under `holders <- Owners, line <- waiters`. The
  lemmas about taking, queueing, giving back and leaving prove preservation and refinement together.

`SendProofs` proves of `Send`, for any number of requests and permits and any configuration:

* `SendUsesLimiterAsSpecified`: every step of `Send` is a step of the limiter or leaves it alone, so
  everything above carries over.
* `PermitIsHeldThroughout`: a limited request is in the limiter exactly while it is in `execute_inner`, and has
  its permit from lookup to answer, on every path out. The induction needs the limiter's invariant
  (a hand-over takes nothing from the others) and the type of `pc`.
* `RequestsInFlightAreBounded`: follows from the two before, by counting.
* `SendIsWellTyped`, `CacheStaysSound`, `DeliveriesAreClean`, `CancellationLeavesNoTrace`, `RetriesAreAlwaysSpent`:
  parts of `SendInv`, which says of each request, besides its types, how many attempts it may have made where it is
  (`Counted`), what its past may be (`Traced`), that whatever is being worked on after `Settle` could be delivered as
  it is (`Worked`), and what it returned (`Returned`). `CacheSound` and `Worked` need each other: what is
  delivered may come from the cache, and what is stored is what is being worked on.
* `AbortedRequestsNeverConnect`: from the moment a request is seen idle with its signal aborted it stays `Spent`,
  where its one step is the one that ends it, whatever the others do.

### Cancellation and cache

* `AbortSignalProofs`, for any waiters and finitely many aborters: `WakesAreForAReason`. The invariant counts: there
  are as many `notify_waiters` calls as threads that are through with `abort()`, and each of them stored the flag
  before; a `Notified` that is ready saw fewer calls than there are, hence the flag is set.
* `ResponseCacheProofs`, for any keys, threads, contents and bounds. `ThreadInv` says of each point of an operation
  what the thread holds, what its iterator is at, and how the entries that were there all the time (`lasting`)
  divide into those it has yet to visit, those it found and those it saw gone. Two threads meet in `SparedStays`
  alone: no step of one changes another's locals, and it makes `lasting` only smaller. `NoThreadWaitsForItself`,
  `InvalidationsAreComplete` and `FreshEntriesLeaveForAReason` follow. `SizeIsBoundedAlone` needs `RoomInv`, what an
  insert that overlaps no other knows of the room it has, and `MaxSize # 0`: the code stores one entry in a cache of
  size zero.

### URLs, redirects and entry points

* `UrlRulesProofs`: `BlockedIsInternal`, that `is_blocked_ip` refuses an address exactly if it lies in a documented
  range, is proved over all 2^32 and 2^128 addresses. The code masks and compares octets and segments, the
  documentation gives first and last addresses; `NetworkOctets`, `RangeOctets` and `OctetsOfSegments` take one to
  the other. `PatternsMatchByLabels` is that `matches_host_pattern`, which compares pieces from either end, matches
  what a pattern covers label by label (`Covers`), with a wildcard for any number of labels, for all patterns and
  hosts. It takes that a name is its labels with dots between them, and that no other name has the same
  (`LabelsOfDotted`, `SplitAtLabel`, `LabelsTell`), so that ending in a dot and a name is ending in the labels of
  that name (`UnderIsSuffix`, `StartIsPrefix`). `InternalNamesAreReserved` follows from the same. `Labels` is
  written by the positions of the dots rather than as a fold, since what a fold computes cannot be proved here.
  Further lemmas say what a URL that `validate_url` accepts is like, and that its host is not changed by trimming
  and matches itself alone.
* `RedirectWalkProofs`, for any locations, configurations, resolvers and servers, and chains of any length. The
  properties about credentials and downgrades are inductive with the types; `ConnectsArePinned` and `PinsAreStable`
  need `PinInv` (where a pin came from, at each point of the loop) and `BlockedIsInternal`; `ChainsAreAcceptable`
  needs `HopInv`, that the last hop passed each check, the two theorems about names, and `GivenUpLate`, that a chain is
  refused for its length only when the check of its length fails. This theorem has one hypothesis, `TraversalIsFound`:
  that decoding a page finds what six layers of escapes hide. It is a statement about a fold over data, which TLC evaluates on the pages of `MCEntryPoints`. `WaitsAreScheduled` is about any
  number of retries and any delays: `ScheduleInv` says that `interval` is one of the schedule the settings amount to
  (`Nominal`), one ahead of the wait, and `ScheduleAdvances` that doubling and capping each time leads to the same
  as doubling n times and capping once. It needs 2^n = 2 * 2^(n - 1), which the provers do not know of `^`:
  `PowersDouble` counts the subsets of `1 .. n` instead. `WalkIsExchange`: the walk implements `Exchange`.
  `OutlineInv` has what each step needs for it, that whoever is in a chain has left the first URL, as the policy
  allows; that the chain does not come back to it (`ChainHasLeft`) is because no URL comes twice in it (`ChainInv`).
* `EntryPointsProofs`, for any call, interceptor and answer: `ConnectionsAreVetted` from `MadeInv` (nothing is asked
  or dialed before validation, and the host in `parsed` is never a blocked literal) and `VettedInv` (what is left to
  dial comes from one vetted answer); `SocketsTryEveryAddress` from `SocketInv` (what was dialed and what is left
  make up the distinct addresses of the answer, in order) and from `DistinctKeepsOrder` and `DistinctIsComplete`,
  that a list without its repetitions is in the same order and lacks nobody. For the sake of these two `Distinct` is
  written by positions rather than as a fold. `InterceptorsStayInScope` adds `ScopeInv`: from validation on the host
  in `url` is in the scope the request then has, whoever put it there. A scope with one name admits that name and no
  other (`InScopeIsTarget`) because a name that `validate_url` accepts has no mark in it that trimming or matching
  would act on (`WellFormedIsNormal`, `WellFormedMatchesItself`). Its hypothesis, `BasesAreSound`, says the same of
  base URLs: those are made an allowed host of the redirect policy, but the builder parses them and does not
  validate them (`builder.rs:360-368`).

### Settings and headers

`ClientProofs` proves of `Client`, for any calls of any setters, in any number, with any interceptors, environments
and certificates, the four properties of the run `client` besides its types. What it takes:

* `Leaves(asked, field, before, after)`: calls that leave a field at `after` if it was at `before`, whichever came last
  deciding. It composes along calls (`OneCallMore`, `MoreCalls`), and what is left so is what the properties
  look for (`WantedIsLeft`). `Follows` says that builder and request are where their calls leave them, that the
  interceptors in their chain are those registered since `with_interceptors`, and that each accepted header is there.
* `InterceptInv`. While interceptors run, a setting is not yet what was asked for, so the invariant speaks of
  those to come: whatever the rest of the chain leaves is what the whole of the calls leaves. `ChainIsAsAsked` links
  the chain to the calls that registered it, at the moment the request is copied.
* `Prepared`, of the copy from the last validation on, through retries and hops: every setting is as asked, nothing in
  it is blocked, every accepted header is there or was sensitive and stayed behind. `WireInv` adds what the two
  places that set up a client add: the client is made from that copy, and its headers went through reqwest's parser
  as they are. `NoForbiddenHeaderIsSent` needs both halves: `Validation` trims what it looks at and would pass a
  name with a space around it, the parser would not but knows no blocked names. A name that parses has nothing to trim
  (`TrimIsPart`), so that the two speak of the same name.
* `ClientIsAsWanted` reads off them that each client has the settings that were asked for last.
* `MetInv`: a connection is by a route the client has, to a certificate it trusts. `PinsHold` follows with
  `PlaceIsKey`, that the field in the sixth place is the key, and `EgressFollows` with `VariablesDecide`, that
  the proxy and the list the code takes are those of the first variables that say something (`SaysTheFirst`), blank
  ones saying nothing and hiding their other spelling.

### Assumptions

Each module names what it takes for granted of its constants, and TLC evaluates it on every run.
`LimiterAssumption`: finitely many tasks, at least one permit (`new` makes a zero one), intervals up to `Longest`,
and `Nobody` is no task. `SendAssumption`: canonical URLs are canonical, only limited requests are spaced.
`AbortAssumption`: finitely many threads call `abort()`. `CacheAssumption`: finitely many keys. `WalkAssumption`:
URLs are closed under `Join`, and the configured URL passed `validate_url` and its scope, as `EntryPoints` has it.
`EntryAssumption`: answers are not empty (an empty one is an error of the resolver), websockets have no builder and
no interceptors, and an IP literal is spelled as a name is, or in brackets what is no host without them, as the url
crate does it. In both, addresses are IP addresses. `HostAssumption`: hosts and patterns are sequences.
`ClientAssumption`: a call is of a setter the type has and gives it what its parameter's type admits (`IsCall`), an
environment says of every proxy variable whether it is set, the target is http or https, and a certificate has its
fields in the order of RFC 5280 (`InOrder`), since the code counts fields.

### Only model-checked

* All liveness (`EverySendReturns` and its like), which is beyond TLAPS.
* `TraversalIsFound`: what `DecodeRound` makes of a page is a fold over its characters, and that it unescapes all
  there is takes an induction over them. TLC evaluates it on pages whose escapes hide each other six times over. The
  provers cannot instantiate the library's theorems on that.

Every safety property of the passing runs is stated by a theorem.

The type invariant of `AbortSignal` is proved (`SignalIsWellTyped`) and not checked besides.
`PermitsConserved` and `InFlightBounded` are no properties of a run: the first is a part of `LimiterInv`, the second
follows from it and `PermitForTheWholeLifecycle`, and both are proved.

## Not modelled

* Single characters. A host, a name or a page is a sequence of pieces, and what a rule does not tell apart is one
  piece: the letters of a label, a label that is too long, any control character. Case, which the code folds
  everywhere, is left out.
* The byte level of certificates (`read_tlv`) and signatures; a certificate is the sequence of its fields.
* `platform_config.rs`: it writes configuration files for Android and iOS from constants.
* `create_scope_validator`, which nothing in `src/` calls; the history helpers of `RedirectPolicy`; Debug output;
  the error enumeration and the crate root.
* The chunks of a stream and an open WebSocket.
* reqwest, DashMap, tokio, backoff, url and rustls other than by the behaviour the code relies on.
* How several settings of one component change another call under way: requests are copied when they are sent.

Smaller observations without a run, for whoever works on this code.

Cache and retries:

* A URL spelled differently from its canonical form, and a redirected request, never hit what they store
  (`request_handler.rs:747` and `cache.rs:137`); a HEAD that a 303 turned into a GET is stored under HEAD.
* An insert over an existing key at capacity evicts another entry; `max_size` 0 stores one entry; of several
  Cache-Control headers only the first is looked at.
* A 304 whose entry has gone is delivered with an empty body.

Redirects and validation:

* A base URL's host is allowed as a pattern without being validated: one with a `*` in it stands for more than
  itself (`builder.rs:360-368`).
* `allow_any_redirect` does nothing while `track_all_redirects` is true.
* The pattern `*.` is read as `*`.
* Decoding stops after five rounds (`url_validation.rs:66`), and a sixth layer is known by its spelling; what a seventh
  hides is not found. The documentation says that decoding is bounded (`:61-62`).
* The deny patterns `172.16.*` and `100.64.*` cover less than the ranges of that name; the address check has them all.
* An IPv4-mapped IPv6 literal is spelled differently by the standard library and the url crate, so that a request
  for one may be refused by its own scope.
* Interceptors get the request with all its public fields, its scope among them: what they put there is what
  `validate()` then asks (`request_handler.rs:111-173`).
* `send`'s documentation puts validation before the abort check, the code after it.

Settings and headers:

* `build()` inserts default headers, so that the last of a name wins; a request sends all of them.
* `build_request()` runs no interceptor.
* `AuthInterceptor` replaces only the first of several headers of its name; with a name of one's own, the token is
  not among the sensitive headers and survives a hop to another origin.
* `sanitize_header` trims before it looks for line breaks, so that one at the end is dropped, not refused; a line
  break in a name is reported as an ordinary header error.

Proxies and pins:

* Credentials within a proxy URL are stripped and then nowhere passed on (`proxy_config.rs:322`), though the
  documentation says they are (`:140-141`); only `explicit_with_auth` has any effect.
* The documentation of `Explicit` has the proxy's host resolved and pinned (`:120-122`), that of the module has it
  not pinned (`:65`); it is not.
* A pin mismatch surfaces as `RequestFailed`, which a retry policy may retry, not as `CertificatePinningFailed`
  (`cert_pinning.rs:27-30`).
* `spki_der` refuses a key field of another tag only in test builds (`cert_pinning.rs:168-171`).

## Plan

1. Done: the state machines and the rules above.
2. Done: the proofs above, which cover every safety property of the passing runs.
3. An abstract cache (every hit is something that was stored and has not expired) that `ResponseCache` implements,
   and an abstract signal for `AbortSignal`, with `Send` over them.
