----------------------------- MODULE SendProofs -----------------------------
(***************************************************************************)
(* For any requests, configurations, servers and limiter: send() uses the  *)
(* limiter as its specification says, so that what RateLimiterProofs       *)
(* proves of the limiter holds of it inside send(); a request has its      *)
(* permit for exactly as long as it is inside execute_inner(); the cache   *)
(* holds, and callers get, only what they should; retries stay within      *)
(* their budget, and a cancelled request leaves nothing behind.            *)
(***************************************************************************)
EXTENDS Send, RateLimiterProofs

-----------------------------------------------------------------------------
\* Whatever a request does, the limiter sees one of its own steps or nothing.
LEMMA StepIsLimiterStep == [Next]_vars => [LimiterNext]_limiterVars
<1> SUFFICES ASSUME Next
             PROVE  LimiterNext \/ UNCHANGED limiterVars
  BY DEF vars
<1>1. ASSUME NEW r \in Tasks, NEW o, Return(r, o)
      PROVE  LimiterNext \/ UNCHANGED limiterVars
  BY <1>1 DEF Return, LetGo, LimiterNext, LimiterStep
<1>2. ASSUME NEW r \in Tasks, Begin(r) \/ CancelSend(r) \/ DropSend(r)
      PROVE  LimiterNext \/ UNCHANGED limiterVars
  BY <1>1, <1>2 DEF Begin, CancelSend, DropSend
<1>3. ASSUME NEW r \in Tasks, Run(r)
      PROVE  LimiterNext \/ UNCHANGED limiterVars
  <2>1. CASE Prepare(r)
    BY <1>1, <2>1 DEF Prepare, LimiterNext, LimiterStep
  <2>2. CASE AwaitPermit(r)
    BY <2>2 DEF AwaitPermit, LimiterNext, LimiterStep
  <2>3. CASE CacheGet(r) \/ DropExpired(r) \/ ReadEtag(r) \/ Retry(r) \/ Revalidate(r)
             \/ Store(r)
    BY <2>3 DEF CacheGet, DropExpired, ReadEtag, Retry, Revalidate, Store
  <2>4. CASE Resolve(r)
    BY <1>1, <2>4 DEF Resolve
  <2>5. ASSUME NEW response, Settle(r, response)
        PROVE  LimiterNext \/ UNCHANGED limiterVars
    BY <1>1, <2>5 DEF Settle
  <2>6. CASE Answer(r)
    BY <1>1, <2>5, <2>6 DEF Answer
  <2>7. CASE Follow(r)
    BY <1>1, <2>5, <2>7 DEF Follow
  <2>8. CASE Finish(r)
    BY <1>1, <2>8 DEF Finish
  <2> QED
    BY <1>3, <2>1, <2>2, <2>3, <2>4, <2>6, <2>7, <2>8 DEF Run
<1>4. CASE Environment
  BY <1>4 DEF Environment, LimiterTick, Abort, Expire, Forget, LimiterNext
<1> QED
  BY <1>2, <1>3, <1>4 DEF Next

\* send() takes, holds and returns permits the way the limiter's own
\* specification describes, on every path through execute_inner()
\* (request_handler.rs:737-741) and whenever its future is dropped.
THEOREM SendUsesLimiterAsSpecified == Spec => UsesLimiterAsSpecified
<1>1. Init => LimiterInit
  BY DEF Init
<1>2. [Next]_vars => [LimiterNext]_limiterVars
  BY StepIsLimiterStep DEF limiterVars
<1> QED
  BY <1>1, <1>2, PTL DEF Spec, UsesLimiterAsSpecified, LimiterSpec

\* Inside send() the limiter is as safe as it is alone.
LEMMA LimiterStaysSafe == Spec => []IInv
  BY SendUsesLimiterAsSpecified, LimiterIsSafe, PTL DEF UsesLimiterAsSpecified, IInv

-----------------------------------------------------------------------------
Labels == {"idle", "ready", "done"} \cup Inside

Lifecycle == pc \in [Tasks -> Labels] /\ PermitForTheWholeLifecycle

\* What a step of one request leaves to the others: their permits and their
\* places in the queues, though a queue may move on.
OthersKeep(r) ==
    \A x \in Tasks \ {r} : /\ stage'[x] = "out" <=> stage[x] = "out"
                           /\ stage[x] = "held" => stage'[x] = "held"

\* A request's limiter step takes no other request out of the limiter, lets none
\* in, and takes a permit from none.
LEMMA StepsKeepOthers ==
    ASSUME IInv, NEW r \in Tasks, LimiterStep(r) \/ UNCHANGED limiterVars
    PROVE  OthersKeep(r)
<1> USE DEF IInv, LimiterInv
<1>1. waiters # <<>> => stage[Heir(waiters)] = "queued"
  <2>1. Lists(waiters, Waiting)
    BY QueueOfTasks DEF QueueIsStage, LimiterTypeOK, Waiting, Lists
  <2>2. waiters # <<>> => Head(waiters) \in Waiting
    BY <2>1, ListsTail DEF LimiterTypeOK
  <2> QED
    BY <2>2 DEF Heir, Waiting
<1>2. lockers # <<>> => stage[Heir(lockers)] = "locking"
  <2>1. Lists(lockers, Locking)
    BY QueueOfTasks DEF MutexIsStage, LimiterTypeOK, Locking, Lists
  <2>2. lockers # <<>> => Head(lockers) \in Locking
    BY <2>1, ListsTail DEF LimiterTypeOK
  <2> QED
    BY <2>2 DEF Heir, Locking
<1>3. \A x \in Tasks : /\ x = Heir(waiters) => stage[x] = "queued"
                       /\ x = Heir(lockers) => stage[x] = "locking"
  BY <1>1, <1>2, LimiterAssumption DEF Heir
<1>4. CASE LimiterStep(r)
  BY <1>3, <1>4 DEF OthersKeep, LimiterTypeOK, LimiterStep, Acquire, TryAcquire, Proceed,
     Measure, Start, Release, Cancel, LeaveQueue, DropPermit, DropLock
<1>5. CASE UNCHANGED limiterVars
  BY <1>5 DEF OthersKeep, limiterVars
<1> QED
  BY <1>4, <1>5

\* A request's own step: where it goes, its share in the limiter must fit.
LEMMA OwnStep ==
    ASSUME Lifecycle, NEW r \in Tasks, NEW label \in Labels, Goto(r, label), OthersKeep(r),
           Config[r].limited /\ label \in Inside <=> stage'[r] # "out",
           Config[r].limited /\ label \in Inside \ {"permit"} => stage'[r] = "held"
    PROVE  Lifecycle'
<1>1. pc' \in [Tasks -> Labels] /\ pc'[r] = label /\ \A x \in Tasks \ {r} : pc'[x] = pc[x]
  BY DEF Lifecycle, Goto
<1>2. ASSUME NEW x \in Tasks
      PROVE  /\ Config[x].limited /\ pc'[x] \in Inside <=> stage'[x] # "out"
             /\ Config[x].limited /\ pc'[x] \in Inside \ {"permit"} => stage'[x] = "held"
  BY <1>1 DEF Lifecycle, PermitForTheWholeLifecycle, OthersKeep
<1> QED
  BY <1>1, <1>2 DEF Lifecycle, PermitForTheWholeLifecycle

\* On every way out of send() the limiter gets back what the request had.
LEMMA ReturnLetsGo ==
    ASSUME IInv, Lifecycle, NEW r \in Tasks, NEW o, Return(r, o)
    PROVE  Lifecycle'
<1>1. LimiterStep(r) \/ UNCHANGED limiterVars
  BY DEF Return, LetGo, LimiterStep
<1>2. stage'[r] = "out"
  BY DEF Return, LetGo, Release, Cancel, LeaveQueue, DropPermit, DropLock, limiterVars,
     IInv, LimiterTypeOK
<1>3. Goto(r, "done") /\ "done" \in Labels /\ "done" \notin Inside
  BY DEF Return, Labels, Inside
<1> QED
  BY <1>1, <1>2, <1>3, StepsKeepOthers, OwnStep
\* Inside send() and past the lookup a request goes on without the limiter.
LEMMA InnerMove ==
    ASSUME IInv, Lifecycle, NEW r \in Tasks, NEW label \in Inside \ {"permit"},
           pc[r] \in Inside \ {"permit"}, Goto(r, label), UNCHANGED limiterVars
    PROVE  Lifecycle'
<1>1. OthersKeep(r) /\ stage' = stage
  BY StepsKeepOthers DEF limiterVars
<1>2. label \in Labels /\ label \in Inside
  BY DEF Labels
<1>3. /\ Config[r].limited <=> stage[r] # "out"
      /\ Config[r].limited => stage[r] = "held"
  BY DEF Lifecycle, PermitForTheWholeLifecycle
<1> QED
  BY <1>1, <1>2, <1>3, OwnStep

\* The steps that concern the permit: before it, at it, and the lookup after it.
LEMMA PermitSteps ==
    ASSUME IInv, Lifecycle, NEW r \in Tasks,
           Begin(r) \/ Prepare(r) \/ AwaitPermit(r) \/ CacheGet(r)
    PROVE  Lifecycle'
<1>1. ASSUME NEW o, Return(r, o)
      PROVE  Lifecycle'
  BY <1>1, ReturnLetsGo
<1>2. /\ pc[r] \notin Inside => stage[r] = "out"
      /\ pc[r] = "permit" => (Config[r].limited <=> stage[r] # "out")
  BY DEF Lifecycle, PermitForTheWholeLifecycle, Inside
<1>3. CASE Begin(r)
  <2>1. CASE Goto(r, "ready") /\ UNCHANGED limiterVars
    <3>1. OthersKeep(r) /\ stage' = stage
      BY <2>1, StepsKeepOthers DEF limiterVars
    <3>2. "ready" \in Labels /\ "ready" \notin Inside /\ stage[r] = "out"
      BY <1>2, <1>3 DEF Labels, Inside, Begin
    <3> QED
      BY <2>1, <3>1, <3>2, OwnStep
  <2> QED
    BY <1>1, <1>3, <2>1 DEF Begin
<1>4. CASE Prepare(r)
  <2>1. CASE /\ Goto(r, "permit")
             /\ IF Config[r].limited THEN Acquire(r) ELSE UNCHANGED limiterVars
    <3>1. OthersKeep(r)
      BY <2>1, StepsKeepOthers DEF LimiterStep
    <3>2. "permit" \in Labels /\ "permit" \in Inside /\ stage[r] = "out"
      BY <1>2, <1>4 DEF Labels, Inside, Prepare
    <3>3. Config[r].limited <=> stage'[r] # "out"
      BY <2>1, <3>2 DEF Acquire, limiterVars, IInv, LimiterTypeOK
    <3> QED
      BY <2>1, <3>1, <3>2, <3>3, OwnStep
  <2> QED
    BY <1>1, <1>4, <2>1 DEF Prepare
<1>5. CASE AwaitPermit(r)
  <2>1. OthersKeep(r)
    BY <1>5, StepsKeepOthers DEF AwaitPermit, LimiterStep
  <2>2. stage[r] # "out" /\ stage'[r] # "out" /\ pc[r] = "permit" /\ pc' = pc
    BY <1>5 DEF AwaitPermit, Proceed, Measure, Start, IInv, LimiterTypeOK
  <2>3. Goto(r, "permit")
    BY <2>2 DEF Goto, Lifecycle
  <2>4. "permit" \in Labels /\ "permit" \in Inside /\ Config[r].limited
    BY <1>2, <2>2 DEF Labels, Inside
  <2> QED
    BY <2>1, <2>2, <2>3, <2>4, OwnStep
<1>6. CASE CacheGet(r)
  <2>1. PICK label \in {"resolve", "etag", "finish", "drop"} : Goto(r, label)
    BY <1>6 DEF CacheGet
  <2>2. UNCHANGED limiterVars /\ pc[r] = "permit" /\ HasPermit(r)
    BY <1>6 DEF CacheGet
  <2>3. OthersKeep(r) /\ stage' = stage
    BY <2>2, StepsKeepOthers DEF limiterVars
  <2>4. label \in Labels /\ label \in Inside
    BY <2>1 DEF Labels, Inside
  <2>5. /\ Config[r].limited <=> stage[r] # "out"
        /\ Config[r].limited => stage[r] = "held"
    BY <1>2, <2>2 DEF HasPermit
  <2> QED
    BY <2>1, <2>3, <2>4, <2>5, OwnStep
<1> QED
  BY <1>3, <1>4, <1>5, <1>6

\* The steps past the lookup.
LEMMA InnerSendSteps ==
    ASSUME IInv, Lifecycle, NEW r \in Tasks,
           \/ DropExpired(r) \/ ReadEtag(r) \/ Resolve(r) \/ Answer(r) \/ Retry(r)
           \/ Follow(r) \/ Revalidate(r) \/ Store(r) \/ Finish(r)
    PROVE  Lifecycle'
<1>1. ASSUME NEW o, Return(r, o)
      PROVE  Lifecycle'
  BY <1>1, ReturnLetsGo
<1> DEFINE Past == Inside \ {"permit"}
           Move == \E label \in Past : Goto(r, label) /\ UNCHANGED limiterVars
           Gone == \E o : Return(r, o)
<1>2. pc[r] \in Past
  BY DEF DropExpired, ReadEtag, Resolve, Answer, Retry, Follow, Revalidate, Store, Finish,
     Inside
<1>3. Move => Lifecycle'
  BY <1>2, InnerMove
<1>4. ASSUME NEW response, Settle(r, response)
      PROVE  Move \/ Gone
  BY <1>4 DEF Settle, Inside
<1>5. CASE DropExpired(r) \/ ReadEtag(r) \/ Retry(r) \/ Revalidate(r) \/ Store(r)
  <2>1. Move
    BY <1>5 DEF DropExpired, ReadEtag, Retry, Revalidate, Store, Inside
  <2> QED
    BY <1>3, <2>1
<1>6. CASE Resolve(r)
  <2>1. Move \/ Gone
    BY <1>6 DEF Resolve, Inside
  <2> QED
    BY <1>1, <1>3, <2>1
<1>7. CASE Answer(r)
  <2>1. Goto(r, "backoff") /\ UNCHANGED limiterVars => Move
    BY DEF Inside
  <2>2. Goto(r, "chain") /\ UNCHANGED limiterVars => Move
    BY DEF Inside
  <2> HIDE DEF Move, Gone
  <2>3. \A o : Return(r, o) => Gone
    BY DEF Gone
  <2>4. Move \/ Gone
    BY <1>4, <1>7, <2>1, <2>2, <2>3 DEF Answer
  <2> QED
    BY <1>1, <1>3, <2>4 DEF Gone
<1>8. CASE Follow(r)
  <2>1. Gone \/ \E response : Settle(r, response)
    BY <1>8 DEF Follow
  <2> QED
    BY <1>1, <1>3, <1>4, <2>1
<1>9. CASE Finish(r)
  <2>1. Gone
    BY <1>9 DEF Finish
  <2> QED
    BY <1>1, <2>1
<1> QED
  BY <1>5, <1>6, <1>7, <1>8, <1>9

\* Where each request is in send() fits its place in the limiter, step by step.
LEMMA LifecyclePreserved == IInv /\ Lifecycle /\ [Next]_vars => Lifecycle'
<1> SUFFICES ASSUME IInv, Lifecycle, [Next]_vars
             PROVE  Lifecycle'
  OBVIOUS
<1>1. UNCHANGED <<pc, stage>> => Lifecycle'
  BY DEF Lifecycle, PermitForTheWholeLifecycle
<1>2. CASE UNCHANGED vars
  BY <1>1, <1>2 DEF vars, limiterVars
<1>3. CASE Environment
  BY <1>1, <1>3 DEF Environment, LimiterTick, Tick, Abort, Expire, Forget, limiterVars
<1>4. ASSUME NEW r \in Tasks, Begin(r) \/ Run(r) \/ CancelSend(r) \/ DropSend(r)
      PROVE  Lifecycle'
  <2>1. CASE CancelSend(r) \/ DropSend(r)
    <3>1. PICK o : Return(r, o)
      BY <2>1 DEF CancelSend, DropSend
    <3> QED
      BY <3>1, ReturnLetsGo
  <2> QED
    BY <1>4, <2>1, PermitSteps, InnerSendSteps DEF Run
<1> QED
  BY <1>2, <1>3, <1>4 DEF Next

\* "hold a concurrency permit for the whole request lifecycle"
\* (request_handler.rs:737), and not longer: returned, failed, cancelled or
\* dropped, a request keeps nothing of the limiter.
THEOREM PermitIsHeldThroughout == Spec => []PermitForTheWholeLifecycle
<1>1. Init => Lifecycle
  BY DEF Init, LimiterInit, Lifecycle, PermitForTheWholeLifecycle, Labels, Inside
<1>2. IInv /\ Lifecycle /\ [Next]_vars => Lifecycle'
  BY LifecyclePreserved
<1>3. Spec => []IInv
  BY LimiterStaysSafe
<1>4. Lifecycle => PermitForTheWholeLifecycle
  BY DEF Lifecycle
<1> QED
  BY <1>1, <1>2, <1>3, <1>4, PTL DEF Spec

\* At no time are more limited requests between lookup and answer than the
\* limiter has permits, for any number of requests and permits.
THEOREM RequestsInFlightAreBounded == Spec => []InFlightBounded
<1>1. IInv /\ PermitForTheWholeLifecycle => InFlightBounded
  <2> SUFFICES ASSUME IInv, PermitForTheWholeLifecycle
               PROVE  InFlightBounded
    OBVIOUS
  <2> DEFINE InFlight == {r \in Tasks : Config[r].limited /\ pc[r] \in Inside \ {"permit"}}
  <2>1. InFlight \in SUBSET Owners
    BY DEF PermitForTheWholeLifecycle, Owners, Owning, Stages
  <2>2. Cardinality(InFlight) <= Cardinality(Owners) /\ Cardinality(InFlight) \in Nat
    BY <2>1, OwnersFinite, FS_Subset, FS_CardinalityType
  <2>3. Cardinality(Owners) <= Permits
    BY OwnersFinite, LimiterAssumption
       DEF IInv, LimiterInv, LimiterTypeOK, PermitsConserved
  <2> HIDE DEF InFlight
  <2>4. Cardinality(InFlight) <= Permits
    BY <2>2, <2>3, OwnersFinite, LimiterAssumption
  <2> QED
    BY <2>4 DEF InFlightBounded, InFlight
<1> QED
  BY <1>1, LimiterStaysSafe, PermitIsHeldThroughout, PTL

-----------------------------------------------------------------------------
Settled == {"revalidate", "dropped304", "store", "finish"}
Errors == {"none", "Interceptor", "RequestAborted", "Validation", "RateLimited",
           "ServerError", "dropped"} \cup ChainErrors
Results == [ok : BOOLEAN, error : Errors, response : Responses]

SendTypeOK ==
    /\ pc \in [Tasks -> Labels]
    /\ aborted \in [Signals -> BOOLEAN]
    /\ cache \in [Keys -> [response : Responses, fresh : BOOLEAN]]
    /\ attempt \in [Tasks -> Nat]
    /\ cond \in [Tasks -> BOOLEAN]
    /\ resp \in [Tasks -> Responses]
    /\ result \in [Tasks -> Results]
    /\ trace \in [Tasks -> SUBSET Milestones]

\* What may be delivered to the caller of r.
Deliverable(r, response) ==
    /\ response.headers \cap Sensitive = {}
    /\ ~IsFailure(response.status)
    /\ Config[r].follows => ~IsRedirect(response.status)
    /\ response.url \in Spellings
    /\ "redirected" \notin trace[r] =>
          response.url \in {Config[r].url, Canonical[Config[r].url]}

\* Attempts are made within the budget, one after the other.
Counted(r) ==
    /\ attempt[r] <= Budget(r)
    /\ pc[r] \in {"idle", "ready", "permit", "drop", "etag", "resolve"} => attempt[r] = 0
    /\ pc[r] = "backoff" => attempt[r] < Budget(r)

\* Hits and inserts come last, and a hit is an answer without an attempt.
Traced(r) ==
    /\ trace[r] \cap {"hit", "stored"} # {} => pc[r] \in {"finish", "done"}
    /\ "hit" \in trace[r] => attempt[r] = 0

\* What is being worked on was settled: it could be delivered, and only what the
\* cache is for goes on to it.
Worked(r) ==
    /\ pc[r] \in Settled => Deliverable(r, resp[r])
    /\ pc[r] \in {"drop", "etag", "revalidate", "dropped304", "store"} => UsesCache(r)
    /\ pc[r] = "store" => IsSuccess(resp[r].status)

\* What a request returned, if it returned.
Returned(r) ==
    /\ pc[r] # "done" => result[r] = Pending
    /\ result[r].ok => Deliverable(r, result[r].response)
    /\ \/ result[r].error = "dropped"
       \/ result[r].error = "RequestAborted" /\ ~Config[r].progress
       => trace[r] \cap {"hit", "stored"} = {}
    /\ RetriedAs(result[r].error) \in Config[r].retryOn /\ "redirected" \notin trace[r]
       => attempt[r] = Budget(r)

RequestInv(r) == Counted(r) /\ Traced(r) /\ Worked(r) /\ Returned(r)

SendInv == SendTypeOK /\ CacheSound /\ \A r \in Tasks : RequestInv(r)

\* A step of one request is no step of another.
Alone(r) ==
    \A x \in Tasks \ {r} :
       /\ pc'[x] = pc[x] /\ attempt'[x] = attempt[x] /\ resp'[x] = resp[x]
       /\ result'[x] = result[x] /\ trace'[x] = trace[x]

\* What holds of a request holds of it after a step of another.
LEMMA OthersStay ==
    ASSUME NEW r \in Tasks, Alone(r), NEW x \in Tasks \ {r}, RequestInv(x)
    PROVE  RequestInv(x)'
BY DEF Alone, RequestInv, Counted, Traced, Worked, Returned, Deliverable

\* What the configuration of a request says.
LEMMA ConfigType ==
    ASSUME NEW r \in Tasks
    PROVE  /\ Config[r] \in Configs
           /\ Config[r].url \in Spellings /\ Canonical[Config[r].url] \in Spellings
           /\ Config[r].retryOn \in SUBSET ErrorKinds
           /\ Config[r].attempts \in Nat /\ Budget(r) \in Nat /\ Budget(r) >= 1
           /\ Config[r].progress \in BOOLEAN
<1>1. Config[r] \in Configs /\ Canonical \in [Spellings -> Spellings]
  BY SendAssumption
<1> QED
  BY <1>1 DEF Configs, Budget

\* The keys of a request that uses the cache.
LEMMA KeysOf ==
    ASSUME NEW r \in Tasks, UsesCache(r)
    PROVE  /\ LookupKey(r) \in Keys /\ LookupKey(r)[2] = Config[r].url
           /\ resp[r].url \in Spellings => InsertKey(r) \in Keys /\ InsertKey(r)[2] = resp[r].url
<1>1. Config[r].method \in {"GET", "HEAD"} /\ Config[r].url \in Spellings
  BY ConfigType DEF UsesCache
<1>2. \A u \in Spellings : <<Config[r].method, u>> \in Keys /\ <<Config[r].method, u>>[2] = u
  BY <1>1 DEF Keys
<1>3. LookupKey(r) \in Keys /\ LookupKey(r)[2] = Config[r].url
  BY <1>1, <1>2 DEF LookupKey
<1>4. ASSUME resp[r].url \in Spellings
      PROVE  InsertKey(r) \in Keys /\ InsertKey(r)[2] = resp[r].url
  BY <1>2, <1>4 DEF InsertKey
<1> QED
  BY <1>3, <1>4

\* No entry is an entry of its own, no result a result.
LEMMA NoEntryType == NoEntry \in [response : Responses, fresh : BOOLEAN] /\ Pending \in Results
<1>1. NoResponse \in Responses
  BY DEF NoResponse, Responses
<1>2. NoEntry \in [response : Responses, fresh : BOOLEAN]
  BY <1>1 DEF NoEntry
<1>3. Pending \in Results
  BY <1>1 DEF Pending, Err, Results, Errors
<1> QED
  BY <1>2, <1>3

\* What the step of one request has to show for all of them.
LEMMA OneStep ==
    ASSUME SendInv, NEW r \in Tasks, SendTypeOK', Alone(r), CacheSound', RequestInv(r)'
    PROVE  SendInv'
<1>1. \A x \in Tasks \ {r} : RequestInv(x)'
  BY OthersStay DEF SendInv
<1> QED
  BY <1>1 DEF SendInv

\* A step that leaves everything else of a request alone.
Going(r, label) ==
    Goto(r, label) /\ UNCHANGED <<aborted, cache, attempt, cond, resp, result, trace>>

\* Such a step keeps the types, the cache and the other requests.
LEMMA GoingOn ==
    ASSUME SendInv, NEW r \in Tasks, NEW label \in Labels, Going(r, label)
    PROVE  /\ SendTypeOK' /\ Alone(r) /\ CacheSound'
           /\ pc'[r] = label
<1>1. SendTypeOK' /\ Alone(r) /\ pc'[r] = label
  BY DEF SendInv, SendTypeOK, Going, Goto, Alone
<1>2. CacheSound'
  BY DEF SendInv, CacheSound, Going
<1> QED
  BY <1>1, <1>2

\* A request ends. Its response and what it did before are as they were, but for
\* a chain it may just have walked.
Ending(r, outcome) ==
    /\ Goto(r, "done") /\ result' = [result EXCEPT ![r] = outcome]
    /\ UNCHANGED <<aborted, cache, attempt, cond, resp>>
    /\ trace' = trace \/ trace' = [trace EXCEPT ![r] = @ \cup {"redirected"}]

\* What the end of a request has to show.
LEMMA EndingWell ==
    ASSUME SendInv, NEW r \in Tasks, NEW outcome \in Results, Ending(r, outcome),
           pc[r] # "done",
           outcome.ok => Deliverable(r, outcome.response),
           \/ outcome.error = "dropped"
           \/ outcome.error = "RequestAborted" /\ ~Config[r].progress
           => trace[r] \cap {"hit", "stored"} = {},
           RetriedAs(outcome.error) \in Config[r].retryOn /\ "redirected" \notin trace'[r]
           => attempt[r] = Budget(r)
    PROVE  SendInv'
<1>1. /\ SendTypeOK' /\ Alone(r)
      /\ pc'[r] = "done" /\ result'[r] = outcome /\ attempt'[r] = attempt[r]
      /\ trace'[r] \in {trace[r], trace[r] \cup {"redirected"}}
  BY DEF SendInv, SendTypeOK, Ending, Goto, Alone, Labels, Milestones
<1>2. CacheSound'
  BY DEF SendInv, CacheSound, Ending
<1>3. RequestInv(r)
  BY DEF SendInv
<1>4. Counted(r)' /\ Traced(r)' /\ Worked(r)'
  BY <1>1, <1>3 DEF RequestInv, Counted, Traced, Worked, Settled
<1>5. outcome.ok => Deliverable(r, outcome.response)'
  BY <1>1 DEF Deliverable
<1>6. Returned(r)'
  BY <1>1, <1>5 DEF Returned
<1> QED
  BY <1>1, <1>2, <1>4, <1>6, OneStep DEF RequestInv

\* Errors, unless they are a cancellation or may be retried.
LEMMA ErrType ==
    \A kind \in Errors : /\ Err(kind) \in Results /\ Err(kind).error = kind
                         /\ Err(kind).ok = FALSE
BY NoEntryType DEF Err, Results, Pending

PlainErrors == {"Interceptor", "Validation", "Resolution", "TooManyRedirects", "RedirectBlocked"}

\* Such an error is neither a cancellation nor one that may be retried.
LEMMA PlainlyWrong ==
    ASSUME NEW kind \in PlainErrors
    PROVE  /\ kind \in Errors /\ kind \notin {"dropped", "RequestAborted"}
           /\ RetriedAs(kind) = "none"
BY DEF PlainErrors, Errors, ChainErrors, RetriedAs, TransportErrors

\* No policy retries on nothing.
LEMMA NothingIsNoKind == ASSUME NEW r \in Tasks PROVE "none" \notin Config[r].retryOn
BY ConfigType DEF ErrorKinds

\* Every other error ends a request without more ado.
LEMMA PlainEnding ==
    ASSUME SendInv, NEW r \in Tasks, NEW kind \in PlainErrors, Ending(r, Err(kind)),
           pc[r] # "done"
    PROVE  SendInv'
BY PlainlyWrong, ErrType, NothingIsNoKind, EndingWell

\* Cancelled or dropped while there was no answer yet; or stopped by the caller's
\* own progress callback.
LEMMA CancelledEnding ==
    ASSUME SendInv, NEW r \in Tasks, NEW kind \in {"dropped", "RequestAborted"},
           Ending(r, Err(kind)), pc[r] # "done",
           \/ pc[r] # "finish"
           \/ kind = "RequestAborted" /\ Config[r].progress
    PROVE  SendInv'
<1>1. kind \in Errors /\ RetriedAs(kind) = "none"
  BY DEF Errors, ChainErrors, RetriedAs, TransportErrors
<1>2. pc[r] # "finish" => trace[r] \cap {"hit", "stored"} = {}
  BY DEF SendInv, RequestInv, Traced
<1> QED
  BY <1>1, <1>2, ErrType, NothingIsNoKind, EndingWell

\* Before the cache is asked a request only goes on or ends.
LEMMA OutsideSteps ==
    ASSUME SendInv, NEW r \in Tasks, Begin(r) \/ Prepare(r) \/ AwaitPermit(r)
    PROVE  SendInv'
<1>1. RequestInv(r)
  BY DEF SendInv
<1>2. ASSUME NEW label \in {"ready", "permit"}, Going(r, label), pc[r] \in {"idle", "ready"}
      PROVE  SendInv'
  <2>1. label \in Labels
    BY DEF Labels, Inside
  <2>2. RequestInv(r)'
    BY <1>1, <1>2, <2>1, GoingOn
       DEF Going, RequestInv, Counted, Traced, Worked, Returned, Deliverable, Settled, UsesCache
  <2> QED
    BY <1>2, <2>1, <2>2, GoingOn, OneStep
<1>3. CASE Begin(r)
  BY <1>2, <1>3, PlainEnding, CancelledEnding
     DEF Begin, Return, Ending, Going, localVars, PlainErrors
<1>4. CASE Prepare(r)
  <2>1. CASE Return(r, Err("Validation"))
    BY <1>4, <2>1, PlainEnding DEF Prepare, Return, Ending, localVars, PlainErrors
  <2>2. CASE Config[r].progress /\ Return(r, Err("RequestAborted"))
    BY <1>4, <2>2, CancelledEnding DEF Prepare, Return, Ending, localVars
  <2>3. CASE Goto(r, "permit") /\ UNCHANGED result
    BY <1>2, <1>4, <2>3 DEF Prepare, Going, localVars
  <2> QED
    BY <1>4, <2>1, <2>2, <2>3 DEF Prepare
<1>5. CASE AwaitPermit(r)
  BY <1>5 DEF AwaitPermit, localVars, SendInv, SendTypeOK, CacheSound, RequestInv, Counted,
     Traced, Worked, Returned, Deliverable
<1> QED
  BY <1>3, <1>4, <1>5

\* The classes of statuses do not overlap.
LEMMA SuccessIsNoFailure ==
    \A status \in Nat : IsSuccess(status) => ~IsFailure(status) /\ ~IsRedirect(status)
BY DEF IsSuccess, IsFailure, IsRedirect

\* The cache answers, or the request goes on to ask a server.
LEMMA LookupSteps ==
    ASSUME SendInv, NEW r \in Tasks, CacheGet(r) \/ DropExpired(r) \/ ReadEtag(r)
    PROVE  SendInv'
<1>1. RequestInv(r) /\ SendTypeOK /\ CacheSound
  BY DEF SendInv
<1>2. ASSUME NEW label \in {"resolve", "etag"}, Going(r, label), pc[r] = "permit",
             label = "etag" => UsesCache(r)
      PROVE  SendInv'
  <2>1. label \in Labels
    BY DEF Labels, Inside
  <2>2. RequestInv(r)'
    BY <1>1, <1>2, <2>1, GoingOn
       DEF Going, RequestInv, Counted, Traced, Worked, Returned, Deliverable, Settled, UsesCache
  <2> QED
    BY <1>2, <2>1, <2>2, GoingOn, OneStep
<1> DEFINE entry == cache[LookupKey(r)]
<1>3. CASE CacheGet(r)
  <2>1. CASE ~UsesCache(r) \/ entry = NoEntry
    BY <1>2, <1>3, <2>1 DEF CacheGet, Going, NoEntry
  <2>2. CASE UsesCache(r) /\ entry.fresh
    <3>1. /\ entry.response \in Responses /\ IsSuccess(entry.response.status)
          /\ entry.response.headers \cap Sensitive = {}
          /\ entry.response.url = Config[r].url
      BY <1>1, <2>2, KeysOf DEF SendTypeOK, CacheSound, NoEntry
    <3>2. /\ Goto(r, "finish") /\ resp' = [resp EXCEPT ![r] = entry.response]
          /\ trace' = [trace EXCEPT ![r] = @ \cup {"hit"}]
          /\ UNCHANGED <<aborted, cache, attempt, cond, result>>
          /\ pc[r] = "permit"
      BY <1>3, <2>2 DEF CacheGet, NoEntry
    <3>3. SendTypeOK' /\ Alone(r) /\ CacheSound'
      <4>1. SendTypeOK'
        BY <1>1, <3>1, <3>2 DEF SendTypeOK, Goto, Labels, Inside, Milestones
      <4>2. Alone(r)
        BY <1>1, <3>2 DEF SendTypeOK, Goto, Alone
      <4>3. CacheSound'
        BY <1>1, <3>2 DEF CacheSound
      <4> QED
        BY <4>1, <4>2, <4>3
    <3>4. /\ pc'[r] = "finish" /\ resp'[r] = entry.response
          /\ trace'[r] = trace[r] \cup {"hit"} /\ attempt'[r] = 0 /\ result'[r] = Pending
      BY <1>1, <3>2 DEF SendTypeOK, Goto, RequestInv, Counted, Returned
    <3>5. Deliverable(r, entry.response)'
      <4>1. entry.response.status \in Nat
        BY <3>1 DEF Responses
      <4>2. ~IsFailure(entry.response.status) /\ ~IsRedirect(entry.response.status)
        BY <3>1, <4>1, SuccessIsNoFailure
      <4>3. Deliverable(r, entry.response)
        BY <3>1, <4>2, ConfigType DEF Deliverable
      <4> QED
        BY <3>2, <3>4, <4>3 DEF Deliverable
    <3>6. Counted(r)' /\ Traced(r)' /\ Worked(r)'
      BY <3>4, <3>5, <3>2, ConfigType DEF Counted, Traced, Worked, Settled, Deliverable
    <3>7. Returned(r)'
      BY <3>4, NothingIsNoKind DEF Returned, Pending, Err, RetriedAs, TransportErrors
    <3> QED
      BY <3>3, <3>6, <3>7, OneStep DEF RequestInv
  <2>3. CASE UsesCache(r) /\ entry # NoEntry /\ ~entry.fresh
    <3>1. /\ Goto(r, "drop") /\ UNCHANGED <<aborted, cache, attempt, cond, resp, result>>
          /\ trace' = [trace EXCEPT ![r] = @ \cup {"stale"}] \/ trace' = trace
          /\ pc[r] = "permit"
      BY <1>3, <2>3 DEF CacheGet
    <3>2. SendTypeOK' /\ Alone(r) /\ CacheSound'
      <4>1. SendTypeOK'
        BY <1>1, <3>1 DEF SendTypeOK, Goto, Labels, Inside, Milestones
      <4>2. Alone(r)
        BY <1>1, <3>1 DEF SendTypeOK, Goto, Alone
      <4>3. CacheSound'
        BY <1>1, <3>1 DEF CacheSound
      <4> QED
        BY <4>1, <4>2, <4>3
    <3>3. pc'[r] = "drop" /\ trace'[r] \in {trace[r], trace[r] \cup {"stale"}}
      BY <1>1, <3>1 DEF SendTypeOK, Goto
    <3>4. RequestInv(r)'
      BY <1>1, <2>3, <3>1, <3>3 DEF RequestInv, Counted, Traced, Worked, Returned, Settled,
         UsesCache, Pending, Err
    <3> QED
      BY <3>2, <3>4, OneStep
  <2> QED
    BY <1>3, <2>1, <2>2, <2>3 DEF CacheGet
<1>4. CASE DropExpired(r)
  <2>1. PICK label \in {"etag", "finish"} :
          /\ Goto(r, label)
          /\ pc[r] = IF label = "etag" THEN "drop" ELSE "dropped304"
    BY <1>4 DEF DropExpired
  <2>2. cache' = [cache EXCEPT ![LookupKey(r)] = NoEntry]
        /\ UNCHANGED <<aborted, attempt, cond, resp, result, trace>>
    BY <1>4 DEF DropExpired, localVars
  <2>3. SendTypeOK'
    BY <1>1, <2>1, <2>2, NoEntryType DEF SendTypeOK, Goto, Labels, Inside
  <2>4. Alone(r) /\ pc'[r] = label
    BY <1>1, <2>1, <2>2 DEF SendTypeOK, Goto, Alone
  <2>5. CacheSound'
    BY <1>1, <2>2 DEF SendTypeOK, CacheSound
  <2>6. RequestInv(r)'
    BY <1>1, <2>1, <2>2, <2>4 DEF RequestInv, Counted, Traced, Worked, Returned, Deliverable,
       Settled, UsesCache
  <2> QED
    BY <2>3, <2>4, <2>5, <2>6, OneStep
<1>5. CASE ReadEtag(r)
  <2> DEFINE c == "etag" \in entry.response.headers
  <2>0. c \in BOOLEAN
    OBVIOUS
  <2>1. /\ Goto(r, "resolve") /\ pc[r] = "etag" /\ cond' = [cond EXCEPT ![r] = c]
        /\ UNCHANGED <<aborted, cache, attempt, resp, result, trace>>
    BY <1>5 DEF ReadEtag
  <2> HIDE DEF c
  <2>2. SendTypeOK'
    BY <1>1, <2>0, <2>1 DEF SendTypeOK, Goto, Labels, Inside
  <2>3. Alone(r) /\ pc'[r] = "resolve" /\ CacheSound'
    BY <1>1, <2>1 DEF SendTypeOK, Goto, Alone, CacheSound
  <2>4. RequestInv(r)'
    BY <1>1, <2>1, <2>3 DEF RequestInv, Counted, Traced, Worked, Returned, Deliverable,
       Settled, UsesCache
  <2> QED
    BY <2>2, <2>3, <2>4, OneStep
<1> QED
  BY <1>3, <1>4, <1>5

\* Redaction takes the sensitive headers and nothing else.
LEMMA RedactType ==
    ASSUME NEW response \in Responses
    PROVE  /\ Redact(response) \in Responses
           /\ Redact(response).status = response.status /\ Redact(response).url = response.url
           /\ Redact(response).headers = response.headers \ Sensitive
BY DEF Redact, Responses

\* An outcome that stands can be delivered, is a failure that the retry policy has
\* given up on, or one it does not retry.
LEMMA SettleStep ==
    ASSUME SendInv, NEW r \in Tasks, NEW response \in Responses, Settle(r, response),
           pc[r] \in {"attempt", "chain"},
           UNCHANGED <<aborted, cache, attempt, cond>>,
           trace' = trace \/ trace' = [trace EXCEPT ![r] = @ \cup {"redirected"}],
           Config[r].follows => ~IsRedirect(response.status),
           response.url \in Spellings,
           "redirected" \notin trace'[r] =>
              /\ response.url = Canonical[Config[r].url]
              /\ ShouldRetryStatus(r, response.status) => attempt[r] = Budget(r)
    PROVE  SendInv'
<1>1. RequestInv(r) /\ SendTypeOK /\ CacheSound /\ response.status \in Nat
  BY DEF SendInv, Responses
<1>2. ASSUME NEW kind \in {"RateLimited", "ServerError"}, Return(r, Err(kind)), UNCHANGED resp,
             kind \in Config[r].retryOn => ShouldRetryStatus(r, response.status)
      PROVE  SendInv'
  <2>1. kind \in Errors /\ RetriedAs(kind) = kind
    BY DEF Errors, RetriedAs, TransportErrors
  <2>2. Ending(r, Err(kind))
    BY <1>2 DEF Ending, Return
  <2> QED
    BY <1>2, <2>1, <2>2, ErrType, EndingWell
<1>3. CASE response.status = 429 /\ Return(r, Err("RateLimited")) /\ UNCHANGED resp
  BY <1>2, <1>3 DEF ShouldRetryStatus
<1>4. CASE response.status \in 500 .. 599 /\ Return(r, Err("ServerError")) /\ UNCHANGED resp
  BY <1>2, <1>4 DEF ShouldRetryStatus
<1>5. CASE /\ ~IsFailure(response.status)
           /\ resp' = [resp EXCEPT ![r] = Redact(response)]
           /\ Goto(r, CASE UsesCache(r) /\ response.status = 304 -> "revalidate"
                        [] UsesCache(r) /\ IsSuccess(response.status) -> "store"
                        [] OTHER -> "finish")
           /\ UNCHANGED result
  <2>1. PICK label \in {"revalidate", "store", "finish"} :
          /\ Goto(r, label)
          /\ label # "finish" => UsesCache(r)
          /\ label = "store" => IsSuccess(response.status)
    BY <1>5
  <2>2. SendTypeOK'
    BY <1>1, <1>5, <2>1, RedactType DEF SendTypeOK, Goto, Labels, Inside, Milestones
  <2>3. Alone(r) /\ pc'[r] = label /\ resp'[r] = Redact(response) /\ CacheSound'
        /\ trace'[r] \in {trace[r], trace[r] \cup {"redirected"}}
    BY <1>1, <1>5, <2>1 DEF SendTypeOK, Goto, Alone, CacheSound
  <2>4. Deliverable(r, Redact(response))'
    BY <1>5, RedactType, ConfigType DEF Deliverable
  <2>5. Counted(r)' /\ Traced(r)'
    BY <1>1, <2>1, <2>3 DEF RequestInv, Counted, Traced
  <2>6. Worked(r)'
    BY <1>5, <2>1, <2>3, <2>4, RedactType DEF Worked, UsesCache
  <2>7. Returned(r)'
    BY <1>1, <1>5, <2>1, <2>3, NothingIsNoKind
       DEF RequestInv, Returned, Pending, Err, RetriedAs, TransportErrors
  <2> QED
    BY <2>2, <2>3, <2>5, <2>6, <2>7, OneStep DEF RequestInv
<1> QED
  BY <1>3, <1>4, <1>5 DEF Settle

\* A reply of a server, as a response.
LEMMA ReplyType ==
    ASSUME NEW reply \in Replies, NEW url \in Spellings
    PROVE  /\ Reply(reply, url) \in Responses
           /\ Reply(reply, url).status = reply.status /\ Reply(reply, url).url = url
<1>1. reply \in [status : 0 .. 599, headers : SUBSET HeaderNames]
  BY SendAssumption
<1> QED
  BY <1>1 DEF Reply, Responses

\* Transport errors end a request only if they are not retried, or not again.
LEMMA TransportEnding ==
    ASSUME SendInv, NEW r \in Tasks, NEW error \in TransportErrors, Ending(r, Err(error)),
           pc[r] # "done",
           "redirected" \notin trace'[r] /\ ShouldRetry(r, error) => attempt[r] = Budget(r)
    PROVE  SendInv'
<1>1. error \in Errors /\ error \notin {"dropped", "RequestAborted"}
      /\ RetriedAs(error) = Classify(error)
  BY DEF TransportErrors, Errors, ChainErrors, RetriedAs, Classify
<1> QED
  BY <1>1, ErrType, EndingWell DEF ShouldRetry

\* Attempts, and what comes of them.
LEMMA AttemptSteps ==
    ASSUME SendInv, NEW r \in Tasks, Resolve(r) \/ Answer(r) \/ Retry(r) \/ Follow(r)
    PROVE  SendInv'
<1>1. RequestInv(r) /\ SendTypeOK /\ CacheSound
  BY DEF SendInv
<1>2. ASSUME NEW label \in {"backoff", "chain"}, Going(r, label), pc[r] = "attempt",
             label = "backoff" => attempt[r] < Budget(r)
      PROVE  SendInv'
  <2>1. label \in Labels
    BY DEF Labels, Inside
  <2>2. RequestInv(r)'
    BY <1>1, <1>2, <2>1, GoingOn
       DEF Going, RequestInv, Counted, Traced, Worked, Returned, Deliverable, Settled, Budget
  <2> QED
    BY <1>2, <2>1, <2>2, GoingOn, OneStep
<1>3. ASSUME Goto(r, "attempt"), UNCHANGED <<aborted, cache, cond, resp, result, trace>>,
             attempt' = [attempt EXCEPT ![r] = @ + 1], attempt[r] < Budget(r),
             pc[r] \in {"resolve", "backoff"}
      PROVE  SendInv'
  <2>1. SendTypeOK'
    BY <1>1, <1>3 DEF SendTypeOK, Goto, Labels, Inside
  <2>2. Alone(r) /\ pc'[r] = "attempt" /\ attempt'[r] = attempt[r] + 1 /\ CacheSound'
    BY <1>1, <1>3 DEF SendTypeOK, Goto, Alone, CacheSound
  <2>3. Counted(r)'
    BY <1>1, <1>3, <2>2, ConfigType DEF SendTypeOK, Counted, Budget
  <2>4. Traced(r)' /\ Worked(r)' /\ Returned(r)'
    BY <1>1, <1>3, <2>2, NothingIsNoKind DEF RequestInv, Traced, Worked, Returned, Settled,
       Deliverable, Pending, Err, RetriedAs, TransportErrors
  <2> QED
    BY <2>1, <2>2, <2>3, <2>4, OneStep DEF RequestInv
<1>4. CASE Resolve(r)
  <2>1. pc[r] = "resolve" /\ attempt[r] = 0
    BY <1>1, <1>4 DEF Resolve, RequestInv, Counted
  <2>2. CASE Return(r, Err("Resolution")) /\ UNCHANGED attempt
    BY <1>4, <2>1, <2>2, PlainEnding DEF Resolve, Return, Ending, PlainErrors
  <2>3. CASE Goto(r, "attempt") /\ attempt' = [attempt EXCEPT ![r] = 1] /\ UNCHANGED result
    <3>1. attempt' = [attempt EXCEPT ![r] = @ + 1]
      BY <1>1, <2>1, <2>3 DEF SendTypeOK
    <3>2. attempt[r] < Budget(r)
      BY <2>1, ConfigType
    <3> QED
      BY <1>3, <1>4, <2>1, <2>3, <3>1, <3>2 DEF Resolve
  <2> QED
    BY <1>4, <2>2, <2>3 DEF Resolve
<1>5. CASE Retry(r)
  BY <1>1, <1>3, <1>5 DEF Retry, RequestInv, Counted
<1>6. CASE Answer(r)
  <2>1. pc[r] = "attempt" /\ UNCHANGED <<aborted, cache, attempt, cond, trace>>
        /\ attempt[r] \in Nat /\ Budget(r) \in Nat /\ attempt[r] <= Budget(r)
    BY <1>1, <1>6, ConfigType DEF Answer, SendTypeOK, RequestInv, Counted
  <2>2. ASSUME NEW reply \in Replies,
               ~(ShouldRetryStatus(r, reply.status) /\ attempt[r] < Budget(r)),
               ~(Config[r].follows /\ IsRedirect(reply.status)),
               Settle(r, Reply(reply, Canonical[Config[r].url]))
        PROVE  SendInv'
    <3> DEFINE response == Reply(reply, Canonical[Config[r].url])
    <3>1. response \in Responses /\ response.status = reply.status
          /\ response.url = Canonical[Config[r].url] /\ response.url \in Spellings
      BY ConfigType, ReplyType
    <3>2. ShouldRetryStatus(r, response.status) => attempt[r] = Budget(r)
      BY <2>1, <2>2, <3>1
    <3> HIDE DEF response
    <3> QED
      BY <2>1, <2>2, <3>1, <3>2, SettleStep DEF response
  <2>3. ASSUME NEW error \in TransportErrors,
               ~(ShouldRetry(r, error) /\ attempt[r] < Budget(r)),
               Return(r, Err(error)), UNCHANGED resp
        PROVE  SendInv'
    <3>1. Ending(r, Err(error))
      BY <2>1, <2>3 DEF Ending, Return
    <3>2. ShouldRetry(r, error) => attempt[r] = Budget(r)
      BY <2>1, <2>3
    <3> QED
      BY <2>1, <3>1, <3>2, TransportEnding
  <2>4. ASSUME NEW label \in {"backoff", "chain"}, Goto(r, label), UNCHANGED <<resp, result>>,
               label = "backoff" => attempt[r] < Budget(r)
        PROVE  SendInv'
    BY <1>2, <2>1, <2>4 DEF Going
  <2> QED
    BY <1>6, <2>2, <2>3, <2>4 DEF Answer
<1>7. CASE Follow(r)
  <2>1. pc[r] = "chain" /\ UNCHANGED <<aborted, cache, attempt, cond>>
        /\ trace' = [trace EXCEPT ![r] = @ \cup {"redirected"}]
        /\ "redirected" \in trace'[r]
    BY <1>1, <1>7 DEF Follow, SendTypeOK
  <2>2. ASSUME NEW error \in ChainErrors, Return(r, Err(error)), UNCHANGED resp
        PROVE  SendInv'
    <3>1. Ending(r, Err(error))
      BY <2>1, <2>2 DEF Ending, Return
    <3>2. error \in PlainErrors \/ error \in TransportErrors
      BY DEF ChainErrors, PlainErrors
    <3> QED
      BY <2>1, <3>1, <3>2, PlainEnding, TransportEnding
  <2>3. ASSUME NEW reply \in Replies, NEW url \in Spellings, ~IsRedirect(reply.status),
               Settle(r, Reply(reply, url))
        PROVE  SendInv'
    BY <2>1, <2>3, ReplyType, SettleStep
  <2> QED
    BY <1>7, <2>2, <2>3 DEF Follow
<1> QED
  BY <1>4, <1>5, <1>6, <1>7

\* Entries as they are made and as they age.
LEMMA EntryType ==
    /\ \A response \in Responses :
          [response |-> response, fresh |-> TRUE] \in [response : Responses, fresh : BOOLEAN]
    /\ \A e \in [response : Responses, fresh : BOOLEAN] :
          /\ [e EXCEPT !.fresh = FALSE] \in [response : Responses, fresh : BOOLEAN]
          /\ [e EXCEPT !.fresh = FALSE].response = e.response
OBVIOUS

\* What comes after an answer: the cache, and the caller.
LEMMA SettledSteps ==
    ASSUME SendInv, NEW r \in Tasks, Revalidate(r) \/ Store(r) \/ Finish(r)
    PROVE  SendInv'
<1>1. RequestInv(r) /\ SendTypeOK /\ CacheSound
  BY DEF SendInv
<1>2. CASE Revalidate(r)
  <2> DEFINE entry == cache[LookupKey(r)]
  <2>1. pc[r] = "revalidate" /\ UsesCache(r) /\ Deliverable(r, resp[r])
    BY <1>1, <1>2 DEF Revalidate, RequestInv, Worked, Settled
  <2>2. CASE entry.fresh /\ Goto(r, "finish")
             /\ resp' = [resp EXCEPT ![r] = [entry.response EXCEPT !.status = 304]]
    <3> DEFINE response == [entry.response EXCEPT !.status = 304]
    <3>1. /\ entry.response \in Responses
          /\ entry.response.headers \cap Sensitive = {}
          /\ entry.response.url = Config[r].url
      BY <1>1, <2>1, <2>2, KeysOf DEF SendTypeOK, CacheSound, NoEntry
    <3>2. response \in Responses /\ response.status = 304
          /\ response.headers = entry.response.headers /\ response.url = Config[r].url
      BY <3>1 DEF Responses
    <3>3. Deliverable(r, response)
      BY <3>1, <3>2, ConfigType DEF Deliverable, IsFailure, IsRedirect
    <3> HIDE DEF response
    <3>4. resp' = [resp EXCEPT ![r] = response]
          /\ UNCHANGED <<aborted, cache, attempt, cond, trace, result>>
      BY <1>2, <2>2 DEF Revalidate, response
    <3>5. SendTypeOK'
      BY <1>1, <2>2, <3>2, <3>4 DEF SendTypeOK, Goto, Labels, Inside
    <3>6. Alone(r) /\ pc'[r] = "finish" /\ resp'[r] = response /\ CacheSound'
      BY <1>1, <2>2, <3>4 DEF SendTypeOK, Goto, Alone, CacheSound
    <3>7. RequestInv(r)'
      BY <1>1, <2>1, <3>3, <3>4, <3>6 DEF RequestInv, Counted, Traced, Worked, Returned,
         Deliverable
    <3> QED
      BY <3>5, <3>6, <3>7, OneStep
  <2>3. ASSUME NEW label \in {"finish", "dropped304"}, Goto(r, label), UNCHANGED resp
        PROVE  SendInv'
    <3>1. label \in Labels /\ Going(r, label)
      BY <1>2, <2>3 DEF Labels, Inside, Revalidate, Going
    <3>2. RequestInv(r)'
      BY <1>1, <2>1, <2>3, <3>1, GoingOn DEF Going, RequestInv, Counted, Traced, Worked,
         Returned, Deliverable, Settled, UsesCache
    <3> QED
      BY <3>1, <3>2, GoingOn, OneStep
  <2> QED
    BY <1>2, <2>2, <2>3 DEF Revalidate
<1>3. CASE Store(r)
  <2>1. /\ pc[r] = "store" /\ UsesCache(r) /\ Deliverable(r, resp[r])
        /\ IsSuccess(resp[r].status) /\ resp[r] \in Responses
        /\ InsertKey(r) \in Keys /\ InsertKey(r)[2] = resp[r].url
    BY <1>1, <1>3, KeysOf DEF Store, RequestInv, Worked, Settled, Deliverable, SendTypeOK
  <2>2. /\ Goto(r, "finish") /\ UNCHANGED <<aborted, attempt, cond, resp, result>>
        /\ trace' = trace \/ trace' = [trace EXCEPT ![r] = @ \cup {"stored"}]
    BY <1>3 DEF Store
  <2>3. \/ cache' = cache
        \/ /\ cache' = [cache EXCEPT ![InsertKey(r)] = [response |-> resp[r], fresh |-> TRUE]]
           /\ "no-store" \notin resp[r].headers
    BY <1>3 DEF Store
  <2>4. SendTypeOK'
    <3>1. cache' \in [Keys -> [response : Responses, fresh : BOOLEAN]]
      BY <1>1, <2>1, <2>3, EntryType DEF SendTypeOK
    <3> QED
      BY <1>1, <2>2, <3>1 DEF SendTypeOK, Goto, Labels, Inside, Milestones
  <2>5. Alone(r) /\ pc'[r] = "finish"
        /\ trace'[r] \in {trace[r], trace[r] \cup {"stored"}}
    BY <1>1, <2>2 DEF SendTypeOK, Goto, Alone
  <2>6. CacheSound'
    <3>1. CASE cache' = cache
      BY <1>1, <3>1 DEF CacheSound
    <3>2. CASE /\ cache' = [cache EXCEPT ![InsertKey(r)] =
                               [response |-> resp[r], fresh |-> TRUE]]
               /\ "no-store" \notin resp[r].headers
      BY <1>1, <2>1, <3>2 DEF SendTypeOK, CacheSound, Deliverable
    <3> QED
      BY <2>3, <3>1, <3>2
  <2>7. RequestInv(r)'
    BY <1>1, <2>1, <2>2, <2>5, NothingIsNoKind DEF RequestInv, Counted, Traced, Worked,
       Returned, Deliverable, Pending, Err, RetriedAs, TransportErrors
  <2> QED
    BY <2>4, <2>5, <2>6, <2>7, OneStep
<1>4. CASE Finish(r)
  <2>1. pc[r] = "finish" /\ Deliverable(r, resp[r]) /\ resp[r] \in Responses
        /\ UNCHANGED <<aborted, cache, attempt, cond, resp, trace>>
    BY <1>1, <1>4 DEF Finish, RequestInv, Worked, Settled, SendTypeOK, localVars
  <2>2. CASE Config[r].progress /\ Return(r, Err("RequestAborted"))
    BY <2>1, <2>2, CancelledEnding DEF Return, Ending
  <2>3. CASE Return(r, Err("Interceptor"))
    BY <2>1, <2>3, PlainEnding DEF Return, Ending, PlainErrors
  <2>4. ASSUME NEW added \in SUBSET Sensitive,
               Return(r, Ok(Redact([resp[r] EXCEPT !.headers = @ \cup added])))
        PROVE  SendInv'
    <3> DEFINE response == [resp[r] EXCEPT !.headers = @ \cup added]
    <3>1. response \in Responses /\ response.url = resp[r].url
          /\ response.status = resp[r].status
      BY <2>1 DEF Responses, Sensitive, HeaderNames
    <3> DEFINE outcome == Ok(Redact(response))
    <3>2. Redact(response) \in Responses /\ Deliverable(r, Redact(response))
      BY <2>1, <3>1, RedactType DEF Deliverable
    <3> HIDE DEF response
    <3>3. outcome \in Results /\ outcome.error = "none" /\ outcome.response = Redact(response)
      BY <3>2 DEF Ok, Results, Errors
    <3>4. Ending(r, outcome)
      BY <2>1, <2>4 DEF Return, Ending, response
    <3>5. RetriedAs("none") = "none"
      BY DEF RetriedAs, TransportErrors
    <3> HIDE DEF outcome
    <3> QED
      BY <2>1, <3>2, <3>3, <3>4, <3>5, NothingIsNoKind, EndingWell
  <2>5. (IF Config[r].intercepted THEN SUBSET Sensitive ELSE {{}}) \in SUBSET SUBSET Sensitive
    OBVIOUS
  <2> QED
    BY <1>4, <2>2, <2>3, <2>4, <2>5 DEF Finish
<1> QED
  BY <1>2, <1>3, <1>4

\* Whatever requests and the others who share the cache do.
LEMMA SendInvPreserved == SendInv /\ [Next]_vars => SendInv'
<1> SUFFICES ASSUME SendInv, [Next]_vars
             PROVE  SendInv'
  OBVIOUS
<1>1. ASSUME UNCHANGED <<pc, attempt, cond, resp, result, trace>>, SendTypeOK', CacheSound'
      PROVE  SendInv'
  BY <1>1 DEF SendInv, RequestInv, Counted, Traced, Worked, Returned, Deliverable
<1>2. CASE UNCHANGED vars
  BY <1>1, <1>2 DEF vars, SendInv, SendTypeOK, CacheSound
<1>3. CASE Environment
  <2>1. CASE LimiterTick
    BY <1>1, <2>1 DEF LimiterTick, localVars, SendInv, SendTypeOK, CacheSound
  <2>2. ASSUME NEW s \in Signals, Abort(s)
        PROVE  SendInv'
    BY <1>1, <2>2 DEF Abort, localVars, SendInv, SendTypeOK, CacheSound
  <2>3. ASSUME NEW k \in Keys, Expire(k)
        PROVE  SendInv'
    <3> DEFINE old == [cache[k] EXCEPT !.fresh = FALSE]
    <3>1. /\ cache' = [cache EXCEPT ![k] = old] /\ cache[k] # NoEntry
          /\ old \in [response : Responses, fresh : BOOLEAN]
          /\ old.response = cache[k].response
      <4>1. cache[k] \in [response : Responses, fresh : BOOLEAN]
        BY DEF SendInv, SendTypeOK
      <4>2. cache[k] # NoEntry
        BY <2>3 DEF Expire, NoEntry
      <4> QED
        BY <2>3, <4>1, <4>2, EntryType DEF Expire
    <3> HIDE DEF old
    <3>2. SendTypeOK'
      BY <2>3, <3>1 DEF Expire, localVars, SendInv, SendTypeOK
    <3>3. CacheSound'
      BY <3>1 DEF SendInv, SendTypeOK, CacheSound
    <3> QED
      BY <1>1, <2>3, <3>2, <3>3 DEF Expire, localVars
  <2>4. ASSUME NEW k \in Keys, Forget(k)
        PROVE  SendInv'
    <3>1. SendTypeOK' /\ CacheSound'
      BY <2>4, NoEntryType DEF Forget, localVars, SendInv, SendTypeOK, CacheSound
    <3> QED
      BY <1>1, <2>4, <3>1 DEF Forget, localVars
  <2> QED
    BY <1>3, <2>1, <2>2, <2>3, <2>4 DEF Environment
<1>4. ASSUME NEW r \in Tasks, CancelSend(r) \/ DropSend(r)
      PROVE  SendInv'
  <2>1. PICK kind \in {"dropped", "RequestAborted"} : Ending(r, Err(kind))
    BY <1>4 DEF CancelSend, DropSend, Return, Ending, localVars
  <2>2. pc[r] \notin {"done", "finish"}
    BY <1>4 DEF CancelSend, DropSend, Suspended
  <2> QED
    BY <2>1, <2>2, CancelledEnding
<1>5. ASSUME NEW r \in Tasks, Begin(r) \/ Run(r)
      PROVE  SendInv'
  BY <1>5, OutsideSteps, LookupSteps, AttemptSteps, SettledSteps DEF Run
<1> QED
  BY <1>2, <1>3, <1>4, <1>5 DEF Next

\* At first nothing was asked, stored or returned.
LEMMA SendStartsWell == Init => SendInv
<1> SUFFICES ASSUME Init
             PROVE  SendInv
  OBVIOUS
<1>1. SendTypeOK
  BY NoEntryType DEF Init, SendTypeOK, Labels, NoEntry
<1>2. CacheSound
  BY DEF Init, CacheSound
<1>3. ASSUME NEW r \in Tasks
      PROVE  RequestInv(r)
  BY NothingIsNoKind, ConfigType DEF Init, RequestInv, Counted, Traced, Worked, Returned,
     Settled, Pending, Err, RetriedAs, TransportErrors
<1> QED
  BY <1>1, <1>2, <1>3 DEF SendInv

\* The inductive invariant of send().
LEMMA SendIsSafe == Spec => []SendInv
BY SendStartsWell, SendInvPreserved, PTL DEF Spec

\* The type invariant of send() and of the limiter within it.
THEOREM SendIsWellTyped == Spec => []TypeOK
<1>1. SendInv /\ IInv => TypeOK
  BY DEF SendInv, SendTypeOK, TypeOK, IInv, Labels, Results
<1> QED
  BY <1>1, SendIsSafe, LimiterStaysSafe, PTL

\* Whatever servers answer, and however requests, expiry and invalidation
\* interleave: every entry is a redacted success that did not ask not to be
\* stored, under the URL it came from (cache.rs:53-61, 112-116).
THEOREM CacheStaysSound == Spec => []CacheSound
BY SendIsSafe, PTL DEF SendInv

\* What a caller gets is redacted, no failure and no redirect that was to be
\* followed, and about the URL that was asked for unless it was redirected; on
\* every way to a response: from the cache, after a 304, from an attempt or a chain.
THEOREM DeliveriesAreClean == Spec => []DeliveredIsClean
<1>1. SendInv => DeliveredIsClean
  BY DEF SendInv, RequestInv, Returned, Deliverable, DeliveredIsClean
<1> QED
  BY <1>1, SendIsSafe, PTL

\* A request cancelled by its signal or its caller has stored nothing and took
\* nothing from the cache: the code is suspended nowhere after it did.
THEOREM CancellationLeavesNoTrace == Spec => []CancelledLeavesNoTrace
<1>1. SendInv => CancelledLeavesNoTrace
  BY DEF SendInv, RequestInv, Returned, CancelledLeavesNoTrace
<1> QED
  BY <1>1, SendIsSafe, PTL

\* Attempts are made within the budget, a failure that may be retried is given up
\* on only after the last of them, and a hit needs none.
THEOREM RetriesAreAlwaysSpent == Spec => []RetriesAreSpent
<1>1. SendInv => RetriesAreSpent
  BY DEF SendInv, RequestInv, Counted, Traced, Returned, RetriesAreSpent
<1> QED
  BY <1>1, SendIsSafe, PTL

-----------------------------------------------------------------------------
\* A request that was begun with its signal set, or will be.
Spent(r) == Aborted(r) /\ attempt[r] = 0 /\ pc[r] \in {"idle", "done"}

\* The only step it has is the one that ends it, whatever the others do.
LEMMA SpentStays ==
    ASSUME NEW r \in Tasks, SendInv, Spent(r), [Next]_vars
    PROVE  Spent(r)'
<1>1. /\ pc \in [Tasks -> Labels] /\ attempt \in [Tasks -> Nat]
      /\ aborted \in [Signals -> BOOLEAN]
      /\ pc[r] \in {"idle", "done"} /\ attempt[r] = 0
      /\ Config[r].signal # Nobody /\ aborted[Config[r].signal]
  BY DEF SendInv, SendTypeOK, Spent, Aborted
<1>2. ASSUME NEW s \in Signals, Abort(s)
      PROVE  Spent(r)'
  BY <1>1, <1>2 DEF Abort, Spent, Aborted, localVars
<1>3. CASE UNCHANGED <<pc, aborted, attempt>>
  BY <1>1, <1>3 DEF Spent, Aborted
<1>4. CASE Environment
  BY <1>2, <1>3, <1>4 DEF Environment, LimiterTick, Expire, Forget, localVars
<1>5. CASE UNCHANGED vars
  BY <1>3, <1>5 DEF vars
<1>6. ASSUME NEW x \in Tasks, UNCHANGED aborted,
             \A y \in Tasks \ {x} : pc'[y] = pc[y] /\ attempt'[y] = attempt[y],
             x = r => Goto(r, "done") /\ UNCHANGED attempt
      PROVE  Spent(r)'
  BY <1>1, <1>6 DEF Spent, Aborted, Goto
<1>7. ASSUME NEW x \in Tasks, Begin(x) \/ CancelSend(x) \/ DropSend(x)
      PROVE  Spent(r)'
  <2>1. UNCHANGED <<aborted, attempt>> /\ \E label : Goto(x, label)
    BY <1>7 DEF Begin, CancelSend, DropSend, Return, localVars
  <2>2. x = r => Goto(r, "done")
    BY <1>1, <1>7 DEF Begin, CancelSend, DropSend, Suspended, Return, Aborted
  <2> QED
    BY <1>1, <1>6, <2>1, <2>2 DEF Goto
<1>8. ASSUME NEW x \in Tasks, Run(x)
      PROVE  Spent(r)'
  <2>1. UNCHANGED aborted /\ pc[x] \notin {"idle", "done"}
    BY <1>8 DEF Run, Prepare, AwaitPermit, CacheGet, DropExpired, ReadEtag, Resolve, Answer,
       Retry, Follow, Revalidate, Store, Finish
  <2>2. \A y \in Tasks \ {x} : pc'[y] = pc[y] /\ attempt'[y] = attempt[y]
    <3>1. ASSUME NEW label, Goto(x, label),
                 attempt' = attempt \/ \E n : attempt' = [attempt EXCEPT ![x] = n]
          PROVE  \A y \in Tasks \ {x} : pc'[y] = pc[y] /\ attempt'[y] = attempt[y]
      BY <1>1, <3>1 DEF Goto
    <3>2. CASE \/ CacheGet(x) \/ DropExpired(x) \/ ReadEtag(x) \/ Retry(x) \/ Revalidate(x)
               \/ Store(x)
      BY <3>1, <3>2 DEF CacheGet, DropExpired, ReadEtag, Retry, Revalidate, Store, localVars
    <3>3. CASE Prepare(x) \/ Resolve(x) \/ Finish(x)
      BY <3>1, <3>3 DEF Prepare, Resolve, Finish, Return, localVars
    <3>4. ASSUME NEW response, Settle(x, response), UNCHANGED attempt
          PROVE  \A y \in Tasks \ {x} : pc'[y] = pc[y] /\ attempt'[y] = attempt[y]
      BY <3>1, <3>4 DEF Settle, Return
    <3>5. CASE Answer(x) \/ Follow(x)
      BY <3>1, <3>4, <3>5 DEF Answer, Follow, Return
    <3>6. CASE AwaitPermit(x)
      BY <3>6 DEF AwaitPermit, localVars
    <3> QED
      BY <1>8, <3>2, <3>3, <3>5, <3>6 DEF Run
  <2> QED
    BY <1>1, <1>6, <2>1, <2>2
<1> QED
  BY <1>4, <1>5, <1>7, <1>8 DEF Next

\* "A request that starts with an already-aborted signal fails immediately without
\* opening a connection" (abort.rs:82-83).
THEOREM AbortedRequestsNeverConnect == Spec => AbortedNeverConnects
<1> SUFFICES ASSUME NEW r \in Tasks
             PROVE  Spec => [](pc[r] = "idle" /\ Aborted(r) => [](attempt[r] = 0))
  BY DEF AbortedNeverConnects
<1>1. SendInv /\ pc[r] = "idle" /\ Aborted(r) => Spent(r)
  BY DEF SendInv, RequestInv, Counted, Spent
<1>2. SendInv /\ Spent(r) /\ [Next]_vars => Spent(r)'
  BY SpentStays
<1>3. Spent(r) => attempt[r] = 0
  BY DEF Spent
<1> QED
  BY <1>1, <1>2, <1>3, SendIsSafe, PTL DEF Spec
=============================================================================
