---------------------------- MODULE RedirectWalk ----------------------------
(***************************************************************************)
(* One request of src/request_handler.rs from its name resolution to the   *)
(* end of its redirect chain: pinned_addresses(), the retry loop with the  *)
(* delays of src/retry.rs, follow_chain() and plan_hop(), with             *)
(* RedirectPolicy::check_redirect, validate_url and the scope check as     *)
(* HostRules and UrlRules have them.  A server answers what it likes and a *)
(* resolver may give another answer every time it is asked.                *)
(*                                                                         *)
(* A Location header is the part of a URL it spells out; the current URL   *)
(* gives the rest.                                                         *)
(***************************************************************************)
EXTENDS UrlRules

CONSTANTS
    Configurations,   \* the requests considered: see RequestFields
    Locations,        \* Location headers
    Statuses,         \* response statuses
    Addresses,        \* what a name may resolve to
    None

RequestFields == {"url", "method", "body", "credentials", "policy", "scope", "retry", "private"}

\* What the url crate makes of a path: "\\" is "/", and segments that are dots, spelled
\* out or escaped, are resolved; they leave an empty segment where they end the path.
Segments(page) ==
    FoldLeft(LAMBDA done, c : IF c \in {"/", "\\"} THEN Append(done, <<>>)
                              ELSE Append(Front(done), Append(Last(done), c)),
             << <<>> >>, page)

Dots == {<<".">>, <<"%", "2", "e">>}

TwoDots == {a \o b : a, b \in Dots}

NormalizePage(page) ==
    LET segments == Segments(page)
        rest(i)  == IF i = Len(segments) THEN << <<>> >> ELSE <<>>
        add(path, i) ==
           CASE segments[i] \in TwoDots /\ path # <<>> -> Front(path) \o rest(i)
             [] segments[i] \in TwoDots /\ path = <<>> -> rest(i)
             [] segments[i] \in Dots                   -> path \o rest(i)
             [] OTHER                                  -> Append(path, segments[i])
        resolved == FoldLeftDomain(add, <<>>, segments)
    IN  FoldLeft(LAMBDA done, segment : done \o <<"/">> \o segment, Head(resolved), Tail(resolved))

Normalized ==
    [page \in {l.page : l \in {k \in Locations : "page" \in DOMAIN k}} |-> NormalizePage(page)]

\* Url::join; the page a Location spells out is absolute.
Join(base, location) ==
    [f \in DOMAIN base |->
        CASE f \notin DOMAIN location               -> base[f]
          [] f \in DOMAIN location /\ f = "page"    -> Normalized[location.page]
          [] f \in DOMAIN location /\ f # "page"    -> location[f]]

ASSUME WalkAssumption ==
    /\ \A c \in Configurations :
          /\ DOMAIN c = RequestFields
          /\ c.url \in Urls /\ \A l \in Locations : Join(c.url, l) \in Urls
          /\ Refusal(ValidateUrl(c.url)) = "ok"
          /\ ScopePermits(c.scope, c.url.host)
          /\ c.policy.max \in Nat
          /\ {c.body, c.credentials, c.private} \subseteq BOOLEAN
          /\ DOMAIN c.retry = {"attempts", "initial", "ceiling", "exponential"}
          /\ {c.retry.attempts, c.retry.initial, c.retry.ceiling} \subseteq Nat
    /\ DOMAIN Literals \subseteq Hosts
    /\ Addresses \cup Range(Literals) \subseteq IpAddr
    /\ None \notin Locations /\ None \notin Hosts

VARIABLES
    request,    \* the configuration of this request
    pc,
    attempt,    \* retries of the first exchange, so far
    interval,   \* the backoff's current interval
    wait,       \* the delay before the attempt at hand; 0 before the first
    pinned,     \* the pin of the request's own host
    pin,        \* the pin of the exchange at hand
    visited,    \* the URLs of the chain, the request's own first
    method, credentials, body,   \* what the next request carries
    reply,      \* the last response: [status, location]
    outcome

retrying == <<attempt, interval, wait>>
walk == <<pinned, pin, visited, method, credentials, body>>
vars == <<request, pc, retrying, walk, reply, outcome>>

-----------------------------------------------------------------------------
Current == Last(visited)
Hops == Len(visited) - 1

Origin(url) == <<url.scheme, url.host, url.port>>

IsRedirect(status) == status \in 300 .. 399 /\ status # 304

NoReply == [status |-> 0, location |-> None]
Literal == [host |-> None, port |-> 0, addresses |-> {}]   \* resolve_pin's Ok(None)

BlockedAddresses == {a \in Addresses : IsBlockedIp(a)}

\* resolve_pin(): no pin for a literal, else what the resolver says now.
Pins(url) ==
    IF IsLiteral(url.host) THEN {Literal}
    ELSE {[host |-> url.host, port |-> url.port, addresses |-> answer] :
             answer \in {a \in SUBSET Addresses :
                            a # {} /\ (request.private \/ a \cap BlockedAddresses = {})}}

ResolveFails(url) == ~IsLiteral(url.host)

(***************************************************************************)
(* The checks on a hop, in the order plan_hop(), check_redirect(),         *)
(* validate_url() and ScopeValidator::check_url() make them: what is       *)
(* refused, and how.                                                       *)
(***************************************************************************)
\* Fault: only the first URL counts.
DowngradeOfFirst(next) ==
    ~request.policy.downgrade /\ request.url.scheme = "https" /\ next.scheme = "http"

\* Fault: only the page before is looked at.
BackToLast(next) == next = Current

Loop(next) == next \in Range(visited)

TooLong == Len(visited) >= request.policy.max

Downgrade(next) ==
    /\ ~request.policy.downgrade
    /\ \E i \in DOMAIN visited : visited[i].scheme = "https"
    /\ next.scheme = "http"

\* RedirectPolicy::check_redirect
PolicyChecks(next) ==
    << [fails |-> TooLong,                                error |-> "TooManyRedirects"],
       [fails |-> next.scheme \notin {"http", "https"},   error |-> "RedirectBlocked"],
       [fails |-> Downgrade(next),                        error |-> "RedirectBlocked"],
       [fails |-> HostDenied(request.policy, next.host),  error |-> "RedirectBlocked"],
       [fails |-> HostUnknown(request.policy, next.host), error |-> "HostNotAllowed"] >>

\* ScopeValidator::check_url
ScopeChecks(next) ==
    << [fails |-> ~ScopePermits(request.scope, next.host),  error |-> "RedirectBlocked"] >>

\* check_redirect; validate_url once more, as for a URL a caller gave; the scope.
Checks(next) ==
    << [fails |-> Loop(next), error |-> "RedirectBlocked"] >>
    \o PolicyChecks(next) \o ValidateUrl(next) \o ScopeChecks(next)

Verdict(next) == Refusal(Checks(next))

\* 303 always becomes GET; 301 and 302 do for POST.
RewriteToGet(status) == status = 303 \/ (status \in {301, 302} /\ method = "POST")

\* Fault: an origin without scheme and port.
SameHost(next) == Current.host = next.host

SameOrigin(next) == Origin(Current) = Origin(next)

BodyFor(next) == body /\ SameOrigin(next) /\ ~RewriteToGet(reply.status)

\* Fault: the chain forgets where it has been.
Forgetting(next) == <<next>>

Extended(next) == Append(visited, next)

-----------------------------------------------------------------------------
Init ==
    /\ request \in Configurations
    /\ pc = "resolve"
    /\ attempt = 0
    /\ interval = request.retry.initial
    /\ wait = 0
    /\ pinned = Literal
    /\ pin = Literal
    /\ visited = <<request.url>>
    /\ method = request.method
    /\ credentials = request.credentials
    /\ body = request.body
    /\ reply = NoReply
    /\ outcome = "pending"

End(result) == pc' = "done" /\ outcome' = result

\* pinned_addresses(), once, before the first attempt.
Resolve ==
    /\ pc = "resolve"
    /\ \/ /\ ResolveFails(request.url)
          /\ End("InvalidHost")
          /\ UNCHANGED <<pinned, pin>>
       \/ /\ pinned' \in Pins(request.url)
          /\ pin' = pinned'
          /\ pc' = "first"
          /\ UNCHANGED outcome
    /\ UNCHANGED <<request, retrying, visited, method, credentials, body, reply>>

\* An exchange fails, or there is a response; nobody looks at the Location of
\* one that is no redirect.
Answer ==
    \/ End("RequestFailed") /\ UNCHANGED reply
    \/ \E status \in Statuses :
       \E location \in IF IsRedirect(status) THEN Locations \cup {None} ELSE {None} :
          /\ reply' = [status |-> status, location |-> location]
          /\ pc' = "plan"
          /\ UNCHANGED outcome

\* Fault: the two growth rates are swapped.
MultiplierSwapped == IF request.retry.exponential THEN 1 ELSE 2

\* RetryConfig::backoff
Multiplier == IF request.retry.exponential THEN 2 ELSE 1

\* The backoff crate: a delay is half an interval off either way, and only
\* the interval is capped, once it has grown.
Delays == interval - interval \div 2 .. interval + interval \div 2

NextInterval ==
    IF interval * Multiplier >= request.retry.ceiling THEN request.retry.ceiling
    ELSE interval * Multiplier

\* Fault: attempts are not counted.
RetryForever ==
    /\ pc = "first"
    /\ attempt' = attempt + 1
    /\ wait' \in Delays
    /\ interval' = NextInterval
    /\ UNCHANGED <<request, pc, walk, reply, outcome>>

\* The retry loop: an attempt that failed, or a status worth another, is
\* repeated after a delay while attempts are left.
Retry ==
    /\ pc = "first"
    /\ attempt + 1 < request.retry.attempts
    /\ attempt' = attempt + 1
    /\ wait' \in Delays
    /\ interval' = NextInterval
    /\ UNCHANGED <<request, pc, walk, reply, outcome>>

\* The attempt whose answer stands. What the loop counted is gone with it.
First ==
    /\ pc = "first"
    /\ Answer
    /\ interval' = 0 /\ wait' = 0
    /\ UNCHANGED <<request, attempt, walk>>

\* Only a policy that follows redirects has follow_chain() run at all.
Redirected == request.policy.follow /\ IsRedirect(reply.status)

\* The head of follow_chain()'s loop: an answer that is no redirect ends it.
Arrive ==
    /\ pc = "plan"
    /\ ~Redirected
    /\ End("ok")
    /\ UNCHANGED <<request, retrying, walk, reply>>

\* No Location, or one that cannot be joined (None stands for both), or a hop
\* that a check refuses.
Refuse ==
    /\ pc = "plan"
    /\ Redirected
    /\ IF reply.location = None THEN End("RedirectBlocked")
       ELSE LET verdict == Verdict(Join(Current, reply.location))
            IN  verdict # "ok" /\ End(verdict)
    /\ UNCHANGED <<request, retrying, walk, reply>>

\* A hop: method, headers and body for it, and the URL joins the chain.
PlanHop ==
    LET next == Join(Current, reply.location) IN
    /\ pc = "plan"
    /\ Redirected /\ reply.location # None
    /\ Verdict(next) = "ok"
    /\ visited' = Extended(next)
    /\ method' = IF RewriteToGet(reply.status) THEN "GET" ELSE method
    /\ credentials' = (credentials /\ SameOrigin(next))
    /\ body' = BodyFor(next)
    /\ pc' = "pin"
    /\ UNCHANGED <<request, retrying, pinned, pin, reply, outcome>>

\* Fault: the request's own pin is not kept.
MayReuseNothing(url) == FALSE

\* The first pin serves a hop to the same host and port; any other hop is
\* resolved by itself.
MayReuse(url) ==
    pinned # Literal /\ pinned.host = url.host /\ url.port = request.url.port

PinHop ==
    /\ pc = "pin"
    /\ \/ /\ MayReuse(Current)
          /\ pin' = pinned
          /\ pc' = "hop"
          /\ UNCHANGED outcome
       \/ /\ ~MayReuse(Current)
          /\ pin' \in Pins(Current)
          /\ pc' = "hop"
          /\ UNCHANGED outcome
       \/ /\ ~MayReuse(Current)
          /\ ResolveFails(Current)
          /\ End("InvalidHost")
          /\ UNCHANGED pin
    /\ UNCHANGED <<request, retrying, pinned, visited, method, credentials, body, reply>>

\* The exchange of a hop; hops are not retried.
Hop ==
    /\ pc = "hop"
    /\ Answer
    /\ UNCHANGED <<request, retrying, walk>>

Next == Resolve \/ Retry \/ First \/ Arrive \/ Refuse \/ PlanHop \/ PinHop \/ Hop

Spec == Init /\ [][Next]_vars

\* Every step is one the request's own task can take once it is polled; that
\* resolver and server answer or fail is the resolver's and the client
\* timeout's.
FairSpec == Spec /\ WF_vars(Next)
-----------------------------------------------------------------------------
\* What Send, like execute_inner(), has of all this.
StageOf ==
    CASE pc = "resolve"                -> "resolve"
      [] pc = "first"                  -> "attempt"
      [] pc = "plan" /\ ~Redirected    -> "answered"
      [] pc = "done" /\ outcome = "ok" -> "answered"
      [] pc = "done" /\ outcome # "ok" -> "failed"
      [] OTHER                         -> "chain"

Outline ==
    INSTANCE Exchange WITH
        asked   <- [url |-> request.url, budget |-> request.retry.attempts,
                    follows |-> request.policy.follow],
        stage   <- StageOf,
        retries <- attempt,
        answer  <- IF StageOf = "answered" THEN [status |-> reply.status, url |-> Current]
                   ELSE None

\* Whatever the chain does, execute_inner() has from it what it counts on: few enough
\* attempts, and an answer of the URL it asked or, after a redirect it follows, one of
\* another URL that redirects no further (request_handler.rs:757-840, 888-948).
IsExchange == Outline!ExchangeSpec

-----------------------------------------------------------------------------
Exchanging == pc \in {"first", "hop"}

TypeOK ==
    /\ request \in Configurations
    /\ pc \in {"resolve", "first", "plan", "pin", "hop", "done"}
    /\ attempt = 0 \/ attempt < request.retry.attempts
    /\ interval \in Nat /\ wait \in Nat
    /\ pinned.addresses \in SUBSET Addresses /\ pin.addresses \in SUBSET Addresses
    /\ \A i \in DOMAIN visited : DOMAIN visited[i] = {"scheme", "user", "host", "port", "page"}
    /\ method \in {request.method, "GET"}
    /\ credentials \in BOOLEAN /\ body \in BOOLEAN
    /\ reply.status \in Statuses \cup {0} /\ reply.location \in Locations \cup {None}

\* No connection is opened to an address that was not resolved and vetted
\* beforehand for this very host and port: a literal was vetted as such, a name
\* has a pin, on the first request and on every hop (request_handler.rs:491-508,
\* 920-932).
EveryConnectIsPinned ==
    Exchanging =>
       IF IsLiteral(Current.host) THEN ~IsInternal(Literals[Current.host])
       ELSE /\ pin.host = Current.host /\ pin.port = Current.port
            /\ pin.addresses # {}
            /\ request.private \/ \A a \in pin.addresses : ~IsInternal(a)

\* The request's own host and port keep the addresses they were first resolved
\* to, through retries and when a chain comes back: a resolver that changes its
\* mind is not asked again ("Done before the retry loop", request_handler.rs:764).
PinIsStable ==
    Exchanging /\ <<Current.host, Current.port>> = <<request.url.host, request.url.port>>
        => pin = pinned

\* Once a hop used TLS no later one is plaintext (redirect_policy.rs:213-216).
ChainNeverDowngrades ==
    ~request.policy.downgrade =>
       \A i, j \in DOMAIN visited :
          i < j /\ visited[i].scheme = "https" => visited[j].scheme = "https"

\* Credentials and body go to the origin they were addressed to: once a chain
\* has left it they are gone, even when it comes back. And a body goes only
\* with the method it was given for (request_handler.rs:652-673).
CredentialsStayHome ==
    /\ credentials \/ body =>
          \A i \in DOMAIN visited : Origin(visited[i]) = Origin(request.url)
    /\ body => method = request.method

\* No URL comes twice, and every hop is permitted when it is made: label by label its
\* name is covered by no deny entry, by an allow entry unless hops may go anywhere, and
\* by the scope; it carries no credentials and no reserved name, and hides no traversal
\* behind six layers of escapes or fewer (redirect_policy.rs:180-250, 294-300;
\* url_validation.rs:58-65, 100-106).  Hops stay below max_redirects, and only a chain
\* that would come to it is given up as too long: the request's own URL is counted, too
\* (:202), so the last of the "Maximum hops" (:81) is never made.  And a "*." covers as
\* many labels as there are, also none, where the documentation of the field has "one
\* label" (:86-87), and that of allow_host() subdomains of any depth.
ChainIsAcceptable ==
    /\ IsInjective(visited)
    /\ Hops > 0 =>
          /\ Hops < request.policy.max
          /\ ~Listed(request.policy.denied \cup request.scope.deny, Current.host)
          /\ \/ Listed(request.policy.allowed, Current.host)
             \/ request.policy.any /\ ~request.policy.track
          /\ Listed(request.scope.allow, Current.host) \/ ~request.scope.closed
          /\ ~Current.user /\ Current.page \notin TraversingPages
          /\ Current.host \notin InternalNames
    /\ outcome = "TooManyRedirects" => Hops + 1 >= request.policy.max

\* Every retry was waited for, by the backoff crate's schedule with the settings the
\* code gives it: from the initial delay on the waits double, or stay, capped from the
\* second on, and each is up to half shorter or longer (retry.rs:97-110).  So max_delay
\* is no "Ceiling for the delay" (:48): a wait may be half as long again, and the first
\* one is not capped at all.
WaitsFollowTheSchedule ==
    wait # 0 =>
       LET retry   == request.retry
           grown   == IF retry.exponential THEN retry.initial * 2 ^ (attempt - 1) ELSE retry.initial
           nominal == IF attempt > 1 /\ grown > retry.ceiling THEN retry.ceiling ELSE grown
       IN  wait \in nominal - nominal \div 2 .. nominal + nominal \div 2

\* However servers redirect, the walk ends.
WalkEnds == <>(pc = "done")
=============================================================================
