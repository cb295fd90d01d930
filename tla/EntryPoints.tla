----------------------------- MODULE EntryPoints -----------------------------
(***************************************************************************)
(* The three ways from a URL to a connection: HttpRequest::send,           *)
(* download_stream (src/streaming.rs) and connect_websocket                *)
(* (src/websocket.rs), with the request made by HttpRequest::new or by     *)
(* HttpClientBuilder::create_request (src/builder.rs).  Each validates,    *)
(* resolves and connects in code of its own.  Interceptors may change the  *)
(* request in between, and the resolver answers what it likes.             *)
(*                                                                         *)
(* What send() does besides is in Send, and the walk along redirects in    *)
(* RedirectWalk; of a chain only its first hop is decided here.            *)
(***************************************************************************)
EXTENDS UrlRules

CONSTANTS
    Calls,        \* the calls considered: see CallFields
    Addresses,    \* what a name may resolve to
    Answers,      \* what the resolver may say: sequences of addresses
    Statuses,     \* response statuses
    None          \* no host

\* A target without a host is a relative one. The last five fields are what the
\* caller does besides: an open scope_validator in place of the request's own;
\* interceptors, which may retarget the request to some hosts, and may replace its
\* scope, its redirect policy and its private-network flag; and proxy and pins that
\* can be installed, or cannot.
CallFields ==
    [ via      : {"send", "stream", "websocket"},
      target   : [scheme : {"http", "https", "ws", "wss", "ftp"}, user : BOOLEAN,
                  host : Hosts \cup {None}, port : {0, 443}, page : Pages],
      builder  : BOOLEAN,               \* create_request, else HttpRequest::new
      base     : Hosts \cup {None},     \* with_base_url
      optIn    : BOOLEAN,               \* allow_private_networks
      follows  : BOOLEAN,               \* with_follow_redirects
      opened   : BOOLEAN,
      rewrites : SUBSET Hosts,
      replaces : BOOLEAN,
      transport : BOOLEAN ]

\* create_request's own deny list.
InternalPatterns ==
    { <<"0", ".", "0", ".", "0", ".", "0">>, <<"127", ".", "0", ".", "0", ".", "1">>,
      <<"10", ".", "*">>, <<"100", ".", "64", ".", "*">>, <<"169", ".", "254", ".", "*">>,
      <<"172", ".", "16", ".", "*">>, <<"192", ".", "168", ".", "*">>,
      <<"198", ".", "18", ".", "*">>, <<"224", ".", "*">>, <<"240", ".", "*">>,
      <<"localhost">>, <<"*", ".", "localhost">>, <<"*", ".", "local">>,
      <<"*", ".", "internal">> }

ASSUME EntryAssumption ==
    /\ Calls \subseteq CallFields
    /\ None \notin Hosts /\ DOMAIN Literals \subseteq Hosts
    /\ InternalPatterns \cup Hosts \subseteq Patterns
    /\ Answers \subseteq Seq(Addresses) \ {<<>>}
    /\ Addresses \cup Range(Literals) \subseteq IpAddr
    /\ \A host \in DOMAIN Literals :     \* 8.8.8.8, or [::1], of which ::1 is no host
          \/ ~IllFormed(host)
          \/ LET body == SubSeq(host, 2, Len(host) - 1)
             IN  host = <<"[">> \o body \o <<"]">> /\ ~IllFormed(body) /\ body \notin Hosts
    /\ \A c \in Calls : /\ c.optIn \/ c.follows \/ c.base # None => c.builder
                        /\ c.target.host = None => c.builder
                        /\ c.via = "websocket" => /\ ~c.builder /\ ~c.opened
                                                  /\ c.rewrites = {} /\ ~c.replaces

VARIABLES
    call,       \* this call
    pc,
    url,        \* the host of HttpRequest::url, which is connected to
    parsed,     \* the host of HttpRequest::parsed_url, which is resolved
    validator,  \* HttpRequest::scope_validator
    private,    \* HttpRequest::allow_private_addresses
    redirects,  \* HttpRequest::redirect_policy
    answer,     \* history: what the resolver said
    left,       \* validated addresses not tried yet, in order
    dialed,     \* history: the connections tried, [host, address]
    hop,        \* the first redirect followed
    outcome

request == <<url, parsed, validator, private, redirects>>
vars == <<call, pc, request, answer, left, dialed, hop, outcome>>

-----------------------------------------------------------------------------
BlockedAddresses == {a \in Addresses : IsBlockedIp(a)}

InScope(host) == ScopePermits(validator, host)

\* A relative target is joined to the base URL; a WebSocket's is looked at as
\* its http or https equivalent.
Target(c) == IF c.target.host = None THEN c.base ELSE c.target.host

WebSocketTarget(scheme) ==
    CASE scheme = "ws" -> "http" [] scheme = "wss" -> "https" [] OTHER -> scheme

\* Where an answer says something it has not said before.
News(answers) == {i \in DOMAIN answers : \A j \in 1 .. i - 1 : answers[j] # answers[i]}

\* The addresses of an answer, each once, in the resolver's order.
Distinct(answers) ==
    LET new == News(answers)
    IN  [n \in 1 .. Cardinality(new) |-> answers[Nth(new, n)]]

\* Fault: only the first address is looked at.
BlockedFirst(answers) == Head(answers) \in BlockedAddresses

\* is_blocked_ip on every address.
Blocked(answers) == Range(answers) \cap BlockedAddresses # {}

IsSuccess(status) == status \in 200 .. 299
IsFailure(status) == status = 429 \/ status \in 500 .. 599
IsRedirect(status) == status \in 300 .. 399 /\ status # 304

-----------------------------------------------------------------------------
Init ==
    /\ call \in Calls
    /\ pc = "create"
    /\ url = None /\ parsed = None
    /\ validator = NewScope(FALSE)
    /\ private = FALSE
    /\ redirects = DefaultPolicy
    /\ answer = <<>>
    /\ left = <<>>
    /\ dialed = <<>>
    /\ hop = None
    /\ outcome = "pending"

End(result) == pc' = "done" /\ outcome' = result

Goto(label) == pc' = label /\ UNCHANGED outcome

\* The refusals before there is a request: a scheme that is no WebSocket's, a
\* relative target without a base, and then those of validate_url, in order.
TargetChecks(c) ==
    LET seen == [c.target EXCEPT !.host = Target(c), !.scheme = WebSocketTarget(@)] IN
    << [fails |-> c.via = "websocket" /\ seen = c.target, error |-> "InvalidScheme"],
       [fails |-> Target(c) = None,                       error |-> "MissingConfig"] >>
    \o ValidateUrl(seen)

Refusals == [c \in Calls |-> Refusal(TargetChecks(c))]

Refuse ==
    /\ pc = "create"
    /\ Refusals[call] # "ok"
    /\ End(Refusals[call])
    /\ UNCHANGED <<call, request, answer, left, dialed, hop>>

\* get_redirect_policy(): hops stay on the base URL's host; HttpRequest::new
\* allows none.
GetRedirectPolicy(c) ==
    LET seeded == IF c.base = None THEN DefaultPolicy ELSE AllowHost(DefaultPolicy, c.base)
    IN  IF c.follows THEN FollowRedirects(seeded) ELSE seeded

\* HttpRequest::new scopes a request to its own host; a builder adds its deny
\* list, or opens the scope when it was told to allow private networks.
ScopeFor(c) ==
    LET own == WithAllowList(NewScope(TRUE), {Target(c)})
    IN  IF c.opened \/ c.optIn THEN NewScope(FALSE)
        ELSE IF c.builder THEN WithDenyList(own, InternalPatterns)
        ELSE own

\* What each call makes of its request's scope and policy.
Requests ==
    {[call |-> c, scope |-> ScopeFor(c), policy |-> GetRedirectPolicy(c)] :
        c \in {d \in Calls : Refusals[d] = "ok"}}

\* HttpRequest::new or create_request(). A WebSocket has no interceptors, and
\* its scope, made from its own host, accepts it.
Create ==
    /\ pc = "create"
    /\ Refusals[call] = "ok"
    /\ url' = Target(call) /\ parsed' = Target(call)
    /\ \E made \in {r \in Requests : r.call = call} :
          validator' = made.scope /\ redirects' = made.policy
    /\ private' = call.optIn
    /\ Goto(IF call.via = "websocket" THEN "resolve" ELSE "intercept")
    /\ UNCHANGED <<call, answer, left, dialed, hop>>

\* What interceptors put in place of a request's scope and policy: an open one, or
\* one for a host they retarget it to.
OtherScopes(c) ==
    {NewScope(FALSE)} \cup {WithAllowList(NewScope(TRUE), {host}) : host \in c.rewrites}

OtherPolicies(c) ==
    {Relaxed(1)} \cup {FollowRedirects(AllowHost(DefaultPolicy, host)) : host \in c.rewrites}

\* What interceptors make of the request: they may set url alone, parsed_url alone,
\* or both. A ParsedUrl is what validate_url() made of a URL.
Retarget ==
    /\ url' \in {url} \cup call.rewrites
    /\ parsed' \in {parsed} \cup
          {h \in call.rewrites : h \notin InvalidDomains \cup ReservedDomains \cup BlockedLiterals}
    /\ \/ UNCHANGED <<validator, redirects, private>>
       \/ /\ call.replaces
          /\ validator' \in {validator} \cup OtherScopes(call)
          /\ redirects' \in {redirects} \cup OtherPolicies(call)
          /\ private' \in {private, TRUE}

\* on_request of the interceptors, which get the request itself, or one of them
\* fails.
Intercept ==
    /\ pc = "intercept"
    /\ \/ /\ call.rewrites # {} \/ call.replaces
          /\ End("Interceptor")
          /\ UNCHANGED request
       \/ Goto("validate") /\ Retarget
    /\ UNCHANGED <<call, answer, left, dialed, hop>>

\* Fault: the URL as it was before the interceptors is looked at.
ValidateParsed ==
    /\ pc = "validate"
    /\ \/ ~InScope(parsed) /\ End("RedirectBlocked")
       \/ End("HeaderError")
       \/ InScope(parsed) /\ Goto("resolve")
    /\ UNCHANGED <<call, request, answer, left, dialed, hop>>

\* validate(): the scope, then the headers.
Validate ==
    /\ pc = "validate"
    /\ \/ ~InScope(url) /\ End("RedirectBlocked")
       \/ InScope(url) /\ End("HeaderError")
       \/ InScope(url) /\ Goto("resolve")
    /\ UNCHANGED <<call, request, answer, left, dialed, hop>>

\* The one question to the resolver; a literal was validated as such. After it
\* nothing but the addresses it gave is connected to.
Resolve ==
    /\ pc = "resolve"
    /\ \/ /\ IsLiteral(parsed)
          /\ left' = <<Literals[parsed]>>
          /\ Goto("connect")
          /\ UNCHANGED answer
       \/ /\ ~IsLiteral(parsed)
          /\ End("InvalidHost")
          /\ UNCHANGED <<answer, left>>
       \/ /\ ~IsLiteral(parsed)
          /\ answer' \in Answers
          /\ IF Blocked(answer') /\ ~private
             THEN End("PrivateNetworkAccess") /\ UNCHANGED left
             ELSE Goto("connect") /\ left' = Distinct(answer')
    /\ UNCHANGED <<call, request, dialed, hop>>

-----------------------------------------------------------------------------
\* Before anything is dialed: proxy and certificate pins are installed on the
\* client, or there is none; a WebSocket makes its handshake request.
SetUpFails ==
    /\ pc = "connect"
    /\ dialed = <<>>
    /\ \/ call.via # "websocket" /\ ~call.transport /\ End("InvalidConfiguration")
       \/ call.via = "websocket" /\ End("WebSocketError")
    /\ UNCHANGED <<call, request, answer, left, dialed, hop>>

\* Where reqwest may connect to: its resolver is overridden for the name that
\* was pinned, and for no other.
Destinations ==
    IF IsLiteral(url) THEN {Literals[url]}
    ELSE IF url = parsed THEN Range(left)
    ELSE Addresses

\* reqwest connects, or tries another address.
Dial ==
    /\ pc = "connect"
    /\ call.via # "websocket"
    /\ call.transport
    /\ \E address \in Destinations :
          /\ [host |-> url, address |-> address] \notin Range(dialed)
          /\ dialed' = Append(dialed, [host |-> url, address |-> address])
    /\ Goto("exchange") \/ Goto("connect") \/ End("RequestFailed")
    /\ UNCHANGED <<call, request, answer, left, hop>>

\* Nothing is left to try.
DialFails ==
    /\ pc = "connect"
    /\ call.via # "websocket"
    /\ Destinations = {d.address : d \in Range(dialed)}
    /\ End("RequestFailed")
    /\ UNCHANGED <<call, request, answer, left, dialed, hop>>

\* check_redirect() and validate_hop() on the host of a hop.
MayHop(next) ==
    /\ ~HostDenied(redirects, next) /\ ~HostUnknown(redirects, next)
    /\ next \notin InvalidDomains \cup ReservedDomains \cup BlockedLiterals
    /\ InScope(next)

\* Fault: a stream that was refused stays open.
StreamLeftOpen ==
    /\ pc = "exchange"
    /\ call.via = "stream"
    /\ \E status \in Statuses : outcome' = IF IsSuccess(status) THEN "ok" ELSE "ServerError"
    /\ UNCHANGED <<call, pc, request, answer, left, dialed, hop>>

\* stream_from_response(): only a success has a body to stream.
Stream ==
    /\ pc = "exchange"
    /\ call.via = "stream"
    /\ \E status \in Statuses : End(IF IsSuccess(status) THEN "ok" ELSE "ServerError")
    /\ UNCHANGED <<call, request, answer, left, dialed, hop>>

\* execute_inner(): errors, a redirect to walk, or a response. A hop that is
\* planned ends the call here: RedirectWalk goes on from it.
Answer ==
    /\ pc = "exchange"
    /\ call.via = "send"
    /\ \E status \in Statuses :
          \/ IsFailure(status) /\ End("ServerError") /\ UNCHANGED hop
          \/ /\ redirects.follow /\ IsRedirect(status)
             /\ \E next \in Hosts :
                   \/ MayHop(next) /\ hop' = next /\ End("ok")
                   \/ ~MayHop(next) /\ UNCHANGED hop /\ End("RedirectBlocked")
          \/ /\ ~IsFailure(status) /\ ~(redirects.follow /\ IsRedirect(status))
             /\ End("ok")
             /\ UNCHANGED hop
    /\ UNCHANGED <<call, request, answer, left, dialed>>

\* The exchange may fail instead.
ExchangeFails ==
    /\ pc = "exchange"
    /\ End("RequestFailed")
    /\ UNCHANGED <<call, request, answer, left, dialed, hop>>

-----------------------------------------------------------------------------
\* Faults: the first failure is final; a failed address is tried again later.
OpenSocketOnce ==
    /\ pc = "connect"
    /\ call.via = "websocket"
    /\ dialed' = Append(dialed, [host |-> url, address |-> Head(left)])
    /\ left' = Tail(left)
    /\ End("ok") \/ End("WebSocketError")
    /\ UNCHANGED <<call, request, answer, hop>>

OpenSocketAgain ==
    /\ pc = "connect"
    /\ call.via = "websocket"
    /\ left' = Append(Tail(left), Head(left))
    /\ End("ok") \/ Goto("connect")
    /\ UNCHANGED <<call, request, answer, dialed, hop>>

\* The loop of connect_websocket(): the next address; a connection or a
\* handshake that fails goes on to the one after it, and the last failure is
\* the call's.
OpenSocket ==
    /\ pc = "connect"
    /\ call.via = "websocket"
    /\ dialed' = Append(dialed, [host |-> url, address |-> Head(left)])
    /\ left' = Tail(left)
    /\ \/ End("ok")
       \/ left' # <<>> /\ Goto("connect")
       \/ left' = <<>> /\ End("WebSocketError")
    /\ UNCHANGED <<call, request, answer, hop>>

Next ==
    \/ Refuse \/ Create \/ Intercept \/ Validate \/ Resolve
    \/ SetUpFails \/ Dial \/ DialFails \/ Stream \/ Answer \/ ExchangeFails
    \/ OpenSocket

Spec == Init /\ [][Next]_vars

\* The caller polls the call, and network and resolver answer or time out.
FairSpec == Spec /\ WF_vars(Next)
-----------------------------------------------------------------------------
InternalAddresses == {a \in Addresses \cup Range(Literals) : IsInternal(a)}

TypeOK ==
    /\ call \in Calls
    /\ pc \in {"create", "intercept", "validate", "resolve", "connect", "exchange", "done"}
    /\ url \in Hosts \cup {None} /\ parsed \in Hosts \cup {None}
    /\ validator.allow \cup validator.deny \subseteq Listable
    /\ redirects.allowed \cup redirects.denied \subseteq Listable
    /\ private \in BOOLEAN
    /\ answer \in Answers \cup {<<>>}
    /\ \A a \in Range(left) \cup {d.address : d \in Range(dialed)} :
          a \in Addresses \cup Range(Literals)
    /\ hop \in Hosts \cup {None}
    /\ outcome = "pending" <=> pc # "done"

\* A connection to an address the resolver gave when it was asked that once, and of
\* what it said nothing was internal unless the request allows it; or to a literal's
\* own address, and never an internal one.
Vetted(d) ==
    IF IsLiteral(d.host)
    THEN d.address = Literals[d.host] /\ d.address \notin InternalAddresses
    ELSE /\ d.address \in Range(answer)
         /\ private \/ Range(answer) \cap InternalAddresses = {}

\* However it is called, whatever the resolver answers, and whichever host
\* interceptors retarget it to: every connection of a call is vetted, unless an
\* interceptor set url and parsed_url to different hosts, and internal addresses are
\* allowed only if the builder or an interceptor said so (request_handler.rs:491-508,
\* streaming.rs:76-80, websocket.rs:75-87).
DialedWereVetted ==
    /\ \A d \in Range(dialed) : Vetted(d) \/ url # parsed
    /\ url # parsed => {url, parsed} \cap call.rewrites # {}
    /\ private => call.optIn \/ call.replaces

\* Interceptors or not, what is connected to was vetted: "The host is resolved once and
\* every address validated; the validated list is pinned into the client, so reqwest
\* performs no second lookup" (request_handler.rs:1029-1030).
EveryConnectionIsVetted == \A d \in Range(dialed) : Vetted(d)

\* The hosts validate_domain() has nothing against, and what base URLs should be to:
\* the builder parses them, but does not validate them.
SoundHosts == Hosts \ InvalidDomains

BasesAreSound == \A c \in Calls : c.base = None \/ c.base \in SoundHosts

\* The scope is the request's own: neither its caller nor an interceptor put another,
\* and private networks, which open it, were not allowed.
ScopeIsOwn == validator = ScopeFor(call) /\ ~call.opened /\ ~call.optIn

\* "The mutations are then validated like anything else" (interceptor.rs:63-64):
\* whatever interceptors put into the request, every connection and hop is to a host
\* that the scope they leave permits. If they leave the request's own, that is the
\* host it was made for, in one of the spellings the scope takes for the same; and if
\* they leave the policy, a hop is to the base URL's host (builder.rs:89-90).
TargetStaysInScope ==
    /\ \A d \in Range(dialed) :
          /\ ScopePermits(validator, d.host)
          /\ ScopeIsOwn => NormalizeHost(d.host) = NormalizeHost(Target(call))
    /\ hop # None =>
          /\ ScopePermits(validator, hop)
          /\ redirects = GetRedirectPolicy(call) => hop = call.base
          /\ ScopeIsOwn => hop = Target(call)

\* A WebSocket tries the addresses in the resolver's order, each once and none
\* skipped, and when it fails it has tried them all.
EveryAddressIsTried ==
    LET first(a) == CHOOSE i \in DOMAIN answer :
                       answer[i] = a /\ \A j \in 1 .. i - 1 : answer[j] # a
    IN  call.via = "websocket" /\ answer # <<>> /\ dialed # <<>> =>
           /\ \A i \in DOMAIN dialed :
                 {dialed[j].address : j \in 1 .. i - 1}
                    = {answer[j] : j \in 1 .. first(dialed[i].address) - 1}
           /\ outcome = "WebSocketError" =>
                 {d.address : d \in Range(dialed)} = Range(answer)

\* Every call returns, whatever resolver, interceptors and servers do.
CallEnds == <>(pc = "done")
=============================================================================
