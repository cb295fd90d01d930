------------------------------- MODULE Client -------------------------------
(***************************************************************************)
(* From settings to the wire: an HttpClientBuilder is configured, makes a  *)
(* request or a reqwest client, the request's own setters and public       *)
(* fields change it, interceptors change the copy that is sent, and every  *)
(* attempt and every hop of send() (src/request_handler.rs), or            *)
(* download_stream (src/streaming.rs), builds a client of its own from     *)
(* what is left of all that.  The environment may differ each time.        *)
(*                                                                         *)
(* URLs, scopes and addresses are in EntryPoints and RedirectWalk, the     *)
(* settings with a life of their own (limiter, cache, signal) in Send.     *)
(***************************************************************************)
EXTENDS HeaderRules, Transport, TLC

CONSTANTS
    BuilderCalls,   \* calls of HttpClientBuilder's setters, [set, to], in a list
    RequestCalls,   \* calls of HttpRequest's, and writes to its public fields
    MaxCalls,
    Vias,           \* "send", "stream", "build_request", "build"
    Schemes,        \* of the target
    Home, Away,     \* the target's host, and another
    Certificates,   \* what a server may present
    Environments,   \* what the proxy variables may be
    MaxExchanges    \* attempts and hops of one send

\* What a setter may be given; with_interceptors() is given none.
IsSetting(one) ==
    CASE one.set = "timeout" -> one.to \in Nat
      [] one.set = "jar"     -> one.to \in {None, "empty", "store"}
      [] one.set = "pins"    -> {pin.hash : pin \in Range(one.to)} # None
      [] one.set = "proxy"   -> one.to.mode \in {"System", "Environment", "Disabled", "Explicit"}
      [] one.set \in {"headers", "raw"} -> one.to \in Seq(Headers)
      [] OTHER -> TRUE

IsCall(one) ==
    CASE one.set = "chain" -> one.to = <<>>
      [] one.set = "interceptor" ->
            \/ one.to.does = "fail"
            \/ one.to.does = "authorize" /\ {one.to.name, one.to.token} \subseteq Seq(Pieces)
            \/ /\ one.to.does = "set"
               /\ one.to.call.set \in {"timeout", "jar", "pins", "proxy", "headers", "raw"}
               /\ IsSetting(one.to.call)
      [] OTHER -> IsSetting(one)

ASSUME ClientAssumption ==
    /\ MaxCalls \in Nat /\ MaxExchanges \in Nat \ {0}
    /\ Home # Away /\ Schemes \subseteq {"http", "https"}
    /\ {" ", "Bearer"} \subseteq Pieces
    /\ \A i \in DOMAIN BuilderCalls :
          /\ BuilderCalls[i].set \in {"timeout", "jar", "pins", "proxy", "headers",
                                     "interceptor", "agent", "connect", "follow", "max"}
          /\ IsCall(BuilderCalls[i])
    /\ \A i \in DOMAIN RequestCalls :
          /\ RequestCalls[i].set \in {"timeout", "jar", "pins", "proxy", "headers", "raw",
                                     "interceptor", "chain"}
          /\ IsCall(RequestCalls[i])
    /\ \A environment \in Environments :
          /\ DOMAIN environment = ProxyVariables \cup {"NO_PROXY", "no_proxy"}
          /\ \A name \in DOMAIN environment : environment[name] # None
    /\ \A certificate \in Certificates : InOrder(certificate)

VARIABLES
    pc,
    calls,       \* history: the calls that were accepted, those before Create and after
    builder,     \* the HttpClientBuilder
    request,     \* the HttpRequest, or None
    prepared,    \* the copy that is sent
    left,        \* interceptors still to run
    via,         \* the way it is sent
    exchanges,   \* how many clients were set up
    host,        \* where the next exchange goes
    scheme,
    seen,        \* the environment as the last set-up read it
    wire,        \* what came of that set-up, [client, headers], or NoWire
    met,         \* the connection it made: [route, certificate], or None
    outcome

settings == <<calls, builder, request>>
sending  == <<prepared, left, via, exchanges, host, scheme, seen, wire, met>>
vars     == <<pc, settings, sending, outcome>>

-----------------------------------------------------------------------------
NoWire == [client |-> None]

NewBuilder == [timeout |-> 30, connect |-> 10, agent |-> <<"BeanStream/1.0">>,
               follow |-> FALSE, max |-> 10, jar |-> None, pins |-> None,
               proxy |-> System, headers |-> <<>>, chain |-> <<>>]

NewRequest == [timeout |-> 30, jar |-> None, pins |-> None, proxy |-> System,
               headers |-> <<>>, chain |-> <<>>]

\* Fault: the pins stay behind.
CreateRequestUnpinned(b) ==
    [NewRequest EXCEPT !.timeout = b.timeout, !.chain = b.chain, !.jar = b.jar,
                       !.proxy = b.proxy, !.headers = @ \o b.headers]

\* create_request(); the user agent and the connect timeout have nowhere to go,
\* and what becomes of the redirect settings is in EntryPoints.
CreateRequest(b) ==
    [NewRequest EXCEPT !.timeout = b.timeout,
                       !.chain   = IF b.chain = <<>> THEN @ ELSE b.chain,
                       !.jar     = IF b.jar = None THEN @ ELSE b.jar,
                       !.pins    = IF b.pins = None THEN @ ELSE b.pins,
                       !.proxy   = b.proxy,
                       !.headers = @ \o b.headers]

\* Fault: what was checked is kept as it was given.
AcceptedAsGiven(list) ==
    LET refused == SelectInSeq(list, LAMBDA header : AddRefusal(header) # "ok")
    IN  IF refused = 0 THEN list ELSE SubSeq(list, 1, refused - 1)

\* add_headers() stops at the first it refuses, and keeps those before.
Accepted(list) ==
    LET refused == SelectInSeq(list, LAMBDA header : AddRefusal(header) # "ok")
        good    == IF refused = 0 THEN list ELSE SubSeq(list, 1, refused - 1)
    IN  [i \in DOMAIN good |-> SanitizeHeader(good[i])]

\* What a call is refused with. A proxy is refused as it is made.
Refusal(one) ==
    CASE one.set = "headers" ->
            FirstRefusal([i \in DOMAIN one.to |-> AddRefusal(one.to[i])])
      [] one.set = "proxy" /\ one.to.mode = "Explicit" ->
            IF EndpointRefused(one.to.url) THEN "InvalidConfiguration" ELSE "ok"
      [] one.set = "pins" ->
            IF \E pin \in Range(one.to) : PinRefused(pin) THEN "InvalidConfiguration" ELSE "ok"
      [] OTHER -> "ok"

\* A setter, or a write to the public field; "raw" pushes onto `headers` itself.
Set(one, into) ==
    CASE one.set = "headers"     -> [into EXCEPT !.headers = @ \o Accepted(one.to)]
      [] one.set = "raw"         -> [into EXCEPT !.headers = @ \o one.to]
      [] one.set = "interceptor" -> [into EXCEPT !.chain = Append(@, one.to)]
      [] one.set = "pins"        -> [into EXCEPT !.pins = {pin.hash : pin \in Range(one.to)}]
      [] OTHER                   -> [into EXCEPT ![one.set] = one.to]

\* AuthInterceptor: the first header of that name takes the token, or a new one does.
Authorize(one, into) ==
    LET at    == SelectInSeq(into.headers, LAMBDA header : header.name = one.name)
        token == [name |-> one.name, value |-> <<"Bearer", " ">> \o one.token]
    IN  IF at = 0 THEN [into EXCEPT !.headers = Append(@, token)]
        ELSE [into EXCEPT !.headers[at] = token]

\* The store a jar hands to reqwest: an empty jar has none.
Provider(jar) == IF jar = "store" THEN jar ELSE None

\* build_client(), and the same in download_stream: redirects are none of reqwest's,
\* and no connect timeout or user agent is set.
SetUpRefusal(from, environment) ==
    IF from.pins = {} \/ ApplyRefused(from.proxy, environment) THEN "InvalidConfiguration"
    ELSE "ok"

ClientOf(from, environment) ==
    [timeout |-> from.timeout, store |-> Provider(from.jar), pins |-> from.pins,
     proxies |-> Apply(from.proxy, environment),
     connect |-> None, agent |-> None, redirects |-> 0]

\* build(), which has all three.
BuiltClient(from, environment) ==
    [timeout |-> from.timeout, store |-> Provider(from.jar), pins |-> from.pins,
     proxies |-> Apply(from.proxy, environment),
     connect |-> from.connect, agent |-> from.agent,
     redirects |-> IF from.follow THEN from.max ELSE 0]

\* build(): a later default header replaces an earlier one of its name. What is
\* left of a list of headers keeps its places in it.
LastOfEachName(list) ==
    Restrict(list, {i \in DOMAIN list :
                       \A j \in i + 1 .. Len(list) : list[j].name # list[i].name})

-----------------------------------------------------------------------------
Init ==
    /\ pc = "builder"
    /\ calls = [builder |-> <<>>, request |-> <<>>]
    /\ builder = NewBuilder
    /\ request = None
    /\ prepared = None
    /\ left = <<>>
    /\ via = None
    /\ exchanges = 0
    /\ host = Home
    /\ scheme \in Schemes
    /\ seen = None
    /\ wire = NoWire
    /\ met = None
    /\ outcome = "pending"

Spare == Len(calls.builder) + Len(calls.request) < MaxCalls

End(result) == pc' = "done" /\ outcome' = result

\* A setter of the builder; one that fails takes the builder with it.
Configure ==
    /\ pc = "builder"
    /\ \E i \in DOMAIN BuilderCalls :
          LET one == BuilderCalls[i]
          IN  IF Refusal(one) # "ok"
              THEN End(Refusal(one)) /\ UNCHANGED settings
              ELSE /\ Spare
                   /\ builder' = Set(one, builder)
                   /\ calls' = [calls EXCEPT !.builder = Append(@, one)]
                   /\ UNCHANGED <<pc, outcome, request>>
    /\ UNCHANGED sending

\* HttpClientBuilder::create_request, or HttpRequest::new when nothing was configured.
Create ==
    /\ pc = "builder"
    /\ request' = CreateRequest(builder)
    /\ pc' = "request"
    /\ UNCHANGED <<calls, builder, sending, outcome>>

\* The request stays usable when add_headers() fails.
Change ==
    /\ pc = "request" /\ Spare
    /\ \E i \in DOMAIN RequestCalls :
          LET one == RequestCalls[i]
          IN  /\ Refusal(one) = "ok" \/ one.set = "headers"
              /\ request' = Set(one, request)
              /\ calls' = [calls EXCEPT !.request = Append(@, one)]
    /\ UNCHANGED <<pc, builder, sending, outcome>>

\* send(), download_stream() and build_request(), which runs no interceptor.
Start ==
    /\ pc = "request"
    /\ \E way \in Vias \ {"build"} :
          /\ via' = way
          /\ prepared' = request
          /\ left' = IF way = "build_request" THEN <<>> ELSE request.chain
    /\ pc' = "intercept"
    /\ UNCHANGED <<settings, exchanges, host, scheme, seen, wire, met, outcome>>

\* run_on_request(). The chain is the one the request had when it was sent.
Intercept ==
    /\ pc = "intercept" /\ left # <<>>
    /\ left' = Tail(left)
    /\ LET one == Head(left)
       IN  /\ prepared' = CASE one.does = "authorize" -> Authorize(one, prepared)
                            [] one.does = "set"       -> Set(one.call, prepared)
                            [] OTHER                  -> prepared
           /\ IF one.does = "fail" THEN End("InterceptorError") ELSE UNCHANGED <<pc, outcome>>
    /\ UNCHANGED <<settings, via, exchanges, host, scheme, seen, wire, met>>

\* Fault: the names are not looked at again.
ValidationSyntax(list) == ValidateHeaders(list)

\* validate(), but for the scope check, and what follows up to the first set-up.
Validation(list) ==
    FirstRefusal(<<ValidateHeaders(list),
                   IF \E header \in Range(list) : IsBlockedHeader(header.name)
                   THEN "HeaderError" ELSE "ok">>)

Validate ==
    /\ pc = "intercept" /\ left = <<>>
    /\ LET refusal == Validation(prepared.headers)
       IN  IF refusal = "ok" THEN pc' = "set up" /\ UNCHANGED outcome ELSE End(refusal)
    /\ UNCHANGED <<settings, sending>>

\* What went wrong ends the call, or the retry policy tries again: only send(),
\* and only its first exchange.
EndOrRetry(result) ==
    \/ End(result)
    \/ /\ via = "send" /\ host = Home /\ exchanges < MaxExchanges
       /\ pc' = "set up"
       /\ UNCHANGED outcome

\* A client for this exchange, and then the headers. build_request() needs the client
\* to make the reqwest::Request from, and drops it: the request it returns has none.
SetUp ==
    /\ pc = "set up" /\ exchanges < MaxExchanges
    /\ exchanges' = exchanges + 1
    /\ met' = None
    /\ \E environment \in Environments :
          LET refusal == FirstRefusal(<<SetUpRefusal(prepared, environment),
                                        HandOver(prepared.headers)>>)
          IN  /\ seen' = environment
              /\ IF refusal # "ok" THEN wire' = NoWire /\ EndOrRetry(refusal)
                 ELSE IF via = "build_request"
                 THEN wire' = [client |-> None, headers |-> prepared.headers] /\ End("built")
                 ELSE /\ wire' = [client  |-> ClientOf(prepared, environment),
                                  headers |-> prepared.headers]
                      /\ pc' = "connect" /\ UNCHANGED outcome
    /\ UNCHANGED <<settings, prepared, left, via, host, scheme>>

\* build(), whose client the caller then uses as it likes.
Build ==
    /\ pc = "builder" /\ "build" \in Vias
    /\ via' = "build"
    /\ exchanges' = 1
    /\ \E environment \in Environments :
          LET refusal == FirstRefusal(<<IF IsValue(builder.agent) THEN "ok"
                                        ELSE "InvalidConfiguration",
                                        HandOver(builder.headers),
                                        SetUpRefusal(builder, environment)>>)
          IN  /\ seen' = environment
              /\ IF refusal # "ok" THEN wire' = NoWire /\ End(refusal)
                 ELSE /\ wire' = [client  |-> BuiltClient(builder, environment),
                                  headers |-> LastOfEachName(builder.headers)]
                      /\ pc' = "connect" /\ UNCHANGED outcome
    /\ UNCHANGED <<settings, prepared, left, host, scheme, met>>

\* The handshake, for TLS, with the certificate the server presents.
Trusts(client, certificate) ==
    IF client.pins = None THEN certificate.trusted
    ELSE VerifyServerCert(client.pins, certificate)

Connect ==
    /\ pc = "connect" /\ met = None
    /\ \E route \in Routes(wire.client.proxies, scheme, host, seen),
          certificate \in (IF scheme = "https" THEN Certificates ELSE {None}) :
          IF scheme = "https" /\ ~Trusts(wire.client, certificate)
          THEN EndOrRetry("RequestFailed") /\ UNCHANGED met
          ELSE met' = [route |-> route, certificate |-> certificate] /\ UNCHANGED <<pc, outcome>>
    /\ UNCHANGED <<settings, prepared, left, via, exchanges, host, scheme, seen, wire>>

\* plan_hop(), on another host: what is sensitive stays behind.
Hop ==
    /\ pc = "connect" /\ met # None /\ via = "send"
    /\ host = Home /\ exchanges < MaxExchanges
    /\ host' = Away
    /\ scheme' \in (IF scheme = "https" THEN {"https"} ELSE {"http", "https"})
    /\ prepared' = [prepared EXCEPT !.headers =
                        Restrict(@, {i \in DOMAIN @ : ~IsSensitiveHeader(@[i].name)})]
    /\ pc' = "set up" /\ wire' = NoWire /\ met' = None
    /\ UNCHANGED <<settings, left, via, exchanges, seen, outcome>>

\* The response, which is final or one that is tried again.
Answer ==
    /\ pc = "connect" /\ met # None
    /\ EndOrRetry("answered")
    /\ UNCHANGED <<settings, sending>>

Next == Configure \/ Create \/ Change \/ Start \/ Intercept \/ Validate \/ SetUp \/ Build
            \/ Connect \/ Hop \/ Answer

Spec == Init /\ [][Next]_vars

-----------------------------------------------------------------------------
(***************************************************************************)
(* What the caller asked for, from the calls alone.                        *)
(***************************************************************************)

Made == calls.builder \o calls.request

\* The calls of the interceptors registered after the last with_interceptors(), each
\* at the place of its interceptor.
AskedByInterceptors(made) ==
    LET reset == SelectLastInSeq(made, LAMBDA one : one.set = "chain")
    IN  [i \in DOMAIN made |->
            IF i > reset /\ made[i].set = "interceptor" /\ made[i].to.does = "set"
            THEN made[i].to.call ELSE [set |-> "nothing"]]

\* The calls that count, in order: the builder's, the request's, the interceptors'.
Asked ==
    IF via \in {"build", "build_request"} THEN Made ELSE Made \o AskedByInterceptors(Made)

\* What was last asked for, or the default.
Wanted(field, default) ==
    LET last == SelectLastInSeq(Asked, LAMBDA one : one.set = field)
    IN  IF last = 0 THEN default ELSE Asked[last].to

WantedPins == {pin.hash : pin \in Range(Wanted("pins", <<>>))}

Pinned == \E i \in DOMAIN Asked : Asked[i].set = "pins"

\* Every header that was accepted, by its name.
WantedNames ==
    UNION {LET one == Asked[i]
           IN  IF one.set \in {"headers", "raw"}
               THEN {Trim(header.name) : header \in Range(Accepted(one.to))} ELSE {} :
              i \in DOMAIN Asked}

-----------------------------------------------------------------------------
\* Type invariant: default headers "are validated at add_default_header() time"
\* (create_request), so the builder's are names and values already.
SettingsOf(s) ==
    /\ s.timeout \in Nat
    /\ s.jar \in {None, "empty", "store"}
    /\ s.proxy.mode \in {"System", "Environment", "Disabled", "Explicit"}
    /\ \A i \in DOMAIN s.headers : DOMAIN s.headers[i] = {"name", "value"}
    /\ \A i \in DOMAIN s.chain : s.chain[i].does \in {"authorize", "set", "fail"}

TypeOK ==
    /\ pc \in {"builder", "request", "intercept", "set up", "connect", "done"}
    /\ SettingsOf(builder)
    /\ \A i \in DOMAIN builder.headers :
          IsName(builder.headers[i].name) /\ IsValue(builder.headers[i].value)
    /\ \A s \in {request, prepared} \ {None} : SettingsOf(s)
    /\ via \in Vias \cup {None}
    /\ exchanges \in 0 .. MaxExchanges
    /\ host \in {Home, Away} /\ scheme \in {"http", "https"}
    /\ seen \in Environments \cup {None}
    /\ (pc = "connect") => (wire # NoWire)
    /\ (pc = "done") <=> (outcome # "pending")

\* What an HttpRequest has a field for, but for the proxy: see EgressIsChosen.
AsConfigured(client) ==
    /\ client.timeout = Wanted("timeout", 30)
    /\ client.store = IF Wanted("jar", None) = "store" THEN "store" ELSE None
    /\ client.pins = IF Pinned THEN WantedPins ELSE None

\* The timeout, the jar and the pins that were set last, on the builder, on the request
\* or by an interceptor, are those of every client that connects, at each attempt and
\* hop of send(), in download_stream() and in what build() returns ("Previously only
\* `build()` honoured it"); and every header that was accepted is sent there and in what
\* build_request() returns, but for the sensitive ones, which stay with the first host.
\* What the builder is told of the connect timeout, the user agent and redirects reaches
\* what build() returns and nothing else: an HttpRequest has no field for it
\* (builder.rs:414-463), though the documentation has a "User agent for every request"
\* and a connect timeout without exception (builder.rs:122, 129).  And build_request()
\* returns no client, so none of "the transport settings" it is said to carry
\* (request_handler.rs:699-700).
SettingsReachTheWire ==
    wire # NoWire =>
        /\ via # "build_request" => AsConfigured(wire.client)
        /\ via = "build" =>
              /\ wire.client.connect = Wanted("connect", 10)
              /\ wire.client.agent = Wanted("agent", NewBuilder.agent)
              /\ wire.client.redirects = IF Wanted("follow", FALSE) THEN Wanted("max", 10) ELSE 0
        /\ via \in {"send", "stream"} => wire.client.connect = None /\ wire.client.agent = None
        /\ via = "build_request" => wire.client = None
        /\ \A name \in WantedNames :
              \/ \E i \in DOMAIN wire.headers : wire.headers[i].name = name
              \/ host = Away /\ IsSensitiveHeader(name)

\* No header gets out that add_header() would have refused, though interceptors
\* and the public field can put any into the list: the refusal is made again
\* after them, in two places; and no other host sees a sensitive one.
NothingForbiddenIsSent ==
    wire # NoWire =>
        \A i \in DOMAIN wire.headers :
           LET header == wire.headers[i]
           IN  /\ AddRefusal(header) = "ok"
               /\ SanitizeHeader(header).name = header.name
               /\ "CRLF" \notin Range(header.name) \cup Range(header.value)
               /\ host = Away => ~IsSensitiveHeader(header.name)

\* A TLS connection of a client that was to be pinned, however it came to be, is
\* to a server whose certificate is trusted and whose own key is one of the pins.
PinsAreEnforced ==
    met # None /\ met.certificate # None =>
        /\ met.certificate.trusted
        /\ Pinned => KeyOf(met.certificate) \in WantedPins

\* A variable speaks unless it is unset or blank, or also set in capitals; be it to
\* blank, for a blank variable hides its other spelling (proxy_config.rs:361-366).
Speaks(names, i) ==
    /\ seen[names[i]] \notin {Unset, Blank}
    /\ i % 2 = 0 => seen[names[i - 1]] = Unset

\* What the first variable says that speaks.
Says(names) ==
    LET speaking == {i \in DOMAIN names : Speaks(names, i)}
    IN  IF speaking = {} THEN None ELSE seen[names[Min(speaking)]]

\* The catch-all wins, then the one for https, and capitals.
ProxyPrecedence == <<"ALL_PROXY", "all_proxy", "HTTPS_PROXY", "https_proxy",
                     "HTTP_PROXY", "http_proxy">>

Bypasses == <<"NO_PROXY", "no_proxy">>

Exempt == Says(Bypasses) # None /\ host \in Says(Bypasses)

\* Traffic leaves only as it was configured to, on every sending path and in every
\* environment: directly when proxies are disabled and to a host on the bypass list; by
\* the proxy that was given, to a destination of that proxy's own scheme (and directly to
\* one of the other: see ExplicitServesEveryRequest); or by the one that the environment
\* of that moment names first, and directly if it names none (proxy_config.rs:277-344,
\* 359-379). With System reqwest and the platform decide.
EgressIsChosen ==
    LET wanted == Wanted("proxy", System)
    IN  met # None /\ wanted.mode # "System" =>
           met.route = IF wanted.mode = "Disabled" \/ Exempt THEN None
                       ELSE IF wanted.mode = "Environment" THEN Says(ProxyPrecedence)
                       ELSE IF scheme = wanted.url.scheme THEN Redacted(wanted.url)
                       ELSE None

\* "Use `url` as the proxy for every request" (ProxyConfig::explicit): whatever
\* the scheme of the target, unless the bypass list exempts its host.
ExplicitServesEveryRequest ==
    met # None /\ Wanted("proxy", System).mode = "Explicit" =>
        met.route # None \/ Exempt
=============================================================================
