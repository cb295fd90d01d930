------------------------------ MODULE Transport ------------------------------
(***************************************************************************)
(* What a client is built with: src/proxy_config.rs and                    *)
(* src/cert_pinning.rs.  The environment is a function from the names of   *)
(* the proxy variables to their values, Unset, Blank, Malformed or a URL;  *)
(* a NO_PROXY value is the set of hosts it exempts.                        *)
(***************************************************************************)
EXTENDS Naturals, Sequences, SequencesExt

CONSTANTS Unset, Blank, Malformed, None

ProxyVariables == {"ALL_PROXY", "all_proxy", "HTTP_PROXY", "http_proxy",
                   "HTTPS_PROXY", "https_proxy"}

-----------------------------------------------------------------------------
\* ProxyEndpoint::new on a URL [scheme, host, port, user]; port is what the URL
\* spells out.
EndpointRefused(url) ==
    url.scheme \notin {"http", "https"} \/ url.host = None \/ url.port = 0

System      == [mode |-> "System"]
Environment == [mode |-> "Environment"]
Disabled    == [mode |-> "Disabled"]

\* explicit_with_auth(); explicit() is without credentials of its own.
Explicit(url, auth) == [mode |-> "Explicit", url |-> url, auth |-> auth]

\* The proxy as redacted_url() spells it: without the credentials in the URL.
Redacted(url) == [url EXCEPT !.user = None]

\* The first name that is set; blank counts as set, and then as nothing.
FirstSet(env, names) ==
    LET first == SelectInSeq(names, LAMBDA name : env[name] # Unset)
    IN  IF first = 0 \/ env[names[first]] = Blank THEN None ELSE env[names[first]]

SelectProxy(env) ==
    LET all   == FirstSet(env, <<"ALL_PROXY", "all_proxy">>)
        https == FirstSet(env, <<"HTTPS_PROXY", "https_proxy">>)
    IN  IF all # None THEN all
        ELSE IF https # None THEN https
        ELSE FirstSet(env, <<"HTTP_PROXY", "http_proxy">>)

SelectBypass(env) ==
    LET bypass == FirstSet(env, <<"NO_PROXY", "no_proxy">>)
    IN  IF bypass = None THEN {} ELSE bypass

Automatic == [how |-> "automatic"]   \* reqwest and the platform decide
NoProxy   == [how |-> "none"]

\* The proxy of the platform's own settings.
Platform == [how |-> "platform"]

OneProxy(url, auth, schemes, bypass) ==
    [how |-> "one", url |-> url, auth |-> auth, schemes |-> schemes, bypass |-> bypass]

\* Fault: nobody tells reqwest not to look for a proxy.
ApplyLenient(config, env) ==
    CASE config.mode \in {"System", "Disabled"} -> Automatic
      [] config.mode = "Environment" ->
            IF SelectProxy(env) = None THEN NoProxy
            ELSE OneProxy(SelectProxy(env), None, {"http", "https"}, SelectBypass(env))
      [] config.mode = "Explicit" ->
            OneProxy(Redacted(config.url), config.auth, {config.url.scheme}, SelectBypass(env))

\* apply(). For an explicit endpoint the schemes are those of the destinations
\* Proxy::http or Proxy::https intercepts.
Apply(config, env) ==
    CASE config.mode = "System"      -> Automatic
      [] config.mode = "Disabled"    -> NoProxy
      [] config.mode = "Environment" ->
            IF SelectProxy(env) = None THEN NoProxy
            ELSE OneProxy(SelectProxy(env), None, {"http", "https"}, SelectBypass(env))
      [] config.mode = "Explicit"    ->
            OneProxy(Redacted(config.url), config.auth, {config.url.scheme}, SelectBypass(env))

\* Proxy::all refuses a value that is no URL.
ApplyRefused(config, env) ==
    config.mode = "Environment" /\ SelectProxy(env) = Malformed

\* reqwest: how it may reach a destination, once its client is set up so.
Routes(proxies, scheme, host, env) ==
    CASE proxies.how = "none" -> {None}
      [] proxies.how = "automatic" ->
            {None, Platform} \cup
            {env[name] : name \in {n \in DOMAIN env \ {"NO_PROXY", "no_proxy"} :
                                      env[n] \notin {Unset, Blank, Malformed}}}
      [] proxies.how = "one" ->
            IF scheme \in proxies.schemes /\ host \notin proxies.bypass THEN {proxies.url}
            ELSE {None}

-----------------------------------------------------------------------------
\* pin_spki_sha256_base64() on a text [decodes, bytes, hash].
PinRefused(text) == ~text.decodes \/ text.bytes # 32

\* spki_der(): the sixth field of the TBSCertificate, a version not counted, or
\* None when the fields run out. A certificate [fields, trusted] has its fields
\* in order, each [tag, hash].
SpkiSha256(certificate) ==
    LET fields == certificate.fields
        skipped == IF fields # <<>> /\ Head(fields).tag = "version" THEN 6 ELSE 5
    IN  IF Len(fields) > skipped THEN fields[skipped + 1].hash ELSE None

Matches(pins, certificate) ==
    SpkiSha256(certificate) # None /\ SpkiSha256(certificate) \in pins

\* Fault: either check is enough.
VerifyEither(pins, certificate) == certificate.trusted \/ Matches(pins, certificate)

\* verify_server_cert(): WebPKI, and then the pins.
VerifyServerCert(pins, certificate) == certificate.trusted /\ Matches(pins, certificate)

\* The fields of a certificate are those of RFC 5280: an optional version, then
\* five others, then the public key, and no second one.
InOrder(certificate) ==
    LET fields == certificate.fields
        before == IF Head(fields).tag = "version" THEN 6 ELSE 5
    IN  /\ Len(fields) > before
        /\ \A i \in 1 .. Len(fields) : fields[i].tag = "spki" <=> i = before + 1

\* The public key of a certificate, by its tag rather than its place.
KeyOf(certificate) ==
    LET fields == certificate.fields
    IN  fields[CHOOSE i \in 1 .. Len(fields) : fields[i].tag = "spki"].hash
=============================================================================
