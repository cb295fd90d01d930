------------------------------ MODULE MCClient ------------------------------
(***************************************************************************)
(* Three calls out of one of each kind of setting, headers in and out of   *)
(* the rules, certificates with and without a version field, and the       *)
(* environments that tell the proxy variables apart: among them blank ones *)
(* in capitals whose other spelling has something to say.                  *)
(***************************************************************************)
EXTENDS Client

Nothing == [name \in {"ALL_PROXY", "all_proxy", "HTTP_PROXY", "http_proxy", "HTTPS_PROXY",
                      "https_proxy", "NO_PROXY", "no_proxy"} |-> Unset]

Gateway == [scheme |-> "http",  host |-> "front", port |-> None, user |-> "someone"]
Inner == [scheme |-> "https", host |-> "inner", port |-> None, user |-> None]
Other == [scheme |-> "http",  host |-> "other", port |-> 3128, user |-> None]

MCEnvironments ==
    { Nothing,
      "ALL_PROXY" :> Blank @@ "all_proxy" :> Inner @@ "https_proxy" :> Other @@
          "HTTP_PROXY" :> Inner @@ "no_proxy" :> {Away} @@ Nothing,
      "all_proxy" :> Other @@ "HTTPS_PROXY" :> Inner @@ "http_proxy" :> Blank @@
          "NO_PROXY" :> {Home} @@ "no_proxy" :> Blank @@ Nothing,
      "ALL_PROXY" :> Malformed @@ "NO_PROXY" :> Blank @@ "no_proxy" :> {Home} @@ Nothing }

Pin(hash) == [decodes |-> TRUE, bytes |-> 32, hash |-> hash]

Field(tag, hash) == [tag |-> tag, hash |-> hash]

Fields(key) == <<Field("serial", "s"), Field("signature", "a"), Field("issuer", "i"),
                 Field("validity", "v"), Field("subject", "k1"), Field("spki", key)>>

MCCertificates ==
    { [fields |-> <<Field("version", "k1")>> \o Fields("k2"), trusted |-> TRUE],
      [fields |-> Fields("k2"), trusted |-> TRUE],
      [fields |-> <<Field("version", "3")>> \o Fields("k1"), trusted |-> TRUE],
      [fields |-> Fields("k1"), trusted |-> FALSE] }

H(name, value) == [name |-> name, value |-> value]

Plain  == H(<<"TAB", "x-plain">>, <<" ", "one">>)
Key    == H(<<"x-api-key">>, <<"secret">>)
Hosted == H(<<"host">>, <<"elsewhere">>)
Padded == H(<<" ", "host">>, <<"elsewhere">>)
Folded == H(<<"x-folded">>, <<"one", "CRLF">>)
Split  == H(<<"x-split">>, <<"one", "CRLF", "two">>)

Call(field, to) == [set |-> field, to |-> to]
Rewrite(field, to) == [does |-> "set", call |-> Call(field, to)]

MCPieces == {" ", "TAB", "CRLF", "CTL", "HIGH", "Bearer", "t", "x-plain", "one", "x-api-key",
             "secret", "host", "elsewhere", "x-folded", "x-split", "two"}

MCBuilderCalls ==
    << Call("timeout", 5), Call("agent", <<"bad", "CTL">>), Call("agent", <<"t">>),
      Call("connect", 3), Call("follow", TRUE),
      Call("jar", "store"),
      Call("pins", <<Pin("k1")>>), Call("pins", <<>>),
      Call("pins", <<[Pin("k1") EXCEPT !.bytes = 31]>>),
      Call("proxy", Disabled), Call("proxy", Environment),
      Call("proxy", Explicit(Gateway, "someone")), Call("proxy", Explicit(Inner, None)),
      Call("proxy", Explicit([Gateway EXCEPT !.scheme = "socks5"], None)),
      Call("proxy", Explicit([Other EXCEPT !.port = 0], None)),
      Call("headers", <<Plain, Key>>), Call("headers", <<Split>>),
      Call("interceptor", Rewrite("raw", <<Hosted>>)),
      Call("interceptor", Rewrite("proxy", Disabled)) >>

MCRequestCalls ==
    << Call("timeout", 7), Call("jar", "empty"), Call("pins", <<Pin("k2"), Pin("k3")>>),
      Call("proxy", System), Call("headers", <<Plain, Hosted, Key>>),
      Call("raw", <<Padded>>), Call("raw", <<Folded>>),
      Call("raw", <<Split>>), Call("chain", <<>>),
      Call("interceptor", [does |-> "authorize", name |-> <<"x-api-key">>, token |-> <<"t">>]),
      Call("interceptor", [does |-> "fail"]) >>
=============================================================================
