--------------------------- MODULE MCRedirectWalk ---------------------------
(***************************************************************************)
(* Chains between names that end alike, names nobody may visit and some    *)
(* literals, over TLS and plaintext, that may come back to where they      *)
(* started.  The name home is also served on a second port.                *)
(***************************************************************************)
EXTENDS RedirectWalk

Home   == <<"home", ".", "net">>
Sub    == <<"api", ".", "home", ".", "net">>
Deep   == <<"v1", ".", "api", ".", "home", ".", "net">>
Alike  == <<"not", "home", ".", "net">>
Away   == <<"away", ".", "org">>
Dashed == <<"-", "home">>
Nas    == <<"nas", ".", "local">>
Public == <<"8", ".", "8", ".", "8", ".", "8">>
Six    == <<"[", "2606:4700::1", "]">>
Mapped == <<"[", "::ffff:ac1f:ffff", "]">>   \* 172.31.255.255

MCHosts == {Home, Sub, Deep, Alike, Away, Nas, Dashed, Public, Six, Mapped}

MCLiterals ==
    [host \in {Public, Six, Mapped} |->
        CASE host = Public -> V4(<<8, 8, 8, 8>>)
          [] host = Six    -> V6(<<9734, 18176, 0, 0, 0, 0, 0, 1>>)
          [] host = Mapped -> V6(<<0, 0, 0, 0, 0, 65535, 44063, 65535>>)]

\* Just inside 172.16.0.0/12, and just outside.
MCAddresses == {V4(<<172, 31, 255, 255>>), V4(<<172, 32, 0, 0>>)}

Url(scheme, host, port, page) ==
    [scheme |-> scheme, user |-> FALSE, host |-> host, port |-> port, page |-> page]

AnyHome == <<"*", ".", "home", ".", "net">>

AwayOrg == <<" ", "*", "away", ".", "org", ".">>
Eights  == <<"8", ".", "9", ".", "*">>

OwnHosts == {AnyHome, Away}

MCPatterns == OwnHosts \cup {Home, AwayOrg, Eights}

Careful ==
    [url |-> Url("https", Home, 1, <<"a">>), method |-> "POST", body |-> TRUE,
     credentials |-> TRUE, private |-> FALSE,
     policy |-> FollowRedirects([Strict(OwnHosts) EXCEPT !.max = 3]),
     scope  |-> WithAllowList(NewScope(TRUE), OwnHosts),
     retry  |-> [attempts |-> 2, initial |-> 2, ceiling |-> 3, exponential |-> TRUE]]

\* A careful request; one that may go anywhere, internal addresses and
\* plaintext included; one from a literal over plaintext with deny lists; one
\* that may follow nothing but is retried.
MCConfigurations ==
    { Careful,
      [Careful EXCEPT !.policy = AllowSchemeDowngrade(Relaxed(3)), !.scope = NewScope(FALSE),
                      !.private = TRUE, !.retry.attempts = 0],
      [Careful EXCEPT !.url = Url("http", Public, 2, <<"a">>), !.method = "PUT",
                      !.policy = DenyHost(Relaxed(3), AwayOrg),
                      !.scope = WithDenyList(NewScope(FALSE), {Eights, AnyHome}),
                      !.retry = [@ EXCEPT !.attempts = 4, !.ceiling = 7]],
      [Careful EXCEPT !.method = "HEAD", !.body = FALSE,
                      !.policy = AllowHost(DefaultPolicy, Home),
                      !.retry = [attempts |-> 4, initial |-> 4, ceiling |-> 3,
                                 exponential |-> FALSE]] }

\* Two dots, the second under six layers of escapes.
Hidden == <<".", "%", "2", "5", "2", "5", "2", "5", "2", "5", "2", "5", "2", "e">>

\* Among them a page with a segment that is resolved, and one that ends in "//".
MCLocations ==
    { Url("https", Home, 1, <<"a">>), Url("https", Home, 2, <<"a">>),
      Url("https", Sub, 1, <<"b">>), Url("https", Deep, 1, <<"b">>), Url("https", Alike, 1, <<"b">>),
      Url("https", Away, 1, <<"b">>), [scheme |-> "http"],
      [scheme |-> "ftp"], Url("https", Home, 0, <<"b">>),
      Url("https", Mapped, 1, <<"a">>), Url("https", Six, 1, <<"a">>),
      Url("https", Nas, 1, <<"a">>), Url("https", Dashed, 1, <<"a">>),
      [user |-> TRUE, page |-> <<"b">>],
      [host |-> Public, port |-> 1, page |-> <<"a">>],
      [page |-> <<"a", "\\", ".", "%", "2", "e", "/", "b">>], [page |-> <<"b", "/", "\\">>],
      [page |-> Hidden] }

MCPages == {<<"a">>} \cup DOMAIN Normalized \cup Range(Normalized)

MCStatuses == {200, 302, 303, 304, 307}

=============================================================================
