---------------------------- MODULE MCEntryPoints ----------------------------
(***************************************************************************)
(* Two names, one of them also spelled with a dot at its end, a reserved   *)
(* name, and literals inside and outside the blocked ranges; a resolver    *)
(* that repeats itself and mixes internal with public addresses.           *)
(***************************************************************************)
EXTENDS EntryPoints

Home      == <<"home", ".", "net">>
Dotted    == <<"home", ".", "net", ".">>
Away      == <<"away", ".", "org">>
Localhost == <<"localhost">>
Public    == <<"8", ".", "8", ".", "8", ".", "8">>
Loopback  == <<"127", ".", "0", ".", "0", ".", "1">>
Six       == <<"[", "2606:4700::1", "]">>
ToFour    == <<"[", "2002:a00::", "]">>   \* 6to4 for 10.0.0.0
Carrier       == <<"100", ".", "64", ".", "0", ".", "1">>

MCHosts == {Home, Dotted, Away, Localhost, Public, Loopback, Six, ToFour, Carrier}

MCLiterals ==
    [host \in {Public, Loopback, Six, ToFour, Carrier} |->
        CASE host = Public   -> V4(<<8, 8, 8, 8>>)
          [] host = Loopback -> V4(<<127, 0, 0, 1>>)
          [] host = Six      -> V6(<<9734, 18176, 0, 0, 0, 0, 0, 1>>)
          [] host = ToFour   -> V6(<<8194, 2560, 0, 0, 0, 0, 0, 0>>)
          [] host = Carrier  -> V4(<<100, 64, 0, 1>>)]

\* ::ffff:192.168.0.0, just inside, and 192.169.0.0 and ::2:0:0, just outside.
In   == V6(<<0, 0, 0, 0, 0, 65535, 49320, 0>>)
Out1 == V4(<<192, 169, 0, 0>>)
Out2 == V6(<<0, 0, 0, 0, 0, 2, 0, 0>>)

MCAddresses == {In, Out1, Out2}
MCAnswers == {<<Out1>>, <<In>>, <<Out2, Out1, Out2>>, <<Out1, In>>}
MCPatterns == InternalPatterns \cup MCHosts

\* A "\\" that so many escapes more than one hide: %255c, %25255c, ...
Nested(n) ==
    [i \in 1 .. 2 * n + 3 |-> CASE i = 1         -> "%"
                                [] i = 2 * n + 3 -> "c"
                                [] i % 2 = 0 /\ i <= 2 * n -> "2"
                                [] OTHER         -> "5"]

\* There for the rules alone: these, every page of up to five of their characters,
\* and one that hides dots in more than one way.
MCPages ==
    {<<"a">>, <<".", ".">>, <<"%", "2", "5", "2", "e", "%", "%", "3", "2", "e">>}
    \cup {Nested(n) : n \in 0 .. 5}
    \cup UNION {[1 .. n -> {"%", "2", "5", "c"}] : n \in 1 .. 5}

MCStatuses == {200, 302, 304, 429, 503}

At(scheme, host) ==
    [scheme |-> scheme, user |-> FALSE, host |-> host, port |-> 443, page |-> <<"a">>]

Plain == [via |-> "send", target |-> At("https", Home), builder |-> FALSE, base |-> None,
          optIn |-> FALSE, follows |-> FALSE, opened |-> FALSE, rewrites |-> {},
          replaces |-> FALSE, transport |-> TRUE]

Targets == {Home, Localhost, Public, Loopback, Six, ToFour, Dotted}

\* Targets every check refuses, in each way of calling; WebSockets; bare
\* requests and a builder's, to every host, sent and streamed, with interceptors
\* that retarget them; and such whose interceptors also replace scope and policy.
MCCalls ==
    {[Plain EXCEPT !.via = via, !.target = target] :
        via \in {"send", "stream", "websocket"},
        target \in { At("ftp", Home), [At("wss", Home) EXCEPT !.user = TRUE],
                     [At("https", Home) EXCEPT !.port = 0],
                     [At("ws", Home) EXCEPT !.page = <<".", ".">>] }}
    \cup {[Plain EXCEPT !.via = "websocket", !.target = At(scheme, host)] :
            scheme \in {"https", "ws", "wss"}, host \in Targets}
    \cup {[Plain EXCEPT !.via = via, !.target = At("https", host), !.opened = opened,
                        !.rewrites = {Away, Dotted, Loopback}] :
            via \in {"send", "stream"}, host \in Targets, opened \in BOOLEAN}
    \cup {[Plain EXCEPT !.via = via, !.target = At("https", host), !.builder = TRUE,
                        !.base = base, !.optIn = optIn, !.follows = TRUE,
                        !.rewrites = rewrites] :
            via \in {"send", "stream"}, host \in Targets \cup {None}, base \in {None, Home},
            optIn \in BOOLEAN, rewrites \in {{}, {Away, Public, Carrier}}}
    \cup {[Plain EXCEPT !.via = via, !.builder = TRUE, !.base = Home, !.follows = TRUE,
                        !.rewrites = rewrites, !.replaces = TRUE] :
            via \in {"send", "stream"}, rewrites \in {{}, {Away, Loopback}}}
    \cup {[Plain EXCEPT !.via = via, !.transport = FALSE] : via \in {"send", "stream"}}

\* An interceptor that spells the host with a dot at its end, in url alone: the scope
\* takes it for the same host, and nobody opened it.
MCRetargeted ==
    {[Plain EXCEPT !.via = via, !.rewrites = {Dotted}] : via \in {"send", "stream"}}

\* No rule is narrower or wider than it is meant to be.
ASSUME RulesAreSound /\ BasesAreSound
=============================================================================
