------------------------------ MODULE HostRules ------------------------------
(***************************************************************************)
(* src/redirect_policy.rs without its state: host patterns, the settings a *)
(* RedirectPolicy and a ScopeValidator hold, and what they admit.          *)
(*                                                                         *)
(* A host or a pattern is a sequence of pieces: the marks ".", "*", "[",   *)
(* "]" and " " are pieces of their own, and a run of letters is one or     *)
(* several, so that a name may end in another one within a label.  Case is *)
(* left out: both sides are lowercased before they are compared.           *)
(***************************************************************************)
EXTENDS Naturals, Sequences, FiniteSets, SequencesExt

CONSTANTS
    Hosts,      \* the hosts considered,
    Patterns    \* and the patterns, as callers write them

ASSUME HostAssumption == \A text \in Hosts \cup Patterns : text \in Seq(Range(text))

DropFirst(text, n) == SubSeq(text, n + 1, Len(text))
DropLast(text, n)  == SubSeq(text, 1, Len(text) - n)

\* str::trim_start_matches and trim_end_matches.
TrimStart(text, mark) ==
    LET first == SelectInSeq(text, LAMBDA piece : piece # mark)
    IN  IF first = 0 THEN <<>> ELSE DropFirst(text, first - 1)

TrimEnd(text, mark) ==
    SubSeq(text, 1, SelectLastInSeq(text, LAMBDA piece : piece # mark))

NormalizeHost(host) ==
    TrimEnd(TrimEnd(TrimStart(TrimEnd(TrimStart(host, " "), " "), "["), "]"), ".")

\* Fault: a suffix may start within a label.
EndsWith(suffix, host) == IsSuffix(suffix, host)

\* The suffix itself, or anything a dot comes before it in.
IsUnder(suffix, host) == host = suffix \/ IsSuffix(<<".">> \o suffix, host)

StartsWith(prefix, host) == host = prefix \/ IsPrefix(prefix \o <<".">>, host)

MatchesHostPattern(pattern, host) ==
    LET p == NormalizeHost(pattern)
        h == NormalizeHost(host)
    IN  IF p = <<"*">> THEN TRUE
        ELSE IF IsPrefix(<<"*", ".">>, p) THEN IsUnder(DropFirst(p, 2), h)
        ELSE IF IsPrefix(<<"*">>, p) THEN IsUnder(Tail(p), h)
        ELSE IF IsSuffix(<<".", "*">>, p) THEN StartsWith(DropLast(p, 2), h)
        ELSE p = h

\* Lists hold normalized patterns; which of them match is looked up here.
Listable == Patterns \cup {NormalizeHost(pattern) : pattern \in Patterns}

Matching == {pair \in Listable \X Hosts : MatchesHostPattern(pair[1], pair[2])}

MatchesAny(patterns, host) == \E pattern \in patterns : <<pattern, host>> \in Matching

-----------------------------------------------------------------------------
DefaultPolicy ==
    [max |-> 10, track |-> TRUE, any |-> FALSE, allowed |-> {}, denied |-> {},
     follow |-> FALSE, downgrade |-> FALSE]

AllowHost(policy, host) == [policy EXCEPT !.allowed = @ \cup {NormalizeHost(host)}]

DenyHost(policy, host) == [policy EXCEPT !.denied = @ \cup {NormalizeHost(host)}]

FollowRedirects(policy) == [policy EXCEPT !.follow = TRUE]

AllowSchemeDowngrade(policy) == [policy EXCEPT !.downgrade = TRUE]

Strict(hosts) == [DefaultPolicy EXCEPT !.allowed = {NormalizeHost(host) : host \in hosts}]

Relaxed(max) ==
    [DefaultPolicy EXCEPT !.max = max, !.track = FALSE, !.any = TRUE, !.follow = TRUE]

\* The last checks of RedirectPolicy::check_redirect: a denied host is refused
\* first, and to go anywhere takes both flags.
HostDenied(policy, host) == MatchesAny(policy.denied, host)

HostUnknown(policy, host) ==
    (policy.track \/ ~policy.any) /\ ~MatchesAny(policy.allowed, host)

-----------------------------------------------------------------------------
\* ScopeValidator::new; closed is its default_deny.
NewScope(closed) == [allow |-> {}, deny |-> {}, closed |-> closed]

WithAllowList(scope, hosts) ==
    [scope EXCEPT !.allow = @ \cup {NormalizeHost(host) : host \in hosts}]

WithDenyList(scope, hosts) ==
    [scope EXCEPT !.deny = @ \cup {NormalizeHost(host) : host \in hosts}]

\* ScopeValidator::check_url, on an http or https URL: deny beats allow.
ScopePermits(scope, host) ==
    /\ ~MatchesAny(scope.deny, host)
    /\ MatchesAny(scope.allow, host) \/ ~scope.closed

-----------------------------------------------------------------------------
\* Of some positions, how many come up to i, and which is the n-th.
Rank(positions, i) == Cardinality({j \in positions : j <= i})

Nth(positions, n) == CHOOSE i \in positions : Rank(positions, i) = n

\* A label ends at a dot, or with the name; after it the next one begins.
Ends(host) == {i \in 1 .. Len(host) + 1 : i = Len(host) + 1 \/ host[i] = "."}

EndOf(host, n) == IF n = 0 THEN 0 ELSE Nth(Ends(host), n)

Labels(host) ==
    [n \in 1 .. Cardinality(Ends(host)) |-> SubSeq(host, EndOf(host, n - 1) + 1, EndOf(host, n) - 1)]

\* What a pattern covers, read off the labels of a name: a leading "*" stands for any
\* number of labels, also for none, a trailing one as well.  That is how the comment on
\* allow_host() has it ("also matches subdomains"); the one on allowed_hosts has "a
\* leading `*.` wildcard for one label" (redirect_policy.rs:86-87), which the code is
\* not.
Covers(pattern, host) ==
    LET p == Labels(NormalizeHost(pattern))
        h == Labels(NormalizeHost(host))
    IN  IF IsPrefix(<<"*">>, Head(p))
        THEN \/ Head(p) = <<"*">> /\ IsSuffix(Tail(p), h)
             \/ Head(p) # <<"*">> /\ IsSuffix(<<Tail(Head(p))>> \o Tail(p), h)
        ELSE \/ Len(p) > 1 /\ Last(p) = <<"*">> /\ IsPrefix(Front(p), h)
             \/ p = h

Covering == {pair \in Listable \X Hosts : Covers(pair[1], pair[2])}

Listed(patterns, host) == \E pattern \in patterns : <<pattern, host>> \in Covering
=============================================================================
