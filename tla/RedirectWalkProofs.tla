-------------------------- MODULE RedirectWalkProofs --------------------------
(***************************************************************************)
(* Redirect chains of any length, between any hosts, with any policy and   *)
(* any answers: every connection is to a vetted pin, the request's own pin *)
(* is kept, a chain does not leave TLS, credentials do not leave their     *)
(* origin, and every hop is one the rules admit.                           *)
(***************************************************************************)
EXTENDS RedirectWalk, UrlRulesProofs, FiniteSetTheorems

APin == [host : Hosts \cup {None}, port : Nat, addresses : SUBSET Addresses]

WalkTypeOK ==
    /\ request \in Configurations
    /\ pc \in {"resolve", "first", "plan", "pin", "hop", "done"}
    /\ attempt \in Nat /\ (attempt = 0 \/ attempt < request.retry.attempts)
    /\ interval \in Nat /\ wait \in Nat
    /\ pinned \in APin /\ pin \in APin
    /\ visited \in Seq(Urls) /\ visited # <<>>
    /\ method \in {request.method, "GET"}
    /\ credentials \in BOOLEAN /\ body \in BOOLEAN
    /\ reply \in [status : Statuses \cup {0}, location : Locations \cup {None}]

\* The chain starts at the request's URL, comes nowhere twice, and no host in it
\* is a literal that must not be reached.
ChainInv ==
    /\ visited[1] = request.url
    /\ IsInjective(visited)
    /\ \A i \in DOMAIN visited : visited[i].host \notin BlockedLiterals

\* The last hop passed the checks that are about it alone.
HopInv ==
    Len(visited) > 1 =>
       /\ Len(visited) <= request.policy.max
       /\ ~HostDenied(request.policy, Current.host)
       /\ ~HostUnknown(request.policy, Current.host)
       /\ ScopePermits(request.scope, Current.host)
       /\ ~Current.user /\ Current.page \notin DangerousPages
       /\ Current.host \notin InvalidDomains \cup ReservedDomains

\* The pin of the request's URL is made once; a hop has it, or one of its own.
PinInv ==
    /\ pc \in {"first", "plan", "pin", "hop"} => pinned \in Pins(request.url)
    /\ pc = "first" => pin = pinned
    /\ pc \in {"resolve", "first"} => visited = <<request.url>>
    /\ pc = "hop" => IF MayReuse(Current) THEN pin = pinned ELSE pin \in Pins(Current)

IInv ==
    WalkTypeOK /\ ChainInv /\ ChainNeverDowngrades /\ CredentialsStayHome /\ HopInv /\ PinInv

\* The interval after so many retries: the crate's schedule.
Nominal(retry, retries) ==
    LET grown == IF retry.exponential THEN retry.initial * 2 ^ retries ELSE retry.initial
    IN  IF retries > 0 /\ grown > retry.ceiling THEN retry.ceiling ELSE grown

\* The backoff's interval is one of the schedule, ahead of the wait by one; once
\* the attempt stands nothing is waited for.
ScheduleInv ==
    /\ pc \in {"resolve", "first"} => interval = Nominal(request.retry, attempt)
    /\ pc = "resolve" => attempt = 0
    /\ attempt = 0 => wait = 0
    /\ wait # 0 =>
          /\ pc = "first"
          /\ LET nominal == Nominal(request.retry, attempt - 1)
             IN  wait \in nominal - nominal \div 2 .. nominal + nominal \div 2

-----------------------------------------------------------------------------
\* A request is well formed, and its own URL passed validate_url().
LEMMA RequestIsSound ==
    ASSUME NEW c \in Configurations
    PROVE  /\ c.url \in Urls /\ \A l \in Locations : Join(c.url, l) \in Urls
           /\ c.url.host \notin BlockedLiterals
           /\ c.policy.max \in Nat
           /\ c.body \in BOOLEAN /\ c.credentials \in BOOLEAN /\ c.private \in BOOLEAN
           /\ c.retry.attempts \in Nat /\ c.retry.initial \in Nat /\ c.retry.ceiling \in Nat
<1>1. c.url \in Urls /\ Refusal(ValidateUrl(c.url)) = "ok"
  BY WalkAssumption
<1>2. c.url.user \in BOOLEAN
  BY <1>1 DEF Urls
<1>3. c.url.host \notin BlockedLiterals
  BY <1>1, <1>2, ValidUrl
<1> QED
  BY <1>3, WalkAssumption

\* Joining a Location to a URL gives a URL.
LEMMA JoinIsUrl ==
    ASSUME NEW base \in Urls, NEW other \in Urls, NEW l, Join(other, l) \in Urls
    PROVE  Join(base, l) \in Urls
<1> DEFINE Fields == {"scheme", "user", "host", "port", "page"}
           joined == Join(base, l)
<1>1. DOMAIN base = Fields /\ DOMAIN other = Fields
  BY DEF Urls
<1>3. ASSUME NEW f \in Fields
      PROVE  joined[f] = Join(other, l)[f] \/ joined[f] = base[f]
  BY <1>1, <1>3 DEF Join
<1>4. /\ joined.scheme \in STRING /\ joined.user \in BOOLEAN /\ joined.host \in Hosts
      /\ joined.port \in Nat /\ joined.page \in Pages
  BY <1>3 DEF Urls
<1> HIDE DEF joined
<1>5. joined = [scheme |-> joined.scheme, user |-> joined.user, host |-> joined.host,
                port |-> joined.port, page |-> joined.page]
  <2>1. joined = [f \in Fields |-> joined[f]]
    BY <1>1 DEF Join, joined
  <2> QED
    BY <2>1
<1> QED
  BY <1>4, <1>5 DEF Urls, joined

\* What a hop that is planned has passed (request_handler.rs:619-650).
LEMMA HopPasses ==
    ASSUME NEW next \in Urls, Verdict(next) = "ok"
    PROVE  /\ next \notin Range(visited)
           /\ ~TooLong /\ ~Downgrade(next) /\ next.scheme \in {"http", "https"}
           /\ ~HostDenied(request.policy, next.host)
           /\ ~HostUnknown(request.policy, next.host)
           /\ ScopePermits(request.scope, next.host)
           /\ ~next.user /\ next.page \notin DangerousPages
           /\ next.host \notin InvalidDomains \cup ReservedDomains \cup BlockedLiterals
<1> DEFINE L == << [fails |-> Loop(next), error |-> "RedirectBlocked"] >>
           P == PolicyChecks(next)
           V == ValidateUrl(next)
           S == ScopeChecks(next)
<1>1. L \in Seq(Check) /\ Len(L) = 1 /\ (L[1].fails <=> Loop(next))
  <2>1. Loop(next) \in BOOLEAN
    BY DEF Loop
  <2> QED
    BY <2>1 DEF Check, CheckErrors
<1>2. /\ P \in Seq(Check) /\ Len(P) = 5
      /\ P[1].fails <=> TooLong
      /\ P[2].fails <=> next.scheme \notin {"http", "https"}
      /\ P[3].fails <=> Downgrade(next)
      /\ P[4].fails <=> HostDenied(request.policy, next.host)
      /\ P[5].fails <=> HostUnknown(request.policy, next.host)
  <2>1. /\ TooLong \in BOOLEAN /\ Downgrade(next) \in BOOLEAN
        /\ HostDenied(request.policy, next.host) \in BOOLEAN
        /\ HostUnknown(request.policy, next.host) \in BOOLEAN
    BY DEF TooLong, Downgrade, HostDenied, HostUnknown, MatchesAny
  <2>2. P \in Seq(Check) /\ Len(P) = 5
    BY <2>1 DEF PolicyChecks, Check, CheckErrors
  <2> QED
    BY <2>1, <2>2 DEF PolicyChecks
<1>3. S \in Seq(Check) /\ Len(S) = 1 /\ (S[1].fails <=> ~ScopePermits(request.scope, next.host))
  <2> DEFINE out == ~ScopePermits(request.scope, next.host)
  <2>1. out \in BOOLEAN /\ S = << [fails |-> out, error |-> "RedirectBlocked"] >>
    BY DEF ScopeChecks
  <2> HIDE DEF out, S
  <2>2. S \in Seq(Check) /\ Len(S) = 1 /\ (S[1].fails <=> out)
    BY <2>1 DEF Check, CheckErrors
  <2> QED
    BY <2>2 DEF out
<1>4. next.user \in BOOLEAN
  BY DEF Urls
<1>5. V \in Seq(Check)
  BY <1>4, ValidUrl
<1>6. Refusal(L \o P \o V \o S) = "ok"
  BY DEF Verdict, Checks
<1> HIDE DEF L, P, V, S
<1>7. Refusal(L) = "ok" /\ Refusal(P) = "ok" /\ Refusal(V) = "ok" /\ Refusal(S) = "ok"
  <2>1. L \o P \in Seq(Check) /\ L \o P \o V \in Seq(Check)
    BY <1>1, <1>2, <1>5, RefusalOfBoth
  <2>2. Refusal(L \o P \o V) = "ok" /\ Refusal(S) = "ok"
    BY <1>3, <1>6, <2>1, RefusalOfBoth
  <2>3. Refusal(L \o P) = "ok" /\ Refusal(V) = "ok"
    BY <1>5, <2>1, <2>2, RefusalOfBoth
  <2> QED
    BY <1>1, <1>2, <2>2, <2>3, RefusalOfBoth
<1>8. ~Loop(next)
  <2>1. \A i \in 1 .. Len(L) : ~L[i].fails
    BY <1>1, <1>7, RefusesNothing
  <2>2. 1 \in 1 .. Len(L)
    BY <1>1
  <2> QED
    BY <1>1, <2>1, <2>2
<1>9. \A i \in 1 .. 5 : ~P[i].fails
  BY <1>2, <1>7, RefusesNothing
<1>10. ScopePermits(request.scope, next.host)
  <2>1. \A i \in 1 .. Len(S) : ~S[i].fails
    BY <1>3, <1>7, RefusesNothing
  <2>2. 1 \in 1 .. Len(S)
    BY <1>3
  <2>3. ~S[1].fails
    BY <2>1, <2>2
  <2> QED
    BY <1>3, <2>3, Zenon
<1>11. Refusal(ValidateUrl(next)) = "ok"
  BY <1>7 DEF V
<1> QED
  BY <1>2, <1>4, <1>8, <1>9, <1>10, <1>11, ValidUrl DEF Loop

\* What a pin holds: nothing for a literal, else addresses that were vetted, of the
\* host and port it is for.
LEMMA PinsAreVetted ==
    ASSUME NEW url \in Urls, NEW p \in Pins(url)
    PROVE  /\ p \in APin
           /\ IF IsLiteral(url.host) THEN p = Literal
              ELSE /\ p # Literal /\ p.host = url.host /\ p.port = url.port
                   /\ p.addresses # {} /\ p.addresses \subseteq Addresses
                   /\ request.private \/ \A a \in p.addresses : ~IsBlockedIp(a)
<1>1. url.host \in Hosts /\ url.port \in Nat
  BY DEF Urls
<1>2. CASE IsLiteral(url.host)
  BY <1>2 DEF Pins, Literal, APin
<1>3. CASE ~IsLiteral(url.host)
  <2>1. PICK answer \in SUBSET Addresses :
          /\ answer # {} /\ (request.private \/ answer \cap BlockedAddresses = {})
          /\ p = [host |-> url.host, port |-> url.port, addresses |-> answer]
    BY <1>3 DEF Pins
  <2>2. p.host = url.host /\ p.port = url.port /\ p.addresses = answer
    BY <2>1
  <2>3. p \in APin
    BY <1>1, <2>1 DEF APin
  <2>4. p # Literal
    BY <2>1, <2>2 DEF Literal
  <2>5. request.private \/ \A a \in answer : ~IsBlockedIp(a)
    BY <2>1 DEF BlockedAddresses
  <2> QED
    BY <1>3, <2>1, <2>2, <2>3, <2>4, <2>5
<1> QED
  BY <1>2, <1>3

\* The URL at hand is one of the chain's.
LEMMA CurrentIsVisited ==
    ASSUME visited \in Seq(Urls), visited # <<>>
    PROVE  /\ Len(visited) \in Nat /\ Len(visited) # 0 /\ DOMAIN visited = 1 .. Len(visited)
           /\ Len(visited) \in DOMAIN visited
           /\ Current = visited[Len(visited)] /\ Current \in Urls
           /\ \A i \in DOMAIN visited : visited[i] \in Urls
BY DEF Current, Last

\* An exchange ends in an error or in a reply.
LEMMA AnswersAreTyped ==
    ASSUME Answer, WalkTypeOK
    PROVE  /\ pc' \in {"plan", "done"}
           /\ reply' \in [status : Statuses \cup {0}, location : Locations \cup {None}]
BY DEF Answer, End, WalkTypeOK

\* Nothing but PlanHop adds to the chain: the other steps keep what is said of it.
LEMMA ChainStays ==
    ASSUME IInv, UNCHANGED <<request, visited, method, credentials, body>>
    PROVE  (ChainInv /\ ChainNeverDowngrades /\ CredentialsStayHome /\ HopInv)'
<1>1. Current' = Current
  BY DEF Current
<1> QED
  BY <1>1 DEF IInv, ChainInv, ChainNeverDowngrades, CredentialsStayHome, HopInv, HostDenied,
     HostUnknown, ScopePermits, MatchesAny, Origin, IsInjective, Matching

\* At first the chain is the request's URL.
LEMMA InitIsSafe == Init => IInv
<1> SUFFICES ASSUME Init
             PROVE  IInv
  OBVIOUS
<1>1. /\ request \in Configurations /\ visited = <<request.url>>
      /\ pc = "resolve" /\ method = request.method
      /\ credentials = request.credentials /\ body = request.body
  BY DEF Init
<1>2. request.url \in Urls /\ request.url.host \notin BlockedLiterals
  BY <1>1, RequestIsSound
<1>3. /\ visited \in Seq(Urls) /\ visited # <<>> /\ DOMAIN visited = {1}
      /\ Len(visited) = 1 /\ visited[1] = request.url
  BY <1>1, <1>2
<1>4. WalkTypeOK
  <2>1. Literal \in APin
    BY DEF Literal, APin
  <2>2. reply \in [status : Statuses \cup {0}, location : Locations \cup {None}]
    BY DEF Init, NoReply
  <2>3. attempt = 0 /\ interval \in Nat /\ wait = 0 /\ pinned = Literal /\ pin = Literal
    BY <1>1, RequestIsSound DEF Init
  <2>4. credentials \in BOOLEAN /\ body \in BOOLEAN
    BY <1>1, RequestIsSound
  <2> QED
    BY <1>1, <1>3, <2>1, <2>2, <2>3, <2>4 DEF WalkTypeOK
<1>5. ChainInv
  BY <1>2, <1>3 DEF ChainInv, IsInjective
<1>6. ChainNeverDowngrades
  BY <1>3 DEF ChainNeverDowngrades
<1>7. CredentialsStayHome
  BY <1>1, <1>3 DEF CredentialsStayHome
<1>8. HopInv
  BY <1>3 DEF HopInv
<1>9. PinInv
  BY <1>1 DEF PinInv
<1> QED
  BY <1>4, <1>5, <1>6, <1>7, <1>8, <1>9 DEF IInv

\* pinned_addresses() and the retry loop
LEMMA FirstSteps == IInv /\ (Resolve \/ Retry \/ First) => IInv'
<1> SUFFICES ASSUME IInv, Resolve \/ Retry \/ First
             PROVE  IInv'
  OBVIOUS
<1>1. WalkTypeOK /\ PinInv
  BY DEF IInv
<1>2. UNCHANGED <<request, visited, method, credentials, body>>
  BY DEF Resolve, Retry, First, walk
<1>3. (ChainInv /\ ChainNeverDowngrades /\ CredentialsStayHome /\ HopInv)'
  BY <1>2, ChainStays
<1>4. request.url \in Urls /\ request.url' = request.url
  BY <1>1, <1>2, RequestIsSound DEF WalkTypeOK
<1>5. Pins(request.url)' = Pins(request.url)
  BY <1>2 DEF Pins
<1>6. CASE Resolve
  <2>1. CASE End("InvalidHost") /\ UNCHANGED <<pinned, pin>>
    <3>1. WalkTypeOK'
      BY <1>1, <1>2, <1>6, <2>1 DEF Resolve, End, WalkTypeOK, retrying
    <3>2. PinInv'
      BY <2>1 DEF PinInv, End
    <3> QED
      BY <1>3, <3>1, <3>2 DEF IInv
  <2>2. CASE pinned' \in Pins(request.url) /\ pin' = pinned' /\ pc' = "first"
    <3>1. pinned' \in APin
      BY <1>4, <2>2, PinsAreVetted
    <3>2. WalkTypeOK'
      BY <1>1, <1>2, <1>6, <2>2, <3>1 DEF Resolve, WalkTypeOK, retrying
    <3>3. visited = <<request.url>>
      BY <1>1, <1>6 DEF Resolve, PinInv
    <3>4. PinInv'
      BY <1>2, <1>5, <2>2, <3>3 DEF PinInv
    <3> QED
      BY <1>3, <3>2, <3>4 DEF IInv
  <2> QED
    BY <1>6, <2>1, <2>2 DEF Resolve
<1>7. CASE Retry
  <2>1. request.retry.attempts \in Nat /\ request.retry.ceiling \in Nat
    BY <1>1, RequestIsSound DEF WalkTypeOK
  <2>2. interval \in Nat /\ attempt \in Nat
    BY <1>1 DEF WalkTypeOK
  <2>3. wait' \in Nat
    <3>1. wait' \in interval - interval \div 2 .. interval + interval \div 2
      BY <1>7 DEF Retry, Delays
    <3> QED
      BY <2>2, <3>1
  <2>4. interval' \in Nat
    BY <1>7, <2>1, <2>2 DEF Retry, NextInterval, Multiplier
  <2>5. attempt' \in Nat /\ attempt' < request.retry.attempts
    BY <1>7, <2>2 DEF Retry
  <2>6. UNCHANGED <<request, pc, pinned, pin, visited, method, credentials, body, reply>>
    BY <1>7 DEF Retry, walk
  <2>7. WalkTypeOK'
    BY <1>1, <2>3, <2>4, <2>5, <2>6 DEF WalkTypeOK
  <2>8. PinInv'
    BY <1>1, <1>5, <1>7, <2>6 DEF PinInv, Retry
  <2> QED
    BY <1>3, <2>7, <2>8 DEF IInv
<1>8. CASE First
  <2>1. UNCHANGED <<request, attempt, pinned, pin, visited, method, credentials, body>>
        /\ interval' = 0 /\ wait' = 0 /\ pc = "first"
    BY <1>8 DEF First, walk
  <2>2. /\ pc' \in {"plan", "done"}
        /\ reply' \in [status : Statuses \cup {0}, location : Locations \cup {None}]
    BY <1>1, <1>8, AnswersAreTyped DEF First
  <2>3. WalkTypeOK'
    BY <1>1, <2>1, <2>2 DEF WalkTypeOK
  <2>4. PinInv'
    BY <1>1, <1>5, <2>1, <2>2 DEF PinInv
  <2> QED
    BY <1>3, <2>3, <2>4 DEF IInv
<1> QED
  BY <1>6, <1>7, <1>8

\* follow_chain() around a hop
LEMMA LoopSteps == IInv /\ (Arrive \/ Refuse \/ PinHop \/ Hop) => IInv'
<1> SUFFICES ASSUME IInv, Arrive \/ Refuse \/ PinHop \/ Hop
             PROVE  IInv'
  OBVIOUS
<1>1. WalkTypeOK /\ PinInv
  BY DEF IInv
<1>2. UNCHANGED <<request, attempt, interval, wait, pinned, visited, method, credentials, body>>
  BY DEF Arrive, Refuse, PinHop, Hop, walk, retrying
<1>3. (ChainInv /\ ChainNeverDowngrades /\ CredentialsStayHome /\ HopInv)'
  BY <1>2, ChainStays
<1>4. Current \in Urls /\ Current' = Current
  BY <1>1, <1>2, CurrentIsVisited DEF WalkTypeOK, Current
<1>5. /\ Pins(request.url)' = Pins(request.url)
      /\ Pins(Current)' = Pins(Current)
      /\ MayReuse(Current)' = MayReuse(Current)
  BY <1>2, <1>4 DEF Pins, MayReuse
<1>6. CASE Arrive \/ Refuse \/ Hop
  <2>1. pc' \in {"plan", "done"} /\ UNCHANGED pin /\ pc \in {"plan", "hop"}
    BY <1>1, <1>6, AnswersAreTyped DEF Arrive, Refuse, Hop, End, walk
  <2>2. reply' \in [status : Statuses \cup {0}, location : Locations \cup {None}]
    BY <1>1, <1>6, AnswersAreTyped DEF Arrive, Refuse, Hop, WalkTypeOK
  <2>3. WalkTypeOK'
    BY <1>1, <1>2, <2>1, <2>2 DEF WalkTypeOK
  <2>4. PinInv'
    BY <1>1, <1>2, <1>5, <2>1 DEF PinInv
  <2> QED
    BY <1>3, <2>3, <2>4 DEF IInv
<1>7. CASE PinHop
  <2>1. pc = "pin" /\ UNCHANGED reply
    BY <1>7 DEF PinHop
  <2>2. \/ MayReuse(Current) /\ pin' = pinned /\ pc' = "hop"
        \/ ~MayReuse(Current) /\ pin' \in Pins(Current) /\ pc' = "hop"
        \/ pc' = "done" /\ UNCHANGED pin
    BY <1>7 DEF PinHop, End
  <2>3. pin' \in APin
    BY <1>1, <1>4, <2>2, PinsAreVetted DEF WalkTypeOK
  <2>4. WalkTypeOK'
    BY <1>1, <1>2, <2>1, <2>2, <2>3 DEF WalkTypeOK
  <2>5. PinInv'
    BY <1>1, <1>2, <1>5, <2>1, <2>2 DEF PinInv
  <2> QED
    BY <1>3, <2>4, <2>5 DEF IInv
<1> QED
  BY <1>6, <1>7

\* A hop that is planned keeps what the chain promises (request_handler.rs:612-684).
LEMMA PlanningIsSafe == IInv /\ PlanHop => IInv'
<1> SUFFICES ASSUME IInv, PlanHop
             PROVE  IInv'
  OBVIOUS
<1> DEFINE next == Join(Current, reply.location)
           n    == Len(visited)
<1>1. WalkTypeOK /\ ChainInv /\ ChainNeverDowngrades /\ CredentialsStayHome /\ PinInv
  BY DEF IInv
<1>2. /\ n \in Nat /\ n # 0 /\ DOMAIN visited = 1 .. n
      /\ Current = visited[n] /\ Current \in Urls /\ n \in DOMAIN visited
      /\ \A i \in 1 .. n : visited[i] \in Urls
  BY <1>1, CurrentIsVisited DEF WalkTypeOK
<1>3. /\ pc = "plan" /\ pc' = "pin" /\ Verdict(next) = "ok" /\ reply.location # None
      /\ visited' = Append(visited, next)
      /\ method' = IF RewriteToGet(reply.status) THEN "GET" ELSE method
      /\ credentials' = (credentials /\ SameOrigin(next))
      /\ body' = (body /\ SameOrigin(next) /\ ~RewriteToGet(reply.status))
      /\ UNCHANGED <<request, attempt, interval, wait, pinned, pin, reply>>
  BY DEF PlanHop, Extended, BodyFor, retrying
<1>4. next \in Urls
  <2>1. reply.location \in Locations
    BY <1>1, <1>3 DEF WalkTypeOK
  <2>2. request.url \in Urls /\ Join(request.url, reply.location) \in Urls
    BY <1>1, <2>1, RequestIsSound DEF WalkTypeOK
  <2> QED
    BY <1>2, <2>2, JoinIsUrl
<1> HIDE DEF next
<1>5. /\ next \notin Range(visited)
      /\ ~TooLong /\ ~Downgrade(next) /\ next.scheme \in {"http", "https"}
      /\ ~HostDenied(request.policy, next.host)
      /\ ~HostUnknown(request.policy, next.host)
      /\ ScopePermits(request.scope, next.host)
      /\ ~next.user /\ next.page \notin DangerousPages
      /\ next.host \notin InvalidDomains \cup ReservedDomains \cup BlockedLiterals
  BY <1>3, <1>4, HopPasses
<1>6. /\ visited' \in Seq(Urls) /\ visited' # <<>> /\ Len(visited') = n + 1
      /\ DOMAIN visited' = 1 .. n + 1
      /\ \A i \in 1 .. n : visited'[i] = visited[i]
      /\ visited'[n + 1] = next
  BY <1>1, <1>2, <1>3, <1>4, AppendProperties, LenProperties DEF WalkTypeOK
<1>7. Current' = next
  BY <1>6 DEF Current, Last
<1> HIDE DEF n
<1>8. WalkTypeOK'
  <2>1. credentials' \in BOOLEAN /\ body' \in BOOLEAN
    BY <1>3
  <2> QED
    BY <1>1, <1>3, <1>6, <2>1 DEF WalkTypeOK
<1>9. ChainInv'
  <2>1. \A i \in 1 .. n : visited[i] # next
    BY <1>2, <1>5 DEF Range
  <2>2. \A i, j \in 1 .. n : visited[i] = visited[j] => i = j
    BY <1>1, <1>2 DEF ChainInv, IsInjective
  <2>3. \A i \in 1 .. n + 1 : i \in 1 .. n \/ i = n + 1
    BY <1>2
  <2>4. \A i, j \in 1 .. n + 1 : visited'[i] = visited'[j] => i = j
    BY <1>6, <2>1, <2>2, <2>3
  <2>5. \A i \in 1 .. n + 1 : visited'[i].host \notin BlockedLiterals
    BY <1>1, <1>2, <1>5, <1>6, <2>3 DEF ChainInv
  <2>6. visited'[1] = request'.url
    BY <1>1, <1>2, <1>3, <1>6 DEF ChainInv
  <2>7. IsInjective(visited')
    BY <1>6, <2>4 DEF IsInjective
  <2> QED
    BY <1>6, <2>5, <2>6, <2>7 DEF ChainInv
<1>10. ChainNeverDowngrades'
  <2> SUFFICES ASSUME ~request.policy.downgrade,
                      NEW i \in 1 .. n + 1, NEW j \in 1 .. n + 1, i < j,
                      visited'[i].scheme = "https"
               PROVE  visited'[j].scheme = "https"
    BY <1>3, <1>6 DEF ChainNeverDowngrades
  <2>1. i \in 1 .. n /\ visited[i].scheme = "https"
    BY <1>2, <1>6
  <2>2. CASE j \in 1 .. n
    BY <1>1, <1>2, <1>6, <2>1, <2>2 DEF ChainNeverDowngrades
  <2>3. CASE j = n + 1
    <3>1. next.scheme # "http"
      BY <1>2, <1>5, <2>1 DEF Downgrade
    <3> QED
      BY <1>5, <1>6, <2>3, <3>1
  <2> QED
    BY <1>2, <2>2, <2>3
<1>11. CredentialsStayHome'
  <2>1. ASSUME credentials' \/ body', NEW i \in 1 .. n + 1
        PROVE  Origin(visited'[i]) = Origin(request'.url)
    <3>1. (credentials \/ body) /\ Origin(Current) = Origin(next)
      BY <1>3, <2>1 DEF SameOrigin
    <3>2. \A k \in 1 .. n : Origin(visited[k]) = Origin(request.url)
      BY <1>1, <1>2, <3>1 DEF CredentialsStayHome
    <3>3. Origin(next) = Origin(request.url)
      BY <1>2, <3>1, <3>2
    <3>4. CASE i \in 1 .. n
      BY <1>3, <1>6, <3>2, <3>4
    <3>5. CASE i = n + 1
      BY <1>3, <1>6, <3>3, <3>5
    <3> QED
      BY <1>2, <3>4, <3>5
  <2>2. body' => method' = request'.method
    BY <1>1, <1>3 DEF CredentialsStayHome
  <2>3. DOMAIN visited' = 1 .. n + 1
    BY <1>6
  <2>4. (credentials' \/ body') =>
           \A i \in DOMAIN visited' : Origin(visited'[i]) = Origin(request'.url)
    BY <2>1, <2>3
  <2> QED
    BY <2>2, <2>4 DEF CredentialsStayHome, Origin
<1>12. HopInv'
  <2>1. request.policy.max \in Nat
    BY <1>1, RequestIsSound DEF WalkTypeOK
  <2>2. Len(visited') <= request.policy.max
    BY <1>2, <1>5, <1>6, <2>1 DEF TooLong, n
  <2> QED
    BY <1>3, <1>5, <1>7, <2>2 DEF HopInv, HostDenied, HostUnknown, ScopePermits, MatchesAny, Matching
<1>13. PinInv'
  <2>1. Pins(request.url)' = Pins(request.url)
    BY <1>3 DEF Pins
  <2> QED
    BY <1>1, <1>3, <2>1 DEF PinInv
<1> QED
  BY <1>8, <1>9, <1>10, <1>11, <1>12, <1>13 DEF IInv

\* The invariant is inductive.
LEMMA StepsStaySafe == IInv /\ [Next]_vars => IInv'
<1>1. IInv /\ UNCHANGED vars => IInv'
  <2> SUFFICES ASSUME IInv, UNCHANGED vars
               PROVE  IInv'
    OBVIOUS
  <2>1. UNCHANGED <<request, pc, attempt, interval, wait, pinned, pin, visited, method,
                    credentials, body, reply>>
    BY DEF vars, walk, retrying
  <2>2. (ChainInv /\ ChainNeverDowngrades /\ CredentialsStayHome /\ HopInv)'
    BY <2>1, ChainStays
  <2>3. WalkTypeOK'
    BY <2>1 DEF IInv, WalkTypeOK
  <2>4. PinInv'
    BY <2>1 DEF IInv, PinInv, Pins, MayReuse, Current
  <2> QED
    BY <2>2, <2>3, <2>4 DEF IInv
<1> QED
  BY <1>1, FirstSteps, LoopSteps, PlanningIsSafe DEF Next

\* It holds, then, always.
LEMMA WalkIsSafe == Spec => []IInv
BY InitIsSafe, StepsStaySafe, PTL DEF Spec

-----------------------------------------------------------------------------
\* A walk stays among the URLs, addresses and replies there are, and never makes
\* more attempts than its retry configuration allows.
THEOREM WalkIsWellTyped == Spec => []TypeOK
<1>1. IInv => TypeOK
  <2> SUFFICES ASSUME WalkTypeOK
               PROVE  TypeOK
    BY DEF IInv
  <2>1. \A i \in DOMAIN visited : DOMAIN visited[i] = {"scheme", "user", "host", "port", "page"}
    <3>1. \A i \in DOMAIN visited : visited[i] \in Urls
      BY CurrentIsVisited DEF WalkTypeOK
    <3> QED
      BY <3>1 DEF Urls
  <2>2. pinned.addresses \in SUBSET Addresses /\ pin.addresses \in SUBSET Addresses
    BY DEF WalkTypeOK, APin
  <2> QED
    BY <2>1, <2>2 DEF WalkTypeOK, TypeOK
<1> QED
  BY <1>1, WalkIsSafe, PTL

\* Whatever the resolver answers and however servers redirect, no connection is
\* opened but to addresses that were vetted for this host and port, or to a literal
\* that was (request_handler.rs:491-508, 920-932), with a pin of the request's own
\* that is reused or one of the hop's.
THEOREM ConnectsArePinned == Spec => []EveryConnectIsPinned
<1>1. IInv => EveryConnectIsPinned
  <2> SUFFICES ASSUME IInv, Exchanging
               PROVE  EveryConnectIsPinned
    BY DEF EveryConnectIsPinned
  <2>1. WalkTypeOK /\ ChainInv /\ PinInv
    BY DEF IInv
  <2>2. /\ Current \in Urls /\ Current.host \notin BlockedLiterals
        /\ request.url \in Urls /\ pc \in {"first", "hop"}
    BY <2>1, CurrentIsVisited, RequestIsSound DEF WalkTypeOK, ChainInv, Exchanging
  <2>3. pc = "first" => Current = request.url
    <3>1. pc = "first" => visited = <<request.url>>
      BY <2>1 DEF PinInv
    <3>2. Current = visited[Len(visited)]
      BY <2>1, CurrentIsVisited DEF WalkTypeOK
    <3>3. visited = <<request.url>> => Len(visited) = 1 /\ visited[1] = request.url
      OBVIOUS
    <3> QED
      BY <3>1, <3>2, <3>3
  <2>4. pin \in Pins(Current) \/ (pc = "hop" /\ MayReuse(Current) /\ pin = pinned)
    BY <2>1, <2>2, <2>3 DEF PinInv
  <2>5. CASE IsLiteral(Current.host)
    <3>1. Literals[Current.host] \in IpAddr /\ ~IsBlockedIp(Literals[Current.host])
      BY <2>2, <2>5, WalkAssumption DEF IsLiteral, BlockedLiterals, Range
    <3> QED
      BY <2>5, <3>1, BlockedIsInternal DEF EveryConnectIsPinned
  <2>6. CASE ~IsLiteral(Current.host)
    <3>1. /\ pin.host = Current.host /\ pin.port = Current.port
          /\ pin.addresses # {} /\ pin.addresses \subseteq Addresses
          /\ request.private \/ \A a \in pin.addresses : ~IsBlockedIp(a)
      <4>1. CASE pin \in Pins(Current)
        BY <2>2, <2>6, <4>1, PinsAreVetted
      <4>2. CASE pc = "hop" /\ MayReuse(Current) /\ pin = pinned
        <5>1. pinned \in Pins(request.url)
          BY <2>1, <4>2 DEF PinInv
        <5>2. pinned # Literal /\ pinned.host = Current.host /\ Current.port = request.url.port
          BY <4>2 DEF MayReuse
        <5> QED
          BY <2>2, <4>2, <5>1, <5>2, PinsAreVetted
      <4> QED
        BY <2>4, <4>1, <4>2
    <3>2. \A a \in pin.addresses : IsBlockedIp(a) <=> IsInternal(a)
      BY <3>1, WalkAssumption, BlockedIsInternal
    <3> QED
      BY <2>6, <3>1, <3>2 DEF EveryConnectIsPinned
  <2> QED
    BY <2>5, <2>6
<1> QED
  BY <1>1, WalkIsSafe, PTL

\* The first resolution stands for the request's own host and port, through
\* retries and when a chain comes back to them (request_handler.rs:764, 920-932).
THEOREM PinsAreStable == Spec => []PinIsStable
<1>1. IInv => PinIsStable
  <2> SUFFICES ASSUME IInv, Exchanging, Current.host = request.url.host,
                      Current.port = request.url.port
               PROVE  pin = pinned
    BY DEF PinIsStable
  <2>1. WalkTypeOK /\ PinInv
    BY DEF IInv
  <2>2. /\ Current \in Urls /\ request.url \in Urls /\ pc \in {"first", "hop"}
        /\ pinned \in Pins(request.url)
    BY <2>1, CurrentIsVisited, RequestIsSound DEF WalkTypeOK, Exchanging, PinInv
  <2>3. CASE pc = "hop" /\ ~MayReuse(Current)
    <3>1. pin \in Pins(Current)
      BY <2>1, <2>3 DEF PinInv
    <3>2. pinned = Literal
      BY <2>2, <2>3, PinsAreVetted DEF MayReuse
    <3>3. IsLiteral(request.url.host)
      BY <2>2, <3>2, PinsAreVetted
    <3> QED
      BY <2>2, <3>1, <3>2, <3>3, PinsAreVetted
  <2>4. CASE pc = "first" \/ MayReuse(Current)
    BY <2>1, <2>2, <2>4 DEF PinInv
  <2> QED
    BY <2>2, <2>3, <2>4
<1> QED
  BY <1>1, WalkIsSafe, PTL

\* Unless the policy allows it, no chain of any length goes from TLS to plaintext
\* (redirect_policy.rs:213-216).
THEOREM ChainsNeverDowngrade == Spec => []ChainNeverDowngrades
BY WalkIsSafe, PTL DEF IInv

\* Credentials and body stay with the origin they were given for, and a body with
\* its method, along every chain (request_handler.rs:652-673).
THEOREM CredentialsNeverLeaveHome == Spec => []CredentialsStayHome
BY WalkIsSafe, PTL DEF IInv

\* An element of two lists is one of either.
LEMMA OfEither ==
    ASSUME NEW a \in Seq(Check), NEW b \in Seq(Check), NEW i \in 1 .. Len(a \o b)
    PROVE  (a \o b)[i] \in Range(a) \cup Range(b)
<1>1. /\ Len(a \o b) = Len(a) + Len(b) /\ Len(a) \in Nat /\ Len(b) \in Nat
      /\ DOMAIN a = 1 .. Len(a) /\ DOMAIN b = 1 .. Len(b)
      /\ (a \o b)[i] = IF i <= Len(a) THEN a[i] ELSE b[i - Len(a)]
  BY ConcatProperties, LenProperties
<1>2. IF i <= Len(a) THEN i \in 1 .. Len(a) ELSE i - Len(a) \in 1 .. Len(b)
  BY <1>1
<1> QED
  BY <1>1, <1>2 DEF Range

\* Nothing but its length has a hop refused as one too many (redirect_policy.rs:202).
LEMMA OneTooMany ==
    ASSUME NEW next \in Urls, Verdict(next) = "TooManyRedirects"
    PROVE  TooLong
<1> DEFINE L == << [fails |-> Loop(next), error |-> "RedirectBlocked"] >>
           P == PolicyChecks(next)
           V == ValidateUrl(next)
           S == ScopeChecks(next)
           C == L \o P \o V \o S
<1>1. /\ L \in Seq(Check) /\ P \in Seq(Check) /\ S \in Seq(Check)
      /\ \A one \in Range(L) \cup Range(V) \cup Range(S) : one.error # "TooManyRedirects"
      /\ \A one \in Range(P) : one.error = "TooManyRedirects" => (one.fails => TooLong)
  <2>1. /\ Loop(next) \in BOOLEAN /\ TooLong \in BOOLEAN /\ Downgrade(next) \in BOOLEAN
        /\ HostDenied(request.policy, next.host) \in BOOLEAN
        /\ HostUnknown(request.policy, next.host) \in BOOLEAN
    BY DEF Loop, TooLong, Downgrade, HostDenied, HostUnknown, MatchesAny
  <2> DEFINE out == ~ScopePermits(request.scope, next.host)
  <2>2. out \in BOOLEAN /\ S = << [fails |-> out, error |-> "RedirectBlocked"] >>
    BY DEF ScopeChecks
  <2>3. L \in Seq(Check) /\ P \in Seq(Check)
    BY <2>1 DEF PolicyChecks, Check, CheckErrors
  <2>4. \A one \in Range(L) : one.error # "TooManyRedirects"
    BY DEF Range
  <2>5. \A one \in Range(V) : one.error # "TooManyRedirects"
    BY DEF ValidateUrl, Range
  <2>6. \A one \in Range(P) : one.error = "TooManyRedirects" => (one.fails => TooLong)
    BY DEF PolicyChecks, Range
  <2> HIDE DEF out, L, P, V, S
  <2>7. S \in Seq(Check) /\ \A one \in Range(S) : one.error # "TooManyRedirects"
    BY <2>2 DEF Check, CheckErrors, Range
  <2> QED
    BY <2>3, <2>4, <2>5, <2>6, <2>7
<1>2. V \in Seq(Check)
  <2>1. next.user \in BOOLEAN
    BY DEF Urls
  <2> QED
    BY <2>1, ValidUrl
<1>3. Refusal(C) = "TooManyRedirects"
  BY DEF Verdict, Checks
<1> HIDE DEF L, P, V, S
<1>4. /\ L \o P \in Seq(Check) /\ L \o P \o V \in Seq(Check) /\ C \in Seq(Check)
  BY <1>1, <1>2, RefusalOfBoth
<1>5. PICK i \in 1 .. Len(C) : C[i].fails /\ C[i].error = "TooManyRedirects"
  BY <1>3, <1>4, RefusesNothing
<1>6. C[i] \in Range(L \o P \o V) \cup Range(S)
  BY <1>1, <1>4, OfEither
<1>7. \A a, b \in Seq(Check) : Range(a \o b) \subseteq Range(a) \cup Range(b)
  <2> SUFFICES ASSUME NEW a \in Seq(Check), NEW b \in Seq(Check), NEW k \in DOMAIN (a \o b)
               PROVE  (a \o b)[k] \in Range(a) \cup Range(b)
    BY DEF Range
  <2>1. DOMAIN (a \o b) = 1 .. Len(a \o b)
    BY RefusalOfBoth, LenProperties
  <2> QED
    BY <2>1, OfEither
<1>8. Range(L \o P \o V) \subseteq Range(L) \cup Range(P) \cup Range(V)
  BY <1>1, <1>2, <1>4, <1>7
<1>9. C[i] \in Range(P)
  BY <1>1, <1>5, <1>6, <1>8
<1> QED
  BY <1>1, <1>5, <1>9

\* A walk that was given up as too long was: it had as many URLs as the policy's
\* maximum.
LEMMA GivenUpLate == Spec => [](outcome = "TooManyRedirects" => TooLong)
<1> DEFINE Late == outcome = "TooManyRedirects" => TooLong
<1>1. Init => Late
  BY DEF Init
<1>2. IInv /\ Late /\ [Next]_vars => Late'
  <2> SUFFICES ASSUME IInv, Late, [Next]_vars
               PROVE  Late'
    OBVIOUS
  <2>1. /\ Len(visited) \in Nat /\ request.policy.max \in Nat /\ Current \in Urls
        /\ reply.location # None => Join(Current, reply.location) \in Urls
    <3>1. request.policy.max \in Nat /\ request.url \in Urls
      BY RequestIsSound DEF IInv, WalkTypeOK
    <3>2. Len(visited) \in Nat /\ Current \in Urls
      BY CurrentIsVisited DEF IInv, WalkTypeOK
    <3>3. ASSUME reply.location # None
          PROVE  Join(Current, reply.location) \in Urls
      <4>1. reply.location \in Locations
        BY <3>3 DEF IInv, WalkTypeOK
      <4>2. Join(request.url, reply.location) \in Urls
        BY <4>1, RequestIsSound DEF IInv, WalkTypeOK
      <4> QED
        BY <3>1, <3>2, <4>2, JoinIsUrl
    <3> QED
      BY <3>1, <3>2, <3>3
  <2>2. CASE Refuse
    <3>1. UNCHANGED <<request, visited>>
      BY <2>2 DEF Refuse, walk
    <3>2. outcome' = "TooManyRedirects" => TooLong
      BY <2>1, <2>2, OneTooMany DEF Refuse, End
    <3> QED
      BY <3>1, <3>2 DEF TooLong
  <2>3. CASE PlanHop
    <3>1. /\ outcome' = outcome /\ request' = request
          /\ visited' = Append(visited, Join(Current, reply.location))
          /\ reply.location # None
      BY <2>3 DEF PlanHop, Extended
    <3>2. Len(visited') = Len(visited) + 1
      BY <2>1, <3>1, AppendProperties, LenProperties DEF IInv, WalkTypeOK
    <3> QED
      BY <2>1, <3>1, <3>2 DEF TooLong
  <2>4. ASSUME UNCHANGED <<request, visited>>,
               outcome' \in {outcome, "ok", "InvalidHost", "RequestFailed"}
        PROVE  Late'
    BY <2>4 DEF TooLong
  <2>5. CASE Resolve \/ PinHop
    BY <2>4, <2>5 DEF Resolve, PinHop, End
  <2>6. CASE Retry \/ First \/ Hop \/ Arrive
    BY <2>4, <2>6 DEF Retry, First, Hop, Arrive, Answer, End, walk
  <2>7. CASE UNCHANGED vars
    BY <2>4, <2>7 DEF vars, walk
  <2> QED
    BY <2>2, <2>3, <2>5, <2>6, <2>7 DEF Next
<1> QED
  BY <1>1, <1>2, WalkIsSafe, PTL DEF Spec

\* Where the decoder finds what the pages hide, every chain is made of hops that lists
\* and scope permit label by label and the URL rules accept, comes nowhere twice, stays
\* below its policy's maximum and is given up as too long only when it would come to it
\* (redirect_policy.rs:180-250, 294-300).
THEOREM ChainsAreAcceptable == TraversalIsFound => (Spec => []ChainIsAcceptable)
<1> SUFFICES ASSUME TraversalIsFound
             PROVE  Spec => []ChainIsAcceptable
  OBVIOUS
<1>1. \A patterns, host : MatchesAny(patterns, host) <=> Listed(patterns, host)
  BY PatternsMatchByLabels DEF MatchesAny, Listed
<1>2. IInv /\ (outcome = "TooManyRedirects" => TooLong) => ChainIsAcceptable
  <2> SUFFICES ASSUME IInv, outcome = "TooManyRedirects" => TooLong
               PROVE  ChainIsAcceptable
    OBVIOUS
  <2>1. WalkTypeOK /\ ChainInv /\ HopInv
    BY DEF IInv
  <2>2. IsInjective(visited)
    BY <2>1 DEF ChainInv
  <2>3. Len(visited) \in Nat /\ request.policy.max \in Nat
    BY <2>1, CurrentIsVisited, RequestIsSound DEF WalkTypeOK
  <2>4. ASSUME Hops > 0
        PROVE  /\ Hops < request.policy.max
               /\ ~Listed(request.policy.denied, Current.host)
               /\ ~Listed(request.scope.deny, Current.host)
               /\ \/ Listed(request.policy.allowed, Current.host)
                  \/ request.policy.any /\ ~request.policy.track
               /\ Listed(request.scope.allow, Current.host) \/ ~request.scope.closed
               /\ ~Current.user /\ Current.page \notin TraversingPages
               /\ Current.host \notin InternalNames
    <3>1. Len(visited) > 1 /\ Hops < Len(visited)
      BY <2>3, <2>4 DEF Hops
    <3>2. /\ Len(visited) <= request.policy.max
          /\ ~HostDenied(request.policy, Current.host)
          /\ ~HostUnknown(request.policy, Current.host)
          /\ ScopePermits(request.scope, Current.host)
          /\ ~Current.user /\ Current.page \notin DangerousPages
          /\ Current.host \notin InvalidDomains \cup ReservedDomains
      BY <2>1, <3>1 DEF HopInv
    <3>3. Hops < request.policy.max
      BY <2>3, <3>1, <3>2 DEF Hops
    <3>4. Current.page \notin TraversingPages /\ Current.host \notin InternalNames
      BY <3>2, InternalNamesAreReserved DEF TraversalIsFound
    <3>5. /\ ~Listed(request.policy.denied, Current.host)
          /\ \/ Listed(request.policy.allowed, Current.host)
             \/ request.policy.any /\ ~request.policy.track
      BY <1>1, <3>2 DEF HostDenied, HostUnknown
    <3>6. /\ ~Listed(request.scope.deny, Current.host)
          /\ Listed(request.scope.allow, Current.host) \/ ~request.scope.closed
      BY <1>1, <3>2 DEF ScopePermits
    <3> QED
      BY <3>2, <3>3, <3>4, <3>5, <3>6
  <2>5. ASSUME NEW A, NEW B, NEW host, ~Listed(A, host), ~Listed(B, host)
        PROVE  ~Listed(A \cup B, host)
    BY <2>5 DEF Listed
  <2>6. outcome = "TooManyRedirects" => Hops + 1 >= request.policy.max
    BY <2>3 DEF TooLong, Hops
  <2> QED
    BY <2>2, <2>4, <2>5, <2>6 DEF ChainIsAcceptable
<1> QED
  BY <1>2, WalkIsSafe, GivenUpLate, PTL

-----------------------------------------------------------------------------
\* A power of two is the one before it, twice: 2 ^ n sets can be made of n numbers,
\* and the next number may be added to each or not.
LEMMA PowersDouble ==
    /\ 2 ^ 0 = 1
    /\ \A n \in Nat : 2 ^ n \in Nat /\ 2 ^ (n + 1) = 2 * 2 ^ n
<1>1. ASSUME NEW n \in Nat
      PROVE  /\ IsFiniteSet(SUBSET (1 .. n)) /\ 2 ^ n \in Nat
             /\ Cardinality(SUBSET (1 .. n)) = 2 ^ n
  <2>1. IsFiniteSet(1 .. n) /\ Cardinality(1 .. n) = n
    BY FS_Interval
  <2>2. IsFiniteSet(SUBSET (1 .. n)) /\ Cardinality(SUBSET (1 .. n)) = 2 ^ n
    BY <2>1, FS_SUBSET, Zenon
  <2> QED
    BY <2>2, FS_CardinalityType, Zenon
<1>2. 2 ^ 0 = 1
  <2>1. SUBSET (1 .. 0) = {{}}
    OBVIOUS
  <2>2. Cardinality(SUBSET (1 .. 0)) = 1
    BY <2>1, FS_Singleton, Zenon
  <2> QED
    BY <1>1, <2>2
<1>3. ASSUME NEW n \in Nat
      PROVE  2 ^ (n + 1) = 2 * 2 ^ n
  <2> DEFINE old == SUBSET (1 .. n)
             new == {s \cup {n + 1} : s \in old}
             add == [s \in old |-> s \cup {n + 1}]
  <2>1. \A s \in old : n + 1 \notin s
    OBVIOUS
  <2>2. SUBSET (1 .. n + 1) = old \cup new
    <3>1. 1 .. n + 1 = (1 .. n) \cup {n + 1}
      OBVIOUS
    <3>2. ASSUME NEW t \in SUBSET (1 .. n + 1)
          PROVE  t \in old \cup new
      <4>1. CASE n + 1 \notin t
        BY <3>1, <3>2, <4>1
      <4>2. CASE n + 1 \in t
        <5>1. t \ {n + 1} \in old /\ t = (t \ {n + 1}) \cup {n + 1}
          BY <3>1, <3>2, <4>2
        <5> QED
          BY <5>1
      <4> QED
        BY <4>1, <4>2
    <3>3. old \cup new \subseteq SUBSET (1 .. n + 1)
      BY <3>1
    <3> QED
      BY <3>2, <3>3
  <2>3. old \cap new = {}
    BY <2>1
  <2>4. add \in Bijection(old, new)
    <3>1. add \in [old -> new] /\ \A t \in new : \E s \in old : add[s] = t
      OBVIOUS
    <3>2. ASSUME NEW s \in old, NEW t \in old, add[s] = add[t]
          PROVE  s = t
      <4>1. s = add[s] \ {n + 1} /\ t = add[t] \ {n + 1}
        BY <2>1
      <4> QED
        BY <3>2, <4>1
    <3> QED
      BY <3>1, <3>2 DEF Bijection, Injection, Surjection, IsInjective
  <2>5. IsFiniteSet(old) /\ Cardinality(old) = 2 ^ n /\ 2 ^ n \in Nat
    BY <1>1
  <2>6. Cardinality(SUBSET (1 .. n + 1)) = 2 ^ (n + 1)
    <3>1. n + 1 \in Nat
      OBVIOUS
    <3> QED
      BY <1>1, <3>1
  <2> HIDE DEF old, new, add
  <2>7. IsFiniteSet(new) /\ Cardinality(new) = Cardinality(old)
    <3>1. ExistsBijection(old, new)
      BY <2>4 DEF ExistsBijection
    <3> QED
      BY <2>5, <3>1, FS_Bijection
  <2>8. Cardinality(old \cup new) = Cardinality(old) + Cardinality(new) - Cardinality({})
    BY <2>3, <2>5, <2>7, FS_Union
  <2>9. Cardinality({}) = 0
    BY FS_EmptySet
  <2>10. \A a \in Nat : a + a - 0 = 2 * a
    OBVIOUS
  <2>11. Cardinality(old \cup new) = 2 * 2 ^ n
    BY <2>5, <2>7, <2>8, <2>9, <2>10, Zenon
  <2> QED
    BY <2>2, <2>6, <2>11, Zenon
<1> QED
  BY <1>1, <1>2, <1>3

\* One retry takes the schedule one step further.
LEMMA ScheduleAdvances ==
    ASSUME WalkTypeOK, interval = Nominal(request.retry, attempt)
    PROVE  NextInterval = Nominal(request.retry, attempt + 1)
<1> DEFINE initial == request.retry.initial
           ceiling == request.retry.ceiling
           power   == 2 ^ attempt
           double  == 2 ^ (attempt + 1)
           long    == initial * power
<1>1. initial \in Nat /\ ceiling \in Nat /\ attempt \in Nat
  BY RequestIsSound DEF WalkTypeOK
<1>2. power \in Nat /\ double = 2 * power
  BY <1>1, PowersDouble
<1>3. attempt = 0 => power = 1
  BY PowersDouble
<1>4. NextInterval = IF interval * Multiplier >= ceiling THEN ceiling ELSE interval * Multiplier
  BY DEF NextInterval
<1>5. CASE request.retry.exponential
  <2>1. /\ Multiplier = 2
        /\ interval = IF attempt > 0 /\ long > ceiling THEN ceiling ELSE long
        /\ Nominal(request.retry, attempt + 1)
             = IF attempt + 1 > 0 /\ initial * double > ceiling THEN ceiling ELSE initial * double
    BY <1>5 DEF Multiplier, Nominal
  <2>2. long \in Nat /\ initial * double = 2 * long
    <3>1. \A a, b \in Nat : a * b \in Nat /\ a * (2 * b) = 2 * (a * b)
      OBVIOUS
    <3> HIDE DEF power, double
    <3> QED
      BY <1>1, <1>2, <3>1
  <2> HIDE DEF initial, ceiling, power, double, long
  <2> QED
    BY <1>1, <1>4, <2>1, <2>2
<1>6. CASE ~request.retry.exponential
  <2>1. /\ Multiplier = 1
        /\ interval = IF attempt > 0 /\ initial > ceiling THEN ceiling ELSE initial
        /\ Nominal(request.retry, attempt + 1)
             = IF attempt + 1 > 0 /\ initial > ceiling THEN ceiling ELSE initial
    BY <1>6 DEF Multiplier, Nominal
  <2> HIDE DEF initial, ceiling, power, double, long
  <2> QED
    BY <1>1, <1>4, <2>1
<1> QED
  BY <1>5, <1>6

\* Init begins the schedule, and every step keeps to it.
LEMMA InitBeginsSchedule == Init => ScheduleInv
<1> SUFFICES ASSUME Init
             PROVE  ScheduleInv
  OBVIOUS
<1>1. /\ request \in Configurations /\ pc = "resolve" /\ attempt = 0 /\ wait = 0
      /\ interval = request.retry.initial
  BY DEF Init
<1>2. request.retry.initial \in Nat
  BY <1>1, RequestIsSound
<1>3. Nominal(request.retry, 0) = request.retry.initial
  <2>1. \A a \in Nat : a * 1 = a
    OBVIOUS
  <2> QED
    BY <1>2, <2>1, PowersDouble DEF Nominal
<1> QED
  BY <1>1, <1>3 DEF ScheduleInv

LEMMA StepsKeepSchedule == IInv /\ ScheduleInv /\ [Next]_vars => ScheduleInv'
<1> SUFFICES ASSUME IInv, ScheduleInv, [Next]_vars
             PROVE  ScheduleInv'
  OBVIOUS
<1>1. WalkTypeOK /\ attempt \in Nat
  BY DEF IInv, WalkTypeOK
<1>2. CASE Retry
  <2>1. /\ pc = "first" /\ pc' = "first" /\ request' = request
        /\ attempt' = attempt + 1 /\ wait' \in Delays /\ interval' = NextInterval
    BY <1>2 DEF Retry
  <2>2. interval = Nominal(request.retry, attempt)
    BY <2>1 DEF ScheduleInv
  <2>3. interval' = Nominal(request'.retry, attempt')
    BY <1>1, <2>1, <2>2, ScheduleAdvances
  <2>4. attempt' # 0 /\ attempt' - 1 = attempt
    BY <1>1, <2>1
  <2>5. Nominal(request.retry, attempt)' = Nominal(request'.retry, attempt')
    BY DEF Nominal
  <2>6. Nominal(request.retry, attempt - 1)' = Nominal(request.retry, attempt)
    BY <2>1, <2>4 DEF Nominal
  <2> DEFINE nominal == Nominal(request.retry, attempt - 1)
  <2>7. wait' \in nominal' - nominal' \div 2 .. nominal' + nominal' \div 2
    BY <2>1, <2>2, <2>6 DEF Delays
  <2> QED
    BY <2>1, <2>3, <2>4, <2>5, <2>7 DEF ScheduleInv
<1>3. CASE Resolve
  <2>1. /\ pc = "resolve" /\ pc' \in {"first", "done"}
        /\ UNCHANGED <<request, attempt, interval, wait>>
    BY <1>3 DEF Resolve, End, retrying
  <2> QED
    BY <2>1 DEF ScheduleInv, Nominal
<1>4. CASE First
  <2>1. wait' = 0 /\ pc' \in {"plan", "done"}
    BY <1>1, <1>4, AnswersAreTyped DEF First
  <2> QED
    BY <2>1 DEF ScheduleInv
<1>5. CASE Arrive \/ Refuse \/ PlanHop \/ PinHop \/ Hop
  <2>1. pc \in {"plan", "pin", "hop"} /\ wait' = wait
    BY <1>5 DEF Arrive, Refuse, PlanHop, PinHop, Hop, retrying
  <2>2. pc' \in {"plan", "pin", "hop", "done"}
    BY <1>1, <1>5, AnswersAreTyped DEF Arrive, Refuse, PlanHop, PinHop, Hop, End
  <2> QED
    BY <2>1, <2>2 DEF ScheduleInv
<1>6. CASE UNCHANGED vars
  BY <1>6 DEF vars, retrying, ScheduleInv, Nominal
<1> QED
  BY <1>2, <1>3, <1>4, <1>5, <1>6 DEF Next

\* However often a request is retried, with whatever delays configured, each wait is
\* within half of the backoff crate's schedule, which the ceiling caps from the second
\* wait on (retry.rs:40-52, 97-110).
THEOREM WaitsAreScheduled == Spec => []WaitsFollowTheSchedule
<1>1. IInv /\ ScheduleInv => WaitsFollowTheSchedule
  <2> SUFFICES ASSUME IInv, ScheduleInv, wait # 0
               PROVE  WaitsFollowTheSchedule
    BY DEF WaitsFollowTheSchedule
  <2>1. attempt \in Nat /\ attempt # 0
    BY DEF IInv, WalkTypeOK, ScheduleInv
  <2>2. attempt - 1 > 0 <=> attempt > 1
    BY <2>1
  <2> QED
    BY <2>2 DEF ScheduleInv, Nominal, WaitsFollowTheSchedule
<1>2. Spec => []ScheduleInv
  BY InitBeginsSchedule, StepsKeepSchedule, WalkIsSafe, PTL DEF Spec
<1> QED
  BY <1>1, <1>2, WalkIsSafe, PTL

-----------------------------------------------------------------------------
\* What there is to be known of a chain for the outline: a reply that is looked at
\* is one, and whoever is in a chain has left the first URL, as the policy allows.
OutlineInv ==
    /\ pc = "plan" => reply.status \in Statuses
    /\ pc \in {"pin", "hop"} => Len(visited) > 1
    /\ Len(visited) > 1 => request.policy.follow

LEMMA InitIsOutlined == Init => OutlineInv /\ Outline!ExchangeInit
<1> SUFFICES ASSUME Init
             PROVE  OutlineInv /\ Outline!ExchangeInit
  OBVIOUS
<1>1. /\ request \in Configurations /\ pc = "resolve" /\ attempt = 0
      /\ visited = <<request.url>> /\ Len(visited) = 1
  BY DEF Init
<1>2. request.url \in Urls
  BY <1>1, RequestIsSound
<1>3. StageOf = "resolve"
  BY <1>1 DEF StageOf
<1> QED
  BY <1>1, <1>2, <1>3 DEF OutlineInv, Outline!ExchangeInit

\* The last URL of a chain that was entered is not the first.
LEMMA ChainHasLeft ==
    ASSUME IInv, Len(visited) > 1
    PROVE  Current \in Urls \ {request.url}
<1>1. visited \in Seq(Urls) /\ visited # <<>> /\ visited[1] = request.url /\ IsInjective(visited)
  BY DEF IInv, WalkTypeOK, ChainInv
<1>2. Current = visited[Len(visited)] /\ Current \in Urls /\ DOMAIN visited = 1 .. Len(visited)
  BY <1>1, CurrentIsVisited
<1>3. 1 \in DOMAIN visited /\ Len(visited) \in DOMAIN visited /\ Len(visited) # 1
  BY <1>1, <1>2
<1> QED
  BY <1>1, <1>2, <1>3 DEF IsInjective

\* A reply that is looked at: it ends the exchange, or leads on.
LEMMA ReplyIsOutlined ==
    ASSUME IInv, OutlineInv, pc \in {"first", "hop"}, Answer,
           UNCHANGED <<request, attempt, visited>>
    PROVE  OutlineInv' /\ [Outline!ExchangeNext]_Outline!exchangeVars
<1>1. visited \in Seq(Urls) /\ visited # <<>> /\ Len(visited) \in Nat /\ Current' = Current
  BY DEF IInv, WalkTypeOK, Current
<1>2. StageOf = IF pc = "first" THEN "attempt" ELSE "chain"
  BY DEF StageOf
<1>3. CASE End("RequestFailed")
  <2>1. StageOf' = "failed" /\ pc' = "done"
    BY <1>3 DEF End, StageOf
  <2>2. OutlineInv'
    BY <2>1 DEF OutlineInv
  <2>3. Outline!Fail
    BY <1>2, <2>1 DEF Outline!Fail
  <2> QED
    BY <2>2, <2>3 DEF Outline!ExchangeNext
<1>4. CASE pc' = "plan" /\ reply'.status \in Statuses
  <2>1. OutlineInv'
    BY <1>4 DEF OutlineInv
  <2>2. Redirected' <=> request.policy.follow /\ reply'.status \in Outline!Redirects
    BY DEF Redirected, IsRedirect, Outline!Redirects
  <2>3. CASE Redirected'
    <3>1. StageOf' = "chain"
      BY <1>4, <2>3 DEF StageOf
    <3>2. pc = "first" => Outline!BeginChain
      BY <1>2, <2>2, <2>3, <3>1 DEF Outline!BeginChain
    <3>3. pc = "hop" => UNCHANGED Outline!exchangeVars
      BY <1>2, <3>1 DEF Outline!exchangeVars
    <3> QED
      BY <2>1, <3>2, <3>3 DEF Outline!ExchangeNext
  <2>4. CASE ~Redirected'
    <3> DEFINE final == [status |-> reply'.status, url |-> Current]
    <3>1. StageOf' = "answered"
      BY <1>4, <2>4 DEF StageOf
    <3>2. ASSUME NEW statuses, NEW urls, reply'.status \in statuses, Current \in urls
          PROVE  Outline!Answer(statuses, urls)
      BY <1>1, <3>1, <3>2 DEF Outline!Answer
    <3>3. CASE pc = "first"
      <4>1. Current = request.url
        <5>1. visited = <<request.url>>
          BY <3>3 DEF IInv, PinInv
        <5> QED
          BY <5>1 DEF Current, Last
      <4>2. Outline!Reply
        BY <1>2, <1>4, <2>2, <2>4, <3>2, <3>3, <4>1 DEF Outline!Reply
      <4> QED
        BY <2>1, <4>2 DEF Outline!ExchangeNext
    <3>4. CASE pc = "hop"
      <4>1. Len(visited) > 1 /\ request.policy.follow
        BY <3>4 DEF OutlineInv
      <4>2. Current \in Urls \ {request.url}
        BY <4>1, ChainHasLeft
      <4>3. reply'.status \in Statuses \ Outline!Redirects
        BY <1>4, <2>2, <2>4, <4>1
      <4>4. Outline!EndChain
        BY <1>2, <3>2, <3>4, <4>2, <4>3 DEF Outline!EndChain
      <4> QED
        BY <2>1, <4>4 DEF Outline!ExchangeNext
    <3> QED
      BY <3>3, <3>4
  <2> QED
    BY <2>3, <2>4
<1> QED
  BY <1>3, <1>4 DEF Answer

LEMMA StepsAreOutlined ==
    IInv /\ OutlineInv /\ [Next]_vars => OutlineInv' /\ [Outline!ExchangeNext]_Outline!exchangeVars
<1> SUFFICES ASSUME IInv, OutlineInv, [Next]_vars
             PROVE  OutlineInv' /\ [Outline!ExchangeNext]_Outline!exchangeVars
  OBVIOUS
<1>1. visited \in Seq(Urls) /\ visited # <<>> /\ Len(visited) \in Nat
  BY DEF IInv, WalkTypeOK
<1>2. CASE Resolve
  <2>1. /\ pc = "resolve" /\ UNCHANGED <<request, attempt, visited>>
        /\ \/ pc' = "first"
           \/ pc' = "done" /\ outcome' = "InvalidHost"
    BY <1>2 DEF Resolve, End, retrying
  <2>2. StageOf = "resolve" /\ StageOf' = IF pc' = "first" THEN "attempt" ELSE "failed"
    BY <2>1 DEF StageOf
  <2>3. Outline!FindName \/ Outline!Fail
    BY <2>1, <2>2 DEF Outline!FindName, Outline!Fail
  <2>4. OutlineInv'
    BY <2>1 DEF OutlineInv
  <2> QED
    BY <2>3, <2>4 DEF Outline!ExchangeNext
<1>3. CASE Retry
  <2>1. /\ pc = "first" /\ pc' = "first" /\ UNCHANGED <<request, visited>>
        /\ attempt + 1 < request.retry.attempts /\ attempt' = attempt + 1
    BY <1>3 DEF Retry, walk
  <2>2. StageOf = "attempt" /\ StageOf' = "attempt"
    BY <2>1 DEF StageOf
  <2>3. Outline!TryAgain
    BY <2>1, <2>2 DEF Outline!TryAgain
  <2>4. OutlineInv'
    BY <2>1 DEF OutlineInv
  <2> QED
    BY <2>3, <2>4 DEF Outline!ExchangeNext
<1>4. CASE First \/ Hop
  BY <1>4, ReplyIsOutlined DEF First, Hop, walk, retrying
<1>5. CASE Arrive
  <2>1. /\ pc = "plan" /\ ~Redirected /\ pc' = "done" /\ outcome' = "ok"
        /\ UNCHANGED <<request, attempt, visited, reply>>
    BY <1>5 DEF Arrive, End, walk, retrying
  <2>2. StageOf = "answered" /\ StageOf' = "answered" /\ Current' = Current
    BY <2>1 DEF StageOf, Current
  <2>3. UNCHANGED Outline!exchangeVars
    BY <2>1, <2>2 DEF Outline!exchangeVars
  <2>4. OutlineInv'
    BY <2>1 DEF OutlineInv
  <2> QED
    BY <2>3, <2>4
<1>6. CASE Refuse
  <2>1. /\ pc = "plan" /\ Redirected /\ pc' = "done" /\ outcome' # "ok"
        /\ UNCHANGED <<request, attempt, visited>>
    BY <1>6 DEF Refuse, End, walk, retrying
  <2>2. StageOf = "chain" /\ StageOf' = "failed"
    BY <2>1 DEF StageOf
  <2>3. Outline!Fail
    BY <2>1, <2>2 DEF Outline!Fail
  <2>4. OutlineInv'
    BY <2>1 DEF OutlineInv
  <2> QED
    BY <2>3, <2>4 DEF Outline!ExchangeNext
<1>7. CASE PlanHop
  <2>1. /\ pc = "plan" /\ Redirected /\ pc' = "pin" /\ UNCHANGED <<request, attempt>>
        /\ visited' = Append(visited, Join(Current, reply.location))
    BY <1>7 DEF PlanHop, Extended, retrying
  <2>2. StageOf = "chain" /\ StageOf' = "chain"
    BY <2>1 DEF StageOf
  <2>3. UNCHANGED Outline!exchangeVars
    BY <2>1, <2>2 DEF Outline!exchangeVars
  <2>4. Len(visited') > 1 /\ request.policy.follow
    <3>1. Len(visited') = Len(visited) + 1 /\ Len(visited) # 0
      BY <1>1, <2>1
    <3> QED
      BY <1>1, <2>1, <3>1 DEF Redirected
  <2>5. OutlineInv'
    BY <2>1, <2>4 DEF OutlineInv
  <2> QED
    BY <2>3, <2>5
<1>8. CASE PinHop
  <2>1. /\ pc = "pin" /\ UNCHANGED <<request, attempt, visited>>
        /\ \/ pc' = "hop"
           \/ pc' = "done" /\ outcome' = "InvalidHost"
    BY <1>8 DEF PinHop, End, retrying
  <2>2. StageOf = "chain" /\ StageOf' = IF pc' = "hop" THEN "chain" ELSE "failed"
    BY <2>1 DEF StageOf
  <2>3. Outline!Fail \/ UNCHANGED Outline!exchangeVars
    BY <2>1, <2>2 DEF Outline!exchangeVars, Outline!Fail
  <2>4. OutlineInv'
    BY <2>1 DEF OutlineInv
  <2> QED
    BY <2>3, <2>4 DEF Outline!ExchangeNext
<1>9. CASE UNCHANGED vars
  <2>1. UNCHANGED <<request, pc, attempt, visited, reply, outcome>>
    BY <1>9 DEF vars, walk, retrying
  <2>2. UNCHANGED <<StageOf, Current>>
    BY <2>1 DEF StageOf, Current, Redirected
  <2> QED
    BY <2>1, <2>2 DEF OutlineInv, Outline!exchangeVars
<1> QED
  BY <1>2, <1>3, <1>4, <1>5, <1>6, <1>7, <1>8, <1>9 DEF Next

\* Whatever the chain does, execute_inner() has from it what it counts on: few enough
\* attempts, and an answer of the URL it asked or, after a redirect it follows, one of
\* another URL that redirects no further (request_handler.rs:757-840, 888-948).
THEOREM WalkIsExchange == Spec => IsExchange
<1>1. IInv /\ OutlineInv /\ [Next]_vars => OutlineInv' /\ [Outline!ExchangeNext]_Outline!exchangeVars
  BY StepsAreOutlined
<1> QED
  BY <1>1, InitIsOutlined, WalkIsSafe, PTL DEF Spec, IsExchange, Outline!ExchangeSpec
===============================================================================
