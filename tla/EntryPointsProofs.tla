--------------------------- MODULE EntryPointsProofs ---------------------------
(***************************************************************************)
(* For any calls, interceptors and resolver: a connection is to a vetted   *)
(* address of the one answer, unless interceptors set the two hosts of a   *)
(* request apart; connections and hops are within the scope it is left     *)
(* with; and a WebSocket tries the answer's addresses in order, none       *)
(* skipped.                                                                *)
(***************************************************************************)
EXTENDS EntryPoints, UrlRulesProofs

Reachable == Addresses \cup Range(Literals)

EntryTypeOK ==
    /\ call \in Calls
    /\ pc \in {"create", "intercept", "validate", "resolve", "connect", "exchange", "done"}
    /\ url \in Hosts \cup {None} /\ parsed \in Hosts \cup {None}
    /\ validator.allow \cup validator.deny \subseteq Listable
    /\ redirects.allowed \cup redirects.denied \subseteq Listable
    /\ private \in BOOLEAN
    /\ answer \in Answers \cup {<<>>}
    /\ left \in Seq(Reachable)
    /\ dialed \in Seq([host : Hosts, address : Reachable])
    /\ hop \in Hosts \cup {None}
    /\ outcome = "pending" <=> pc # "done"

\* What is known of a request while it is under way.
MadeInv ==
    /\ pc \in {"create", "intercept", "validate", "resolve"} => answer = <<>> /\ dialed = <<>>
    /\ pc \notin {"create", "done"} =>
          /\ parsed \in Hosts \ BlockedLiterals
          /\ url \in Hosts

\* What may be dialed was vetted.
VettedInv ==
    pc = "connect" =>
       IF IsLiteral(parsed) THEN Range(left) \subseteq {Literals[parsed]} /\ answer = <<>>
       ELSE /\ answer \in Answers
            /\ Range(left) \subseteq Range(answer)
            /\ private \/ Range(answer) \cap InternalAddresses = {}

\* A WebSocket goes through its answer: what it dialed comes first, what is left
\* after that, and it goes on as long as something is left.
SocketInv ==
    call.via = "websocket" =>
       /\ pc = "connect" => left # <<>>
       /\ answer # <<>> /\ (pc = "connect" \/ dialed # <<>>) =>
             /\ Len(dialed) + Len(left) = Len(Distinct(answer))
             /\ \A i \in 1 .. Len(dialed) : dialed[i].address = Distinct(answer)[i]
             /\ \A i \in 1 .. Len(left) : left[i] = Distinct(answer)[Len(dialed) + i]
             /\ outcome = "WebSocketError" => left = <<>>

IInv == EntryTypeOK /\ MadeInv /\ VettedInv /\ DialedWereVetted /\ SocketInv

-----------------------------------------------------------------------------
\* Distinct() keeps the first occurrence of every address, in order.
LEMMA DistinctKeepsOrder ==
    ASSUME NEW s \in Seq(Addresses)
    PROVE  /\ Distinct(s) \in Seq(Addresses)
           /\ \E pos \in [1 .. Len(Distinct(s)) -> News(s)] :
                 /\ \A n \in 1 .. Len(Distinct(s)) : Distinct(s)[n] = s[pos[n]]
                 /\ \A m, n \in 1 .. Len(Distinct(s)) : m < n => pos[m] < pos[n]
                 /\ \A i \in News(s) : \E n \in 1 .. Len(Distinct(s)) : pos[n] = i
<1> DEFINE new == News(s)
           size == Cardinality(new)
           pos == [n \in 1 .. size |-> Nth(new, n)]
<1>1. new \in SUBSET (1 .. Len(s)) /\ Len(s) \in Nat
  BY DEF News
<1> HIDE DEF new
<1>2. IsFiniteSet(new) /\ new \in SUBSET Nat
  <2>1. IsFiniteSet(1 .. Len(s)) /\ 1 .. Len(s) \subseteq Nat
    BY <1>1, FS_Interval
  <2> QED
    BY <1>1, <2>1, FS_Subset
<1>3. /\ size \in Nat
      /\ \A n \in 1 .. size : pos[n] \in new
      /\ \A m, n \in 1 .. size : m < n => pos[m] < pos[n]
      /\ \A i \in new : \E n \in 1 .. size : pos[n] = i
  BY <1>2, NthInOrder
<1>4. Distinct(s) = [n \in 1 .. size |-> s[pos[n]]]
  BY DEF Distinct, new
<1> HIDE DEF size
<1>5. pos \in [1 .. size -> new]
  BY <1>3 DEF pos
<1> HIDE DEF pos
<1>6. \A n \in 1 .. size : s[pos[n]] \in Addresses
  <2>1. \A i \in 1 .. Len(s) : s[i] \in Addresses
    OBVIOUS
  <2> QED
    BY <1>1, <1>3, <2>1
<1>7. Distinct(s) \in Seq(Addresses) /\ Len(Distinct(s)) = size
  <2>1. DOMAIN Distinct(s) = 1 .. size /\ Distinct(s) \in [1 .. size -> Addresses]
    BY <1>4, <1>6
  <2> QED
    BY <1>3, <2>1
<1> QED
  BY <1>3, <1>4, <1>5, <1>7 DEF new

\* What an answer says has a first position.
LEMMA EveryoneIsNewOnce ==
    ASSUME NEW s \in Seq(Addresses), NEW i \in 1 .. Len(s)
    PROVE  \E j \in News(s) : j \in 1 .. i /\ s[j] = s[i]
<1> DEFINE same == {j \in 1 .. Len(s) : s[j] = s[i]}
<1>1. same \in SUBSET Nat /\ i \in same
  OBVIOUS
<1>2. PICK j \in same : \A k \in same : j <= k
  BY <1>1, FirstOf
<1>3. j \in 1 .. i /\ j \in 1 .. Len(s) /\ s[j] = s[i]
  BY <1>1, <1>2
<1>4. \A k \in 1 .. j - 1 : k \in 1 .. Len(s) /\ ~(j <= k)
  BY <1>3
<1>5. j \in News(s)
  BY <1>2, <1>3, <1>4 DEF News
<1> QED
  BY <1>3, <1>5

\* Distinct() loses no address and makes none up (url_validation.rs:295-319).
LEMMA DistinctIsComplete ==
    ASSUME NEW s \in Seq(Addresses), s # <<>>
    PROVE  Distinct(s) \in Seq(Addresses) /\ Distinct(s) # <<>> /\ Range(Distinct(s)) = Range(s)
<1>1. PICK pos \in [1 .. Len(Distinct(s)) -> News(s)] :
         /\ \A n \in 1 .. Len(Distinct(s)) : Distinct(s)[n] = s[pos[n]]
         /\ \A i \in News(s) : \E n \in 1 .. Len(Distinct(s)) : pos[n] = i
  BY DistinctKeepsOrder
<1>2. Distinct(s) \in Seq(Addresses) /\ News(s) \subseteq 1 .. Len(s)
  BY DistinctKeepsOrder DEF News
<1>3. DOMAIN Distinct(s) = 1 .. Len(Distinct(s)) /\ DOMAIN s = 1 .. Len(s)
  BY <1>2
<1>4. \A n \in 1 .. Len(Distinct(s)) : pos[n] \in 1 .. Len(s)
  BY <1>1, <1>2
<1>5. ASSUME NEW i \in 1 .. Len(s)
      PROVE  \E n \in 1 .. Len(Distinct(s)) : Distinct(s)[n] = s[i]
  BY <1>1, EveryoneIsNewOnce
<1>6. Range(Distinct(s)) = Range(s)
  <2>1. ASSUME NEW a \in Range(Distinct(s))
        PROVE  a \in Range(s)
    <3>1. PICK n \in 1 .. Len(Distinct(s)) : a = Distinct(s)[n]
      BY <1>3 DEF Range
    <3> QED
      BY <1>1, <1>3, <1>4, <3>1 DEF Range
  <2>2. ASSUME NEW a \in Range(s)
        PROVE  a \in Range(Distinct(s))
    <3>1. PICK i \in 1 .. Len(s) : a = s[i]
      BY <1>3 DEF Range
    <3>2. PICK n \in 1 .. Len(Distinct(s)) : Distinct(s)[n] = s[i]
      BY <1>5
    <3> QED
      BY <1>3, <3>1, <3>2 DEF Range
  <2> QED
    BY <2>1, <2>2
<1>7. 1 \in 1 .. Len(s)
  OBVIOUS
<1>8. Distinct(s) # <<>>
  BY <1>5, <1>7
<1> QED
  BY <1>2, <1>6, <1>8

-----------------------------------------------------------------------------
\* The fields of a call.
LEMMA CallIsWellFormed ==
    ASSUME NEW c \in Calls
    PROVE  /\ c.target.user \in BOOLEAN /\ c.optIn \in BOOLEAN
           /\ c.target.host \in Hosts \cup {None} /\ c.base \in Hosts \cup {None}
           /\ c.rewrites \subseteq Hosts
           /\ c.via = "websocket" => c.rewrites = {} /\ ~c.replaces
<1>1. /\ c \in CallFields
      /\ c.via = "websocket" => c.rewrites = {} /\ ~c.replaces
  BY EntryAssumption
<1>2. /\ c.target \in [scheme : {"http", "https", "ws", "wss", "ftp"}, user : BOOLEAN,
                      host : Hosts \cup {None}, port : {0, 443}, page : Pages]
      /\ c.optIn \in BOOLEAN /\ c.base \in Hosts \cup {None} /\ c.rewrites \subseteq Hosts
  BY <1>1 DEF CallFields
<1> QED
  BY <1>1, <1>2

\* A request that is made has a host, and one that may be reached
\* (url_validation.rs:499-553).
LEMMA TargetIsSound ==
    ASSUME NEW c \in Calls
    PROVE  /\ Refusals[c] = "ok" => Target(c) \in Hosts \ (BlockedLiterals \cup InvalidDomains)
           /\ Refusals[c] # "ok" => Refusals[c] \in CheckErrors
<1> DEFINE seen == [c.target EXCEPT !.host = Target(c), !.scheme = WebSocketTarget(@)]
           socket == c.via = "websocket" /\ seen = c.target
           homeless == Target(c) = None
           first == << [fails |-> socket, error |-> "InvalidScheme"],
                       [fails |-> homeless, error |-> "MissingConfig"] >>
<1>1. TargetChecks(c) = first \o ValidateUrl(seen) /\ Refusals[c] = Refusal(TargetChecks(c))
  BY DEF TargetChecks, Refusals
<1>2. seen.user \in BOOLEAN /\ seen.host = Target(c)
  <2>1. c.target \in [scheme : {"http", "https", "ws", "wss", "ftp"}, user : BOOLEAN,
                      host : Hosts \cup {None}, port : {0, 443}, page : Pages]
    BY EntryAssumption DEF CallFields
  <2> QED
    BY <2>1
<1>3. socket \in BOOLEAN /\ homeless \in BOOLEAN /\ (homeless <=> Target(c) = None)
  OBVIOUS
<1> HIDE DEF seen, socket, homeless
<1>4. first \in Seq(Check) /\ Len(first) = 2 /\ (first[2].fails <=> homeless)
  BY <1>3 DEF Check, CheckErrors
<1>5. ValidateUrl(seen) \in Seq(Check)
  BY <1>2, ValidUrl
<1> HIDE DEF first
<1>6. /\ first \o ValidateUrl(seen) \in Seq(Check)
      /\ Refusal(first \o ValidateUrl(seen)) = "ok" <=>
            Refusal(first) = "ok" /\ Refusal(ValidateUrl(seen)) = "ok"
  BY <1>4, <1>5, RefusalOfBoth
<1>7. ASSUME Refusals[c] = "ok"
      PROVE  Target(c) \in Hosts \ (BlockedLiterals \cup InvalidDomains)
  <2>1. Refusal(first) = "ok" /\ Refusal(ValidateUrl(seen)) = "ok"
    BY <1>1, <1>6, <1>7
  <2>2. Target(c) \notin BlockedLiterals \cup InvalidDomains
    BY <1>2, <2>1, ValidUrl
  <2>3. Target(c) # None
    BY <1>3, <1>4, <2>1, RefusesNothing
  <2> QED
    BY <2>2, <2>3, CallIsWellFormed DEF Target
<1>8. Refusals[c] # "ok" => Refusals[c] \in CheckErrors
  BY <1>1, <1>6, RefusesNothing
<1> QED
  BY <1>7, <1>8

\* What a request's scope and policy list are normalized patterns.
LEMMA RequestIsListable ==
    ASSUME NEW made \in Requests
    PROVE  /\ made.scope.allow \cup made.scope.deny \subseteq Listable
           /\ made.policy.allowed \cup made.policy.denied \subseteq Listable
<1>1. PICK c \in Calls : /\ Refusals[c] = "ok"
                         /\ made.scope = ScopeFor(c) /\ made.policy = GetRedirectPolicy(c)
  BY DEF Requests
<1>2. /\ \A host \in Hosts \cup InternalPatterns : NormalizeHost(host) \in Listable
      /\ Target(c) \in Hosts
  BY <1>1, EntryAssumption, TargetIsSound DEF Listable
<1>3. ScopeFor(c).allow \subseteq Listable /\ ScopeFor(c).deny \subseteq Listable
  <2> DEFINE own == WithAllowList(NewScope(TRUE), {Target(c)})
  <2>1. /\ NewScope(FALSE).allow = {} /\ NewScope(FALSE).deny = {}
        /\ own.allow = {NormalizeHost(Target(c))} /\ own.deny = {}
    BY DEF NewScope, WithAllowList
  <2>2. /\ WithDenyList(own, InternalPatterns).allow = own.allow
        /\ WithDenyList(own, InternalPatterns).deny
             = {NormalizeHost(host) : host \in InternalPatterns}
    BY <2>1 DEF WithDenyList, WithAllowList, NewScope
  <2>3. ScopeFor(c) \in {NewScope(FALSE), own, WithDenyList(own, InternalPatterns)}
    BY DEF ScopeFor
  <2>4. own.allow \subseteq Listable
    BY <1>2, <2>1
  <2>5. {NormalizeHost(host) : host \in InternalPatterns} \subseteq Listable
    BY <1>2
  <2> HIDE DEF own
  <2>6. CASE ScopeFor(c) = NewScope(FALSE)
    BY <2>1, <2>6
  <2>7. CASE ScopeFor(c) = own
    BY <2>1, <2>4, <2>7
  <2>8. CASE ScopeFor(c) = WithDenyList(own, InternalPatterns)
    BY <2>2, <2>4, <2>5, <2>8
  <2> QED
    BY <2>3, <2>6, <2>7, <2>8
<1>4. GetRedirectPolicy(c).allowed \subseteq Listable /\ GetRedirectPolicy(c).denied \subseteq Listable
  <2> DEFINE seeded == IF c.base = None THEN DefaultPolicy ELSE AllowHost(DefaultPolicy, c.base)
  <2>1. /\ DefaultPolicy.allowed = {} /\ DefaultPolicy.denied = {}
        /\ AllowHost(DefaultPolicy, c.base).allowed = {NormalizeHost(c.base)}
        /\ AllowHost(DefaultPolicy, c.base).denied = {}
    BY DEF AllowHost, DefaultPolicy
  <2>2. c.base # None => NormalizeHost(c.base) \in Listable
    BY <1>2, CallIsWellFormed
  <2>3. seeded.allowed \subseteq Listable /\ seeded.denied \subseteq Listable
    BY <2>1, <2>2
  <2>4. {"allowed", "denied"} \subseteq DOMAIN seeded
    BY DEF AllowHost, DefaultPolicy
  <2>5. GetRedirectPolicy(c) = IF c.follows THEN FollowRedirects(seeded) ELSE seeded
    BY DEF GetRedirectPolicy
  <2> HIDE DEF seeded
  <2>6. FollowRedirects(seeded).allowed = seeded.allowed
    BY <2>4 DEF FollowRedirects
  <2>7. FollowRedirects(seeded).denied = seeded.denied
    BY <2>4 DEF FollowRedirects
  <2> QED
    BY <2>3, <2>5, <2>6, <2>7
<1> QED
  BY <1>1, <1>3, <1>4

\* What interceptors put in their place lists normalized patterns, too.
LEMMA ReplacementsAreListable ==
    ASSUME NEW c \in Calls
    PROVE  /\ \A scope \in OtherScopes(c) : scope.allow \cup scope.deny \subseteq Listable
           /\ \A policy \in OtherPolicies(c) : policy.allowed \cup policy.denied \subseteq Listable
<1>1. \A host \in c.rewrites : NormalizeHost(host) \in Listable
  BY CallIsWellFormed, EntryAssumption DEF Listable
<1>2. ASSUME NEW scope \in OtherScopes(c)
      PROVE  scope.allow \cup scope.deny \subseteq Listable
  <2>1. CASE scope = NewScope(FALSE)
    BY <2>1 DEF NewScope
  <2>2. ASSUME NEW host \in c.rewrites, scope = WithAllowList(NewScope(TRUE), {host})
        PROVE  scope.allow \cup scope.deny \subseteq Listable
    <3>1. scope.allow = {NormalizeHost(host)} /\ scope.deny = {}
      BY <2>2 DEF WithAllowList, NewScope
    <3> QED
      BY <1>1, <3>1
  <2> QED
    BY <2>1, <2>2 DEF OtherScopes
<1>3. ASSUME NEW policy \in OtherPolicies(c)
      PROVE  policy.allowed \cup policy.denied \subseteq Listable
  <2>1. CASE policy = Relaxed(1)
    BY <2>1 DEF Relaxed, DefaultPolicy
  <2>2. ASSUME NEW host \in c.rewrites,
               policy = FollowRedirects(AllowHost(DefaultPolicy, host))
        PROVE  policy.allowed \cup policy.denied \subseteq Listable
    <3>1. policy.allowed = {NormalizeHost(host)} /\ policy.denied = {}
      BY <2>2 DEF FollowRedirects, AllowHost, DefaultPolicy
    <3> QED
      BY <1>1, <3>1
  <2> QED
    BY <2>1, <2>2 DEF OtherPolicies
<1> QED
  BY <1>2, <1>3

\* What is not blocked is not internal (url_validation.rs:194-289).
LEMMA NotBlocked ==
    ASSUME NEW a \in Reachable
    PROVE  IsBlockedIp(a) <=> a \in InternalAddresses
<1>1. a \in IpAddr
  BY EntryAssumption DEF Reachable
<1> QED
  BY <1>1, BlockedIsInternal DEF InternalAddresses, Reachable

\* A literal's address.
LEMMA LiteralIsReachable ==
    ASSUME NEW host, IsLiteral(host)
    PROVE  Literals[host] \in Reachable
BY DEF IsLiteral, Reachable, Range

-----------------------------------------------------------------------------
LEMMA InitEstablishes == Init => IInv
<1> SUFFICES ASSUME Init
             PROVE  IInv
  OBVIOUS
<1> USE DEF Init
<1>1. EntryTypeOK
  <2>1. validator.allow = {} /\ validator.deny = {}
    BY DEF NewScope
  <2>2. redirects.allowed = {} /\ redirects.denied = {}
    BY DEF DefaultPolicy
  <2>3. /\ left \in Seq(Reachable)
        /\ dialed \in Seq([host : Hosts, address : Reachable])
    OBVIOUS
  <2>4. outcome = "pending" /\ pc = "create"
    OBVIOUS
  <2> QED
    BY <2>1, <2>2, <2>3, <2>4 DEF EntryTypeOK
<1>2. MadeInv
  BY DEF MadeInv
<1>3. VettedInv
  BY DEF VettedInv
<1>4. DialedWereVetted
  BY DEF DialedWereVetted, Range
<1>5. SocketInv
  BY DEF SocketInv
<1> QED
  BY <1>1, <1>2, <1>3, <1>4, <1>5 DEF IInv

\* A call that ends as it is keeps the invariant; a WebSocket's own failure comes
\* only before its first address or after its last one.
LEMMA EndingKeepsInv ==
    ASSUME IInv, NEW result, result # "pending", result = "WebSocketError" => dialed = <<>>,
           End(result), UNCHANGED <<call, request, answer, left, dialed>>,
           hop' \in Hosts \cup {None}
    PROVE  IInv'
<1> USE DEF End, request
<1>1. EntryTypeOK'
  BY DEF IInv, EntryTypeOK
<1>2. MadeInv'
  BY DEF MadeInv
<1>3. VettedInv'
  BY DEF VettedInv
<1>4. DialedWereVetted'
  BY DEF IInv, DialedWereVetted, Vetted
<1>5. SocketInv'
  BY DEF IInv, SocketInv
<1> QED
  BY <1>1, <1>2, <1>3, <1>4, <1>5 DEF IInv

LEMMA RefuseKeepsInv ==
    ASSUME IInv, Refuse
    PROVE  IInv'
<1>1. Refusals[call] \in CheckErrors
  BY TargetIsSound DEF IInv, EntryTypeOK, Refuse
<1>2. Refusals[call] # "pending" /\ Refusals[call] # "WebSocketError"
  BY <1>1 DEF CheckErrors
<1>3. End(Refusals[call]) /\ UNCHANGED <<call, request, answer, left, dialed, hop>>
  BY DEF Refuse
<1>4. hop' \in Hosts \cup {None}
  BY <1>3 DEF IInv, EntryTypeOK
<1> QED
  BY <1>2, <1>3, <1>4, EndingKeepsInv

LEMMA CreateKeepsInv ==
    ASSUME IInv, Create
    PROVE  IInv'
<1> USE DEF Create, Goto
<1>1. /\ call \in Calls /\ answer = <<>> /\ dialed = <<>>
      /\ pc' \in {"resolve", "intercept"} /\ outcome' = "pending"
  BY DEF IInv, EntryTypeOK, MadeInv
<1>2. Target(call) \in Hosts \ BlockedLiterals /\ call.optIn \in BOOLEAN
  BY <1>1, TargetIsSound, CallIsWellFormed
<1>3. EntryTypeOK'
  <2>1. PICK made \in Requests : validator' = made.scope /\ redirects' = made.policy
    OBVIOUS
  <2>2. /\ (validator.allow \cup validator.deny)' \subseteq Listable
        /\ (redirects.allowed \cup redirects.denied)' \subseteq Listable
    BY <2>1, RequestIsListable
  <2> QED
    BY <1>1, <1>2, <2>2 DEF IInv, EntryTypeOK
<1>4. MadeInv'
  BY <1>1, <1>2 DEF MadeInv
<1>5. VettedInv'
  BY <1>1 DEF VettedInv
<1>6. DialedWereVetted'
  BY <1>1, <1>2 DEF DialedWereVetted, Range
<1>7. SocketInv'
  BY <1>1 DEF SocketInv
<1> QED
  BY <1>3, <1>4, <1>5, <1>6, <1>7 DEF IInv

LEMMA InterceptKeepsInv ==
    ASSUME IInv, Intercept
    PROVE  IInv'
<1>1. CASE End("Interceptor") /\ UNCHANGED request
  <2>1. hop' \in Hosts \cup {None}
    BY DEF IInv, EntryTypeOK, Intercept
  <2>2. UNCHANGED <<call, request, answer, left, dialed>>
    BY <1>1 DEF Intercept, request
  <2> QED
    BY <1>1, <2>1, <2>2, EndingKeepsInv
<1>2. CASE Goto("validate") /\ Retarget
  <2>1. /\ UNCHANGED <<call, answer, left, dialed, hop>>
        /\ pc = "intercept" /\ pc' = "validate" /\ outcome' = outcome /\ call \in Calls
    BY <1>2 DEF Intercept, Goto, IInv, EntryTypeOK
  <2>2. /\ url' \in Hosts /\ parsed' \in Hosts \ BlockedLiterals
        /\ answer = <<>> /\ dialed = <<>>
    BY <1>2, <2>1, CallIsWellFormed DEF IInv, MadeInv, Retarget
  <2>3. /\ validator' \in {validator} \cup OtherScopes(call)
        /\ redirects' \in {redirects} \cup OtherPolicies(call)
        /\ private' = private \/ (call.replaces /\ private' = TRUE)
    BY <1>2 DEF Retarget
  <2>4. EntryTypeOK'
    <3>1. /\ (validator.allow \cup validator.deny)' \subseteq Listable
          /\ (redirects.allowed \cup redirects.denied)' \subseteq Listable
      BY <2>1, <2>3, ReplacementsAreListable DEF IInv, EntryTypeOK
    <3>2. private' \in BOOLEAN
      BY <2>3 DEF IInv, EntryTypeOK
    <3> QED
      BY <2>1, <2>2, <3>1, <3>2 DEF IInv, EntryTypeOK
  <2>5. MadeInv'
    BY <2>1, <2>2 DEF IInv, MadeInv
  <2>6. VettedInv'
    BY <2>1 DEF VettedInv
  <2>7. DialedWereVetted'
    <3>1. url' # parsed' => {url', parsed'} \cap call.rewrites # {}
      BY <1>2 DEF IInv, DialedWereVetted, Retarget
    <3>2. private' => call.optIn \/ call.replaces
      BY <2>3 DEF IInv, DialedWereVetted
    <3> QED
      BY <2>1, <2>2, <3>1, <3>2 DEF DialedWereVetted, Range
  <2>8. SocketInv'
    BY <2>1, <2>2 DEF SocketInv
  <2> QED
    BY <2>4, <2>5, <2>6, <2>7, <2>8 DEF IInv
<1> QED
  BY <1>1, <1>2 DEF Intercept

LEMMA ValidateKeepsInv ==
    ASSUME IInv, Validate
    PROVE  IInv'
<1>1. UNCHANGED <<call, request, answer, left, dialed, hop>> /\ hop' \in Hosts \cup {None}
  BY DEF IInv, EntryTypeOK, Validate
<1>2. CASE End("RedirectBlocked")
  BY <1>1, <1>2, EndingKeepsInv
<1>3. CASE End("HeaderError")
  BY <1>1, <1>3, EndingKeepsInv
<1>4. CASE Goto("resolve")
  <2>1. /\ UNCHANGED <<call, url, parsed, validator, private, redirects>>
        /\ UNCHANGED <<answer, left, dialed, hop, outcome>>
        /\ pc = "validate" /\ pc' = "resolve"
    BY <1>1, <1>4 DEF Goto, request, Validate
  <2>2. answer = <<>> /\ dialed = <<>>
    BY <2>1 DEF IInv, MadeInv
  <2>3. EntryTypeOK'
    BY <2>1 DEF IInv, EntryTypeOK
  <2>4. MadeInv'
    BY <2>1 DEF IInv, MadeInv
  <2>5. VettedInv'
    BY <2>1 DEF VettedInv
  <2>6. DialedWereVetted'
    BY <2>1, <2>2 DEF IInv, DialedWereVetted, Range
  <2>7. SocketInv'
    BY <2>1, <2>2 DEF SocketInv
  <2> QED
    BY <2>3, <2>4, <2>5, <2>6, <2>7 DEF IInv
<1> QED
  BY <1>2, <1>3, <1>4 DEF Validate

\* Where nothing was dialed, Resolve settles what may be (request_handler.rs:510-557,
\* streaming.rs:76-80, websocket.rs:75-87).
LEMMA ResolveKeepsInv ==
    ASSUME IInv, Resolve
    PROVE  IInv'
<1>1. /\ UNCHANGED <<call, url, parsed, validator, private, redirects, dialed, hop>>
      /\ pc = "resolve" /\ answer = <<>> /\ dialed = <<>>
      /\ parsed \in Hosts \ BlockedLiterals /\ Len(dialed) = 0
      /\ outcome = "pending"
  BY DEF IInv, EntryTypeOK, MadeInv, Resolve, request
<1>2. ASSUME pc' \in {"connect", "done"}, outcome' = "pending" <=> pc' # "done",
             answer' \in Answers \cup {<<>>}, left' \in Seq(Reachable)
      PROVE  EntryTypeOK' /\ MadeInv' /\ DialedWereVetted'
  <2>1. EntryTypeOK'
    BY <1>1, <1>2 DEF IInv, EntryTypeOK
  <2>2. MadeInv'
    BY <1>1, <1>2 DEF IInv, MadeInv
  <2>3. DialedWereVetted'
    BY <1>1 DEF IInv, DialedWereVetted, Range
  <2> QED
    BY <2>1, <2>2, <2>3
<1>3. left \in Seq(Reachable)
  BY DEF IInv, EntryTypeOK
<1>4. CASE IsLiteral(parsed) /\ left' = <<Literals[parsed]>> /\ Goto("connect") /\ UNCHANGED answer
  <2>1. Literals[parsed] \in Reachable /\ pc' = "connect" /\ outcome' = "pending"
    BY <1>1, <1>4, LiteralIsReachable DEF Goto
  <2>2. left' \in Seq(Reachable) /\ Range(left') = {Literals[parsed]} /\ left' # <<>>
    BY <1>4, <2>1 DEF Range
  <2>3. VettedInv'
    BY <1>1, <1>4, <2>2 DEF VettedInv, IsLiteral
  <2>4. SocketInv'
    BY <1>1, <1>4, <2>2 DEF SocketInv
  <2> QED
    BY <1>1, <1>2, <1>4, <2>1, <2>2, <2>3, <2>4 DEF IInv
<1>5. CASE ~IsLiteral(parsed) /\ End("InvalidHost") /\ UNCHANGED <<answer, left>>
  <2>1. VettedInv' /\ SocketInv'
    BY <1>1, <1>5 DEF VettedInv, SocketInv, End
  <2> QED
    BY <1>1, <1>2, <1>3, <1>5, <2>1 DEF IInv, End
<1>6. CASE /\ ~IsLiteral(parsed) /\ answer' \in Answers
           /\ Blocked(answer') /\ ~private
           /\ End("PrivateNetworkAccess") /\ UNCHANGED left
  <2>1. VettedInv' /\ SocketInv'
    BY <1>1, <1>6 DEF VettedInv, SocketInv, End
  <2> QED
    BY <1>1, <1>2, <1>3, <1>6, <2>1 DEF IInv, End
<1>7. CASE /\ ~IsLiteral(parsed) /\ answer' \in Answers
           /\ ~Blocked(answer') \/ private
           /\ Goto("connect") /\ left' = Distinct(answer')
  <2> DEFINE D == Distinct(answer')
  <2>1. answer' \in Seq(Addresses) /\ answer' # <<>>
    BY <1>7, EntryAssumption
  <2>2. D \in Seq(Addresses) /\ Range(D) = Range(answer') /\ D # <<>>
    BY <2>1, DistinctIsComplete
  <2>3. D \in Seq(Reachable) /\ Range(answer') \subseteq Addresses
    BY <2>1, <2>2 DEF Reachable, Range
  <2>4. private \/ Range(answer') \cap InternalAddresses = {}
    <3>1. ASSUME NEW a \in Range(answer'), a \in InternalAddresses
          PROVE  a \in BlockedAddresses
      BY <2>3, <3>1, NotBlocked DEF Reachable, BlockedAddresses
    <3> QED
      BY <1>1, <1>7, <3>1 DEF Blocked
  <2>5. VettedInv'
    BY <1>1, <1>7, <2>2, <2>4 DEF VettedInv, IsLiteral, InternalAddresses
  <2>6. SocketInv'
    <3>1. Len(left') \in Nat /\ Len(left') = Len(Distinct(answer'))
      BY <1>7, <2>2
    <3>2. pc' = "connect" /\ outcome' = "pending" /\ left' # <<>> /\ dialed' = <<>>
      BY <1>1, <1>7, <2>2 DEF Goto
    <3>3. \A i \in 1 .. Len(left') : left'[i] = Distinct(answer')[Len(dialed') + i]
      BY <1>7, <3>1, <3>2
    <3>4. Len(dialed') = 0
      BY <3>2
    <3> QED
      BY <3>1, <3>2, <3>3, <3>4 DEF SocketInv
  <2>7. left' \in Seq(Reachable)
    BY <1>7, <2>3
  <2> HIDE DEF D
  <2>8. EntryTypeOK' /\ MadeInv' /\ DialedWereVetted'
    BY <1>1, <1>2, <1>7, <2>7 DEF Goto
  <2> QED
    BY <2>5, <2>6, <2>8 DEF IInv
<1> QED
  BY <1>4, <1>5, <1>6, <1>7 DEF Resolve

LEMMA SetUpFailsKeepsInv ==
    ASSUME IInv, SetUpFails
    PROVE  IInv'
<1>1. /\ UNCHANGED <<call, request, answer, left, dialed, hop>> /\ dialed = <<>>
      /\ hop' \in Hosts \cup {None}
  BY DEF IInv, EntryTypeOK, SetUpFails
<1>2. CASE End("InvalidConfiguration")
  BY <1>1, <1>2, EndingKeepsInv
<1>3. CASE End("WebSocketError")
  BY <1>1, <1>3, EndingKeepsInv
<1> QED
  BY <1>2, <1>3 DEF SetUpFails

\* One more connection.
LEMMA DialedGrows ==
    ASSUME dialed \in Seq([host : Hosts, address : Reachable]), NEW d,
           d \in [host : Hosts, address : Reachable], dialed' = Append(dialed, d)
    PROVE  /\ dialed' \in Seq([host : Hosts, address : Reachable])
           /\ Len(dialed) \in Nat /\ Len(dialed') = Len(dialed) + 1
           /\ \A i \in 1 .. Len(dialed) : dialed'[i] = dialed[i]
           /\ dialed'[Len(dialed) + 1] = d
           /\ Range(dialed') = Range(dialed) \cup {d}
<1>1. /\ dialed' \in Seq([host : Hosts, address : Reachable])
      /\ Len(dialed) \in Nat /\ Len(dialed') = Len(dialed) + 1
      /\ \A i \in 1 .. Len(dialed) : dialed'[i] = dialed[i]
      /\ dialed'[Len(dialed) + 1] = d
  BY AppendProperties
<1>2. DOMAIN dialed = 1 .. Len(dialed) /\ DOMAIN dialed' = 1 .. Len(dialed) + 1
  BY <1>1
<1>3. \A i : i \in 1 .. Len(dialed) + 1 <=> i \in 1 .. Len(dialed) \/ i = Len(dialed) + 1
  BY <1>1
<1>4. Range(dialed') = Range(dialed) \cup {d}
  BY <1>1, <1>2, <1>3 DEF Range
<1> QED
  BY <1>1, <1>4

\* A connection keeps DialedWereVetted if what it is to was vetted.
LEMMA VettedStaysVetted ==
    ASSUME IInv, pc = "connect", NEW d, d \in [host : Hosts, address : Reachable],
           dialed' = Append(dialed, d), UNCHANGED <<call, url, parsed, private, answer>>,
           d.host = url,
           url = parsed =>
              d.address \in IF IsLiteral(parsed) THEN {Literals[parsed]} ELSE Range(left)
    PROVE  DialedWereVetted'
<1>1. Range(dialed') = Range(dialed) \cup {d} /\ parsed \in Hosts \ BlockedLiterals
  BY DialedGrows DEF IInv, EntryTypeOK, MadeInv
<1>2. ASSUME IsLiteral(parsed)
      PROVE  Literals[parsed] \notin InternalAddresses
  BY <1>1, <1>2, LiteralIsReachable, NotBlocked DEF BlockedLiterals, IsLiteral
<1>3. ASSUME ~IsLiteral(parsed)
      PROVE  /\ Range(left) \subseteq Range(answer)
             /\ private \/ Range(answer) \cap InternalAddresses = {}
  BY <1>3 DEF IInv, VettedInv
<1>4. ASSUME NEW e \in Range(dialed'), url = parsed
      PROVE  Vetted(e)
  <2>1. CASE e \in Range(dialed)
    BY <1>4, <2>1 DEF IInv, DialedWereVetted
  <2>2. CASE e = d
    BY <1>2, <1>3, <1>4, <2>2 DEF Vetted
  <2> QED
    BY <1>1, <2>1, <2>2
<1>5. \A e : Vetted(e)' <=> Vetted(e)
  BY DEF Vetted
<1>6. \A e \in Range(dialed') : Vetted(e)' \/ url' # parsed'
  BY <1>4, <1>5
<1> QED
  BY <1>6 DEF IInv, DialedWereVetted

LEMMA DialKeepsInv ==
    ASSUME IInv, Dial
    PROVE  IInv'
<1>1. /\ UNCHANGED <<call, url, parsed, validator, private, redirects, answer, left, hop>>
      /\ pc = "connect" /\ call.via # "websocket" /\ parsed \in Hosts /\ url \in Hosts
      /\ dialed \in Seq([host : Hosts, address : Reachable]) /\ left \in Seq(Reachable)
      /\ outcome = "pending"
  BY DEF IInv, EntryTypeOK, MadeInv, Dial, request
<1>2. PICK address \in Destinations :
         dialed' = Append(dialed, [host |-> url, address |-> address])
  BY DEF Dial
<1> DEFINE d == [host |-> url, address |-> address]
<1>3. Range(left) \subseteq Reachable
  BY <1>1 DEF Range
<1>4. address \in Reachable
  <2>1. Destinations \subseteq Reachable
    BY <1>3, LiteralIsReachable DEF Destinations, Reachable
  <2> QED
    BY <2>1
<1>5. d \in [host : Hosts, address : Reachable]
  BY <1>1, <1>4
<1>6. /\ d.host = url
      /\ url = parsed =>
            d.address \in IF IsLiteral(parsed) THEN {Literals[parsed]} ELSE Range(left)
  BY DEF Destinations
<1> HIDE DEF d
<1>7. dialed' = Append(dialed, d)
  BY <1>2 DEF d
<1>8. DialedWereVetted'
  BY <1>1, <1>5, <1>6, <1>7, VettedStaysVetted
<1>9. dialed' \in Seq([host : Hosts, address : Reachable])
  BY <1>1, <1>5, <1>7, DialedGrows
<1>10. \/ pc' \in {"connect", "exchange"} /\ outcome' = outcome
       \/ pc' = "done" /\ outcome' = "RequestFailed"
  BY DEF Dial, End, Goto
<1>11. EntryTypeOK'
  BY <1>1, <1>9, <1>10 DEF IInv, EntryTypeOK
<1>12. MadeInv'
  BY <1>1, <1>10 DEF IInv, MadeInv
<1>13. VettedInv'
  BY <1>1, <1>10 DEF IInv, VettedInv
<1>14. SocketInv'
  BY <1>1 DEF SocketInv
<1> QED
  BY <1>8, <1>11, <1>12, <1>13, <1>14 DEF IInv

LEMMA DialFailsKeepsInv ==
    ASSUME IInv, DialFails
    PROVE  IInv'
<1>1. /\ UNCHANGED <<call, request, answer, left, dialed, hop>> /\ End("RequestFailed")
      /\ hop' \in Hosts \cup {None}
  BY DEF IInv, EntryTypeOK, DialFails
<1> QED
  BY <1>1, EndingKeepsInv

LEMMA StreamKeepsInv ==
    ASSUME IInv, Stream
    PROVE  IInv'
<1>1. UNCHANGED <<call, request, answer, left, dialed, hop>> /\ hop' \in Hosts \cup {None}
  BY DEF IInv, EntryTypeOK, Stream
<1>2. PICK result \in {"ok", "ServerError"} : End(result)
  BY DEF Stream
<1> QED
  BY <1>1, <1>2, EndingKeepsInv

LEMMA AnswerKeepsInv ==
    ASSUME IInv, Answer
    PROVE  IInv'
<1>1. UNCHANGED <<call, request, answer, left, dialed>> /\ hop' \in Hosts \cup {None}
  BY DEF IInv, EntryTypeOK, Answer
<1>2. PICK result \in {"ok", "ServerError", "RedirectBlocked"} : End(result)
  BY DEF Answer
<1> QED
  BY <1>1, <1>2, EndingKeepsInv

LEMMA ExchangeFailsKeepsInv ==
    ASSUME IInv, ExchangeFails
    PROVE  IInv'
<1>1. /\ UNCHANGED <<call, request, answer, left, dialed, hop>> /\ End("RequestFailed")
      /\ hop' \in Hosts \cup {None}
  BY DEF IInv, EntryTypeOK, ExchangeFails
<1> QED
  BY <1>1, EndingKeepsInv

\* The next address of a WebSocket (websocket.rs:99-126).
LEMMA OpenSocketKeepsInv ==
    ASSUME IInv, OpenSocket
    PROVE  IInv'
<1>1. /\ UNCHANGED <<call, url, parsed, validator, private, redirects, answer, hop>>
      /\ pc = "connect" /\ call.via = "websocket" /\ parsed \in Hosts
      /\ dialed \in Seq([host : Hosts, address : Reachable]) /\ left \in Seq(Reachable)
      /\ outcome = "pending" /\ left # <<>> /\ left' = Tail(left) /\ url = parsed
  BY CallIsWellFormed
     DEF IInv, EntryTypeOK, MadeInv, SocketInv, DialedWereVetted, OpenSocket, request
<1> DEFINE d == [host |-> url, address |-> Head(left)]
<1>2. /\ Len(left) \in Nat /\ Len(left) # 0 /\ DOMAIN left = 1 .. Len(left)
      /\ Head(left) = left[1] /\ 1 \in DOMAIN left
      /\ \A i \in DOMAIN left : left[i] \in Reachable
  BY <1>1
<1>3. /\ left' \in Seq(Reachable) /\ Len(left') = Len(left) - 1
      /\ DOMAIN left' = 1 .. Len(left) - 1
      /\ \A i \in 1 .. Len(left) - 1 : left'[i] = left[i + 1]
  BY <1>1, HeadTailProperties
<1>4. d \in [host : Hosts, address : Reachable] /\ d.host = url /\ d.address = left[1]
  BY <1>1, <1>2
<1> HIDE DEF d
<1>5. dialed' = Append(dialed, d)
  BY DEF d, OpenSocket
<1>6. /\ dialed' \in Seq([host : Hosts, address : Reachable])
      /\ Len(dialed) \in Nat /\ Len(dialed') = Len(dialed) + 1
      /\ \A i \in 1 .. Len(dialed) : dialed'[i] = dialed[i]
      /\ dialed'[Len(dialed) + 1] = d
  BY <1>1, <1>4, <1>5, DialedGrows
<1>7. \/ pc' = "connect" /\ outcome' = "pending" /\ left' # <<>>
      \/ pc' = "done" /\ outcome' = "ok"
      \/ pc' = "done" /\ outcome' = "WebSocketError" /\ left' = <<>>
  BY <1>1 DEF OpenSocket, End, Goto
<1>8. left[1] \in Range(left)
  BY <1>2 DEF Range
<1>9. DialedWereVetted'
  <2>1. IsLiteral(parsed) => Range(left) \subseteq {Literals[parsed]}
    BY <1>1 DEF IInv, VettedInv
  <2> QED
    BY <1>1, <1>4, <1>5, <1>8, <2>1, VettedStaysVetted
<1>10. EntryTypeOK'
  BY <1>1, <1>3, <1>6, <1>7 DEF IInv, EntryTypeOK
<1>11. MadeInv'
  BY <1>1, <1>7 DEF IInv, MadeInv
<1>12. VettedInv'
  <2>1. Range(left') \subseteq Range(left)
    <3>1. ASSUME NEW i \in 1 .. Len(left) - 1
          PROVE  left'[i] \in Range(left)
      <4>1. i + 1 \in DOMAIN left
        BY <1>2
      <4> QED
        BY <1>3, <4>1 DEF Range
    <3> QED
      BY <1>3, <3>1 DEF Range
  <2> QED
    BY <1>1, <1>7, <2>1 DEF IInv, VettedInv, IsLiteral, InternalAddresses
<1>13. SocketInv'
  <2> SUFFICES ASSUME answer # <<>>
               PROVE  /\ Len(dialed') + Len(left') = Len(Distinct(answer))
                      /\ \A i \in 1 .. Len(dialed') : dialed'[i].address = Distinct(answer)[i]
                      /\ \A i \in 1 .. Len(left') : left'[i] = Distinct(answer)[Len(dialed') + i]
    BY <1>1, <1>7 DEF SocketInv
  <2>1. /\ Len(dialed) + Len(left) = Len(Distinct(answer))
        /\ \A i \in 1 .. Len(dialed) : dialed[i].address = Distinct(answer)[i]
        /\ \A i \in 1 .. Len(left) : left[i] = Distinct(answer)[Len(dialed) + i]
    BY <1>1 DEF IInv, SocketInv
  <2>2. Len(dialed') + Len(left') = Len(Distinct(answer))
    <3>1. Len(dialed') + Len(left') = (Len(dialed) + 1) + (Len(left) - 1)
      BY <1>3, <1>6
    <3>2. (Len(dialed) + 1) + (Len(left) - 1) = Len(dialed) + Len(left)
      BY <1>2, <1>6
    <3> QED
      BY <2>1, <3>1, <3>2, Zenon
  <2>3. ASSUME NEW i \in 1 .. Len(dialed')
        PROVE  dialed'[i].address = Distinct(answer)[i]
    <3>1. CASE i \in 1 .. Len(dialed)
      BY <1>6, <2>1, <3>1
    <3>2. CASE i = Len(dialed) + 1
      BY <1>2, <1>4, <1>6, <2>1, <3>2
    <3> QED
      BY <1>6, <3>1, <3>2
  <2>4. ASSUME NEW i \in 1 .. Len(left')
        PROVE  left'[i] = Distinct(answer)[Len(dialed') + i]
    <3>1. /\ i \in 1 .. Len(left) - 1 /\ i + 1 \in 1 .. Len(left)
          /\ Len(dialed) + (i + 1) = Len(dialed') + i
      BY <1>2, <1>3, <1>6
    <3> QED
      BY <1>3, <2>1, <3>1
  <2> QED
    BY <2>2, <2>3, <2>4
<1> QED
  BY <1>9, <1>10, <1>11, <1>12, <1>13 DEF IInv

LEMMA NextKeepsInv == IInv /\ [Next]_vars => IInv'
<1> SUFFICES ASSUME IInv, [Next]_vars
             PROVE  IInv'
  OBVIOUS
<1>1. CASE Next
  BY <1>1, RefuseKeepsInv, CreateKeepsInv, InterceptKeepsInv, ValidateKeepsInv,
     ResolveKeepsInv, SetUpFailsKeepsInv, DialKeepsInv, DialFailsKeepsInv, StreamKeepsInv,
     AnswerKeepsInv, ExchangeFailsKeepsInv, OpenSocketKeepsInv DEF Next
<1>2. CASE UNCHANGED vars
  BY <1>2 DEF vars, request, IInv, EntryTypeOK, MadeInv, VettedInv, DialedWereVetted, SocketInv,
     Vetted, InternalAddresses, IsLiteral
<1> QED
  BY <1>1, <1>2

LEMMA InvariantHolds == Spec => []IInv
BY InitEstablishes, NextKeepsInv, PTL DEF Spec

-----------------------------------------------------------------------------
\* Every variable keeps its type, whatever resolver, interceptors and servers do
\* (request_handler.rs:510-557, streaming.rs:100-147, websocket.rs:99-126).
THEOREM EntryIsWellTyped == Spec => []TypeOK
<1>1. IInv => TypeOK
  <2> SUFFICES ASSUME IInv
               PROVE  TypeOK
    OBVIOUS
  <2>1. \A a \in Range(left) : a \in Reachable
    BY DEF IInv, EntryTypeOK, Range
  <2>2. \A d \in Range(dialed) : d.address \in Reachable
    <3>1. dialed \in Seq([host : Hosts, address : Reachable])
      BY DEF IInv, EntryTypeOK
    <3> DEFINE Dials == [host : Hosts, address : Reachable]
    <3>2. \A dial \in Dials : dial.address \in Reachable
      OBVIOUS
    <3>3. dialed \in Seq(Dials)
      BY <3>1
    <3> HIDE DEF Dials
    <3>4. \A i \in DOMAIN dialed : dialed[i] \in Dials
      BY <3>3
    <3> QED
      BY <3>2, <3>4 DEF Range
  <2> QED
    BY <2>1, <2>2 DEF IInv, EntryTypeOK, TypeOK, Reachable
<1> QED
  BY <1>1, InvariantHolds, PTL

\* Whatever interceptors put into the request: each connection is to an address of
\* the one answer, of which none is internal unless the request allows it, or to a
\* literal's own, public one, unless an interceptor set url and parsed_url to
\* different hosts; and only the builder or an interceptor allows internal addresses
\* (request_handler.rs:510-557, streaming.rs:76-80, websocket.rs:75-87).
THEOREM ConnectionsAreVetted == Spec => []DialedWereVetted
<1>1. IInv => DialedWereVetted
  BY DEF IInv
<1> QED
  BY <1>1, InvariantHolds, PTL

\* A WebSocket tries the distinct addresses of an answer in the resolver's order and
\* gives up only after the last one (websocket.rs:99-126).
THEOREM SocketsTryEveryAddress == Spec => []EveryAddressIsTried
<1>1. IInv => EveryAddressIsTried
  <2> SUFFICES ASSUME IInv, call.via = "websocket", answer # <<>>, dialed # <<>>
               PROVE  EveryAddressIsTried
    BY DEF EveryAddressIsTried
  <2> DEFINE D == Distinct(answer)
             N == Len(D)
             first(a) == CHOOSE i \in DOMAIN answer :
                            answer[i] = a /\ \A j \in 1 .. i - 1 : answer[j] # a
  <2>1. /\ answer \in Seq(Addresses) /\ left \in Seq(Reachable)
        /\ dialed \in Seq([host : Hosts, address : Reachable])
    BY EntryAssumption DEF IInv, EntryTypeOK
  <2>2. /\ Len(dialed) + Len(left) = N
        /\ \A i \in 1 .. Len(dialed) : dialed[i].address = D[i]
        /\ outcome = "WebSocketError" => left = <<>>
    BY DEF IInv, SocketInv
  <2>3. D \in Seq(Addresses) /\ Range(D) = Range(answer)
    BY <2>1, DistinctIsComplete
  <2>4. /\ Len(dialed) \in Nat /\ Len(left) \in Nat /\ N \in Nat
        /\ DOMAIN dialed = 1 .. Len(dialed) /\ DOMAIN D = 1 .. N
        /\ DOMAIN answer = 1 .. Len(answer) /\ Len(answer) \in Nat
        /\ Len(dialed) <= N
    BY <2>1, <2>2, <2>3
  <2>5. PICK pos \in [1 .. N -> News(answer)] :
          /\ \A n \in 1 .. N : D[n] = answer[pos[n]]
          /\ \A m, n \in 1 .. N : m < n => pos[m] < pos[n]
          /\ \A i \in News(answer) : \E n \in 1 .. N : pos[n] = i
    BY <2>1, DistinctKeepsOrder
  <2> HIDE DEF D, N
  <2>6. ASSUME NEW n \in 1 .. N
        PROVE  pos[n] \in 1 .. Len(answer) /\ first(D[n]) = pos[n]
    <3> DEFINE isFirst(i) == answer[i] = D[n] /\ \A j \in 1 .. i - 1 : answer[j] # D[n]
    <3>1. pos[n] \in 1 .. Len(answer) /\ isFirst(pos[n])
      BY <2>4, <2>5 DEF News
    <3>2. ASSUME NEW i \in 1 .. Len(answer), isFirst(i)
          PROVE  i = pos[n]
      <4>1. ~(i < pos[n]) /\ ~(pos[n] < i)
        BY <2>4, <3>1, <3>2
      <4> QED
        BY <2>4, <3>1, <4>1
    <3>3. first(D[n]) = CHOOSE i \in 1 .. Len(answer) : isFirst(i)
      BY <2>4
    <3> HIDE DEF isFirst, first
    <3>4. (CHOOSE i \in 1 .. Len(answer) : isFirst(i)) = pos[n]
      BY <3>1, <3>2
    <3> QED
      BY <3>1, <3>3, <3>4
  <2> HIDE DEF first
  <2>7. ASSUME NEW i \in 1 .. Len(dialed)
        PROVE  {dialed[j].address : j \in 1 .. i - 1}
                  = {answer[j] : j \in 1 .. first(dialed[i].address) - 1}
    <3>1. i \in 1 .. N /\ first(dialed[i].address) = pos[i] /\ pos[i] \in 1 .. Len(answer)
      BY <2>2, <2>4, <2>6
    <3>2. ASSUME NEW j \in 1 .. i - 1
          PROVE  \E k \in 1 .. pos[i] - 1 : dialed[j].address = answer[k]
      <4>1. j \in 1 .. Len(dialed) /\ j \in 1 .. N /\ j < i
        BY <2>4, <3>1
      <4>2. pos[j] < pos[i] /\ pos[j] \in 1 .. Len(answer)
        BY <2>5, <2>6, <3>1, <4>1
      <4>3. pos[j] \in 1 .. pos[i] - 1
        BY <2>4, <3>1, <4>2
      <4> QED
        BY <2>2, <2>5, <4>1, <4>3
    <3>3. ASSUME NEW k \in 1 .. pos[i] - 1
          PROVE  \E j \in 1 .. i - 1 : dialed[j].address = answer[k]
      <4>1. k \in 1 .. Len(answer)
        BY <2>4, <3>1
      <4>2. PICK l \in News(answer) : l \in 1 .. k /\ answer[l] = answer[k]
        BY <2>1, <4>1, EveryoneIsNewOnce
      <4>3. PICK n \in 1 .. N : pos[n] = l
        BY <2>5
      <4>4. pos[n] < pos[i]
        BY <3>1, <4>1, <4>2, <4>3
      <4>5. ~(i < n) /\ i # n
        <5>1. i < n => pos[i] < pos[n]
          BY <2>5, <3>1
        <5>2. pos[n] \in Nat /\ pos[i] \in Nat
          BY <2>6, <3>1
        <5> QED
          BY <4>4, <5>1, <5>2
      <4>6. n \in 1 .. i - 1 /\ n \in 1 .. Len(dialed)
        BY <2>4, <3>1, <4>5
      <4> QED
        BY <2>2, <2>5, <4>2, <4>3, <4>6
    <3>4. {dialed[j].address : j \in 1 .. i - 1} = {answer[k] : k \in 1 .. pos[i] - 1}
      <4>1. \A x \in {dialed[j].address : j \in 1 .. i - 1} :
               x \in {answer[k] : k \in 1 .. pos[i] - 1}
        BY <3>2
      <4>2. \A x \in {answer[k] : k \in 1 .. pos[i] - 1} :
               x \in {dialed[j].address : j \in 1 .. i - 1}
        BY <3>3
      <4> QED
        BY <4>1, <4>2, Zenon
    <3> QED
      BY <3>1, <3>4, Zenon
  <2>8. ASSUME outcome = "WebSocketError"
        PROVE  {d.address : d \in Range(dialed)} = Range(answer)
    <3>1. Len(dialed) = N
      BY <2>2, <2>4, <2>8
    <3>2. {d.address : d \in Range(dialed)} = Range(D)
      BY <2>2, <2>4, <3>1 DEF Range
    <3> QED
      BY <2>3, <3>2
  <2> QED
    BY <2>4, <2>7, <2>8 DEF EveryAddressIsTried, first
<1> QED
  BY <1>1, InvariantHolds, PTL

-----------------------------------------------------------------------------
\* Such a host, its brackets aside, is a name in good form.
LEMMA SoundHostIsNormal ==
    ASSUME NEW host \in SoundHosts
    PROVE  /\ NormalizeHost(host) \in Texts /\ ~IllFormed(NormalizeHost(host))
           /\ \/ host = NormalizeHost(host)
              \/ /\ host = <<"[">> \o NormalizeHost(host) \o <<"]">>
                 /\ NormalizeHost(host) \notin Hosts
<1>1. host \in Texts
  <2>1. \A text \in Hosts \cup Patterns : Range(text) \subseteq Pieces
    BY DEF Pieces
  <2>2. host \in Seq(Range(host)) /\ Range(host) \subseteq Pieces
    BY <2>1, HostAssumption DEF SoundHosts
  <2> QED
    BY <2>2 DEF Texts
<1>2. CASE ~IllFormed(host)
  BY <1>1, <1>2, WellFormedIsNormal
<1>3. CASE IllFormed(host)
  <2> DEFINE body == SubSeq(host, 2, Len(host) - 1)
  <2>1. host \in DOMAIN Literals
    BY <1>3 DEF SoundHosts, InvalidDomains
  <2>2. host = <<"[">> \o body \o <<"]">> /\ ~IllFormed(body) /\ body \notin Hosts
    BY <1>3, <2>1, EntryAssumption
  <2>3. body \in Texts
    <3>1. Len(host) \in Nat
      BY <1>1 DEF Texts
    <3>2. 2 \in Int /\ Len(host) - 1 \in Int /\ 1 <= 2 /\ Len(host) - 1 <= Len(host)
      BY <3>1
    <3> QED
      BY <1>1, <3>2, SliceIsText
  <2> HIDE DEF body
  <2>4. NormalizeHost(host) = body
    BY <2>2, <2>3, WellFormedIsNormal
  <2> QED
    BY <2>2, <2>3, <2>4
<1> QED
  BY <1>2, <1>3

\* Two of them are normalized alike only if they are one.
LEMMA SoundHostsDiffer ==
    ASSUME NEW a \in SoundHosts, NEW b \in SoundHosts, NormalizeHost(a) = NormalizeHost(b)
    PROVE  a = b
<1>1. a \in Hosts /\ b \in Hosts
  BY DEF SoundHosts
<1> QED
  BY <1>1, SoundHostIsNormal

\* As the only entry of a list it stands for itself.
LEMMA SoundHostListed ==
    ASSUME NEW a \in SoundHosts, NEW host, MatchesAny({NormalizeHost(a)}, host)
    PROVE  NormalizeHost(host) = NormalizeHost(a)
<1> DEFINE n == NormalizeHost(a)
<1>1. n \in Texts /\ ~IllFormed(n)
  BY SoundHostIsNormal
<1>2. MatchesHostPattern(n, host)
  <2>1. <<n, host>> \in Matching
    BY DEF MatchesAny
  <2> HIDE DEF n
  <2>2. PICK pair \in Listable \X Hosts : <<n, host>> = pair /\ MatchesHostPattern(pair[1], pair[2])
    BY <2>1 DEF Matching
  <2>3. pair[1] = n /\ pair[2] = host
    BY <2>2
  <2> QED
    BY <2>2, <2>3
<1> HIDE DEF n
<1>3. NormalizeHost(n) = n
  BY <1>1, WellFormedIsNormal
<1>4. NormalizeHost(host) = n
  BY <1>1, <1>2, <1>3, WellFormedMatchesItself
<1> QED
  BY <1>4 DEF n

\* A scope of its own admits a request to its own host only, a deny list or not
\* (request_handler.rs:261-262, builder.rs:470-492).
LEMMA InScopeIsTarget ==
    ASSUME NEW c \in Calls, Target(c) \in SoundHosts, ~c.opened, ~c.optIn,
           NEW host, ScopePermits(ScopeFor(c), host)
    PROVE  NormalizeHost(host) = NormalizeHost(Target(c))
<1> DEFINE own == WithAllowList(NewScope(TRUE), {Target(c)})
<1>1. own.allow = {NormalizeHost(Target(c))} /\ own.closed = TRUE
  BY DEF WithAllowList, NewScope
<1>2. /\ WithDenyList(own, InternalPatterns).allow = own.allow
      /\ WithDenyList(own, InternalPatterns).closed = own.closed
  BY DEF WithDenyList, WithAllowList, NewScope
<1>3. ScopeFor(c) = own \/ ScopeFor(c) = WithDenyList(own, InternalPatterns)
  BY DEF ScopeFor
<1> HIDE DEF own
<1>4. ScopeFor(c).allow = {NormalizeHost(Target(c))} /\ ScopeFor(c).closed = TRUE
  BY <1>1, <1>2, <1>3
<1>5. MatchesAny({NormalizeHost(Target(c))}, host)
  BY <1>4 DEF ScopePermits
<1> QED
  BY <1>5, SoundHostListed

\* A hop the policy knows is to the base URL's host (builder.rs:362-368).
LEMMA HopIsBase ==
    ASSUME NEW c \in Calls, c.base = None \/ c.base \in SoundHosts,
           NEW host \in SoundHosts, ~HostUnknown(GetRedirectPolicy(c), host)
    PROVE  host = c.base
<1> DEFINE seeded == IF c.base = None THEN DefaultPolicy ELSE AllowHost(DefaultPolicy, c.base)
<1>1. /\ DefaultPolicy.allowed = {} /\ DefaultPolicy.track = TRUE
      /\ AllowHost(DefaultPolicy, c.base).allowed = {NormalizeHost(c.base)}
      /\ AllowHost(DefaultPolicy, c.base).track = TRUE
  BY DEF AllowHost, DefaultPolicy
<1>2. {"allowed", "track"} \subseteq DOMAIN seeded
  BY DEF AllowHost, DefaultPolicy
<1>3. /\ seeded.track = TRUE
      /\ seeded.allowed = IF c.base = None THEN {} ELSE {NormalizeHost(c.base)}
  BY <1>1
<1>4. GetRedirectPolicy(c) = IF c.follows THEN FollowRedirects(seeded) ELSE seeded
  BY DEF GetRedirectPolicy
<1> HIDE DEF seeded
<1>5. GetRedirectPolicy(c).track = TRUE /\ GetRedirectPolicy(c).allowed = seeded.allowed
  BY <1>2, <1>3, <1>4 DEF FollowRedirects
<1>6. MatchesAny(seeded.allowed, host)
  BY <1>5 DEF HostUnknown
<1>7. c.base # None /\ seeded.allowed = {NormalizeHost(c.base)}
  BY <1>3, <1>6 DEF MatchesAny
<1> QED
  BY <1>6, <1>7, SoundHostListed, SoundHostsDiffer

\* A WebSocket's scope, made from its own host, accepts it (websocket.rs:69-76).
LEMMA SocketIsInScope ==
    ASSUME NEW c \in Calls, Target(c) \in SoundHosts, c.via = "websocket"
    PROVE  ScopePermits(ScopeFor(c), Target(c))
<1> DEFINE host == Target(c)
           n == NormalizeHost(host)
           own == WithAllowList(NewScope(TRUE), {host})
<1>1. n \in Texts /\ ~IllFormed(n) /\ host \in Hosts /\ n \in Listable
  BY SoundHostIsNormal, EntryAssumption DEF SoundHosts, Listable
<1>2. own.allow = {n} /\ own.deny = {}
  BY DEF WithAllowList, NewScope
<1>3. ScopeFor(c) = own
  BY EntryAssumption DEF ScopeFor
<1> HIDE DEF own, host
<1>4. n = NormalizeHost(n)
  BY <1>1, WellFormedIsNormal
<1> HIDE DEF n
<1>5. MatchesHostPattern(n, host)
  BY <1>1, <1>4, WellFormedMatchesItself DEF n
<1>6. <<n, host>> \in Matching
  BY <1>1, <1>5 DEF Matching
<1>7. ScopePermits(own, host)
  BY <1>2, <1>6 DEF ScopePermits, MatchesAny
<1> QED
  BY <1>3, <1>7 DEF host

\* What is connected to is in the scope the request was left with; a WebSocket, which
\* has no interceptors, keeps its own.
ScopeInv ==
    /\ pc \notin {"create", "done"} =>
          /\ Target(call) \in SoundHosts
          /\ call.via = "websocket" => url = Target(call) /\ validator = ScopeFor(call)
    /\ pc \in {"resolve", "connect", "exchange"} => ScopePermits(validator, url)
    /\ pc # "done" => hop = None

InScopeInv == IInv /\ ScopeInv /\ TargetStaysInScope

LEMMA InitIsInScope == Init => InScopeInv
<1> SUFFICES ASSUME Init
             PROVE  InScopeInv
  OBVIOUS
<1>1. IInv
  BY InitEstablishes
<1>2. ScopeInv
  BY DEF Init, ScopeInv
<1>3. TargetStaysInScope
  BY DEF Init, TargetStaysInScope, Range
<1> QED
  BY <1>1, <1>2, <1>3 DEF InScopeInv

\* Without a connection or a hop, a call stays where it was.
LEMMA QuietStaysInScope ==
    ASSUME InScopeInv, UNCHANGED <<call, validator, redirects, dialed, hop>>
    PROVE  TargetStaysInScope'
<1>1. UNCHANGED <<Target(call), ScopeIsOwn, GetRedirectPolicy(call)>>
  BY DEF Target, ScopeIsOwn, ScopeFor, GetRedirectPolicy
<1>2. \A host : ScopePermits(validator, host)' <=> ScopePermits(validator, host)
  BY DEF ScopePermits
<1> QED
  BY <1>1, <1>2 DEF InScopeInv, TargetStaysInScope

\* Nor does it leave its scope by ending.
LEMMA EndingStaysInScope ==
    ASSUME InScopeInv, pc' = "done", UNCHANGED <<call, validator, redirects, dialed, hop>>
    PROVE  ScopeInv' /\ TargetStaysInScope'
BY QuietStaysInScope DEF ScopeInv

LEMMA NextStaysInScope ==
    ASSUME BasesAreSound, InScopeInv, [Next]_vars
    PROVE  InScopeInv'
<1> USE DEF request
<1>1. IInv /\ ScopeInv /\ TargetStaysInScope /\ IInv' /\ call \in Calls
  BY NextKeepsInv DEF InScopeInv, IInv, EntryTypeOK
<1>2. SUFFICES ScopeInv' /\ TargetStaysInScope'
  BY <1>1 DEF InScopeInv
<1>3. CASE Refuse
  BY <1>3, EndingStaysInScope DEF Refuse, End
<1>4. CASE Create
  <2>1. /\ Refusals[call] = "ok" /\ UNCHANGED <<call, answer, left, dialed, hop>>
        /\ pc = "create" /\ url' = Target(call)
        /\ pc' = IF call.via = "websocket" THEN "resolve" ELSE "intercept"
    BY <1>4 DEF Create, Goto
  <2>2. PICK made \in Requests :
           made.call = call /\ validator' = made.scope /\ redirects' = made.policy
    BY <1>4 DEF Create
  <2>3. validator' = ScopeFor(call)
    BY <2>2 DEF Requests
  <2>4. Target(call) \in SoundHosts
    BY <1>1, <2>1, TargetIsSound DEF SoundHosts
  <2>5. hop = None /\ dialed = <<>>
    BY <1>1, <2>1 DEF ScopeInv, IInv, MadeInv
  <2>6. UNCHANGED <<Target(call), ScopeFor(call)>>
    BY <2>1 DEF Target, ScopeFor
  <2>7. call.via = "websocket" => ScopePermits(validator, url)'
    BY <1>1, <2>1, <2>3, <2>4, SocketIsInScope
  <2>8. ScopeInv'
    BY <2>1, <2>3, <2>4, <2>5, <2>6, <2>7 DEF ScopeInv
  <2>9. TargetStaysInScope'
    BY <2>1, <2>5 DEF TargetStaysInScope, Range
  <2> QED
    BY <2>8, <2>9
<1>5. CASE Intercept
  <2>1. CASE End("Interceptor") /\ UNCHANGED request
    BY <1>5, <2>1, EndingStaysInScope DEF Intercept, End
  <2>2. CASE Goto("validate") /\ Retarget
    <3>1. /\ UNCHANGED <<call, answer, left, dialed, hop>>
          /\ pc = "intercept" /\ pc' = "validate"
      BY <1>5, <2>2 DEF Intercept, Goto
    <3>2. call.via = "websocket" => url' = url /\ validator' = validator
      BY <1>1, <2>2, CallIsWellFormed DEF Retarget
    <3>3. UNCHANGED <<Target(call), ScopeFor(call)>> /\ dialed = <<>> /\ hop = None
      BY <1>1, <3>1 DEF Target, ScopeFor, ScopeInv, IInv, MadeInv
    <3>4. ScopeInv'
      BY <1>1, <3>1, <3>2, <3>3 DEF ScopeInv
    <3>5. TargetStaysInScope'
      BY <3>1, <3>3 DEF TargetStaysInScope, Range
    <3> QED
      BY <3>4, <3>5
  <2> QED
    BY <1>5, <2>1, <2>2 DEF Intercept
<1>6. CASE Validate
  <2>1. CASE pc' = "done"
    BY <1>6, <2>1, EndingStaysInScope DEF Validate
  <2>2. CASE InScope(url) /\ Goto("resolve")
    <3>1. /\ UNCHANGED <<call, url, parsed, validator, private, redirects, answer, left, dialed, hop>>
          /\ pc = "validate" /\ pc' = "resolve"
      BY <1>6, <2>2 DEF Validate, Goto
    <3>2. ScopePermits(validator, url)'
      BY <2>2, <3>1 DEF InScope
    <3>3. UNCHANGED <<Target(call), ScopeFor(call)>>
      BY <3>1 DEF Target, ScopeFor
    <3>4. ScopeInv'
      BY <1>1, <3>1, <3>2, <3>3 DEF ScopeInv
    <3>5. TargetStaysInScope'
      BY <3>1, QuietStaysInScope
    <3> QED
      BY <3>4, <3>5
  <2> QED
    BY <1>6, <2>1, <2>2 DEF Validate, End
<1>7. CASE Resolve
  <2>1. /\ UNCHANGED <<call, url, parsed, validator, private, redirects, dialed, hop>>
        /\ pc = "resolve" /\ pc' \in {"connect", "done"}
    BY <1>7 DEF Resolve, Goto, End
  <2>2. UNCHANGED <<Target(call), ScopeFor(call), ScopePermits(validator, url)>>
    BY <2>1 DEF Target, ScopeFor, ScopePermits
  <2>3. ScopeInv'
    BY <1>1, <2>1, <2>2 DEF ScopeInv
  <2>4. TargetStaysInScope'
    BY <2>1, QuietStaysInScope
  <2> QED
    BY <2>3, <2>4
<1>8. CASE SetUpFails \/ DialFails \/ Stream \/ ExchangeFails
  BY <1>8, EndingStaysInScope DEF SetUpFails, DialFails, Stream, ExchangeFails, End
<1>9. ASSUME pc = "connect", NEW address \in Reachable,
             dialed' = Append(dialed, [host |-> url, address |-> address]),
             UNCHANGED <<call, url, validator, redirects, hop>>,
             pc' \in {"connect", "exchange", "done"}
      PROVE  ScopeInv' /\ TargetStaysInScope'
  <2>1. UNCHANGED <<Target(call), ScopeFor(call), ScopeIsOwn, GetRedirectPolicy(call)>>
    BY <1>9 DEF Target, ScopeFor, ScopeIsOwn, GetRedirectPolicy
  <2> DEFINE permits(host) == ScopePermits(validator, host)
  <2>2. \A host : permits(host)' <=> permits(host)
    BY <1>9 DEF ScopePermits
  <2>3. ScopeInv'
    BY <1>1, <1>9, <2>1, <2>2 DEF ScopeInv
  <2> DEFINE d == [host |-> url, address |-> address]
  <2>4. /\ dialed \in Seq([host : Hosts, address : Reachable])
        /\ d \in [host : Hosts, address : Reachable] /\ d.host = url
    BY <1>1, <1>9 DEF IInv, EntryTypeOK, MadeInv
  <2> HIDE DEF d
  <2>5. Range(dialed') = Range(dialed) \cup {d}
    BY <1>9, <2>4, DialedGrows DEF d
  <2>6. ScopePermits(validator, url) /\ Target(call) \in SoundHosts
    BY <1>1, <1>9 DEF ScopeInv
  <2>7. ScopeIsOwn => NormalizeHost(url) = NormalizeHost(Target(call))
    BY <1>1, <2>6, InScopeIsTarget DEF ScopeIsOwn
  <2>8. \A e \in Range(dialed') :
           /\ ScopePermits(validator, e.host)
           /\ ScopeIsOwn => NormalizeHost(e.host) = NormalizeHost(Target(call))
    BY <1>1, <2>4, <2>5, <2>6, <2>7 DEF TargetStaysInScope
  <2>9. TargetStaysInScope'
    BY <1>1, <1>9, <2>1, <2>2, <2>8 DEF TargetStaysInScope
  <2> QED
    BY <2>3, <2>9
<1>10. CASE Dial
  <2>1. PICK address \in Destinations :
           dialed' = Append(dialed, [host |-> url, address |-> address])
    BY <1>10 DEF Dial
  <2>2. left \in Seq(Reachable)
    BY <1>1 DEF IInv, EntryTypeOK
  <2>3. Destinations \subseteq Reachable
    <3>1. Range(left) \subseteq Reachable
      BY <2>2 DEF Range
    <3> QED
      BY <3>1, LiteralIsReachable DEF Destinations, Reachable
  <2>4. /\ pc = "connect" /\ UNCHANGED <<call, url, validator, redirects, hop>>
        /\ pc' \in {"connect", "exchange", "done"}
    BY <1>10 DEF Dial, Goto, End
  <2> QED
    BY <1>9, <2>1, <2>3, <2>4
<1>11. CASE OpenSocket
  <2>1. /\ pc = "connect" /\ UNCHANGED <<call, url, validator, redirects, hop>>
        /\ pc' \in {"connect", "done"}
        /\ dialed' = Append(dialed, [host |-> url, address |-> Head(left)])
    BY <1>11 DEF OpenSocket, Goto, End
  <2>2. Head(left) \in Reachable
    <3>1. left \in Seq(Reachable) /\ left # <<>>
      BY <1>1, <1>11 DEF IInv, EntryTypeOK, SocketInv, OpenSocket
    <3> QED
      BY <3>1
  <2> QED
    BY <1>9, <2>1, <2>2
<1>12. CASE Answer
  <2>1. UNCHANGED <<call, request, answer, left, dialed>> /\ pc = "exchange" /\ pc' = "done"
    BY <1>12 DEF Answer, End
  <2>2. CASE UNCHANGED hop
    BY <2>1, <2>2, EndingStaysInScope
  <2>3. CASE \E next \in Hosts : MayHop(next) /\ hop' = next
    <3>1. PICK next \in Hosts : MayHop(next) /\ hop' = next
      BY <2>3
    <3>2. Target(call) \in SoundHosts
      BY <1>1, <2>1 DEF ScopeInv
    <3>3. next \in SoundHosts /\ ScopePermits(validator, next)
      BY <3>1 DEF MayHop, SoundHosts, InScope
    <3>4. redirects = GetRedirectPolicy(call) => next = call.base
      BY <1>1, <3>1, <3>2, <3>3, HopIsBase DEF MayHop, BasesAreSound
    <3>5. ASSUME ScopeIsOwn
          PROVE  next = Target(call)
      <4>1. NormalizeHost(next) = NormalizeHost(Target(call))
        BY <1>1, <3>2, <3>3, <3>5, InScopeIsTarget DEF ScopeIsOwn
      <4> QED
        BY <3>2, <3>3, <4>1, SoundHostsDiffer
    <3>6. UNCHANGED <<Target(call), ScopeIsOwn, GetRedirectPolicy(call)>>
      BY <2>1 DEF Target, ScopeIsOwn, ScopeFor, GetRedirectPolicy
    <3>7. \A host : ScopePermits(validator, host)' <=> ScopePermits(validator, host)
      BY <2>1 DEF ScopePermits
    <3>8. TargetStaysInScope'
      BY <1>1, <2>1, <3>1, <3>3, <3>4, <3>5, <3>6, <3>7 DEF TargetStaysInScope
    <3>9. ScopeInv'
      BY <2>1 DEF ScopeInv
    <3> QED
      BY <3>8, <3>9
  <2> QED
    BY <1>12, <2>2, <2>3 DEF Answer
<1>13. CASE UNCHANGED vars
  <2>1. UNCHANGED <<Target(call), ScopeFor(call), ScopePermits(validator, url)>>
    BY <1>13 DEF vars, Target, ScopeFor, ScopePermits
  <2>2. TargetStaysInScope'
    BY <1>13, QuietStaysInScope DEF vars
  <2> QED
    BY <1>1, <1>13, <2>1, <2>2 DEF vars, ScopeInv
<1> QED
  BY <1>3, <1>4, <1>5, <1>6, <1>7, <1>8, <1>10, <1>11, <1>12, <1>13 DEF Next

\* Whatever interceptors put into the request and servers answer: a connection and a
\* hop are to hosts in the scope the request is left with; in its own that is its
\* target, and under its own policy a hop is to the base URL's host. Of base URLs it
\* takes for granted that validate_url() would not refuse their hosts, which the
\* builder does not ask it (request_handler.rs:475-476, 605-619, builder.rs:360-368).
THEOREM InterceptorsStayInScope == BasesAreSound => (Spec => []TargetStaysInScope)
<1> SUFFICES ASSUME BasesAreSound
             PROVE  Spec => []TargetStaysInScope
  OBVIOUS
<1>1. InScopeInv /\ [Next]_vars => InScopeInv'
  BY NextStaysInScope
<1>2. InScopeInv => TargetStaysInScope
  BY DEF InScopeInv
<1> QED
  BY <1>1, <1>2, InitIsInScope, PTL DEF Spec

===============================================================================
