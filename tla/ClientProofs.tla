----------------------------- MODULE ClientProofs -----------------------------
(***************************************************************************)
(* For any calls in any number, any interceptors, environments and         *)
(* certificates: what was last asked for is what every client is built     *)
(* with, no forbidden header is sent, pins are enforced, and traffic       *)
(* leaves only as it was configured to.                                    *)
(***************************************************************************)
EXTENDS Client, WellFoundedInduction, SequenceTheorems, TLAPS

-----------------------------------------------------------------------------
(***************************************************************************)
(* Positions.                                                              *)
(***************************************************************************)

\* A set of positions has a first one, which Min is.
LEMMA FirstOf ==
    ASSUME NEW S \in SUBSET Nat, S # {}
    PROVE  Min(S) \in S /\ \A y \in S : Min(S) <= y
<1> DEFINE Before == {pair \in Nat \X Nat : pair[1] < pair[2]}
<1>1. IsWellFoundedOn(Before, Nat)
  BY NatLessThanWellFounded DEF OpToRel
<1>2. \A x, y \in Nat : ~(<<y, x>> \in Before) => x <= y
  OBVIOUS
<1> HIDE DEF Before
<1>3. PICK x \in S : \A y \in S : ~(<<y, x>> \in Before)
  BY <1>1, WFMin
<1>4. \E z \in S : \A y \in S : z <= y
  BY <1>2, <1>3
<1> QED
  BY <1>4 DEF Min

\* Of a list's positions there is a last one, which Max is.
LEMMA LastOf ==
    ASSUME NEW n \in Nat, NEW S \in SUBSET (1 .. n), S # {}
    PROVE  Max(S) \in S /\ \A y \in S : y <= Max(S)
<1> DEFINE T == {n - x : x \in S}
<1>1. T \in SUBSET Nat /\ T # {}
  <2>1. \A x \in S : n - x \in Nat
    OBVIOUS
  <2> QED
    BY <2>1
<1>2. Min(T) \in T /\ \A t \in T : Min(T) <= t
  BY <1>1, FirstOf
<1>3. PICK x \in S : Min(T) = n - x
  BY <1>2
<1>4. \A y \in S : n - x <= n - y
  BY <1>2, <1>3
<1>5. \A y \in S : x >= y
  BY <1>4
<1> QED
  BY <1>5 DEF Max

\* The first position at which something holds, or none.
LEMMA FirstRefusalSays ==
    ASSUME NEW results, Len(results) \in Nat
    PROVE  /\ FirstRefusal(results) = "ok" <=> \A i \in 1 .. Len(results) : results[i] = "ok"
           /\ FirstRefusal(results) = "ok" \/ \E i \in 1 .. Len(results) :
                                                  FirstRefusal(results) = results[i]
<1> DEFINE I == {i \in 1 .. Len(results) : results[i] # "ok"}
<1>1. FirstRefusal(results) = IF I = {} \/ Min(I) = 0 THEN "ok" ELSE results[Min(I)]
  BY DEF FirstRefusal, SelectInSeq
<1>2. I \in SUBSET Nat
  OBVIOUS
<1>3. I # {} => Min(I) \in I
  BY <1>2, FirstOf
<1>4. CASE I = {}
  BY <1>1, <1>4
<1>5. CASE I # {}
  <2>1. Min(I) \in 1 .. Len(results) /\ results[Min(I)] # "ok"
    BY <1>3, <1>5
  <2> HIDE DEF I
  <2>2. FirstRefusal(results) = results[Min(I)]
    BY <1>1, <1>5, <2>1
  <2> QED
    BY <2>1, <2>2
<1> QED
  BY <1>4, <1>5

-----------------------------------------------------------------------------
(***************************************************************************)
(* Headers.                                                                *)
(***************************************************************************)

\* Trimming takes away and adds nothing, and a name has nothing to trim.
LEMMA TrimIsPart ==
    ASSUME NEW text \in Seq(Pieces)
    PROVE  /\ Trim(text) \in Seq(Pieces)
           /\ Range(Trim(text)) \subseteq Range(text)
           /\ IsName(text) => Trim(text) = text
<1> DEFINE I == {i \in 1 .. Len(text) : text[i] \notin White}
<1>1. Trim(text) = IF I = {} \/ Min(I) = 0 THEN <<>>
                   ELSE SubSeq(text, Min(I), IF I = {} THEN 0 ELSE Max(I))
  BY DEF Trim, SelectInSeq, SelectLastInSeq
<1>2. I \in SUBSET Nat /\ I \in SUBSET (1 .. Len(text)) /\ Len(text) \in Nat
  OBVIOUS
<1>3. CASE I = {}
  <2>1. Trim(text) = <<>>
    BY <1>1, <1>3
  <2>2. IsName(text) => FALSE
    <3> SUFFICES ASSUME IsName(text) PROVE FALSE
      OBVIOUS
    <3>1. text[1] \in White /\ 1 \in DOMAIN text
      BY <1>3 DEF IsName
    <3> QED
      BY <3>1 DEF IsName, Range
  <2> QED
    BY <2>1, <2>2 DEF Range
<1>4. CASE I # {}
  <2>1. /\ Min(I) \in I /\ \A y \in I : Min(I) <= y
        /\ Max(I) \in I /\ \A y \in I : y <= Max(I)
    BY <1>2, <1>4, FirstOf, LastOf
  <2>2. Min(I) \in 1 .. Len(text) /\ Max(I) \in 1 .. Len(text) /\ Min(I) <= Max(I)
    BY <2>1
  <2>3. IsName(text) => Min(I) = 1 /\ Max(I) = Len(text)
    <3> SUFFICES ASSUME IsName(text) PROVE Min(I) = 1 /\ Max(I) = Len(text)
      OBVIOUS
    <3>1. \A i \in 1 .. Len(text) : text[i] \notin White
      BY DEF IsName, Range
    <3>2. 1 \in I /\ Len(text) \in I
      BY <2>2, <3>1
    <3> QED
      BY <2>1, <2>2, <3>2
  <2> HIDE DEF I
  <2>4. Trim(text) = SubSeq(text, Min(I), Max(I))
    BY <1>1, <1>4, <2>2
  <2> DEFINE m == Min(I)  n == Max(I)
  <2> HIDE DEF m, n
  <2>5. m \in 1 .. Len(text) /\ n \in 1 .. Len(text) /\ m <= n /\ Trim(text) = SubSeq(text, m, n)
    BY <2>2, <2>4 DEF m, n
  <2>6. /\ SubSeq(text, m, n) \in Seq(Pieces) /\ Len(SubSeq(text, m, n)) = n - m + 1
        /\ \A i \in 1 .. n - m + 1 : SubSeq(text, m, n)[i] = text[m + i - 1]
    BY <2>5, SubSeqProperties
  <2>7. Range(SubSeq(text, m, n)) \subseteq Range(text)
    BY <2>5, <2>6 DEF Range
  <2>8. m = 1 /\ n = Len(text) => SubSeq(text, m, n) = text
    BY <2>5, <2>6
  <2> QED
    BY <2>3, <2>5, <2>6, <2>7, <2>8 DEF m, n
<1> QED
  BY <1>3, <1>4

\* A name and a value that go through as they are would have been accepted.
LEMMA SendableIsAcceptable ==
    ASSUME NEW header \in Headers, IsName(header.name), IsValue(header.value),
           ~IsBlockedHeader(header.name)
    PROVE  /\ AddRefusal(header) = "ok"
           /\ SanitizeHeader(header).name = header.name
           /\ "CRLF" \notin Range(header.name) \cup Range(header.value)
<1>1. header.name \in Seq(Pieces) /\ header.value \in Seq(Pieces)
  BY DEF Headers
<1>2. Trim(header.name) = header.name
  BY <1>1, TrimIsPart
<1>3. Range(Trim(header.value)) \subseteq Range(header.value) /\ Trim(header.value) \in Seq(Pieces)
  BY <1>1, TrimIsPart
<1>4. "CRLF" \notin Range(header.name) \cup Range(header.value)
  BY DEF IsName, IsValue, White
<1>5. ValidateHeaderName(header.name) = "ok" /\ ValidateHeaderValue(header.value) = "ok"
  <2>1. ValidateHeaderName(header.name) = "ok"
    BY <1>2 DEF ValidateHeaderName
  <2> DEFINE value == Trim(header.value)
  <2>2. IsValue(value) /\ "CRLF" \notin Range(value)
    BY <1>3 DEF IsValue
  <2>3. value \in Seq(Pieces)
    BY <1>3
  <2> HIDE DEF value
  <2>4. ~Contains(value, "CRLF")
    BY <2>2, <2>3 DEF Contains, Range
  <2>5. ValidateHeaderValue(header.value) = "ok"
    BY <2>2, <2>4 DEF ValidateHeaderValue, value
  <2> QED
    BY <2>1, <2>5
<1>6. ValidateHeaders(<<header>>) = "ok"
  <2> DEFINE checks == [i \in 1 .. 2 * Len(<<header>>) |->
                           IF i % 2 = 1 THEN ValidateHeaderName(<<header>>[(i + 1) \div 2].name)
                           ELSE ValidateHeaderValue(<<header>>[(i + 1) \div 2].value)]
  <2>1. Len(<<header>>) = 1
    OBVIOUS
  <2>2. checks = [i \in 1 .. 2 |-> "ok"]
    <3>1. checks[1] = "ok" /\ checks[2] = "ok"
      BY <1>5
    <3> QED
      BY <2>1, <3>1
  <2>3. Len(checks) = 2 /\ \A i \in 1 .. Len(checks) : checks[i] = "ok"
    BY <2>2
  <2>4. ValidateHeaders(<<header>>) = FirstRefusal(checks)
    BY DEF ValidateHeaders
  <2> HIDE DEF checks
  <2> QED
    BY <2>3, <2>4, FirstRefusalSays
<1>7. AddRefusal(header) = "ok"
  <2>1. AddRefusal(header) = FirstRefusal(<<"ok", "ok">>)
    BY <1>2, <1>6 DEF AddRefusal
  <2>2. FirstRefusal(<<"ok", "ok">>) = "ok"
    <3> DEFINE r == <<"ok", "ok">>
    <3>1. Len(r) = 2 /\ \A i \in 1 .. Len(r) : r[i] = "ok"
      OBVIOUS
    <3> HIDE DEF r
    <3>2. FirstRefusal(r) = "ok"
      BY <3>1, FirstRefusalSays
    <3> QED
      BY <3>2 DEF r
  <2> QED
    BY <2>1, <2>2
<1> QED
  BY <1>2, <1>4, <1>7 DEF SanitizeHeader

\* What add_header() takes is a name and a value once it is trimmed, and none of
\* the blocked.
LEMMA AcceptableIsSendable ==
    ASSUME NEW header \in Headers, AddRefusal(header) = "ok"
    PROVE  /\ IsName(Trim(header.name)) /\ IsValue(Trim(header.value))
           /\ ~IsBlockedHeader(Trim(header.name))
<1> DEFINE checks == <<ValidateHeaders(<<header>>),
                       IF IsBlockedHeader(Trim(header.name)) THEN "HeaderError" ELSE "ok">>
<1>1. ValidateHeaders(<<header>>) = "ok" /\ ~IsBlockedHeader(Trim(header.name))
  <2>1. FirstRefusal(checks) = "ok"
    BY DEF AddRefusal
  <2>2. Len(checks) = 2
    OBVIOUS
  <2> HIDE DEF checks
  <2>3. checks[1] = "ok" /\ checks[2] = "ok"
    BY <2>1, <2>2, FirstRefusalSays
  <2> QED
    BY <2>3 DEF checks
<1> DEFINE inner == [i \in 1 .. 2 * Len(<<header>>) |->
                        IF i % 2 = 1 THEN ValidateHeaderName(<<header>>[(i + 1) \div 2].name)
                        ELSE ValidateHeaderValue(<<header>>[(i + 1) \div 2].value)]
<1>2. FirstRefusal(inner) = "ok"
  BY <1>1 DEF ValidateHeaders
<1>3. DOMAIN inner = 1 .. 2 /\ Len(inner) = 2
  <2>1. 2 * Len(<<header>>) = 2
    OBVIOUS
  <2> QED
    BY <2>1
<1>4. /\ inner[1] = ValidateHeaderName(header.name)
      /\ inner[2] = ValidateHeaderValue(header.value)
  BY <1>3
<1> HIDE DEF inner
<1>5. inner[1] = "ok" /\ inner[2] = "ok"
  BY <1>2, <1>3, FirstRefusalSays
<1>6. IsName(Trim(header.name)) /\ IsValue(Trim(header.value))
  BY <1>4, <1>5 DEF ValidateHeaderName, ValidateHeaderValue
<1> QED
  BY <1>1, <1>6

\* What is accepted of a list is such, and has names out of the list.
LEMMA AcceptedIsSendable ==
    ASSUME NEW list \in Seq(Headers)
    PROVE  /\ Accepted(list) \in Seq(Headers)
           /\ \A i \in DOMAIN Accepted(list) :
                 LET header == Accepted(list)[i]
                 IN  /\ IsName(header.name) /\ IsValue(header.value)
                     /\ ~IsBlockedHeader(header.name)
           /\ \A i \in DOMAIN Accepted(list) :
                 \E j \in DOMAIN list : Accepted(list)[i].name = Trim(list[j].name)
<1> DEFINE I == {i \in 1 .. Len(list) : AddRefusal(list[i]) # "ok"}
           refused == IF I = {} THEN 0 ELSE Min(I)
           good == IF refused = 0 THEN list ELSE SubSeq(list, 1, refused - 1)
<1>1. Accepted(list) = [i \in DOMAIN good |-> SanitizeHeader(good[i])]
  BY DEF Accepted, SelectInSeq
<1>2. I \in SUBSET Nat /\ Len(list) \in Nat
  OBVIOUS
<1>3. I # {} => Min(I) \in I /\ \A y \in I : Min(I) <= y
  BY <1>2, FirstOf
<1>4. /\ good \in Seq(Headers) /\ Len(good) <= Len(list)
      /\ \A i \in 1 .. Len(good) : good[i] = list[i] /\ AddRefusal(good[i]) = "ok"
  <2>1. CASE I = {}
    BY <2>1
  <2>2. CASE I # {}
    <3>1. Min(I) \in 1 .. Len(list) /\ \A i \in 1 .. Min(I) - 1 : AddRefusal(list[i]) = "ok"
      <4>1. Min(I) \in 1 .. Len(list) /\ \A y \in I : Min(I) <= y
        BY <1>3, <2>2
      <4>2. ASSUME NEW i \in 1 .. Min(I) - 1, AddRefusal(list[i]) # "ok"
            PROVE  FALSE
        <5>1. i \in 1 .. Len(list) /\ i < Min(I)
          BY <4>1
        <5>2. i \in I
          BY <4>2, <5>1
        <5> QED
          BY <4>1, <5>1, <5>2
      <4> QED
        BY <4>1, <4>2
    <3> DEFINE m == Min(I)
    <3>2. good = SubSeq(list, 1, m - 1)
      <4>1. refused = Min(I) /\ refused # 0
        BY <2>2, <3>1
      <4> QED
        BY <4>1
    <3> HIDE DEF I, m
    <3>3. m \in 1 .. Len(list) /\ \A i \in 1 .. m - 1 : AddRefusal(list[i]) = "ok"
      BY <3>1 DEF m
    <3>4. \A i \in 1 .. m - 1 : list[i] \in Headers
      BY <3>3
    <3>5. /\ SubSeq(list, 1, m - 1) \in Seq(Headers) /\ Len(SubSeq(list, 1, m - 1)) = m - 1
          /\ \A i \in 1 .. m - 1 : SubSeq(list, 1, m - 1)[i] = list[i]
      BY <3>3, <3>4, SubSeqProperties
    <3> HIDE DEF good
    <3> QED
      BY <3>2, <3>3, <3>5
  <2> QED
    BY <2>1, <2>2
<1> HIDE DEF good
<1>5. DOMAIN Accepted(list) = 1 .. Len(good) /\ Len(good) \in Nat
  BY <1>1, <1>4
<1>6. ASSUME NEW i \in DOMAIN Accepted(list)
      PROVE  /\ Accepted(list)[i] \in Headers
             /\ LET header == Accepted(list)[i]
                IN  /\ IsName(header.name) /\ IsValue(header.value)
                    /\ ~IsBlockedHeader(header.name)
             /\ i \in DOMAIN list /\ Accepted(list)[i].name = Trim(list[i].name)
  <2>1. /\ good[i] \in Headers /\ i \in DOMAIN list /\ good[i] = list[i]
        /\ AddRefusal(good[i]) = "ok"
    BY <1>4, <1>5, <1>6
  <2>2. Accepted(list)[i] = [name |-> Trim(good[i].name), value |-> Trim(good[i].value)]
    BY <1>1, <1>4, <1>5, <1>6 DEF SanitizeHeader
  <2>3. /\ IsName(Trim(good[i].name)) /\ IsValue(Trim(good[i].value))
        /\ ~IsBlockedHeader(Trim(good[i].name))
    BY <2>1, AcceptableIsSendable
  <2>4. Trim(good[i].name) \in Seq(Pieces) /\ Trim(good[i].value) \in Seq(Pieces)
    BY <2>1, TrimIsPart DEF Headers
  <2> QED
    BY <2>1, <2>2, <2>3, <2>4 DEF Headers
<1>7. Accepted(list) \in Seq(Headers)
  <2>1. Accepted(list) = [i \in 1 .. Len(good) |-> Accepted(list)[i]]
    BY <1>1, <1>5
  <2> QED
    BY <1>5, <1>6, <2>1
<1> QED
  BY <1>6, <1>7

-----------------------------------------------------------------------------
(***************************************************************************)
(* Settings.                                                               *)
(***************************************************************************)

\* What a call sets its field to.
Value(one) == IF one.set = "pins" THEN {pin.hash : pin \in Range(one.to)} ELSE one.to

\* Calls that set it, in order, leave a field that was `before` at `after`.
Leaves(asked, field, before, after) ==
    \/ after = before /\ \A i \in DOMAIN asked : asked[i].set # field
    \/ \E i \in DOMAIN asked :
          /\ asked[i].set = field /\ after = Value(asked[i])
          /\ \A j \in DOMAIN asked : j > i => asked[j].set # field

\* One call more decides, if it is about the field.
LEMMA OneCallMore ==
    ASSUME NEW T, NEW asked \in Seq(T), NEW one \in T, NEW field, NEW before, NEW after
    PROVE  Leaves(Append(asked, one), field, before, after) <=>
              IF one.set = field THEN after = Value(one) ELSE Leaves(asked, field, before, after)
<1> DEFINE all == Append(asked, one)  n == Len(asked)
<1>1. /\ n \in Nat /\ DOMAIN asked = 1 .. n /\ DOMAIN all = 1 .. n + 1
      /\ all[n + 1] = one /\ \A i \in 1 .. n : all[i] = asked[i]
  OBVIOUS
<1> HIDE DEF all, n
<1>2. CASE one.set = field
  BY <1>1, <1>2 DEF Leaves, all
<1>3. CASE one.set # field
  <2>1. (\A i \in DOMAIN all : all[i].set # field) <=> (\A i \in DOMAIN asked : asked[i].set # field)
    BY <1>1, <1>3
  <2>2. ASSUME NEW i \in 1 .. n
        PROVE  (\A j \in DOMAIN all : j > i => all[j].set # field) <=>
                  (\A j \in DOMAIN asked : j > i => asked[j].set # field)
    BY <1>1, <1>3
  <2>3. Leaves(all, field, before, after) => Leaves(asked, field, before, after)
    BY <1>1, <1>3, <2>1, <2>2 DEF Leaves
  <2>4. Leaves(asked, field, before, after) => Leaves(all, field, before, after)
    BY <1>1, <1>3, <2>1, <2>2 DEF Leaves
  <2> QED
    BY <1>3, <2>3, <2>4 DEF all
<1> QED
  BY <1>2, <1>3

\* Calls after calls.
LEMMA MoreCalls ==
    ASSUME NEW T, NEW first \in Seq(T), NEW second \in Seq(T), NEW field,
           NEW before, NEW between, NEW after,
           Leaves(first, field, before, between), Leaves(second, field, between, after)
    PROVE  Leaves(first \o second, field, before, after)
<1> DEFINE all == first \o second  m == Len(first)  n == Len(second)
<1>1. /\ m \in Nat /\ n \in Nat /\ DOMAIN first = 1 .. m /\ DOMAIN second = 1 .. n
      /\ DOMAIN all = 1 .. m + n
      /\ \A i \in 1 .. m : all[i] = first[i]
      /\ \A i \in m + 1 .. m + n : all[i] = second[i - m]
      /\ \A i \in 1 .. n : all[m + i] = second[i]
  OBVIOUS
<1> HIDE DEF all, m, n
<1>2. CASE after = between /\ \A i \in DOMAIN second : second[i].set # field
  <2>1. \A i \in m + 1 .. m + n : all[i].set # field
    <3>1. \A i \in m + 1 .. m + n : i - m \in DOMAIN second /\ all[i] = second[i - m]
      <4>1. m \in Nat /\ n \in Nat /\ DOMAIN second = 1 .. n
        BY <1>1
      <4>2. \A i \in m + 1 .. m + n : i - m \in 1 .. n
        BY <4>1
      <4> QED
        BY <1>1, <4>1, <4>2
    <3> QED
      BY <1>2, <3>1
  <2>2. CASE between = before /\ \A i \in DOMAIN first : first[i].set # field
    <3>1. \A i \in DOMAIN all : all[i].set # field
      BY <1>1, <2>1, <2>2
    <3> QED
      BY <1>2, <2>2, <3>1 DEF Leaves, all
  <2>3. ASSUME NEW i \in DOMAIN first, first[i].set = field, between = Value(first[i]),
               \A j \in DOMAIN first : j > i => first[j].set # field
        PROVE  Leaves(all, field, before, after)
    <3>1. i \in DOMAIN all /\ all[i] = first[i]
      BY <1>1, <2>3
    <3>2. \A j \in DOMAIN all : j > i => all[j].set # field
      BY <1>1, <2>1, <2>3
    <3> QED
      BY <1>2, <2>3, <3>1, <3>2 DEF Leaves
  <2> QED
    BY <2>2, <2>3 DEF Leaves, all
<1>3. ASSUME NEW i \in DOMAIN second, second[i].set = field, after = Value(second[i]),
             \A j \in DOMAIN second : j > i => second[j].set # field
      PROVE  Leaves(all, field, before, after)
  <2>1. m + i \in DOMAIN all /\ all[m + i] = second[i]
    BY <1>1, <1>3
  <2>2. \A j \in DOMAIN all : j > m + i => all[j].set # field
    <3>1. \A j \in DOMAIN all : j > m + i => j - m \in DOMAIN second /\ j - m > i
                                             /\ all[j] = second[j - m]
      BY <1>1
    <3> QED
      BY <1>3, <3>1
  <2> QED
    BY <1>3, <2>1, <2>2 DEF Leaves
<1> QED
  BY <1>2, <1>3 DEF Leaves, all

\* The first of the calls, and then the others.
LEMMA FirstCall ==
    ASSUME NEW T, NEW asked \in Seq(T), asked # <<>>, NEW field, NEW before, NEW after,
           Leaves(Tail(asked), field,
                  IF Head(asked).set = field THEN Value(Head(asked)) ELSE before, after)
    PROVE  Leaves(asked, field, before, after)
<1> DEFINE head == Head(asked)
           between == IF head.set = field THEN Value(head) ELSE before
<1>1. head \in T /\ Tail(asked) \in Seq(T) /\ asked = <<head>> \o Tail(asked)
  OBVIOUS
<1>2. Leaves(<<head>>, field, before, between)
  BY DEF Leaves
<1>3. <<head>> \in Seq(T)
  BY <1>1
<1>4. Leaves(Tail(asked), field, between, after)
  OBVIOUS
<1> HIDE DEF head, between
<1> QED
  BY <1>1, <1>2, <1>3, <1>4, MoreCalls

\* What calls leave is what the properties look for in them.
LEMMA WantedIsLeft ==
    ASSUME NEW T, Asked \in Seq(T), NEW field, NEW before, NEW after,
           Leaves(Asked, field, before, after)
    PROVE  /\ field # "pins" => Wanted(field, before) = after
           /\ field = "pins" /\ before = None => after = IF Pinned THEN WantedPins ELSE None
<1> DEFINE I(f) == {i \in 1 .. Len(Asked) : Asked[i].set = f}
<1>1. \A f, default : Wanted(f, default) = IF I(f) = {} \/ Max(I(f)) = 0 THEN default
                                           ELSE Asked[Max(I(f))].to
  BY DEF Wanted, SelectLastInSeq
<1>2. DOMAIN Asked = 1 .. Len(Asked)
  OBVIOUS
<1>3. CASE after = before /\ \A i \in DOMAIN Asked : Asked[i].set # field
  <2>1. I(field) = {}
    BY <1>2, <1>3
  <2> HIDE DEF I
  <2>2. Wanted(field, before) = before
    BY <1>1, <2>1
  <2>3. field = "pins" => ~Pinned
    BY <1>3 DEF Pinned
  <2> QED
    BY <1>3, <2>2, <2>3
<1>4. ASSUME NEW i \in DOMAIN Asked, Asked[i].set = field, after = Value(Asked[i]),
             \A j \in DOMAIN Asked : j > i => Asked[j].set # field
      PROVE  /\ field # "pins" => Wanted(field, before) = after
             /\ field = "pins" => Pinned /\ after = WantedPins
  <2>1. i \in I(field) /\ i \in 1 .. Len(Asked) /\ \A j \in I(field) : j <= i
    BY <1>2, <1>4
  <2>2. \A j \in I(field) : j \in Nat
    OBVIOUS
  <2> HIDE DEF I
  <2>3. Max(I(field)) = i
    BY <2>1, <2>2 DEF Max
  <2>4. \A default : Wanted(field, default) = Asked[i].to
    BY <1>1, <2>1, <2>3
  <2>5. field # "pins" => Wanted(field, before) = after
    BY <1>4, <2>4 DEF Value
  <2>6. field = "pins" => Pinned /\ after = WantedPins
    BY <1>4, <2>4 DEF Value, Pinned, WantedPins
  <2> QED
    BY <2>5, <2>6
<1> QED
  BY <1>3, <1>4 DEF Leaves

-----------------------------------------------------------------------------
(***************************************************************************)
(* Interceptors.                                                           *)
(***************************************************************************)

Silent == [set |-> "nothing"]

\* The call an interceptor makes, and those of a chain.
CallOf(interceptor) == IF interceptor.does = "set" THEN interceptor.call ELSE Silent
ChainCalls(chain)   == [i \in DOMAIN chain |-> CallOf(chain[i])]

AllCalls     == Range(BuilderCalls) \cup Range(RequestCalls)
Interceptors == {one.to : one \in {any \in AllCalls : any.set = "interceptor"}}
Asking       == AllCalls \cup {CallOf(interceptor) : interceptor \in Interceptors} \cup {Silent}

LastReset(made) == SelectLastInSeq(made, LAMBDA one : one.set = "chain")

\* A chain makes the calls the properties expect of the interceptors, whatever
\* it starts from.
ChainIsAsAsked(made, chain) ==
    /\ LastReset(made) \in 0 .. Len(made)
    /\ \A field, before, after :
          field # "nothing" /\ Leaves(ChainCalls(chain), field, before, after)
             => Leaves(AskedByInterceptors(made), field, before, after)
    /\ Range(AskedByInterceptors(made)) \subseteq Range(ChainCalls(chain)) \cup {Silent}

LEMMA RangeOfAppend ==
    ASSUME NEW T, NEW list \in Seq(T), NEW one
    PROVE  Range(Append(list, one)) = Range(list) \cup {one}
<1>1. /\ DOMAIN list = 1 .. Len(list) /\ DOMAIN Append(list, one) = 1 .. Len(list) + 1
      /\ \A i \in 1 .. Len(list) : Append(list, one)[i] = list[i]
      /\ Append(list, one)[Len(list) + 1] = one /\ Len(list) \in Nat
  OBVIOUS
<1>2. \A i \in 1 .. Len(list) + 1 : i \in 1 .. Len(list) \/ i = Len(list) + 1
  BY <1>1
<1>3. Len(list) + 1 \in 1 .. Len(list) + 1 /\ \A i \in 1 .. Len(list) : i \in 1 .. Len(list) + 1
  BY <1>1
<1> QED
  BY <1>1, <1>2, <1>3, Zenon DEF Range

LEMMA CallsAreTyped ==
    /\ \A chain \in Seq(Interceptors) :
          ChainCalls(chain) \in Seq(Asking) /\ Len(ChainCalls(chain)) = Len(chain)
    /\ \A made \in Seq(AllCalls) :
          /\ made \in Seq(Asking) /\ AskedByInterceptors(made) \in Seq(Asking)
          /\ Len(AskedByInterceptors(made)) = Len(made)
<1>1. ASSUME NEW chain \in Seq(Interceptors)
      PROVE  ChainCalls(chain) \in Seq(Asking) /\ Len(ChainCalls(chain)) = Len(chain)
  <2>1. ChainCalls(chain) = [i \in 1 .. Len(chain) |-> CallOf(chain[i])]
    BY DEF ChainCalls
  <2>2. \A i \in 1 .. Len(chain) : CallOf(chain[i]) \in Asking
    BY DEF Asking
  <2> QED
    BY <2>1, <2>2
<1>2. ASSUME NEW made \in Seq(AllCalls)
      PROVE  /\ made \in Seq(Asking) /\ AskedByInterceptors(made) \in Seq(Asking)
             /\ Len(AskedByInterceptors(made)) = Len(made)
  <2> DEFINE at(i) == IF i > LastReset(made) /\ made[i].set = "interceptor"
                         /\ made[i].to.does = "set"
                      THEN made[i].to.call ELSE Silent
  <2>1. AskedByInterceptors(made) = [i \in 1 .. Len(made) |-> at(i)]
    BY DEF AskedByInterceptors, LastReset, Silent
  <2>2. ASSUME NEW i \in 1 .. Len(made)
        PROVE  at(i) \in Asking
    <3>1. made[i] \in AllCalls
      OBVIOUS
    <3>2. CASE i > LastReset(made) /\ made[i].set = "interceptor" /\ made[i].to.does = "set"
      <4>1. made[i].to \in Interceptors
        BY <3>1, <3>2 DEF Interceptors
      <4>2. at(i) = CallOf(made[i].to)
        BY <3>2 DEF CallOf
      <4> QED
        BY <4>1, <4>2 DEF Asking
    <3>3. CASE ~(i > LastReset(made) /\ made[i].set = "interceptor" /\ made[i].to.does = "set")
      <4>1. at(i) = Silent
        BY <3>3
      <4> QED
        BY <4>1 DEF Asking
    <3> QED
      BY <3>2, <3>3
  <2> HIDE DEF at
  <2>3. made \in Seq(Asking)
    <3>1. AllCalls \subseteq Asking
      BY DEF Asking
    <3> QED
      BY <3>1
  <2> QED
    BY <2>1, <2>2, <2>3
<1> QED
  BY <1>1, <1>2

\* with_interceptors(), with_interceptor() and any other call keep it so.
LEMMA ChainStaysAsAsked ==
    ASSUME NEW made \in Seq(AllCalls), NEW chain \in Seq(Interceptors), NEW one \in AllCalls,
           ChainIsAsAsked(made, chain)
    PROVE  ChainIsAsAsked(Append(made, one),
              CASE one.set = "interceptor" -> Append(chain, one.to)
                [] one.set = "chain"       -> <<>>
                [] OTHER                   -> chain)
<1> DEFINE all == Append(made, one)  n == Len(made)
           I(s) == {i \in 1 .. Len(s) : s[i].set = "chain"}
           asked == AskedByInterceptors(made)  allAsked == AskedByInterceptors(all)
<1>1. /\ n \in Nat /\ DOMAIN made = 1 .. n /\ Len(all) = n + 1 /\ DOMAIN all = 1 .. n + 1
      /\ all[n + 1] = one /\ \A i \in 1 .. n : all[i] = made[i]
      /\ all \in Seq(AllCalls)
  OBVIOUS
<1>2. \A s : LastReset(s) = IF I(s) = {} THEN 0 ELSE Max(I(s))
  BY DEF LastReset, SelectLastInSeq
<1> DEFINE at(s, i) == IF i > LastReset(s) /\ s[i].set = "interceptor" /\ s[i].to.does = "set"
                       THEN s[i].to.call ELSE Silent
<1>3. /\ \A i \in 1 .. n : asked[i] = at(made, i)
      /\ \A i \in 1 .. n + 1 : allAsked[i] = at(all, i)
  <2>1. asked = [i \in DOMAIN made |-> at(made, i)] /\ allAsked = [i \in DOMAIN all |-> at(all, i)]
    BY DEF AskedByInterceptors, LastReset, Silent
  <2> HIDE DEF at, asked, allAsked, all
  <2> QED
    BY <1>1, <2>1
<1>4. Silent.set = "nothing" /\ Silent \in Asking
  BY DEF Silent, Asking
<1>5. asked \in Seq(Asking) /\ allAsked \in Seq(Asking) /\ Len(asked) = n /\ Len(allAsked) = n + 1
  BY <1>1, CallsAreTyped
<1>6. ChainCalls(chain) \in Seq(Asking)
  BY CallsAreTyped
<1>7. CASE one.set = "chain"
  <2>1. n + 1 \in I(all) /\ \A i \in I(all) : i <= n + 1 /\ i \in Nat
    BY <1>1, <1>7
  <2> HIDE DEF I
  <2>2. LastReset(all) = n + 1
    <3>1. Max(I(all)) = n + 1
      BY <1>1, <2>1 DEF Max
    <3> QED
      BY <1>2, <2>1, <3>1
  <2>3. \A i \in 1 .. n + 1 : allAsked[i] = Silent
    <3> HIDE DEF asked, allAsked, all, n
    <3> QED
      BY <1>1, <1>3, <2>2
  <2>4. ASSUME NEW field, NEW before, NEW after,
               field # "nothing", Leaves(ChainCalls(<<>>), field, before, after)
        PROVE  Leaves(allAsked, field, before, after)
    <3>1. after = before
      BY <2>4 DEF Leaves, ChainCalls
    <3>2. \A i \in DOMAIN allAsked : allAsked[i].set # field
      BY <1>4, <1>5, <2>3, <2>4
    <3> QED
      BY <3>1, <3>2 DEF Leaves
  <2>5. Range(allAsked) \subseteq {Silent}
    BY <1>5, <2>3 DEF Range
  <2>6. ChainIsAsAsked(all, <<>>)
    BY <1>1, <2>2, <2>4, <2>5 DEF ChainIsAsAsked
  <2> QED
    BY <1>7, <2>6
<1>8. CASE one.set # "chain"
  <2> DEFINE call == IF one.set = "interceptor" THEN CallOf(one.to) ELSE Silent
  <2>1. LastReset(all) = LastReset(made) /\ LastReset(made) \in 0 .. n
    <3>1. I(all) = I(made)
      BY <1>1, <1>8
    <3> QED
      BY <1>2, <3>1 DEF ChainIsAsAsked
  <2>2. allAsked = Append(asked, call)
    <3> HIDE DEF asked, allAsked, all, n
    <3>1. \A i \in 1 .. n : allAsked[i] = asked[i]
      BY <1>1, <1>3, <2>1
    <3>2. allAsked[n + 1] = call
      BY <1>1, <1>3, <2>1 DEF CallOf
    <3> HIDE DEF call
    <3> QED
      BY <1>1, <1>5, <3>1, <3>2
  <2>3. call \in Asking
    BY <1>4 DEF Asking, Interceptors
  <2>4. CASE one.set = "interceptor"
    <3>1. one.to \in Interceptors /\ call = CallOf(one.to)
      BY <2>4 DEF Interceptors
    <3>2. ChainCalls(Append(chain, one.to)) = Append(ChainCalls(chain), call)
      BY <3>1 DEF ChainCalls
    <3> HIDE DEF call, asked, allAsked
    <3>3. ASSUME NEW field, NEW before, NEW after, field # "nothing",
                 Leaves(ChainCalls(Append(chain, one.to)), field, before, after)
          PROVE  Leaves(allAsked, field, before, after)
      <4>1. IF call.set = field THEN after = Value(call)
            ELSE Leaves(ChainCalls(chain), field, before, after)
        BY <1>6, <2>3, <3>2, <3>3, OneCallMore
      <4>2. IF call.set = field THEN after = Value(call) ELSE Leaves(asked, field, before, after)
        BY <3>3, <4>1 DEF ChainIsAsAsked, asked
      <4> QED
        BY <1>5, <2>2, <2>3, <4>2, OneCallMore
    <3>4. Range(allAsked) \subseteq Range(ChainCalls(Append(chain, one.to))) \cup {Silent}
      <4>1. Range(asked) \subseteq Range(ChainCalls(chain)) \cup {Silent}
        BY DEF ChainIsAsAsked, asked
      <4>2. /\ Range(Append(asked, call)) = Range(asked) \cup {call}
            /\ Range(Append(ChainCalls(chain), call)) = Range(ChainCalls(chain)) \cup {call}
        BY <1>5, <1>6, RangeOfAppend
      <4> QED
        BY <2>2, <3>2, <4>1, <4>2
    <3>5. ChainIsAsAsked(all, Append(chain, one.to))
      BY <1>1, <2>1, <3>3, <3>4 DEF ChainIsAsAsked, allAsked
    <3> QED
      BY <2>4, <3>5
  <2>5. CASE one.set # "interceptor"
    <3>1. call = Silent
      BY <2>5
    <3> HIDE DEF call, asked, allAsked
    <3>2. ASSUME NEW field, NEW before, NEW after, field # "nothing",
                 Leaves(ChainCalls(chain), field, before, after)
          PROVE  Leaves(allAsked, field, before, after)
      <4>1. Leaves(asked, field, before, after)
        BY <3>2 DEF ChainIsAsAsked, asked
      <4> QED
        BY <1>4, <1>5, <2>2, <2>3, <3>1, <3>2, <4>1, OneCallMore
    <3>3. Range(allAsked) \subseteq Range(ChainCalls(chain)) \cup {Silent}
      <4>1. Range(asked) \subseteq Range(ChainCalls(chain)) \cup {Silent}
        BY DEF ChainIsAsAsked, asked
      <4>2. Range(allAsked) = Range(asked) \cup {call}
        BY <1>5, <2>2, RangeOfAppend
      <4> QED
        BY <3>1, <4>1, <4>2
    <3>4. ChainIsAsAsked(all, chain)
      BY <1>1, <2>1, <3>2, <3>3 DEF ChainIsAsAsked, allAsked
    <3> QED
      BY <1>8, <2>5, <3>4
  <2> QED
    BY <2>4, <2>5
<1> QED
  BY <1>7, <1>8

-----------------------------------------------------------------------------
(***************************************************************************)
(* What one call, and one interceptor, does to settings.                   *)
(***************************************************************************)

Fields        == {"timeout", "jar", "pins", "proxy"}
BuilderFields == Fields \cup {"connect", "agent", "follow", "max"}
Lists         == {"headers", "chain"}

\* The names of the headers a call adds, and those a list of headers has, spelled
\* as they are sent or with something to trim.
NamesIn(one) ==
    IF one.set \in {"headers", "raw"}
    THEN {Trim(header.name) : header \in Range(Accepted(one.to))} ELSE {}

Carries(headers, name) ==
    \E i \in DOMAIN headers : name \in {Trim(headers[i].name), Trim(Trim(headers[i].name))}

Configured(s, fields) ==
    /\ DOMAIN s = fields \cup Lists
    /\ s.timeout \in Nat
    /\ s.jar \in {None, "empty", "store"}
    /\ s.proxy.mode \in {"System", "Environment", "Disabled", "Explicit"}
    /\ s.headers \in Seq(Headers)
    /\ s.chain \in Seq(Interceptors)

\* What is known of calls and interceptors.
LEMMA CallsAreCalls ==
    /\ \A one \in AllCalls :
          /\ IsCall(one)
          /\ one.set \in BuilderFields \cup {"headers", "raw", "interceptor", "chain"}
          /\ one.set = "interceptor" => one.to \in Interceptors
    /\ \A one \in Range(BuilderCalls) : one.set \notin {"raw", "chain"}
    /\ \A one \in Range(RequestCalls) : one.set \notin {"connect", "agent", "follow", "max"}
    /\ \A one \in Interceptors :
          /\ one.does \in {"authorize", "set", "fail"}
          /\ one.does = "authorize" => one.name \in Seq(Pieces) /\ one.token \in Seq(Pieces)
          /\ one.does = "set" => /\ one.call.set \in Fields \cup {"headers", "raw"}
                                 /\ IsSetting(one.call)
<1>1. \A one \in AllCalls :
         /\ IsCall(one)
         /\ one.set \in BuilderFields \cup {"headers", "raw", "interceptor", "chain"}
         /\ one.set = "interceptor" => one.to \in Interceptors
  BY ClientAssumption DEF AllCalls, Range, Interceptors, BuilderFields, Fields
<1>2. /\ \A one \in Range(BuilderCalls) : one.set \notin {"raw", "chain"}
      /\ \A one \in Range(RequestCalls) : one.set \notin {"connect", "agent", "follow", "max"}
  BY ClientAssumption DEF Range
<1>3. ASSUME NEW one \in Interceptors
      PROVE  /\ one.does \in {"authorize", "set", "fail"}
             /\ one.does = "authorize" => one.name \in Seq(Pieces) /\ one.token \in Seq(Pieces)
             /\ one.does = "set" => /\ one.call.set \in Fields \cup {"headers", "raw"}
                                    /\ IsSetting(one.call)
  <2>1. PICK any \in AllCalls : any.set = "interceptor" /\ one = any.to
    BY DEF Interceptors
  <2>2. \/ one.does = "fail"
        \/ one.does = "authorize" /\ {one.name, one.token} \subseteq Seq(Pieces)
        \/ /\ one.does = "set"
           /\ one.call.set \in {"timeout", "jar", "pins", "proxy", "headers", "raw"}
           /\ IsSetting(one.call)
    BY <1>1, <2>1 DEF IsCall
  <2> QED
    BY <2>2 DEF Fields
<1> QED
  BY <1>1, <1>2, <1>3

\* A call changes its own field, and takes no header away.
LEMMA SetSays ==
    ASSUME NEW fields \in {Fields, BuilderFields}, NEW into, Configured(into, fields),
           NEW one, one.set \in fields \cup {"headers", "raw", "interceptor", "chain"},
           IsCall(one), one.set = "interceptor" => one.to \in Interceptors
    PROVE  /\ Configured(Set(one, into), fields)
           /\ \A field \in fields :
                 Set(one, into)[field] = IF one.set = field THEN Value(one) ELSE into[field]
           /\ Set(one, into).chain = CASE one.set = "interceptor" -> Append(into.chain, one.to)
                                       [] one.set = "chain"       -> <<>>
                                       [] OTHER                   -> into.chain
           /\ \A name : Carries(into.headers, name) \/ name \in NamesIn(one)
                           => Carries(Set(one, into).headers, name)
           /\ one.set \notin {"headers", "raw"} => Set(one, into).headers = into.headers
<1> DEFINE after == Set(one, into)
<1>1. /\ {"timeout", "jar", "pins", "proxy"} \subseteq fields
      /\ {"headers", "raw", "interceptor", "chain"} \cap fields = {}
      /\ DOMAIN into = fields \cup {"headers", "chain"}
  BY DEF Fields, BuilderFields, Configured, Lists
<1>2. ASSUME one.set = "headers" \/ one.set = "raw",
             NEW list \in Seq(Headers), after = [into EXCEPT !.headers = @ \o list],
             \A name \in NamesIn(one) : Carries(list, name)
      PROVE  /\ DOMAIN after = DOMAIN into
             /\ after.headers \in Seq(Headers)
             /\ \A field \in fields \cup {"chain"} : after[field] = into[field]
             /\ \A name : Carries(into.headers, name) \/ name \in NamesIn(one)
                             => Carries(after.headers, name)
  <2>1. /\ DOMAIN after = DOMAIN into /\ after.headers = into.headers \o list
        /\ \A field \in fields \cup {"chain"} : after[field] = into[field]
    BY <1>1, <1>2
  <2> DEFINE old == into.headers
  <2>2. old \in Seq(Headers)
    BY DEF Configured
  <2> HIDE DEF old
  <2>3. /\ old \o list \in Seq(Headers)
        /\ \A i \in DOMAIN old : i \in DOMAIN (old \o list) /\ (old \o list)[i] = old[i]
        /\ \A i \in DOMAIN list : /\ Len(old) + i \in DOMAIN (old \o list)
                                  /\ (old \o list)[Len(old) + i] = list[i]
    BY <1>2, <2>2
  <2>4. \A name : Carries(old, name) \/ Carries(list, name) => Carries(old \o list, name)
    BY <2>3 DEF Carries
  <2> QED
    BY <1>2, <2>1, <2>3, <2>4 DEF old
<1>3. CASE one.set = "headers"
  <2>1. one.to \in Seq(Headers)
    BY <1>3 DEF IsCall, IsSetting
  <2>2. Accepted(one.to) \in Seq(Headers)
    BY <2>1, AcceptedIsSendable
  <2>3. after = [into EXCEPT !.headers = @ \o Accepted(one.to)]
    BY <1>3 DEF Set
  <2>4. \A name \in NamesIn(one) : Carries(Accepted(one.to), name)
    BY <1>3 DEF NamesIn, Carries, Range
  <2>5. /\ DOMAIN after = DOMAIN into /\ after.headers \in Seq(Headers)
        /\ \A field \in fields \cup {"chain"} : after[field] = into[field]
        /\ \A name : Carries(into.headers, name) \/ name \in NamesIn(one)
                        => Carries(after.headers, name)
    BY <1>2, <1>3, <2>2, <2>3, <2>4
  <2> HIDE DEF after
  <2>6. Configured(after, fields)
    BY <1>1, <2>5 DEF Configured
  <2> QED
    BY <1>1, <1>3, <2>5, <2>6 DEF after
<1>4. CASE one.set = "raw"
  <2>1. one.to \in Seq(Headers)
    BY <1>4 DEF IsCall, IsSetting
  <2>2. after = [into EXCEPT !.headers = @ \o one.to]
    BY <1>4 DEF Set
  <2>3. ASSUME NEW name \in NamesIn(one)
        PROVE  Carries(one.to, name)
    <3>1. PICK i \in DOMAIN Accepted(one.to) : name = Trim(Accepted(one.to)[i].name)
      BY <1>4, <2>3 DEF NamesIn, Range
    <3>2. PICK j \in DOMAIN one.to : Accepted(one.to)[i].name = Trim(one.to[j].name)
      BY <2>1, AcceptedIsSendable
    <3> QED
      BY <3>1, <3>2 DEF Carries
  <2>4. /\ DOMAIN after = DOMAIN into /\ after.headers \in Seq(Headers)
        /\ \A field \in fields \cup {"chain"} : after[field] = into[field]
        /\ \A name : Carries(into.headers, name) \/ name \in NamesIn(one)
                        => Carries(after.headers, name)
    BY <1>2, <1>4, <2>1, <2>2, <2>3
  <2> HIDE DEF after
  <2>5. Configured(after, fields)
    BY <1>1, <2>4 DEF Configured
  <2> QED
    BY <1>1, <1>4, <2>4, <2>5 DEF after
<1>5. CASE one.set = "interceptor"
  <2>1. after = [into EXCEPT !.chain = Append(@, one.to)]
    BY <1>5 DEF Set
  <2>2. /\ DOMAIN after = DOMAIN into /\ after.chain = Append(into.chain, one.to)
        /\ \A field \in fields \cup {"headers"} : after[field] = into[field]
    BY <1>1, <2>1
  <2>3. Append(into.chain, one.to) \in Seq(Interceptors)
    BY <1>5 DEF Configured
  <2>4. NamesIn(one) = {}
    BY <1>5 DEF NamesIn
  <2> HIDE DEF after
  <2>5. Configured(after, fields)
    BY <1>1, <2>2, <2>3 DEF Configured
  <2> QED
    BY <1>1, <1>5, <2>2, <2>4, <2>5 DEF after
<1>6. CASE one.set = "chain"
  <2>1. after = [into EXCEPT !.chain = <<>>]
    BY <1>6 DEF Set, IsCall
  <2>2. /\ DOMAIN after = DOMAIN into /\ after.chain = <<>>
        /\ \A field \in fields \cup {"headers"} : after[field] = into[field]
    BY <1>1, <2>1
  <2>3. NamesIn(one) = {}
    BY <1>6 DEF NamesIn
  <2> HIDE DEF after
  <2>4. Configured(after, fields)
    BY <1>1, <2>2 DEF Configured
  <2> QED
    BY <1>1, <1>6, <2>2, <2>3, <2>4 DEF after
<1>7. CASE one.set \in fields
  <2>1. one.set \notin {"headers", "raw", "interceptor", "chain"}
    BY <1>1, <1>7
  <2>2. after = [into EXCEPT ![one.set] = Value(one)]
    BY <2>1 DEF Set, Value
  <2>3. /\ DOMAIN after = DOMAIN into
        /\ \A field \in fields : after[field] = IF one.set = field THEN Value(one) ELSE into[field]
        /\ after.headers = into.headers /\ after.chain = into.chain
    BY <1>1, <1>7, <2>1, <2>2
  <2>4. IsSetting(one)
    BY <2>1 DEF IsCall
  <2>5. /\ one.set = "timeout" => Value(one) \in Nat
        /\ one.set = "jar" => Value(one) \in {None, "empty", "store"}
        /\ one.set = "proxy" => Value(one).mode \in {"System", "Environment", "Disabled", "Explicit"}
    BY <2>4 DEF IsSetting, Value
  <2>6. NamesIn(one) = {}
    BY <2>1 DEF NamesIn
  <2> HIDE DEF after
  <2>7. Configured(after, fields)
    BY <1>1, <2>3, <2>5 DEF Configured
  <2> QED
    BY <1>1, <2>1, <2>3, <2>6, <2>7 DEF after
<1> QED
  BY <1>3, <1>4, <1>5, <1>6, <1>7

\* The token takes the place of a header of its own name.
LEMMA AuthorizeSays ==
    ASSUME NEW into, Configured(into, Fields),
           NEW one, one.name \in Seq(Pieces), one.token \in Seq(Pieces)
    PROVE  /\ Configured(Authorize(one, into), Fields)
           /\ \A field \in Fields : Authorize(one, into)[field] = into[field]
           /\ \A name : Carries(into.headers, name) => Carries(Authorize(one, into).headers, name)
<1> DEFINE after == Authorize(one, into)
           I == {i \in 1 .. Len(into.headers) : into.headers[i].name = one.name}
           at == IF I = {} THEN 0 ELSE Min(I)
           token == [name |-> one.name, value |-> <<"Bearer", " ">> \o one.token]
           old == into.headers
<1>1. /\ "headers" \in DOMAIN into /\ old \in Seq(Headers) /\ DOMAIN into = Fields \cup Lists
      /\ "headers" \notin Fields /\ "chain" # "headers" /\ "chain" \in DOMAIN into
  BY DEF Configured, Lists, Fields
<1>2. token \in Headers
  <2>1. "Bearer" \in Pieces /\ " " \in Pieces
    BY ClientAssumption
  <2>2. <<"Bearer", " ">> \o one.token \in Seq(Pieces)
    <3>1. ASSUME NEW T, NEW x \in T, NEW y \in T, NEW s \in Seq(T)
          PROVE  <<x, y>> \o s \in Seq(T)
      <4>1. <<x, y>> \in Seq(T)
        OBVIOUS
      <4> QED
        BY <4>1
    <3> QED
      BY <2>1, <3>1
  <2> QED
    BY <2>2 DEF Headers
<1>3. after = IF at = 0 THEN [into EXCEPT !.headers = Append(@, token)]
              ELSE [into EXCEPT !.headers[at] = token]
  BY DEF Authorize, SelectInSeq
<1>4. I = {} \/ (at \in DOMAIN old /\ old[at].name = one.name)
  <2>1. I \in SUBSET Nat
    BY <1>1
  <2>2. I # {} => Min(I) \in I
    BY <2>1, FirstOf
  <2> QED
    BY <1>1, <2>2
<1>5. token.name = one.name
  OBVIOUS
<1> HIDE DEF token, at
<1>6. ASSUME NEW new \in Seq(Headers), after = [into EXCEPT !.headers = new],
             \A i \in DOMAIN old : i \in DOMAIN new /\ new[i].name = old[i].name
      PROVE  /\ Configured(after, Fields)
             /\ \A field \in Fields : after[field] = into[field]
             /\ \A name : Carries(into.headers, name) => Carries(after.headers, name)
  <2>1. /\ DOMAIN after = DOMAIN into /\ after.headers = new
        /\ \A field \in Fields \cup {"chain"} : after[field] = into[field]
    <3> HIDE DEF after
    <3> QED
      BY <1>1, <1>6
  <2>2. \A name : Carries(old, name) => Carries(new, name)
    BY <1>6 DEF Carries
  <2>3. {"timeout", "jar", "proxy"} \subseteq Fields
    BY DEF Fields
  <2> HIDE DEF after
  <2> QED
    BY <2>1, <2>2, <2>3, <1>6 DEF Configured
<1>7. CASE at = 0
  <2>1. I = {}
    BY <1>1, <1>4, <1>7
  <2>2. after = [into EXCEPT !.headers = Append(old, token)]
    BY <1>3, <1>7
  <2>3. /\ Append(old, token) \in Seq(Headers)
        /\ \A i \in DOMAIN old : i \in DOMAIN Append(old, token) /\ Append(old, token)[i] = old[i]
    BY <1>1, <1>2
  <2> QED
    BY <1>6, <2>2, <2>3
<1>8. CASE at # 0
  <2>1. at \in DOMAIN old /\ old[at].name = one.name
    BY <1>4, <1>8 DEF at
  <2>2. after = [into EXCEPT !.headers = [old EXCEPT ![at] = token]]
    BY <1>3, <1>8
  <2>3. /\ [old EXCEPT ![at] = token] \in Seq(Headers)
        /\ \A i \in DOMAIN old : /\ i \in DOMAIN [old EXCEPT ![at] = token]
                                 /\ [old EXCEPT ![at] = token][i].name = old[i].name
    BY <1>1, <1>2, <1>5, <2>1
  <2> QED
    BY <1>6, <2>2, <2>3
<1> QED
  BY <1>6, <1>7, <1>8

\* What an interceptor makes of a request.
Ran(one, into) ==
    CASE one.does = "authorize" -> Authorize(one, into)
      [] one.does = "set"       -> Set(one.call, into)
      [] OTHER                  -> into

\* An interceptor does what its call says, and takes no header away either.
LEMMA InterceptorSays ==
    ASSUME NEW into, Configured(into, Fields), NEW one \in Interceptors
    PROVE  /\ Configured(Ran(one, into), Fields)
           /\ \A field \in Fields :
                 Ran(one, into)[field] =
                    IF CallOf(one).set = field THEN Value(CallOf(one)) ELSE into[field]
           /\ \A name : Carries(into.headers, name) \/ name \in NamesIn(CallOf(one))
                           => Carries(Ran(one, into).headers, name)
<1>1. one.does # "set" => /\ \A field \in Fields : CallOf(one).set # field
                          /\ NamesIn(CallOf(one)) = {}
  BY DEF CallOf, Silent, Fields, NamesIn
<1>2. CASE one.does = "authorize"
  <2>1. one.name \in Seq(Pieces) /\ one.token \in Seq(Pieces)
    BY <1>2, CallsAreCalls
  <2>2. Ran(one, into) = Authorize(one, into)
    BY <1>2 DEF Ran
  <2> QED
    BY <1>1, <1>2, <2>1, <2>2, AuthorizeSays
<1>3. CASE one.does = "set"
  <2>1. one.call.set \in Fields \cup {"headers", "raw"} /\ IsSetting(one.call)
    BY <1>3, CallsAreCalls
  <2>2. one.call.set # "interceptor" /\ IsCall(one.call)
    BY <2>1 DEF IsCall, Fields
  <2>3. Ran(one, into) = Set(one.call, into) /\ CallOf(one) = one.call
    BY <1>3 DEF Ran, CallOf
  <2>4. one.call.set \in Fields \cup {"headers", "raw", "interceptor", "chain"}
    BY <2>1
  <2>5. Fields \in {Fields, BuilderFields}
    OBVIOUS
  <2>6. /\ Configured(Set(one.call, into), Fields)
        /\ \A field \in Fields :
              Set(one.call, into)[field] =
                 IF one.call.set = field THEN Value(one.call) ELSE into[field]
        /\ \A name : Carries(into.headers, name) \/ name \in NamesIn(one.call)
                        => Carries(Set(one.call, into).headers, name)
    <3> DEFINE call == one.call
    <3> HIDE DEF call
    <3>1. /\ call.set \in Fields \cup {"headers", "raw", "interceptor", "chain"}
          /\ IsCall(call) /\ (call.set = "interceptor" => call.to \in Interceptors)
      BY <2>2, <2>4 DEF call
    <3>2. /\ Configured(Set(call, into), Fields)
          /\ \A field \in Fields :
                Set(call, into)[field] = IF call.set = field THEN Value(call) ELSE into[field]
          /\ \A name : Carries(into.headers, name) \/ name \in NamesIn(call)
                          => Carries(Set(call, into).headers, name)
      BY <2>5, <3>1, SetSays
    <3> QED
      BY <3>2 DEF call
  <2> QED
    BY <2>3, <2>6
<1>4. CASE one.does \notin {"authorize", "set"}
  <2>1. Ran(one, into) = into
    BY <1>4 DEF Ran
  <2> QED
    BY <1>1, <1>4, <2>1
<1> QED
  BY <1>2, <1>3, <1>4

-----------------------------------------------------------------------------
(***************************************************************************)
(* The invariant.                                                          *)
(***************************************************************************)

\* Settings are what the calls left of the defaults, every header of theirs is
\* there, and the chain is the interceptors'.
Follows(s, made, fields) ==
    /\ Configured(s, fields)
    /\ \A field \in fields : Leaves(made, field, NewBuilder[field], s[field])
    /\ \A one \in Range(made) : \A name \in NamesIn(one) : Carries(s.headers, name)
    /\ ChainIsAsAsked(made, s.chain)

\* Default headers are checked as they are added.
BuilderInv ==
    /\ calls \in [builder : Seq(Range(BuilderCalls)), request : Seq(Range(RequestCalls))]
    /\ Follows(builder, calls.builder, BuilderFields)
    /\ \A i \in DOMAIN builder.headers :
          /\ IsName(builder.headers[i].name) /\ IsValue(builder.headers[i].value)
          /\ ~IsBlockedHeader(builder.headers[i].name)

RequestInv ==
    /\ pc = "builder" => calls.request = <<>> /\ request = None
    /\ pc = "request" \/ request # None => Follows(request, Made, Fields)

\* While interceptors run, what was asked for is in the copy already, or will be by
\* the time they are through.
InterceptInv ==
    pc = "intercept" =>
       /\ left \in Seq(Interceptors)
       /\ Configured(prepared, Fields)
       /\ \A field \in Fields : \A after :
             Leaves(ChainCalls(left), field, prepared[field], after)
                => Leaves(Asked, field, NewBuilder[field], after)
       /\ \A one \in Range(Asked) : \A name \in NamesIn(one) :
             \/ Carries(prepared.headers, name)
             \/ \E more \in Range(ChainCalls(left)) : name \in NamesIn(more)

\* From then on it is there, on the way to the wire and on the wire.
Prepared ==
    /\ DOMAIN prepared = Fields \cup Lists /\ SettingsOf(prepared)
    /\ \A field \in Fields : Leaves(Asked, field, NewBuilder[field], prepared[field])
    /\ \A one \in Range(Asked) : \A name \in NamesIn(one) :
          Carries(prepared.headers, name) \/ (host = Away /\ IsSensitiveHeader(name))
    /\ \A i \in DOMAIN prepared.headers :
          /\ prepared.headers[i] \in Headers
          /\ ~IsBlockedHeader(prepared.headers[i].name)
          /\ host = Away => ~IsSensitiveHeader(prepared.headers[i].name)

WireInv ==
    /\ pc \in {"intercept", "set up"} => via # "build"
    /\ pc = "connect" => via # "build_request"
    /\ pc \in {"builder", "request", "intercept"} => wire = NoWire /\ host = Home
    /\ pc = "set up" => Prepared
    /\ wire # NoWire =>
          IF via = "build"
          THEN /\ calls.request = <<>> /\ host = Home
               /\ wire.client = BuiltClient(builder, seen)
               /\ wire.headers = LastOfEachName(builder.headers)
          ELSE /\ Prepared
               /\ wire.client = IF via = "build_request" THEN None ELSE ClientOf(prepared, seen)
               /\ wire.headers = prepared.headers
               /\ HandOver(wire.headers) = "ok"

MetInv ==
    met # None =>
       /\ wire # NoWire /\ via # "build_request"
       /\ met.route \in Routes(wire.client.proxies, scheme, host, seen)
       /\ met.certificate # None => /\ met.certificate \in Certificates
                                    /\ Trusts(wire.client, met.certificate)

StageInv ==
    /\ pc \in {"builder", "request", "intercept", "set up", "connect", "done"}
    /\ via \in Vias \cup {None}
    /\ exchanges \in 0 .. MaxExchanges
    /\ host \in {Home, Away} /\ scheme \in {"http", "https"}
    /\ seen \in Environments \cup {None}
    /\ wire # NoWire => seen \in Environments
    /\ pc = "connect" => wire # NoWire
    /\ pc = "done" <=> outcome # "pending"
    /\ pc = "intercept" \/ prepared # None => SettingsOf(prepared)

IInv == StageInv /\ BuilderInv /\ RequestInv /\ InterceptInv /\ WireInv /\ MetInv

LEMMA SettingsAreSettings ==
    ASSUME NEW s, NEW fields, Configured(s, fields)
    PROVE  SettingsOf(s)
<1>1. \A i \in DOMAIN s.headers : DOMAIN s.headers[i] = {"name", "value"}
  <2>1. \A i \in DOMAIN s.headers : s.headers[i] \in Headers
    BY DEF Configured
  <2> QED
    BY <2>1 DEF Headers
<1>2. \A i \in DOMAIN s.chain : s.chain[i].does \in {"authorize", "set", "fail"}
  <2>1. \A i \in DOMAIN s.chain : s.chain[i] \in Interceptors
    BY DEF Configured
  <2> QED
    BY <2>1, CallsAreCalls
<1> QED
  BY <1>1, <1>2 DEF SettingsOf, Configured

\* One call more is followed as well.
LEMMA OneMoreIsFollowed ==
    ASSUME NEW fields \in {Fields, BuilderFields}, NEW s, NEW made \in Seq(AllCalls),
           Follows(s, made, fields), NEW one \in AllCalls,
           one.set \in fields \cup {"headers", "raw", "interceptor", "chain"}
    PROVE  Follows(Set(one, s), Append(made, one), fields)
<1> DEFINE after == Set(one, s)  all == Append(made, one)
<1>1. Configured(s, fields) /\ s.chain \in Seq(Interceptors)
  BY DEF Follows, Configured
<1>2. IsCall(one) /\ (one.set = "interceptor" => one.to \in Interceptors)
  BY CallsAreCalls
<1>3. /\ Configured(after, fields)
      /\ \A field \in fields : after[field] = IF one.set = field THEN Value(one) ELSE s[field]
      /\ after.chain = CASE one.set = "interceptor" -> Append(s.chain, one.to)
                         [] one.set = "chain"       -> <<>>
                         [] OTHER                   -> s.chain
      /\ \A name : Carries(s.headers, name) \/ name \in NamesIn(one)
                      => Carries(after.headers, name)
  BY <1>1, <1>2, SetSays
<1>4. ChainIsAsAsked(all, after.chain)
  <2>1. ChainIsAsAsked(made, s.chain)
    BY DEF Follows
  <2> QED
    BY <1>1, <1>3, <2>1, ChainStaysAsAsked
<1>5. Range(all) = Range(made) \cup {one}
  BY RangeOfAppend
<1>6. ASSUME NEW field \in fields
      PROVE  Leaves(all, field, NewBuilder[field], after[field])
  <2>1. Leaves(made, field, NewBuilder[field], s[field])
    BY DEF Follows
  <2> HIDE DEF after, all
  <2>2. IF one.set = field THEN after[field] = Value(one)
        ELSE Leaves(made, field, NewBuilder[field], after[field])
    BY <1>3, <2>1
  <2>3. Leaves(Append(made, one), field, NewBuilder[field], after[field])
    BY <2>2, OneCallMore
  <2> QED
    BY <2>3 DEF all
<1>7. \A any \in Range(all) : \A name \in NamesIn(any) : Carries(after.headers, name)
  BY <1>3, <1>5 DEF Follows
<1> HIDE DEF after, all
<1>8. Follows(after, all, fields)
  BY <1>3, <1>4, <1>6, <1>7 DEF Follows
<1> QED
  BY <1>8 DEF after, all

LEMMA CallsMade ==
    ASSUME calls \in [builder : Seq(Range(BuilderCalls)), request : Seq(Range(RequestCalls))]
    PROVE  /\ calls.builder \in Seq(AllCalls) /\ calls.request \in Seq(AllCalls)
           /\ Made \in Seq(AllCalls) /\ Asked \in Seq(Asking)
           /\ calls.request = <<>> => Made = calls.builder
<1>1. calls.builder \in Seq(AllCalls) /\ calls.request \in Seq(AllCalls)
  <2>1. calls.builder \in Seq(Range(BuilderCalls)) /\ calls.request \in Seq(Range(RequestCalls))
    OBVIOUS
  <2>2. Range(BuilderCalls) \subseteq AllCalls /\ Range(RequestCalls) \subseteq AllCalls
    BY DEF AllCalls
  <2> QED
    BY <2>1, <2>2
<1>2. Made \in Seq(AllCalls)
  BY <1>1 DEF Made
<1>3. Asked \in Seq(Asking)
  BY <1>2, CallsAreTyped DEF Asked
<1>4. calls.request = <<>> => Made = calls.builder
  BY <1>1 DEF Made
<1> QED
  BY <1>1, <1>2, <1>3, <1>4

Refusals == {"ok", "HeaderError", "HeaderInjectionDetected", "InvalidConfiguration"}

\* Of two checks nothing is refused if neither refuses.
LEMMA TwoChecks ==
    ASSUME NEW first \in Refusals, NEW second \in Refusals
    PROVE  /\ FirstRefusal(<<first, second>>) = "ok" <=> first = "ok" /\ second = "ok"
           /\ FirstRefusal(<<first, second>>) \in Refusals
<1> DEFINE checks == <<first, second>>
<1>1. Len(checks) = 2 /\ checks[1] = first /\ checks[2] = second
  OBVIOUS
<1> HIDE DEF checks
<1>2. /\ FirstRefusal(checks) = "ok" <=> \A i \in 1 .. 2 : checks[i] = "ok"
      /\ FirstRefusal(checks) = "ok" \/ \E i \in 1 .. 2 : FirstRefusal(checks) = checks[i]
  BY <1>1, FirstRefusalSays
<1>3. \A i \in 1 .. 2 : i = 1 \/ i = 2
  OBVIOUS
<1>4. FirstRefusal(checks) = "ok" <=> first = "ok" /\ second = "ok"
  BY <1>1, <1>2, <1>3
<1>5. FirstRefusal(checks) \in Refusals
  BY <1>1, <1>2, <1>3 DEF Refusals
<1> QED
  BY <1>4, <1>5 DEF checks

LEMMA HeaderRefusals ==
    ASSUME NEW list, Len(list) \in Nat
    PROVE  ValidateHeaders(list) \in Refusals
<1> DEFINE n == 2 * Len(list)
           check(i) == LET header == list[(i + 1) \div 2]
                       IN  IF i % 2 = 1 THEN ValidateHeaderName(header.name)
                           ELSE ValidateHeaderValue(header.value)
           checks == [i \in 1 .. n |-> check(i)]
<1>1. ValidateHeaders(list) = FirstRefusal(checks)
  BY DEF ValidateHeaders
<1>2. \A i \in 1 .. n : check(i) \in Refusals
  BY DEF ValidateHeaderName, ValidateHeaderValue, Refusals
<1>3. n \in Nat
  OBVIOUS
<1> HIDE DEF n, check
<1>4. checks \in Seq(Refusals) /\ Len(checks) = n /\ \A i \in 1 .. n : checks[i] \in Refusals
  BY <1>2, <1>3
<1> HIDE DEF checks
<1>5. FirstRefusal(checks) = "ok" \/ \E i \in 1 .. n : FirstRefusal(checks) = checks[i]
  BY <1>3, <1>4, FirstRefusalSays
<1> QED
  BY <1>1, <1>4, <1>5 DEF Refusals

\* Whatever a call is refused with, it is an error.
LEMMA RefusalIsKnown ==
    ASSUME NEW one, IsCall(one)
    PROVE  Refusal(one) \in Refusals
<1>1. ASSUME NEW header
      PROVE  AddRefusal(header) \in Refusals
  <2>1. Len(<<header>>) \in Nat
    OBVIOUS
  <2>2. ValidateHeaders(<<header>>) \in Refusals
    BY <2>1, HeaderRefusals
  <2> DEFINE second == IF IsBlockedHeader(Trim(header.name)) THEN "HeaderError" ELSE "ok"
  <2>3. second \in Refusals
    BY DEF Refusals
  <2>4. AddRefusal(header) = FirstRefusal(<<ValidateHeaders(<<header>>), second>>)
    BY DEF AddRefusal
  <2> HIDE DEF second
  <2> QED
    BY <2>2, <2>3, <2>4, TwoChecks
<1>2. CASE one.set = "headers"
  <2>1. one.to \in Seq(Headers)
    BY <1>2 DEF IsCall, IsSetting
  <2> DEFINE checks == [i \in DOMAIN one.to |-> AddRefusal(one.to[i])]
  <2>2. checks \in Seq(Refusals)
    <3>1. checks = [i \in 1 .. Len(one.to) |-> AddRefusal(one.to[i])]
      BY <2>1
    <3> HIDE DEF checks
    <3> QED
      BY <1>1, <2>1, <3>1
  <2>3. Refusal(one) = FirstRefusal(checks)
    BY <1>2 DEF Refusal
  <2> HIDE DEF checks
  <2>4. FirstRefusal(checks) = "ok" \/ \E i \in 1 .. Len(checks) : FirstRefusal(checks) = checks[i]
    BY <2>2, FirstRefusalSays
  <2> QED
    BY <2>2, <2>3, <2>4 DEF Refusals
<1>3. CASE one.set # "headers"
  BY <1>3 DEF Refusal, Refusals
<1> QED
  BY <1>2, <1>3

\* Before a call is started there is nothing to say of what comes later.
LEMMA NothingSentYet ==
    ASSUME IInv, pc \in {"builder", "request"}
    PROVE  wire = NoWire /\ met = None /\ host = Home
BY DEF IInv, WireInv, MetInv

LEMMA InitEstablishes == Init => IInv
<1> SUFFICES ASSUME Init
             PROVE  IInv
  OBVIOUS
<1> USE DEF Init
<1>1. calls.builder = <<>> /\ calls.request = <<>> /\ builder = NewBuilder
  OBVIOUS
<1>2. Configured(NewBuilder, BuilderFields)
  BY DEF Configured, NewBuilder, BuilderFields, Fields, Lists, System
<1>3. AskedByInterceptors(<<>>) = <<>> /\ LastReset(<<>>) = 0
  BY DEF AskedByInterceptors, LastReset, SelectLastInSeq
<1>4. ChainIsAsAsked(<<>>, <<>>)
  <2>1. ChainCalls(<<>>) = <<>>
    BY DEF ChainCalls
  <2> QED
    BY <1>3, <2>1 DEF ChainIsAsAsked, Range
<1>5. Follows(builder, calls.builder, BuilderFields)
  <2>1. NewBuilder.chain = <<>> /\ Range(<<>>) = {}
    BY DEF NewBuilder, Range
  <2>2. \A field \in BuilderFields : Leaves(<<>>, field, NewBuilder[field], NewBuilder[field])
    BY DEF Leaves
  <2> QED
    BY <1>1, <1>2, <1>4, <2>1, <2>2 DEF Follows
<1>6. BuilderInv
  <2>1. calls \in [builder : Seq(Range(BuilderCalls)), request : Seq(Range(RequestCalls))]
    OBVIOUS
  <2>2. builder.headers = <<>>
    BY DEF NewBuilder
  <2> QED
    BY <1>5, <2>1, <2>2 DEF BuilderInv
<1>7. StageInv
  <2>1. MaxExchanges \in Nat \ {0} /\ Schemes \subseteq {"http", "https"}
    BY ClientAssumption
  <2>2. 0 \in 0 .. MaxExchanges /\ scheme \in {"http", "https"}
    BY <2>1
  <2> QED
    BY <2>2 DEF StageInv
<1> QED
  BY <1>6, <1>7 DEF IInv, RequestInv, InterceptInv, WireInv, MetInv

LEMMA ConfigureKeeps ==
    ASSUME IInv, Configure
    PROVE  IInv'
<1> USE DEF IInv
<1>1. pc = "builder" /\ UNCHANGED sending /\ wire = NoWire /\ met = None /\ host = Home
  BY NothingSentYet DEF Configure
<1>2. PICK i \in DOMAIN BuilderCalls :
         LET one == BuilderCalls[i]
         IN  IF Refusal(one) # "ok"
             THEN End(Refusal(one)) /\ UNCHANGED settings
             ELSE /\ builder' = Set(one, builder)
                  /\ calls' = [calls EXCEPT !.builder = Append(@, one)]
                  /\ UNCHANGED <<pc, outcome, request>>
  BY DEF Configure
<1> DEFINE one == BuilderCalls[i]
<1>3. /\ one \in Range(BuilderCalls) /\ one \in AllCalls
      /\ one.set \in BuilderFields \cup {"headers", "raw", "interceptor", "chain"}
      /\ one.set \notin {"raw", "chain"} /\ IsCall(one)
  BY CallsAreCalls DEF Range, AllCalls
<1> HIDE DEF one
<1>4. CASE Refusal(one) # "ok"
  <2>1. /\ pc' = "done" /\ outcome' = Refusal(one)
        /\ UNCHANGED <<calls, builder, request, sending>>
    BY <1>1, <1>2, <1>4 DEF End, settings, one
  <2>2. Refusal(one) # "pending"
    BY <1>3, RefusalIsKnown DEF Refusals
  <2>3. BuilderInv'
    BY <2>1 DEF BuilderInv, Follows
  <2>4. RequestInv'
    BY <1>1, <2>1 DEF RequestInv, Follows, Made
  <2>5. InterceptInv'
    BY <2>1 DEF InterceptInv
  <2>6. WireInv' /\ MetInv'
    BY <1>1, <2>1 DEF WireInv, MetInv, sending
  <2>7. StageInv'
    BY <1>1, <2>1, <2>2 DEF StageInv, sending
  <2> QED
    BY <2>3, <2>4, <2>5, <2>6, <2>7
<1>5. CASE Refusal(one) = "ok"
  <2>1. /\ builder' = Set(one, builder)
        /\ calls' = [calls EXCEPT !.builder = Append(@, one)]
        /\ UNCHANGED <<pc, outcome, request, sending>>
    BY <1>1, <1>2, <1>5 DEF one
  <2>2. calls \in [builder : Seq(Range(BuilderCalls)), request : Seq(Range(RequestCalls))]
    BY DEF BuilderInv
  <2>3. /\ calls' \in [builder : Seq(Range(BuilderCalls)), request : Seq(Range(RequestCalls))]
        /\ calls'.builder = Append(calls.builder, one) /\ calls'.request = calls.request
    <3>1. Append(calls.builder, one) \in Seq(Range(BuilderCalls))
      BY <1>3, <2>2
    <3> QED
      BY <2>1, <2>2, <3>1
  <2>4. Follows(builder', calls'.builder, BuilderFields)
    <3>1. Follows(builder, calls.builder, BuilderFields) /\ calls.builder \in Seq(AllCalls)
      BY <2>2, CallsMade DEF BuilderInv
    <3>2. BuilderFields \in {Fields, BuilderFields}
      OBVIOUS
    <3> QED
      BY <1>3, <2>1, <2>3, <3>1, <3>2, OneMoreIsFollowed
  <2>5. BuilderInv'
    <3>1. ASSUME NEW k \in DOMAIN builder'.headers
          PROVE  /\ IsName(builder'.headers[k].name) /\ IsValue(builder'.headers[k].value)
                 /\ ~IsBlockedHeader(builder'.headers[k].name)
      <4>1. CASE one.set = "headers"
        <5>1. one.to \in Seq(Headers)
          BY <1>3, <4>1 DEF IsCall, IsSetting
        <5> DEFINE more == Accepted(one.to)  old == builder.headers
        <5>2. builder'.headers = old \o more
          <6>1. "headers" \in DOMAIN builder
            BY DEF BuilderInv, Follows, Configured, Lists
          <6> QED
            BY <2>1, <4>1, <6>1 DEF Set
        <5>3. more \in Seq(Headers) /\ old \in Seq(Headers)
          BY <5>1, AcceptedIsSendable DEF BuilderInv, Follows, Configured
        <5>4. /\ \A j \in DOMAIN more : /\ IsName(more[j].name) /\ IsValue(more[j].value)
                                        /\ ~IsBlockedHeader(more[j].name)
              /\ \A j \in DOMAIN old : /\ IsName(old[j].name) /\ IsValue(old[j].value)
                                       /\ ~IsBlockedHeader(old[j].name)
          BY <5>1, AcceptedIsSendable DEF BuilderInv
        <5> HIDE DEF more, old
        <5>5. \/ k \in DOMAIN old /\ builder'.headers[k] = old[k]
              \/ k - Len(old) \in DOMAIN more /\ builder'.headers[k] = more[k - Len(old)]
          BY <3>1, <5>2, <5>3
        <5> QED
          BY <5>4, <5>5
      <4>2. CASE one.set # "headers"
        <5>1. builder'.headers = builder.headers
          <6>1. /\ Configured(builder, BuilderFields) /\ BuilderFields \in {Fields, BuilderFields}
                /\ (one.set = "interceptor" => one.to \in Interceptors)
            BY <1>3, CallsAreCalls DEF BuilderInv, Follows
          <6> QED
            BY <1>3, <2>1, <4>2, <6>1, SetSays
        <5> QED
          BY <3>1, <5>1 DEF BuilderInv
      <4> QED
        BY <4>1, <4>2
    <3> QED
      BY <2>3, <2>4, <3>1 DEF BuilderInv
  <2>6. RequestInv'
    <3>1. request = None
      BY <1>1 DEF RequestInv
    <3> QED
      BY <1>1, <2>1, <2>3, <3>1 DEF RequestInv
  <2>7. InterceptInv' /\ WireInv' /\ MetInv' /\ StageInv'
    BY <1>1, <2>1 DEF InterceptInv, WireInv, MetInv, StageInv, sending
  <2> QED
    BY <2>5, <2>6, <2>7
<1> QED
  BY <1>4, <1>5

LEMMA CreateKeeps ==
    ASSUME IInv, Create
    PROVE  IInv'
<1> USE DEF IInv
<1>1. /\ pc = "builder" /\ pc' = "request" /\ request' = CreateRequest(builder)
      /\ UNCHANGED <<calls, builder, sending, outcome>>
      /\ wire = NoWire /\ met = None /\ host = Home
  BY NothingSentYet DEF Create
<1>2. BuilderInv'
  BY <1>1 DEF BuilderInv, Follows
<1>3. Follows(request', Made, Fields)
  <2>1. Follows(builder, Made, BuilderFields)
    BY <1>1, CallsMade DEF BuilderInv, RequestInv
  <2>2. /\ DOMAIN request' = Fields \cup Lists
        /\ \A field \in Fields : request'[field] = builder[field]
        /\ request'.chain = builder.chain /\ request'.headers = <<>> \o builder.headers
    BY <1>1 DEF CreateRequest, NewRequest, Fields, Lists
  <2>3. request'.headers = builder.headers
    BY <2>1, <2>2 DEF Follows, Configured
  <2>4. Configured(request', Fields)
    <3>1. "timeout" \in Fields /\ "jar" \in Fields /\ "proxy" \in Fields
      BY DEF Fields
    <3> QED
      BY <2>1, <2>2, <2>3, <3>1 DEF Follows, Configured
  <2>5. \A field \in Fields : field \in BuilderFields
    BY DEF BuilderFields
  <2> QED
    BY <2>1, <2>2, <2>3, <2>4, <2>5 DEF Follows
<1>4. RequestInv'
  BY <1>1, <1>3 DEF RequestInv, Follows, Made
<1>5. InterceptInv' /\ WireInv' /\ MetInv' /\ StageInv'
  BY <1>1 DEF InterceptInv, WireInv, MetInv, StageInv, sending
<1> QED
  BY <1>2, <1>4, <1>5

LEMMA ChangeKeeps ==
    ASSUME IInv, Change
    PROVE  IInv'
<1> USE DEF IInv
<1>1. /\ pc = "request" /\ UNCHANGED <<pc, builder, sending, outcome>>
      /\ wire = NoWire /\ met = None /\ host = Home
  BY NothingSentYet DEF Change
<1>2. PICK i \in DOMAIN RequestCalls :
         /\ request' = Set(RequestCalls[i], request)
         /\ calls' = [calls EXCEPT !.request = Append(@, RequestCalls[i])]
  BY DEF Change
<1> DEFINE one == RequestCalls[i]
<1>3. /\ one \in Range(RequestCalls) /\ one \in AllCalls
      /\ one.set \in Fields \cup {"headers", "raw", "interceptor", "chain"}
  <2>1. one \in Range(RequestCalls) /\ one \in AllCalls
    BY DEF Range, AllCalls
  <2>2. /\ one.set \in BuilderFields \cup {"headers", "raw", "interceptor", "chain"}
        /\ one.set \notin {"connect", "agent", "follow", "max"}
    BY <2>1, CallsAreCalls
  <2> QED
    BY <2>1, <2>2 DEF BuilderFields
<1> HIDE DEF one
<1>4. calls \in [builder : Seq(Range(BuilderCalls)), request : Seq(Range(RequestCalls))]
  BY DEF BuilderInv
<1>5. /\ calls' \in [builder : Seq(Range(BuilderCalls)), request : Seq(Range(RequestCalls))]
      /\ calls'.request = Append(calls.request, one) /\ calls'.builder = calls.builder
  <2>1. Append(calls.request, one) \in Seq(Range(RequestCalls))
    BY <1>3, <1>4
  <2> QED
    BY <1>2, <1>4, <2>1 DEF one
<1>6. Made' = Append(Made, one) /\ Made \in Seq(AllCalls)
  <2>1. calls.builder \in Seq(AllCalls) /\ calls.request \in Seq(AllCalls) /\ Made \in Seq(AllCalls)
    BY <1>4, CallsMade
  <2>2. ASSUME NEW s \in Seq(AllCalls), NEW t \in Seq(AllCalls)
        PROVE  s \o Append(t, one) = Append(s \o t, one)
    BY <1>3
  <2> QED
    BY <1>5, <2>1, <2>2 DEF Made
<1>7. Follows(request', Made', Fields)
  <2>1. Follows(request, Made, Fields) /\ Fields \in {Fields, BuilderFields}
    BY <1>1 DEF RequestInv
  <2> QED
    BY <1>2, <1>3, <1>6, <2>1, OneMoreIsFollowed DEF one
<1>8. BuilderInv'
  BY <1>1, <1>5 DEF BuilderInv, Follows
<1>9. RequestInv'
  BY <1>1, <1>7 DEF RequestInv
<1>10. InterceptInv' /\ WireInv' /\ MetInv' /\ StageInv'
  BY <1>1 DEF InterceptInv, WireInv, MetInv, StageInv, sending
<1> QED
  BY <1>8, <1>9, <1>10

LEMMA StartKeeps ==
    ASSUME IInv, Start
    PROVE  IInv'
<1> USE DEF IInv
<1>1. PICK way \in Vias \ {"build"} :
         /\ via' = way
         /\ prepared' = request
         /\ left' = IF way = "build_request" THEN <<>> ELSE request.chain
  BY DEF Start
<1>2. /\ pc = "request" /\ pc' = "intercept"
      /\ UNCHANGED <<calls, builder, request, exchanges, host, scheme, seen, wire, met, outcome>>
      /\ wire = NoWire /\ met = None /\ host = Home
  BY NothingSentYet DEF Start, settings
<1>3. Follows(request, Made, Fields)
  BY <1>2 DEF RequestInv
<1>4. Configured(request, Fields) /\ request.chain \in Seq(Interceptors)
  BY <1>3 DEF Follows, Configured
<1>5. calls \in [builder : Seq(Range(BuilderCalls)), request : Seq(Range(RequestCalls))]
  BY DEF BuilderInv
<1>6. Made \in Seq(Asking) /\ AskedByInterceptors(Made) \in Seq(Asking)
  BY <1>5, CallsMade, CallsAreTyped
<1>7. Made' = Made
  BY <1>2 DEF Made
<1>8. InterceptInv'
  <2>1. CASE way = "build_request"
    <3>1. left' = <<>> /\ Asked' = Made
      BY <1>1, <1>7, <2>1 DEF Asked
    <3>2. ChainCalls(<<>>) = <<>>
      BY DEF ChainCalls
    <3>3. \A field \in Fields : \A after :
             Leaves(<<>>, field, request[field], after) => after = request[field]
      BY DEF Leaves
    <3> QED
      BY <1>1, <1>3, <1>4, <3>1, <3>2, <3>3 DEF InterceptInv, Follows
  <2>2. CASE way # "build_request"
    <3>1. left' = request.chain /\ Asked' = Made \o AskedByInterceptors(Made)
      BY <1>1, <1>7, <2>2 DEF Asked
    <3>2. ChainIsAsAsked(Made, request.chain)
      BY <1>3 DEF Follows
    <3>3. ASSUME NEW field \in Fields, NEW after,
                 Leaves(ChainCalls(request.chain), field, request[field], after)
          PROVE  Leaves(Made \o AskedByInterceptors(Made), field, NewBuilder[field], after)
      <4>1. Leaves(AskedByInterceptors(Made), field, request[field], after)
        <5>1. field # "nothing"
          BY DEF Fields
        <5> QED
          BY <3>2, <3>3, <5>1 DEF ChainIsAsAsked
      <4>2. Leaves(Made, field, NewBuilder[field], request[field])
        BY <1>3 DEF Follows
      <4> QED
        BY <1>6, <4>1, <4>2, MoreCalls
    <3>4. ASSUME NEW one \in Range(Made \o AskedByInterceptors(Made)), NEW name \in NamesIn(one)
          PROVE  \/ Carries(request.headers, name)
                 \/ \E more \in Range(ChainCalls(request.chain)) : name \in NamesIn(more)
      <4>1. one \in Range(Made) \/ one \in Range(AskedByInterceptors(Made))
        BY <1>6 DEF Range
      <4>2. CASE one \in Range(Made)
        BY <1>3, <3>4, <4>2 DEF Follows
      <4>3. CASE one \in Range(AskedByInterceptors(Made))
        <5>1. one # Silent
          BY <3>4 DEF NamesIn, Silent
        <5> QED
          BY <3>2, <3>4, <4>3, <5>1 DEF ChainIsAsAsked
      <4> QED
        BY <4>1, <4>2, <4>3
    <3> QED
      BY <1>1, <1>4, <3>1, <3>3, <3>4 DEF InterceptInv
  <2> QED
    BY <2>1, <2>2
<1>9. BuilderInv' /\ RequestInv'
  BY <1>2, <1>7 DEF BuilderInv, RequestInv, Follows
<1>10. WireInv' /\ MetInv'
  BY <1>1, <1>2 DEF WireInv, MetInv
<1>11. StageInv'
  BY <1>1, <1>2, <1>4, SettingsAreSettings DEF StageInv
<1> QED
  BY <1>8, <1>9, <1>10, <1>11

LEMMA InterceptKeeps ==
    ASSUME IInv, Intercept
    PROVE  IInv'
<1> USE DEF IInv
<1> DEFINE one == Head(left)
<1>1. /\ pc = "intercept" /\ left # <<>> /\ left' = Tail(left)
      /\ prepared' = Ran(one, prepared)
      /\ IF one.does = "fail" THEN End("InterceptorError") ELSE UNCHANGED <<pc, outcome>>
      /\ UNCHANGED <<calls, builder, request, via, exchanges, host, scheme, seen, wire, met>>
  BY DEF Intercept, Ran, settings
<1>2. /\ left \in Seq(Interceptors) /\ Configured(prepared, Fields)
      /\ one \in Interceptors /\ Tail(left) \in Seq(Interceptors)
  BY <1>1 DEF InterceptInv
<1> HIDE DEF one
<1>3. /\ Configured(prepared', Fields)
      /\ \A field \in Fields :
            prepared'[field] = IF CallOf(one).set = field THEN Value(CallOf(one)) ELSE prepared[field]
      /\ \A name : Carries(prepared.headers, name) \/ name \in NamesIn(CallOf(one))
                      => Carries(prepared'.headers, name)
  BY <1>1, <1>2, InterceptorSays
<1>4. Asked' = Asked /\ Made' = Made
  BY <1>1 DEF Asked, Made
<1>5. /\ ChainCalls(left) \in Seq(Asking) /\ ChainCalls(left) # <<>>
      /\ Head(ChainCalls(left)) = CallOf(one) /\ Tail(ChainCalls(left)) = ChainCalls(Tail(left))
  <2>1. ChainCalls(left) \in Seq(Asking) /\ Len(ChainCalls(left)) = Len(left)
    BY <1>2, CallsAreTyped
  <2>2. ChainCalls(Tail(left)) \in Seq(Asking) /\ Len(ChainCalls(Tail(left))) = Len(Tail(left))
    BY <1>2, CallsAreTyped
  <2>3. Len(left) \in Nat \ {0} /\ Len(Tail(left)) = Len(left) - 1
    BY <1>1, <1>2
  <2>4. /\ \A i \in 1 .. Len(left) : ChainCalls(left)[i] = CallOf(left[i])
        /\ \A i \in 1 .. Len(left) - 1 : ChainCalls(Tail(left))[i] = CallOf(left[i + 1])
    BY <1>1, <1>2, <2>3 DEF ChainCalls
  <2>5. one = left[1]
    BY <1>1, <1>2 DEF one
  <2> DEFINE all == ChainCalls(left)  rest == ChainCalls(Tail(left))
  <2> HIDE DEF all, rest
  <2>6. all # <<>> /\ Head(all) = all[1] /\ Len(Tail(all)) = Len(left) - 1
        /\ Tail(all) \in Seq(Asking) /\ \A i \in 1 .. Len(left) - 1 : Tail(all)[i] = all[i + 1]
    BY <2>1, <2>3 DEF all
  <2>7. \A i \in 1 .. Len(left) - 1 : Tail(all)[i] = rest[i]
    BY <2>3, <2>4, <2>6 DEF all, rest
  <2>8. rest \in Seq(Asking) /\ Len(rest) = Len(left) - 1
    BY <2>2, <2>3 DEF rest
  <2>9. Tail(all) = rest
    BY <2>6, <2>7, <2>8
  <2> QED
    BY <2>1, <2>3, <2>4, <2>5, <2>6, <2>9 DEF all, rest
<1>6. InterceptInv'
  <2>1. ASSUME NEW field \in Fields, NEW after,
               Leaves(ChainCalls(Tail(left)), field, prepared'[field], after)
        PROVE  Leaves(Asked, field, NewBuilder[field], after)
    <3>1. Leaves(Tail(ChainCalls(left)), field,
                 IF Head(ChainCalls(left)).set = field THEN Value(Head(ChainCalls(left)))
                 ELSE prepared[field], after)
      BY <1>3, <1>5, <2>1
    <3>2. Leaves(ChainCalls(left), field, prepared[field], after)
      BY <1>5, <3>1, FirstCall
    <3> QED
      BY <1>1, <3>2 DEF InterceptInv
  <2>2. ASSUME NEW any \in Range(Asked), NEW name \in NamesIn(any)
        PROVE  \/ Carries(prepared'.headers, name)
               \/ \E more \in Range(ChainCalls(Tail(left))) : name \in NamesIn(more)
    <3>1. CASE Carries(prepared.headers, name)
      BY <1>3, <3>1
    <3>2. ASSUME NEW more \in Range(ChainCalls(left)), name \in NamesIn(more)
          PROVE  \/ name \in NamesIn(CallOf(one))
                 \/ \E other \in Range(ChainCalls(Tail(left))) : name \in NamesIn(other)
      <4>1. more = CallOf(one) \/ more \in Range(ChainCalls(Tail(left)))
        <5>1. PICK i \in DOMAIN ChainCalls(left) : more = ChainCalls(left)[i]
          BY DEF Range
        <5> DEFINE all == ChainCalls(left)
        <5>2. all \in Seq(Asking) /\ all # <<>> /\ i \in DOMAIN all /\ Tail(all) \in Seq(Asking)
          BY <1>5
        <5> HIDE DEF all
        <5>3. i = 1 \/ (i - 1 \in DOMAIN Tail(all) /\ all[i] = Tail(all)[i - 1])
          BY <5>2
        <5>4. i = 1 => all[i] = Head(all)
          BY <5>2
        <5> QED
          BY <1>5, <5>1, <5>3, <5>4 DEF Range, all
      <4> QED
        BY <3>2, <4>1
    <3>3. \/ Carries(prepared.headers, name)
          \/ \E more \in Range(ChainCalls(left)) : name \in NamesIn(more)
      BY <1>1, <2>2 DEF InterceptInv
    <3> QED
      BY <1>3, <3>1, <3>2, <3>3
  <2> QED
    BY <1>1, <1>2, <1>3, <1>4, <2>1, <2>2 DEF InterceptInv
<1>7. BuilderInv' /\ RequestInv'
  <2>1. pc' \notin {"builder", "request"}
    BY <1>1 DEF End
  <2> QED
    BY <1>1, <1>4, <2>1 DEF BuilderInv, RequestInv, Follows
<1>8. WireInv' /\ MetInv'
  BY <1>1 DEF WireInv, MetInv, End
<1>9. StageInv'
  <2>1. SettingsOf(prepared')
    BY <1>3, SettingsAreSettings
  <2> QED
    BY <1>1, <2>1 DEF StageInv, End
<1> QED
  BY <1>6, <1>7, <1>8, <1>9

LEMMA ValidateKeeps ==
    ASSUME IInv, Validate
    PROVE  IInv'
<1> USE DEF IInv
<1> DEFINE refusal == Validation(prepared.headers)
<1>1. /\ pc = "intercept" /\ left = <<>>
      /\ IF refusal = "ok" THEN pc' = "set up" /\ UNCHANGED outcome ELSE End(refusal)
      /\ UNCHANGED <<calls, builder, request, sending>>
  BY DEF Validate, settings
<1>2. Configured(prepared, Fields) /\ wire = NoWire /\ host = Home /\ via # "build"
  BY <1>1 DEF InterceptInv, WireInv
<1>3. /\ refusal \in Refusals
      /\ refusal = "ok" => \A i \in DOMAIN prepared.headers :
                              ~IsBlockedHeader(prepared.headers[i].name)
  <2> DEFINE list == prepared.headers
             second == IF \E header \in Range(list) : IsBlockedHeader(header.name)
                       THEN "HeaderError" ELSE "ok"
  <2>1. list \in Seq(Headers)
    BY <1>2 DEF Configured
  <2>2. ValidateHeaders(list) \in Refusals /\ second \in Refusals
    <3>1. Len(list) \in Nat
      BY <2>1
    <3> QED
      BY <3>1, HeaderRefusals DEF Refusals
  <2>3. refusal = FirstRefusal(<<ValidateHeaders(list), second>>)
    BY DEF Validation
  <2>4. second = "ok" => \A i \in DOMAIN list : ~IsBlockedHeader(list[i].name)
    BY DEF Range
  <2> HIDE DEF second, refusal
  <2> QED
    BY <2>2, <2>3, <2>4, TwoChecks
<1> HIDE DEF refusal
<1>4. Asked' = Asked /\ Made' = Made
  BY <1>1 DEF Asked, Made, sending
<1>5. refusal = "ok" => Prepared'
  <2> SUFFICES ASSUME refusal = "ok" PROVE Prepared'
    OBVIOUS
  <2>1. ChainCalls(<<>>) = <<>> /\ Range(<<>>) = {}
    BY DEF ChainCalls, Range
  <2>2. \A field \in Fields : Leaves(Asked, field, NewBuilder[field], prepared[field])
    <3>1. \A field, now : Leaves(<<>>, field, now, now)
      BY DEF Leaves
    <3>2. ChainCalls(left) = <<>>
      BY <1>1, <2>1
    <3> QED
      BY <1>1, <3>1, <3>2 DEF InterceptInv
  <2>3. \A one \in Range(Asked) : \A name \in NamesIn(one) : Carries(prepared.headers, name)
    BY <1>1, <2>1 DEF InterceptInv
  <2>4. Home # Away
    BY ClientAssumption
  <2>5. \A i \in DOMAIN prepared.headers : prepared.headers[i] \in Headers
    BY <1>2 DEF Configured
  <2> QED
    BY <1>1, <1>2, <1>3, <1>4, <2>2, <2>3, <2>4, <2>5, SettingsAreSettings
       DEF Prepared, Configured, SettingsOf, sending
<1>6. BuilderInv' /\ RequestInv' /\ InterceptInv'
  BY <1>1, <1>4 DEF BuilderInv, RequestInv, InterceptInv, Follows, End
<1>7. WireInv' /\ MetInv'
  BY <1>1, <1>2, <1>5 DEF WireInv, MetInv, End, sending
<1>8. StageInv'
  BY <1>1, <1>3 DEF StageInv, End, sending, Refusals
<1> QED
  BY <1>6, <1>7, <1>8

\* What was prepared stays so as long as nobody touches it.
LEMMA PreparedStays ==
    ASSUME Prepared, UNCHANGED <<calls, via, prepared, host>>
    PROVE  Prepared'
<1>1. Asked' = Asked
  BY DEF Asked, Made
<1> QED
  BY <1>1 DEF Prepared

LEMMA WireIsSomething ==
    \A client, headers : [client |-> client, headers |-> headers] # NoWire
BY DEF NoWire

LEMMA PartsStay ==
    ASSUME BuilderInv, RequestInv, UNCHANGED settings, pc' \notin {"builder", "request", "intercept"}
    PROVE  BuilderInv' /\ RequestInv' /\ InterceptInv'
<1>1. Made' = Made
  BY DEF Made, settings
<1> QED
  BY <1>1 DEF BuilderInv, RequestInv, InterceptInv, Follows, settings

LEMMA OneMoreBelow ==
    ASSUME NEW m \in Nat, NEW n \in 0 .. m, n < m
    PROVE  n + 1 \in 0 .. m
OBVIOUS

LEMMA SetUpKeeps ==
    ASSUME IInv, SetUp
    PROVE  IInv'
<1> USE DEF IInv
<1>1. /\ pc = "set up" /\ exchanges < MaxExchanges /\ exchanges' = exchanges + 1 /\ met' = None
      /\ UNCHANGED <<settings, prepared, left, via, host, scheme>>
  BY DEF SetUp
<1>2. PICK environment \in Environments :
         LET refusal == FirstRefusal(<<SetUpRefusal(prepared, environment),
                                       HandOver(prepared.headers)>>)
         IN  /\ seen' = environment
             /\ IF refusal # "ok" THEN wire' = NoWire /\ EndOrRetry(refusal)
                ELSE IF via = "build_request"
                THEN wire' = [client |-> None, headers |-> prepared.headers] /\ End("built")
                ELSE /\ wire' = [client  |-> ClientOf(prepared, environment),
                                 headers |-> prepared.headers]
                     /\ pc' = "connect" /\ UNCHANGED outcome
  BY DEF SetUp
<1> DEFINE refusal == FirstRefusal(<<SetUpRefusal(prepared, environment),
                                     HandOver(prepared.headers)>>)
<1>3. Prepared' /\ Prepared /\ via # "build"
  <2>1. Prepared /\ via # "build"
    BY <1>1 DEF WireInv
  <2> QED
    BY <1>1, <2>1, PreparedStays DEF settings
<1>4. refusal \in Refusals /\ (refusal = "ok" => HandOver(prepared.headers) = "ok")
  <2>1. SetUpRefusal(prepared, environment) \in Refusals /\ HandOver(prepared.headers) \in Refusals
    BY DEF SetUpRefusal, HandOver, Refusals
  <2> QED
    BY <2>1, TwoChecks
<1>5. exchanges' \in 0 .. MaxExchanges
  <2>1. MaxExchanges \in Nat /\ exchanges \in 0 .. MaxExchanges
    BY ClientAssumption DEF StageInv
  <2>2. exchanges < MaxExchanges /\ exchanges' = exchanges + 1
    BY <1>1
  <2> QED
    BY <2>1, <2>2, OneMoreBelow
<1> HIDE DEF refusal
<1>6. CASE refusal # "ok"
  <2>1. /\ wire' = NoWire /\ seen' \in Environments
        /\ \/ pc' = "done" /\ outcome' = refusal
           \/ pc' = "set up" /\ UNCHANGED outcome
    BY <1>2, <1>6 DEF EndOrRetry, End, refusal
  <2>2. BuilderInv' /\ RequestInv' /\ InterceptInv'
    BY <1>1, <2>1, PartsStay
  <2>3. WireInv' /\ MetInv'
    BY <1>1, <1>3, <2>1 DEF WireInv, MetInv
  <2>4. StageInv'
    BY <1>1, <1>4, <1>5, <2>1 DEF StageInv, Refusals
  <2> QED
    BY <2>2, <2>3, <2>4
<1>7. CASE refusal = "ok"
  <2>1. /\ wire' = [client  |-> IF via = "build_request" THEN None
                                ELSE ClientOf(prepared, environment),
                    headers |-> prepared.headers]
        /\ seen' = environment
        /\ \/ pc' = "done" /\ outcome' = "built"
           \/ pc' = "connect" /\ via # "build_request" /\ UNCHANGED outcome
    BY <1>2, <1>7 DEF End, refusal
  <2>2. wire' # NoWire
    BY <2>1, WireIsSomething
  <2>3. BuilderInv' /\ RequestInv' /\ InterceptInv'
    BY <1>1, <2>1, PartsStay
  <2>4. WireInv' /\ MetInv'
    BY <1>1, <1>3, <1>4, <1>7, <2>1 DEF WireInv, MetInv
  <2>5. StageInv'
    BY <1>1, <1>5, <2>1, <2>2 DEF StageInv
  <2> QED
    BY <2>3, <2>4, <2>5
<1> QED
  BY <1>6, <1>7

LEMMA BuildKeeps ==
    ASSUME IInv, Build
    PROVE  IInv'
<1> USE DEF IInv
<1>1. /\ pc = "builder" /\ "build" \in Vias /\ via' = "build" /\ exchanges' = 1
      /\ UNCHANGED <<settings, prepared, left, host, scheme, met>>
      /\ wire = NoWire /\ met = None /\ host = Home
      /\ calls.request = <<>> /\ request = None
  BY NothingSentYet DEF Build, RequestInv
<1>2. PICK environment \in Environments :
         LET refusal == FirstRefusal(<<IF IsValue(builder.agent) THEN "ok"
                                       ELSE "InvalidConfiguration",
                                       HandOver(builder.headers),
                                       SetUpRefusal(builder, environment)>>)
         IN  /\ seen' = environment
             /\ IF refusal # "ok" THEN wire' = NoWire /\ End(refusal)
                ELSE /\ wire' = [client  |-> BuiltClient(builder, environment),
                                 headers |-> LastOfEachName(builder.headers)]
                     /\ pc' = "connect" /\ UNCHANGED outcome
  BY DEF Build
<1> DEFINE checks == <<IF IsValue(builder.agent) THEN "ok" ELSE "InvalidConfiguration",
                       HandOver(builder.headers), SetUpRefusal(builder, environment)>>
           refusal == FirstRefusal(checks)
<1>3. refusal # "pending"
  <2>1. Len(checks) = 3 /\ checks[1] # "pending" /\ checks[2] # "pending" /\ checks[3] # "pending"
    BY DEF HandOver, SetUpRefusal
  <2>2. \A i \in 1 .. 3 : i = 1 \/ i = 2 \/ i = 3
    OBVIOUS
  <2> HIDE DEF checks
  <2>3. FirstRefusal(checks) = "ok" \/ \E i \in 1 .. 3 : FirstRefusal(checks) = checks[i]
    BY <2>1, FirstRefusalSays
  <2> QED
    BY <2>1, <2>2, <2>3
<1> HIDE DEF refusal
<1>4. /\ seen' = environment
      /\ \/ wire' = NoWire /\ pc' = "done" /\ outcome' = refusal
         \/ /\ wire' = [client |-> BuiltClient(builder, environment),
                        headers |-> LastOfEachName(builder.headers)]
            /\ pc' = "connect" /\ UNCHANGED outcome
  BY <1>2 DEF End, refusal
<1>5. BuilderInv' /\ RequestInv' /\ InterceptInv'
  BY <1>1, <1>4, PartsStay
<1>6. WireInv' /\ MetInv'
  <2>1. met' = None /\ host' = Home /\ UNCHANGED <<calls, builder>> /\ pc' \in {"done", "connect"}
    BY <1>1, <1>4 DEF settings
  <2>2. wire' # NoWire => /\ wire'.client = BuiltClient(builder', seen')
                          /\ wire'.headers = LastOfEachName(builder'.headers)
    BY <1>4, <2>1
  <2> QED
    BY <1>1, <2>1, <2>2 DEF WireInv, MetInv
<1>7. StageInv'
  <2>1. exchanges' \in 0 .. MaxExchanges
    <3>1. MaxExchanges \in Nat \ {0}
      BY ClientAssumption
    <3> QED
      BY <1>1, <3>1
  <2>2. pc' = "connect" => wire' # NoWire
    BY <1>4, WireIsSomething
  <2>3. pc' = "done" <=> outcome' # "pending"
    BY <1>1, <1>3, <1>4 DEF StageInv
  <2> QED
    BY <1>1, <1>4, <2>1, <2>2, <2>3 DEF StageInv
<1> QED
  BY <1>5, <1>6, <1>7

LEMMA ConnectKeeps ==
    ASSUME IInv, Connect
    PROVE  IInv'
<1> USE DEF IInv
<1>1. /\ pc = "connect" /\ met = None /\ wire # NoWire
      /\ UNCHANGED <<settings, prepared, left, via, exchanges, host, scheme, seen, wire>>
  BY DEF Connect, StageInv
<1>2. PICK route \in Routes(wire.client.proxies, scheme, host, seen),
           certificate \in (IF scheme = "https" THEN Certificates ELSE {None}) :
         IF scheme = "https" /\ ~Trusts(wire.client, certificate)
         THEN EndOrRetry("RequestFailed") /\ UNCHANGED met
         ELSE met' = [route |-> route, certificate |-> certificate] /\ UNCHANGED <<pc, outcome>>
  BY DEF Connect
<1>3. /\ \/ pc' = "done" /\ outcome' = "RequestFailed"
         \/ pc' = "set up" /\ via # "build" /\ UNCHANGED outcome
         \/ UNCHANGED <<pc, outcome>>
  BY <1>2 DEF EndOrRetry, End
<1>4. BuilderInv' /\ RequestInv' /\ InterceptInv'
  BY <1>1, <1>3, PartsStay
<1>5. WireInv'
  <2>1. via # "build" => Prepared /\ Prepared'
    <3>1. via # "build" => Prepared
      BY <1>1 DEF WireInv
    <3> QED
      BY <1>1, <3>1, PreparedStays DEF settings
  <2> QED
    BY <1>1, <1>3, <2>1 DEF WireInv, settings
<1>6. MetInv'
  <2>1. CASE UNCHANGED met
    BY <1>1, <2>1 DEF MetInv
  <2>2. CASE /\ met' = [route |-> route, certificate |-> certificate]
             /\ scheme = "https" => Trusts(wire.client, certificate)
    <3>1. met'.route = route /\ met'.certificate = certificate
      BY <2>2
    <3>2. certificate # None => certificate \in Certificates /\ Trusts(wire.client, certificate)
      BY <2>2
    <3>3. via # "build_request"
      BY <1>1 DEF WireInv
    <3> QED
      BY <1>1, <3>1, <3>2, <3>3 DEF MetInv
  <2> QED
    BY <1>2, <2>1, <2>2
<1>7. StageInv'
  BY <1>1, <1>3 DEF StageInv
<1> QED
  BY <1>4, <1>5, <1>6, <1>7

LEMMA HopKeeps ==
    ASSUME IInv, Hop
    PROVE  IInv'
<1> USE DEF IInv
<1>1. /\ pc = "connect" /\ via = "send" /\ wire # NoWire
      /\ host' = Away /\ pc' = "set up" /\ wire' = NoWire /\ met' = None
      /\ scheme' \in {"http", "https"}
      /\ prepared' = [prepared EXCEPT !.headers =
                         Restrict(@, {i \in DOMAIN @ : ~IsSensitiveHeader(@[i].name)})]
      /\ UNCHANGED <<settings, left, via, exchanges, seen, outcome>>
  BY DEF Hop, StageInv
<1>2. /\ Prepared /\ \A i \in DOMAIN prepared.headers : IsName(prepared.headers[i].name)
  BY <1>1 DEF WireInv, HandOver
<1>3. /\ DOMAIN prepared' = DOMAIN prepared
      /\ \A field \in Fields \cup {"chain"} : prepared'[field] = prepared[field]
      /\ prepared'.headers = Restrict(prepared.headers,
            {i \in DOMAIN prepared.headers : ~IsSensitiveHeader(prepared.headers[i].name)})
  BY <1>1, <1>2 DEF Prepared, Fields, Lists
<1>4. /\ DOMAIN prepared'.headers =
            {i \in DOMAIN prepared.headers : ~IsSensitiveHeader(prepared.headers[i].name)}
      /\ \A i \in DOMAIN prepared'.headers : prepared'.headers[i] = prepared.headers[i]
  BY <1>3 DEF Restrict
<1>5. SettingsOf(prepared')
  <2>1. \A i \in DOMAIN prepared'.headers : DOMAIN prepared'.headers[i] = {"name", "value"}
    BY <1>2, <1>4 DEF Prepared, Headers
  <2>2. /\ prepared'.timeout = prepared.timeout /\ prepared'.jar = prepared.jar
        /\ prepared'.proxy = prepared.proxy /\ prepared'.chain = prepared.chain
    BY <1>3 DEF Fields
  <2> QED
    BY <1>2, <2>1, <2>2 DEF Prepared, SettingsOf
<1>6. Prepared'
  <2>1. Asked' = Asked
    BY <1>1 DEF Asked, Made, settings
  <2>2. ASSUME NEW one \in Range(Asked), NEW name \in NamesIn(one)
        PROVE  Carries(prepared'.headers, name) \/ IsSensitiveHeader(name)
    <3>1. CASE IsSensitiveHeader(name)
      BY <3>1
    <3>2. CASE ~IsSensitiveHeader(name)
      <4>1. PICK i \in DOMAIN prepared.headers :
               name \in {Trim(prepared.headers[i].name), Trim(Trim(prepared.headers[i].name))}
        BY <1>2, <2>2, <3>2 DEF Prepared, Carries
      <4>2. prepared.headers[i].name \in Seq(Pieces)
        BY <1>2 DEF Prepared, Headers
      <4>3. name = prepared.headers[i].name
        BY <1>2, <4>1, <4>2, TrimIsPart
      <4> QED
        BY <1>4, <3>2, <4>1, <4>3 DEF Carries
    <3> QED
      BY <3>1, <3>2
  <2>3. \A i \in DOMAIN prepared'.headers :
           /\ prepared'.headers[i] \in Headers
           /\ ~IsBlockedHeader(prepared'.headers[i].name)
           /\ ~IsSensitiveHeader(prepared'.headers[i].name)
    BY <1>2, <1>4 DEF Prepared
  <2> QED
    BY <1>1, <1>2, <1>3, <1>5, <2>1, <2>2, <2>3 DEF Prepared
<1>7. BuilderInv' /\ RequestInv' /\ InterceptInv'
  BY <1>1, PartsStay
<1>8. WireInv' /\ MetInv'
  BY <1>1, <1>6 DEF WireInv, MetInv
<1>9. StageInv'
  BY <1>1, <1>5 DEF StageInv
<1> QED
  BY <1>7, <1>8, <1>9

LEMMA AnswerKeeps ==
    ASSUME IInv, Answer
    PROVE  IInv'
<1> USE DEF IInv
<1>1. /\ pc = "connect" /\ wire # NoWire
      /\ UNCHANGED <<settings, sending>>
      /\ \/ pc' = "done" /\ outcome' = "answered"
         \/ pc' = "set up" /\ via # "build" /\ UNCHANGED outcome
  BY DEF Answer, StageInv, EndOrRetry, End
<1>2. BuilderInv' /\ RequestInv' /\ InterceptInv'
  BY <1>1, PartsStay
<1>3. WireInv' /\ MetInv'
  <2>1. via # "build" => Prepared /\ Prepared'
    <3>1. via # "build" => Prepared
      BY <1>1 DEF WireInv
    <3> QED
      BY <1>1, <3>1, PreparedStays DEF settings, sending
  <2> QED
    BY <1>1, <2>1 DEF WireInv, MetInv, settings, sending
<1>4. StageInv'
  BY <1>1 DEF StageInv, sending
<1> QED
  BY <1>2, <1>3, <1>4

LEMMA NextKeeps == IInv /\ [Next]_vars => IInv'
<1> SUFFICES ASSUME IInv, [Next]_vars
             PROVE  IInv'
  OBVIOUS
<1>1. CASE UNCHANGED vars
  <2>1. /\ UNCHANGED <<pc, calls, builder, request, prepared, left, via, exchanges>>
        /\ UNCHANGED <<host, scheme, seen, wire, met, outcome>>
    BY <1>1 DEF vars, settings, sending
  <2>2. Asked' = Asked /\ Made' = Made
    BY <2>1 DEF Asked, Made
  <2>3. BuilderInv' /\ RequestInv' /\ InterceptInv'
    BY <2>1, <2>2 DEF IInv, BuilderInv, RequestInv, InterceptInv, Follows
  <2>4. WireInv' /\ MetInv' /\ StageInv'
    BY <2>1, <2>2 DEF IInv, WireInv, Prepared, MetInv, StageInv
  <2> QED
    BY <2>3, <2>4 DEF IInv
<1>2. CASE Next
  BY <1>2, ConfigureKeeps, CreateKeeps, ChangeKeeps, StartKeeps, InterceptKeeps, ValidateKeeps,
     SetUpKeeps, BuildKeeps, ConnectKeeps, HopKeeps, AnswerKeeps DEF Next
<1> QED
  BY <1>1, <1>2

LEMMA InvariantHolds == Spec => []IInv
BY InitEstablishes, NextKeeps, PTL DEF Spec

-----------------------------------------------------------------------------
(***************************************************************************)
(* What follows from it.                                                   *)
(***************************************************************************)

\* Every variable keeps its type, and default headers are names and values from
\* the time they are added (builder.rs: add_default_header, create_request).
THEOREM ClientIsWellTyped == Spec => []TypeOK
<1>1. IInv => TypeOK
  <2> SUFFICES ASSUME IInv
               PROVE  TypeOK
    OBVIOUS
  <2>1. SettingsOf(builder)
    BY SettingsAreSettings DEF IInv, BuilderInv, Follows
  <2>2. request # None => SettingsOf(request)
    BY SettingsAreSettings DEF IInv, RequestInv, Follows
  <2>3. prepared # None => SettingsOf(prepared)
    BY DEF IInv, StageInv
  <2> QED
    BY <2>1, <2>2, <2>3 DEF IInv, BuilderInv, StageInv, TypeOK
<1> QED
  BY <1>1, InvariantHolds, PTL

\* What is on the wire is sendable, and nothing of it is blocked.
LEMMA WireIsSendable ==
    ASSUME IInv, wire # NoWire, NEW i \in DOMAIN wire.headers
    PROVE  /\ wire.headers[i] \in Headers
           /\ IsName(wire.headers[i].name) /\ IsValue(wire.headers[i].value)
           /\ ~IsBlockedHeader(wire.headers[i].name)
           /\ host = Away => ~IsSensitiveHeader(wire.headers[i].name)
<1>1. CASE via = "build"
  <2>1. wire.headers = LastOfEachName(builder.headers) /\ host = Home
    BY <1>1 DEF IInv, WireInv
  <2>2. i \in DOMAIN builder.headers /\ wire.headers[i] = builder.headers[i]
    BY <2>1 DEF LastOfEachName, Restrict
  <2>3. Home # Away
    BY ClientAssumption
  <2>4. builder.headers \in Seq(Headers)
    BY DEF IInv, BuilderInv, Follows, Configured
  <2> QED
    BY <2>1, <2>2, <2>3, <2>4 DEF IInv, BuilderInv
<1>2. CASE via # "build"
  <2>1. Prepared /\ wire.headers = prepared.headers /\ HandOver(wire.headers) = "ok"
    BY <1>2 DEF IInv, WireInv
  <2>2. IsName(wire.headers[i].name) /\ IsValue(wire.headers[i].value)
    BY <2>1 DEF HandOver
  <2> QED
    BY <2>1, <2>2 DEF Prepared
<1> QED
  BY <1>1, <1>2

\* No header gets out that add_header() would have refused, on any path, whatever
\* interceptors put into the list, and no sensitive one follows to another host
\* (header_validation.rs; request_handler.rs: validate, plan_hop).
THEOREM NoForbiddenHeaderIsSent == Spec => []NothingForbiddenIsSent
<1>1. IInv => NothingForbiddenIsSent
  <2> SUFFICES ASSUME IInv, wire # NoWire, NEW i \in DOMAIN wire.headers
               PROVE  /\ AddRefusal(wire.headers[i]) = "ok"
                      /\ SanitizeHeader(wire.headers[i]).name = wire.headers[i].name
                      /\ "CRLF" \notin Range(wire.headers[i].name)
                                           \cup Range(wire.headers[i].value)
                      /\ host = Away => ~IsSensitiveHeader(wire.headers[i].name)
    BY DEF NothingForbiddenIsSent
  <2> QED
    BY WireIsSendable, SendableIsAcceptable
<1> QED
  BY <1>1, InvariantHolds, PTL

\* What a client is built with is what was asked for last.
LEMMA ClientIsAsWanted ==
    ASSUME IInv, wire # NoWire, via # "build_request"
    PROVE  /\ AsConfigured(wire.client)
           /\ wire.client.proxies = Apply(Wanted("proxy", System), seen)
           /\ Wanted("proxy", System).mode \in {"System", "Environment", "Disabled", "Explicit"}
           /\ via = "build" =>
                 /\ wire.client.connect = Wanted("connect", 10)
                 /\ wire.client.agent = Wanted("agent", NewBuilder.agent)
                 /\ wire.client.redirects =
                       IF Wanted("follow", FALSE) THEN Wanted("max", 10) ELSE 0
<1>1. Asked \in Seq(Asking)
  BY CallsMade DEF IInv, BuilderInv
<1>2. /\ NewBuilder["timeout"] = 30 /\ NewBuilder["jar"] = None /\ NewBuilder["pins"] = None
      /\ NewBuilder["proxy"] = System /\ NewBuilder["connect"] = 10
      /\ NewBuilder["follow"] = FALSE /\ NewBuilder["max"] = 10
  BY DEF NewBuilder
<1>3. ASSUME NEW s, \A field \in Fields : Leaves(Asked, field, NewBuilder[field], s[field])
      PROVE  /\ s.timeout = Wanted("timeout", 30) /\ s.jar = Wanted("jar", None)
             /\ s.pins = IF Pinned THEN WantedPins ELSE None
             /\ s.proxy = Wanted("proxy", System)
  <2>1. /\ Leaves(Asked, "timeout", 30, s.timeout) /\ Leaves(Asked, "jar", None, s.jar)
        /\ Leaves(Asked, "pins", None, s.pins) /\ Leaves(Asked, "proxy", System, s.proxy)
    BY <1>2, <1>3 DEF Fields
  <2> QED
    BY <1>1, <2>1, WantedIsLeft
<1>4. CASE via = "build"
  <2>1. wire.client = BuiltClient(builder, seen) /\ calls.request = <<>>
    BY <1>4 DEF IInv, WireInv
  <2>2. Asked = calls.builder
    BY <1>4, <2>1, CallsMade DEF Asked, IInv, BuilderInv
  <2>3. \A field \in BuilderFields : Leaves(Asked, field, NewBuilder[field], builder[field])
    BY <2>2 DEF IInv, BuilderInv, Follows
  <2>4. /\ builder.timeout = Wanted("timeout", 30) /\ builder.jar = Wanted("jar", None)
        /\ builder.pins = IF Pinned THEN WantedPins ELSE None
        /\ builder.proxy = Wanted("proxy", System)
    BY <1>3, <2>3 DEF BuilderFields
  <2>5. /\ builder.connect = Wanted("connect", 10)
        /\ builder.agent = Wanted("agent", NewBuilder.agent)
        /\ builder.follow = Wanted("follow", FALSE) /\ builder.max = Wanted("max", 10)
    <3>1. /\ Leaves(Asked, "connect", 10, builder.connect)
          /\ Leaves(Asked, "agent", NewBuilder.agent, builder.agent)
          /\ Leaves(Asked, "follow", FALSE, builder.follow)
          /\ Leaves(Asked, "max", 10, builder.max)
      BY <1>2, <2>3 DEF BuilderFields
    <3>2. \A field, before, after :
             Leaves(Asked, field, before, after) /\ field # "pins" => Wanted(field, before) = after
      BY <1>1, WantedIsLeft
    <3>3. builder.follow = Wanted("follow", FALSE)
      BY <3>1, <3>2, Zenon
    <3>4. /\ builder.connect = Wanted("connect", 10) /\ builder.max = Wanted("max", 10)
          /\ builder.agent = Wanted("agent", NewBuilder.agent)
      BY <3>1, <3>2
    <3> QED
      BY <3>3, <3>4
  <2> QED
    BY <2>1, <2>4, <2>5 DEF BuiltClient, Provider, AsConfigured, IInv, BuilderInv, Follows,
       Configured
<1>5. CASE via # "build"
  <2>1. wire.client = ClientOf(prepared, seen) /\ Prepared
    BY <1>5 DEF IInv, WireInv
  <2>3. prepared.proxy.mode \in {"System", "Environment", "Disabled", "Explicit"}
    BY <2>1 DEF Prepared, SettingsOf
  <2>2. /\ prepared.timeout = Wanted("timeout", 30) /\ prepared.jar = Wanted("jar", None)
        /\ prepared.pins = IF Pinned THEN WantedPins ELSE None
        /\ prepared.proxy = Wanted("proxy", System)
    BY <1>3, <2>1 DEF Prepared
  <2>4. /\ wire.client.timeout = prepared.timeout /\ wire.client.pins = prepared.pins
        /\ wire.client.store = IF prepared.jar = "store" THEN prepared.jar ELSE None
        /\ wire.client.proxies = Apply(prepared.proxy, seen)
    BY <2>1 DEF ClientOf, Provider
  <2>5. AsConfigured(wire.client)
    BY <2>2, <2>4 DEF AsConfigured
  <2>6. /\ wire.client.proxies = Apply(Wanted("proxy", System), seen)
        /\ Wanted("proxy", System).mode \in {"System", "Environment", "Disabled", "Explicit"}
    BY <2>2, <2>3, <2>4
  <2> QED
    BY <1>5, <2>5, <2>6
<1> QED
  BY <1>4, <1>5

\* A header that goes through as it is has one name, however often it is trimmed.
LEMMA NameAsItIs ==
    ASSUME NEW headers, NEW i \in DOMAIN headers, headers[i] \in Headers,
           IsName(headers[i].name)
    PROVE  Trim(headers[i].name) = headers[i].name
           /\ Trim(Trim(headers[i].name)) = headers[i].name
<1>1. headers[i].name \in Seq(Pieces)
  BY DEF Headers
<1> QED
  BY <1>1, TrimIsPart

\* The timeout, the jar and the pins that were set last, on the builder, on the request
\* or by an interceptor, are those of every client that connects; connect timeout, user
\* agent and redirects are those of what build() returns and of nothing else; what
\* build_request() returns has no client; and every header that was accepted is sent,
\* but for the sensitive ones on another host (builder.rs: create_request, build;
\* request_handler.rs: build_client, build_request, plan_hop; streaming.rs:
\* download_stream).
THEOREM SettingsGetThrough == Spec => []SettingsReachTheWire
<1>1. IInv => SettingsReachTheWire
  <2> SUFFICES ASSUME IInv, wire # NoWire
               PROVE  \A name \in WantedNames :
                         \/ \E i \in DOMAIN wire.headers : wire.headers[i].name = name
                         \/ host = Away /\ IsSensitiveHeader(name)
    <3>1. ASSUME IInv, wire # NoWire
          PROVE  /\ via \in {"send", "stream"} =>
                       wire.client.connect = None /\ wire.client.agent = None
                 /\ via = "build_request" => wire.client = None
      <4>1. ASSUME via \in {"send", "stream"}
            PROVE  wire.client = ClientOf(prepared, seen)
        <5>1. via # "build" /\ via # "build_request"
          BY <4>1
        <5> QED
          BY <3>1, <5>1 DEF IInv, WireInv
      <4>2. ASSUME via = "build_request"
            PROVE  wire.client = None
        <5>1. via # "build"
          BY <4>2
        <5> QED
          BY <3>1, <4>2, <5>1 DEF IInv, WireInv
      <4>3. /\ ClientOf(prepared, seen).connect = None
            /\ ClientOf(prepared, seen).agent = None
        BY DEF ClientOf
      <4> QED
        BY <4>1, <4>2, <4>3
    <3> QED
      BY <3>1, ClientIsAsWanted DEF SettingsReachTheWire
  <2> SUFFICES ASSUME NEW name \in WantedNames
               PROVE  \/ \E i \in DOMAIN wire.headers : wire.headers[i].name = name
                      \/ host = Away /\ IsSensitiveHeader(name)
    OBVIOUS
  <2>1. PICK one \in Range(Asked) : name \in NamesIn(one)
    BY DEF WantedNames, NamesIn, Range
  <2>2. CASE via = "build"
    <3>1. wire.headers = LastOfEachName(builder.headers) /\ calls.request = <<>>
      BY <2>2 DEF IInv, WireInv
    <3>2. Asked = calls.builder
      BY <2>2, <3>1, CallsMade DEF Asked, IInv, BuilderInv
    <3>3. Carries(builder.headers, name)
      BY <2>1, <3>2 DEF IInv, BuilderInv, Follows
    <3>4. builder.headers \in Seq(Headers)
          /\ \A i \in DOMAIN builder.headers : IsName(builder.headers[i].name)
      BY DEF IInv, BuilderInv, Follows, Configured
    <3>5. \E i \in DOMAIN builder.headers : builder.headers[i].name = name
      BY <3>3, <3>4, NameAsItIs DEF Carries
    <3> DEFINE n == Len(builder.headers)
               S == {j \in 1 .. n : builder.headers[j].name = name}
    <3>6. n \in Nat /\ DOMAIN builder.headers = 1 .. n
      BY <3>4
    <3>7. Max(S) \in S /\ \A j \in S : j <= Max(S)
      <4>1. S \in SUBSET (1 .. n) /\ S # {}
        BY <3>5, <3>6
      <4> HIDE DEF S, n
      <4> QED
        BY <3>6, <4>1, LastOf
    <3> DEFINE last == Max(S)
    <3>8. /\ last \in 1 .. n /\ builder.headers[last].name = name
          /\ \A j \in 1 .. n : builder.headers[j].name = name => j <= last
      BY <3>7
    <3> HIDE DEF S, last, n
    <3>9. \A j \in last + 1 .. n : builder.headers[j].name # builder.headers[last].name
      BY <3>6, <3>8
    <3>10. last \in DOMAIN wire.headers /\ wire.headers[last] = builder.headers[last]
      BY <3>1, <3>6, <3>8, <3>9 DEF LastOfEachName, Restrict, n
    <3> QED
      BY <3>8, <3>10
  <2>3. CASE via # "build"
    <3>1. /\ Prepared /\ wire.headers = prepared.headers
          /\ \A i \in DOMAIN wire.headers : IsName(wire.headers[i].name)
      BY <2>3 DEF IInv, WireInv, HandOver
    <3>2. Carries(wire.headers, name) \/ (host = Away /\ IsSensitiveHeader(name))
      BY <2>1, <3>1 DEF Prepared
    <3>3. \A i \in DOMAIN wire.headers : wire.headers[i] \in Headers
      BY <3>1 DEF Prepared
    <3> QED
      BY <3>1, <3>2, <3>3, NameAsItIs DEF Carries
  <2> QED
    BY <2>2, <2>3
<1> QED
  BY <1>1, InvariantHolds, PTL

\* Pins that were asked for are a set of hashes.
LEMMA PinsAreAsked ==
    ASSUME Asked \in Seq(Asking), Pinned
    PROVE  WantedPins # None
<1> DEFINE n == Len(Asked)
           S == {i \in 1 .. n : Asked[i].set = "pins"}
<1>1. Wanted("pins", <<>>) = IF S = {} \/ Max(S) = 0 THEN <<>> ELSE Asked[Max(S)].to
  BY DEF Wanted, SelectLastInSeq
<1>2. n \in Nat /\ DOMAIN Asked = 1 .. n
  OBVIOUS
<1>3. S \in SUBSET (1 .. n) /\ S # {}
  BY <1>2 DEF Pinned
<1>4. Max(S) \in S
  <2> HIDE DEF S, n
  <2> QED
    BY <1>2, <1>3, LastOf
<1> DEFINE one == Asked[Max(S)]
<1>5. one \in Asking /\ one.set = "pins" /\ Max(S) # 0
  BY <1>2, <1>4
<1>6. Wanted("pins", <<>>) = one.to
  <2> HIDE DEF S
  <2> QED
    BY <1>1, <1>3, <1>5
<1> HIDE DEF one
<1>7. IsSetting(one)
  <2>1. CASE one \in AllCalls
    BY <1>5, <2>1, CallsAreCalls DEF IsCall
  <2>2. CASE \E interceptor \in Interceptors : one = CallOf(interceptor)
    BY <1>5, <2>2, CallsAreCalls DEF CallOf, Silent
  <2> QED
    BY <1>5, <2>1, <2>2 DEF Asking, Silent
<1> QED
  BY <1>5, <1>6, <1>7 DEF IsSetting, WantedPins

\* The field after those before it is the public key, in a certificate that has
\* its fields in order.
LEMMA PlaceIsKey ==
    ASSUME NEW certificate \in Certificates
    PROVE  SpkiSha256(certificate) = KeyOf(certificate)
<1> DEFINE fields == certificate.fields
           before == IF Head(fields).tag = "version" THEN 6 ELSE 5
<1>1. InOrder(certificate)
  BY ClientAssumption
<1>2. /\ before + 1 \in 1 .. Len(fields)
      /\ \A i \in 1 .. Len(fields) : fields[i].tag = "spki" <=> i = before + 1
  BY <1>1 DEF InOrder
<1>3. Len(fields) > before /\ fields # <<>>
  BY <1>1 DEF InOrder
<1>4. (CHOOSE i \in 1 .. Len(fields) : fields[i].tag = "spki") = before + 1
  <2> HIDE DEF before, fields
  <2> QED
    BY <1>2
<1> QED
  BY <1>3, <1>4 DEF SpkiSha256, KeyOf

\* A TLS connection of a client that was to be pinned is to a server whose
\* certificate is trusted and whose own key, not merely the field in its place, is one
\* of the pins (cert_pinning.rs: verify_server_cert, spki_der).
THEOREM PinsHold == Spec => []PinsAreEnforced
<1>1. IInv => PinsAreEnforced
  <2> SUFFICES ASSUME IInv, met # None, met.certificate # None
               PROVE  /\ met.certificate.trusted
                      /\ Pinned => KeyOf(met.certificate) \in WantedPins
    BY DEF PinsAreEnforced
  <2>1. /\ wire # NoWire /\ met.certificate \in Certificates /\ via # "build_request"
        /\ Trusts(wire.client, met.certificate)
    BY DEF IInv, MetInv
  <2>2. Asked \in Seq(Asking)
    BY CallsMade DEF IInv, BuilderInv
  <2>3. wire.client.pins = IF Pinned THEN WantedPins ELSE None
    BY <2>1, ClientIsAsWanted DEF AsConfigured
  <2>4. met.certificate.trusted
    BY <2>1 DEF Trusts, VerifyServerCert
  <2>5. ASSUME Pinned PROVE KeyOf(met.certificate) \in WantedPins
    <3>1. VerifyServerCert(WantedPins, met.certificate)
      BY <2>1, <2>2, <2>3, <2>5, PinsAreAsked DEF Trusts
    <3> QED
      BY <2>1, <3>1, PlaceIsKey DEF VerifyServerCert, Matches
  <2> QED
    BY <2>4, <2>5
<1> QED
  BY <1>1, InvariantHolds, PTL

\* Of two names the first that is set decides.
LEMMA FirstOfTwo ==
    ASSUME NEW env, NEW a, NEW b
    PROVE  FirstSet(env, <<a, b>>) =
              IF env[a] # Unset THEN IF env[a] = Blank THEN None ELSE env[a]
              ELSE IF env[b] = Unset \/ env[b] = Blank THEN None ELSE env[b]
<1> DEFINE names == <<a, b>>
           I == {i \in 1 .. Len(names) : env[names[i]] # Unset}
           first == IF I = {} THEN 0 ELSE Min(I)
<1>1. FirstSet(env, names) =
         IF first = 0 \/ env[names[first]] = Blank THEN None ELSE env[names[first]]
  BY DEF FirstSet, SelectInSeq
<1>2. /\ Len(names) = 2 /\ names[1] = a /\ names[2] = b
      /\ \A i \in 1 .. 2 : i = 1 \/ i = 2
  OBVIOUS
<1>3. I # {} => Min(I) \in I /\ \A y \in I : Min(I) <= y
  <2>1. I \in SUBSET Nat
    BY <1>2
  <2> HIDE DEF I
  <2> QED
    BY <2>1, FirstOf
<1>4. /\ 1 \in I <=> env[a] # Unset
      /\ 2 \in I <=> env[b] # Unset
      /\ I \subseteq {1, 2}
  BY <1>2
<1> HIDE DEF I, names
<1>5. first = IF env[a] # Unset THEN 1 ELSE IF env[b] # Unset THEN 2 ELSE 0
  <2>1. CASE 1 \in I
    <3>1. Min(I) \in {1, 2} /\ Min(I) <= 1
      BY <1>3, <1>4, <2>1
    <3> QED
      BY <1>4, <2>1, <3>1
  <2>2. CASE 1 \notin I /\ 2 \in I
    <3>1. Min(I) \in I /\ I = {2}
      BY <1>3, <1>4, <2>2
    <3> QED
      BY <1>4, <2>2, <3>1
  <2>3. CASE 1 \notin I /\ 2 \notin I
    BY <1>4, <2>3
  <2> QED
    BY <2>1, <2>2, <2>3
<1> HIDE DEF first
<1> QED
  BY <1>1, <1>2, <1>5 DEF names

\* Of two spellings it is the first that speaks, if any does.
LEMMA FirstThatSpeaks ==
    ASSUME NEW a, NEW b
    PROVE  FirstSet(seen, <<a, b>>) =
              IF seen[a] \notin {Unset, Blank} THEN seen[a]
              ELSE IF seen[b] \notin {Unset, Blank} /\ seen[a] = Unset THEN seen[b]
              ELSE None
<1>1. FirstSet(seen, <<a, b>>) =
         IF seen[a] # Unset THEN IF seen[a] = Blank THEN None ELSE seen[a]
         ELSE IF seen[b] = Unset \/ seen[b] = Blank THEN None ELSE seen[b]
  BY FirstOfTwo
<1> QED
  BY <1>1

\* What is said is what the first variable says that speaks, or none does.
LEMMA SaysTheFirst ==
    ASSUME NEW names, NEW n \in Nat, DOMAIN names = 1 .. n
    PROVE  \/ /\ Says(names) = None
              /\ \A i \in 1 .. n : ~Speaks(names, i)
           \/ \E i \in 1 .. n :
                 /\ Says(names) = seen[names[i]] /\ Speaks(names, i)
                 /\ \A j \in 1 .. n : j < i => ~Speaks(names, j)
<1> DEFINE I == {i \in 1 .. n : Speaks(names, i)}
<1>1. Says(names) = IF I = {} THEN None ELSE seen[names[Min(I)]]
  BY DEF Says
<1>2. I # {} => Min(I) \in I /\ \A i \in I : Min(I) <= i
  <2>1. I \in SUBSET Nat
    OBVIOUS
  <2> HIDE DEF I
  <2> QED
    BY <2>1, FirstOf
<1>3. CASE I = {}
  BY <1>1, <1>3
<1>4. CASE I # {}
  <2> DEFINE first == Min(I)
  <2>1. first \in I /\ \A i \in I : first <= i
    BY <1>2, <1>4
  <2>2. Says(names) = seen[names[first]]
    BY <1>1, <1>4
  <2> HIDE DEF first
  <2>3. \A j \in 1 .. n : j < first => j \notin I
    BY <2>1
  <2> QED
    BY <2>1, <2>2, <2>3
<1> QED
  BY <1>3, <1>4

\* The proxy and the bypass list taken from the environment are what the first
\* variable says that speaks (proxy_config.rs:359-379).
LEMMA VariablesDecide ==
    ASSUME seen \in Environments
    PROVE  /\ SelectProxy(seen) = Says(ProxyPrecedence)
           /\ host \in SelectBypass(seen) <=> Exempt
<1>1. \A name \in ProxyVariables \cup {"NO_PROXY", "no_proxy"} : seen[name] # None
  BY ClientAssumption
<1>2. SelectProxy(seen) = Says(ProxyPrecedence)
  <2> DEFINE n == ProxyPrecedence
             said(i) == seen[n[i]] \notin {Unset, Blank}
  <2>1. /\ n[1] = "ALL_PROXY" /\ n[2] = "all_proxy" /\ n[3] = "HTTPS_PROXY"
        /\ n[4] = "https_proxy" /\ n[5] = "HTTP_PROXY" /\ n[6] = "http_proxy"
        /\ DOMAIN n = 1 .. 6
    BY DEF ProxyPrecedence
  <2>2. \A i \in 1 .. 6 : seen[n[i]] # None
    <3>1. \A i \in 1 .. 6 : i = 1 \/ i = 2 \/ i = 3 \/ i = 4 \/ i = 5 \/ i = 6
      OBVIOUS
    <3>2. \A i \in 1 .. 6 : n[i] \in ProxyVariables
      BY <2>1, <3>1 DEF ProxyVariables
    <3> QED
      BY <1>1, <3>2
  <2> HIDE DEF n
  <2>3. /\ Speaks(n, 1) <=> said(1)
        /\ Speaks(n, 2) <=> said(2) /\ seen[n[1]] = Unset
        /\ Speaks(n, 3) <=> said(3)
        /\ Speaks(n, 4) <=> said(4) /\ seen[n[3]] = Unset
        /\ Speaks(n, 5) <=> said(5)
        /\ Speaks(n, 6) <=> said(6) /\ seen[n[5]] = Unset
    BY DEF Speaks
  <2> DEFINE one(a, b, rest) == IF Speaks(n, a) THEN seen[n[a]]
                                ELSE IF Speaks(n, b) THEN seen[n[b]] ELSE rest
  <2>4. /\ FirstSet(seen, <<n[1], n[2]>>) = one(1, 2, None)
        /\ FirstSet(seen, <<n[3], n[4]>>) = one(3, 4, None)
        /\ FirstSet(seen, <<n[5], n[6]>>) = one(5, 6, None)
    BY <2>3, FirstThatSpeaks
  <2>5. SelectProxy(seen) = one(1, 2, one(3, 4, one(5, 6, None)))
    BY <2>1, <2>2, <2>4 DEF SelectProxy
  <2>6. Says(n) = one(1, 2, one(3, 4, one(5, 6, None)))
    <3>1. CASE Says(n) = None /\ \A i \in 1 .. 6 : ~Speaks(n, i)
      BY <3>1
    <3>2. ASSUME NEW i \in 1 .. 6, Says(n) = seen[n[i]], Speaks(n, i),
                 \A j \in 1 .. 6 : j < i => ~Speaks(n, j)
          PROVE  Says(n) = one(1, 2, one(3, 4, one(5, 6, None)))
      BY <3>2
    <3> HIDE DEF one
    <3>3. \/ Says(n) = None /\ \A i \in 1 .. 6 : ~Speaks(n, i)
          \/ \E i \in 1 .. 6 :
                /\ Says(n) = seen[n[i]] /\ Speaks(n, i)
                /\ \A j \in 1 .. 6 : j < i => ~Speaks(n, j)
      <4>1. 6 \in Nat
        OBVIOUS
      <4> QED
        BY <2>1, <4>1, SaysTheFirst
    <3> QED
      BY <3>1, <3>2, <3>3
  <2> QED
    BY <2>5, <2>6 DEF n
<1>3. host \in SelectBypass(seen) <=> Exempt
  <2>1. /\ Bypasses[1] = "NO_PROXY" /\ Bypasses[2] = "no_proxy"
        /\ DOMAIN Bypasses = 1 .. 2 /\ Bypasses = <<"NO_PROXY", "no_proxy">>
    BY DEF Bypasses
  <2>2. /\ Speaks(Bypasses, 1) <=> seen["NO_PROXY"] \notin {Unset, Blank}
        /\ Speaks(Bypasses, 2) <=> seen["no_proxy"] \notin {Unset, Blank}
                                   /\ seen["NO_PROXY"] = Unset
    <3>1. 1 % 2 = 1 /\ 2 % 2 = 0 /\ 2 - 1 = 1
      OBVIOUS
    <3> QED
      BY <2>1, <3>1 DEF Speaks
  <2>3. FirstSet(seen, Bypasses) = IF Speaks(Bypasses, 1) THEN seen["NO_PROXY"]
                                   ELSE IF Speaks(Bypasses, 2) THEN seen["no_proxy"] ELSE None
    BY <2>1, <2>2, FirstThatSpeaks
  <2>4. \/ Says(Bypasses) = None /\ ~Speaks(Bypasses, 1) /\ ~Speaks(Bypasses, 2)
        \/ Says(Bypasses) = seen["NO_PROXY"] /\ Speaks(Bypasses, 1)
        \/ Says(Bypasses) = seen["no_proxy"] /\ Speaks(Bypasses, 2) /\ ~Speaks(Bypasses, 1)
    <3>1. /\ 1 \in 1 .. 2 /\ 2 \in 1 .. 2 /\ 1 < 2 /\ 2 \in Nat
          /\ \A i \in 1 .. 2 : i = 1 \/ i = 2
      OBVIOUS
    <3> QED
      BY <2>1, <3>1, SaysTheFirst
  <2>5. FirstSet(seen, Bypasses) = Says(Bypasses)
    BY <2>3, <2>4
  <2>6. SelectBypass(seen) =
           IF FirstSet(seen, Bypasses) = None THEN {} ELSE FirstSet(seen, Bypasses)
    BY <2>1 DEF SelectBypass
  <2> QED
    BY <2>5, <2>6 DEF Exempt
<1> QED
  BY <1>2, <1>3

\* Traffic leaves only as it was configured to, on every sending path and in every
\* environment: directly when proxies are disabled or the bypass list has the host;
\* else by the proxy that was given, to a destination of its scheme, and directly to
\* one of the other; or by the one that comes first in the environment, if it names one
\* (proxy_config.rs:277-344, 359-379).
THEOREM EgressFollows == Spec => []EgressIsChosen
<1>1. IInv => EgressIsChosen
  <2> DEFINE wanted == Wanted("proxy", System)
             chosen == IF wanted.mode = "Disabled" \/ Exempt THEN None
                       ELSE IF wanted.mode = "Environment" THEN Says(ProxyPrecedence)
                       ELSE IF scheme = wanted.url.scheme THEN Redacted(wanted.url)
                       ELSE None
  <2> SUFFICES ASSUME IInv, met # None, wanted.mode # "System"
               PROVE  met.route = chosen
    BY DEF EgressIsChosen
  <2>1. /\ wire # NoWire /\ via # "build_request"
        /\ met.route \in Routes(wire.client.proxies, scheme, host, seen)
    BY DEF IInv, MetInv
  <2>2. seen \in Environments /\ scheme \in {"http", "https"}
    BY <2>1 DEF IInv, StageInv
  <2>3. /\ wire.client.proxies = Apply(wanted, seen)
        /\ wanted.mode \in {"Environment", "Disabled", "Explicit"}
    BY <2>1, ClientIsAsWanted
  <2> HIDE DEF wanted
  <2>4. \A url, auth, schemes, bypass :
           wire.client.proxies = OneProxy(url, auth, schemes, bypass) =>
              met.route = IF scheme \in schemes /\ host \notin bypass THEN url ELSE None
    BY <2>1 DEF Routes, OneProxy
  <2>5. wire.client.proxies = NoProxy => met.route = None
    BY <2>1 DEF Routes, NoProxy
  <2>6. CASE wanted.mode = "Disabled"
    BY <2>3, <2>5, <2>6 DEF Apply
  <2>7. CASE wanted.mode = "Explicit"
    <3>1. wire.client.proxies = OneProxy(Redacted(wanted.url), wanted.auth, {wanted.url.scheme},
                                         SelectBypass(seen))
      BY <2>3, <2>7 DEF Apply
    <3>2. host \in SelectBypass(seen) <=> Exempt
      BY <2>2, <2>7, VariablesDecide
    <3> QED
      BY <2>4, <2>7, <3>1, <3>2
  <2>8. CASE wanted.mode = "Environment"
    <3>1. wire.client.proxies =
             IF SelectProxy(seen) = None THEN NoProxy
             ELSE OneProxy(SelectProxy(seen), None, {"http", "https"}, SelectBypass(seen))
      BY <2>3, <2>8 DEF Apply
    <3>2. /\ SelectProxy(seen) = Says(ProxyPrecedence)
          /\ host \in SelectBypass(seen) <=> Exempt
      BY <2>2, <2>8, VariablesDecide
    <3>3. CASE SelectProxy(seen) = None
      BY <2>5, <2>8, <3>1, <3>2, <3>3
    <3>4. CASE SelectProxy(seen) # None
      BY <2>2, <2>4, <2>8, <3>1, <3>2, <3>4
    <3> QED
      BY <3>3, <3>4
  <2> QED
    BY <2>3, <2>6, <2>7, <2>8
<1> QED
  BY <1>1, InvariantHolds, PTL
=============================================================================
