------------------------------ MODULE UrlRules ------------------------------
(***************************************************************************)
(* validate_url() of src/url_validation.rs: its checks in their order, on  *)
(* a URL that is a record [scheme, user, host, port, page].  Hosts are     *)
(* texts as in HostRules; a page is the sequence of its characters.  Case  *)
(* is left out, the code ignores it.  What IP literal a host spells, if    *)
(* any, is the url crate's to say: Literals.                               *)
(***************************************************************************)
EXTENDS HostRules, AddressRules

CONSTANTS
    Literals,   \* a function from hosts that are IP literals to addresses
    Pages       \* the pages considered

\* What the parser gives.
Urls == [scheme : STRING, user : BOOLEAN, host : Hosts, port : Nat, page : Pages]

HexDigits == {"0", "1", "2", "3", "5", "6", "c", "e", "f"}

\* The character of a byte, for the bytes that matter.
Byte(high, low) ==
    CASE high = "0" /\ low = "0" -> "NUL"
      [] high = "2" /\ low = "5" -> "%"
      [] high = "2" /\ low = "e" -> "."
      [] high = "2" /\ low = "f" -> "/"
      [] high = "3" /\ low = "2" -> "2"
      [] high = "5" /\ low = "c" -> "\\"
      [] high = "6" /\ low = "5" -> "e"
      [] OTHER -> "?"

IsEscape(text, i) ==
    /\ i + 2 <= Len(text)
    /\ text[i] = "%" /\ text[i + 1] \in HexDigits /\ text[i + 2] \in HexDigits

\* One round of decode_percent_encoded(), from left to right.
DecodeRound(text) ==
    FoldLeftDomain(
        LAMBDA done, i :
           IF i < done.next THEN done
           ELSE IF IsEscape(text, i)
           THEN [out |-> Append(done.out, Byte(text[i + 1], text[i + 2])), next |-> i + 3]
           ELSE [out |-> Append(done.out, text[i]), next |-> i + 1],
        [out |-> <<>>, next |-> 1], text).out

MaxRounds == 5

DecodePercentEncoded(text) ==
    LET round[n \in 0 .. MaxRounds] == IF n = 0 THEN text ELSE DecodeRound(round[n - 1])
    IN  round[MaxRounds]

DangerousSequences ==
    { <<".", ".">>, <<"\\">>, <<"%", "2", "f">>, <<"%", "5", "c">>, <<"%", "2", "e">>,
      <<"%", "0", "0">>, <<"NUL">>, <<"/", "/">> }

PathHasDangerousSequence(page) ==
    \E text \in {page, DecodePercentEncoded(page)} :
       SubSeqs(text) \cap DangerousSequences # {}

DangerousPages == {page \in Pages : PathHasDangerousSequence(page)}

\* validate_domain(): the shape of the labels, and letters, digits and "-" only;
\* a label that is too long or has another character is spelled with a "_".
Forbidden == {"_", "*", " ", "[", "]"}

IllFormed(domain) ==
    \E i \in DOMAIN Labels(domain) :
       LET label == Labels(domain)[i]
       IN  \/ label = <<>> \/ Head(label) = "-" \/ Last(label) = "-"
           \/ Range(label) \cap Forbidden # {}

ReservedName(domain) ==
    \/ domain = <<"localhost">>
    \/ \E name \in {"localhost", "local", "internal"} : IsSuffix(<<".", name>>, domain)

IsLiteral(host) == host \in DOMAIN Literals

InvalidDomains  == {host \in Hosts \ DOMAIN Literals : IllFormed(host)}
ReservedDomains == {host \in Hosts \ DOMAIN Literals : ReservedName(host)}
BlockedLiterals == {host \in DOMAIN Literals : IsBlockedIp(Literals[host])}

\* The checks, and what each refuses with; the path is looked at before and
\* after parsing, and the parser has already seen to a missing host.
ValidateUrl(target) ==
    << [fails |-> target.page \in DangerousPages,         error |-> "UrlError"],
       [fails |-> target.scheme \notin {"http", "https"}, error |-> "InvalidScheme"],
       [fails |-> target.user,                            error |-> "UrlError"],
       [fails |-> target.port = 0,                        error |-> "InvalidPort"],
       [fails |-> target.host \in InvalidDomains,         error |-> "InvalidHost"],
       [fails |-> target.host \in ReservedDomains \cup BlockedLiterals,
                                                          error |-> "PrivateNetworkAccess"] >>

\* The first refusal in a list of checks.
Refusal(checks) ==
    LET first(i) == checks[i].fails /\ \A j \in 1 .. i - 1 : ~checks[j].fails
    IN  IF \A i \in DOMAIN checks : ~checks[i].fails THEN "ok"
        ELSE checks[CHOOSE i \in DOMAIN checks : first(i)].error

-----------------------------------------------------------------------------
\* How many escapes may hide one character: decoding undoes five of them, and the
\* sixth is known by its spelling.
Layers == 6

\* What a page hides: unescape any one escape, as often as there are layers.
Unescaped(page) ==
    {SubSeq(page, 1, i - 1) \o <<Byte(page[i + 1], page[i + 2])>> \o DropFirst(page, i + 2) :
        i \in {j \in DOMAIN page : IsEscape(page, j)}}

OneLayerMore(pages) == pages \cup UNION {Unescaped(page) : page \in pages}

HiddenIn(page) ==
    LET seen[n \in 0 .. Layers] == IF n = 0 THEN {page} ELSE OneLayerMore(seen[n - 1])
    IN  seen[Layers]

TraversingPages ==
    {page \in Pages :
        \E text \in HiddenIn(page) :
           SubSeqs(text) \cap {<<".", ".">>, <<"/", "/">>, <<"\\">>, <<"NUL">>} # {}}

InternalNames ==
    {host \in Hosts \ DOMAIN Literals :
        LET labels == Labels(host) IN
        \/ Last(labels) = <<"localhost">>
        \/ Len(labels) > 1 /\ Last(labels) \in {<<"local">>, <<"internal">>}}

\* Whatever a page hides behind at most so many layers is found.
TraversalIsFound == TraversingPages \subseteq DangerousPages

\* On the hosts, patterns and pages considered, the rules are what they are meant to
\* be: patterns go by labels, no page hides a traversal, no name an internal one.
RulesAreSound ==
    /\ Matching = Covering
    /\ TraversalIsFound
    /\ InternalNames \subseteq ReservedDomains \cup InvalidDomains
==============================================================================
