----------------------------- MODULE HeaderRules -----------------------------
(***************************************************************************)
(* src/header_validation.rs, and what the http crate makes of a header on  *)
(* its way out.  A name or a value is a sequence of pieces: words, the     *)
(* white space " ", "TAB" and "CRLF", any other control character "CTL"    *)
(* and any character beyond ASCII "HIGH".  Case is left out.               *)
(***************************************************************************)
EXTENDS Naturals, Sequences, SequencesExt

CONSTANT Pieces   \* the pieces considered

Headers == [name : Seq(Pieces), value : Seq(Pieces)]

White == {" ", "TAB", "CRLF"}

\* str::trim
Trim(text) ==
    LET first == SelectInSeq(text, LAMBDA piece : piece \notin White)
    IN  IF first = 0 THEN <<>>
        ELSE SubSeq(text, first, SelectLastInSeq(text, LAMBDA piece : piece \notin White))

\* HeaderName::from_bytes and HeaderValue::from_str accept these.
IsName(text)  == text # <<>> /\ Range(text) \cap (White \cup {"CTL", "HIGH"}) = {}
IsValue(text) == Range(text) \cap {"CRLF", "CTL", "HIGH"} = {}

ValidateHeaderName(name) == IF IsName(Trim(name)) THEN "ok" ELSE "HeaderError"

ValidateHeaderValue(value) ==
    IF Contains(Trim(value), "CRLF") THEN "HeaderInjectionDetected"
    ELSE IF IsValue(Trim(value)) THEN "ok"
    ELSE "HeaderError"

\* The first refusal of a list of results.
FirstRefusal(results) ==
    LET refused == SelectInSeq(results, LAMBDA result : result # "ok")
    IN  IF refused = 0 THEN "ok" ELSE results[refused]

\* Unlike sanitize_header() this does not normalize.
ValidateHeaders(headers) ==
    FirstRefusal([i \in 1 .. 2 * Len(headers) |->
        LET header == headers[(i + 1) \div 2]
        IN  IF i % 2 = 1 THEN ValidateHeaderName(header.name)
            ELSE ValidateHeaderValue(header.value)])

SanitizeHeader(header) == [name |-> Trim(header.name), value |-> Trim(header.value)]

BlockedNames   == {<<"host">>, <<"connection">>, <<"transfer-encoding">>,
                   <<"content-length">>, <<"te">>}
SensitiveNames == {<<"authorization">>, <<"proxy-authorization">>, <<"cookie">>,
                   <<"set-cookie">>, <<"x-auth-token">>, <<"x-api-key">>,
                   <<"x-access-token">>, <<"authentication">>, <<"proxy-authenticate">>,
                   <<"www-authenticate">>}

IsBlockedHeader(name)   == name \in BlockedNames
IsSensitiveHeader(name) == name \in SensitiveNames

\* add_header() and add_default_header(): what they refuse.
AddRefusal(header) ==
    FirstRefusal(<<ValidateHeaders(<<header>>),
                   IF IsBlockedHeader(Trim(header.name)) THEN "HeaderError" ELSE "ok">>)

\* The loop that hands the headers to reqwest, as every sending path has one.
HandOver(headers) ==
    IF \A i \in DOMAIN headers : IsName(headers[i].name) /\ IsValue(headers[i].value)
    THEN "ok" ELSE "HeaderError"
=============================================================================
