----------------------------- MODULE RequestRules ----------------------------
(***************************************************************************)
(* What a request must be (internal/request): Parse, as an operator on a   *)
(* field list whose names and values are sequences of tokens, as in        *)
(* ResponseFields, and ValidateTrailers.                                   *)
(***************************************************************************)
EXTENDS ResponseFields

\* Words that letters in upper case spell, and their lower case.
Lowered == ("HTTPS" :> "https") @@ ("TRAILERS" :> "trailers") @@ ("H" :> "h")

\* A word for digits that stand for a number of 64 bits or more.
Huge == "HUGE"

asciiLower(v) == [i \in DOMAIN v |-> IF v[i] \in DOMAIN Lowered THEN Lowered[v[i]] ELSE v[i]]

Delimiters == {"(", ")", ",", "/", ":", ";", "<", "=", ">", "?", "@", "[", "\\", "]", "{", "}", "\""}

\* The marks of a token that are none of a scheme.
TokenMarks == {"!", "#", "$", "%", "&", "'", "*", "^", "_", "GRAVE", "|", "~"}

\* The first value of a list of values, none when it is empty.
TheValue(vs) == IF vs = <<>> THEN <<>> ELSE vs[1]

checkField(f) == checkFieldLine(f)

checkRequestField(f) ==
    /\ f.name \notin {<<word>> : word \in connectionSpecific \ {"te"}}
    /\ f.name = <<"te">> => asciiLower(f.value) = <<"trailers">>

validToken(v) == v # <<>> /\ \A i \in DOMAIN v : v[i] \notin Delimiters \cup Control

validScheme(v) ==
    /\ v # <<>> /\ v[1] \notin Digits \cup {"+", "-", "."}
    /\ \A i \in DOMAIN v : v[i] \notin Delimiters \cup TokenMarks \cup Control

controlOctet(v) == \E i \in DOMAIN v : v[i] \in Control

isHTTPScheme(v) == asciiLower(v) \in {<<"http">>, <<"https">>}

\* The default port of the scheme is not part of an authority.
normalizeAuthority(scheme, a) ==
    LET v == asciiLower(a)
        port == CASE asciiLower(scheme) = <<"http">> -> <<":", "80">>
                  [] asciiLower(scheme) = <<"https">> -> <<":", "443">>
                  [] OTHER -> <<>> IN
    IF port # <<>> /\ IsSuffix(port, v) THEN SubSeq(v, 1, Len(v) - 2) ELSE v

\* Mutant: authorities are compared octet by octet.
M_sameAuthority(scheme, a, b) == a = b

sameAuthority(scheme, a, b) == normalizeAuthority(scheme, a) = normalizeAuthority(scheme, b)

-----------------------------------------------------------------------------
PseudoNames == {"method", "scheme", "authority", "path"}

\* What Parse's loop keeps: the pseudo-header fields seen and their values, and the
\* values of the three fields it looks at, in order.
Nothing == [ok |-> TRUE, regular |-> FALSE, seen |-> {}, value |-> [p \in PseudoNames |-> <<>>],
            clens |-> <<>>, hosts |-> <<>>, prios |-> <<>>]

pseudoField(s, f) ==
    IF /\ ~s.regular /\ Len(f.name) = 2
       /\ f.name[2] \in PseudoNames \ s.seen
    THEN [s EXCEPT !.seen = @ \cup {f.name[2]}, !.value = [@ EXCEPT ![f.name[2]] = f.value]]
    ELSE [s EXCEPT !.ok = FALSE]

Noted(values, word, f) == IF f.name = <<word>> THEN Append(values, f.value) ELSE values

regularField(s, f) ==
    [s EXCEPT !.ok = checkRequestField(f),
              !.regular = TRUE,
              !.clens = Noted(@, "content-length", f),
              !.hosts = Noted(@, "host", f),
              !.prios = Noted(@, "priority", f)]

\* One turn of Parse's loop.
parseField(s, f) ==
    IF ~s.ok THEN s
    ELSE IF ~checkField(f) THEN [s EXCEPT !.ok = FALSE]
    ELSE IF isPseudo(f) THEN pseudoField(s, f) ELSE regularField(s, f)

checkAuthority(scheme, a) ==
    /\ ~controlOctet(a)
    /\ \A i \in DOMAIN a : a[i] \notin {"/", "?", "#"}
    /\ isHTTPScheme(scheme) => \A i \in DOMAIN a : a[i] # "@"

checkConnect(s) ==
    /\ s.seen \cap {"scheme", "path"} = {}
    /\ s.value["authority"] # <<>>
    /\ checkAuthority(<<>>, s.value["authority"])

checkPath(s) ==
    LET path == s.value["path"] IN
    /\ path # <<>> /\ ~controlOctet(path)
    /\ isHTTPScheme(s.value["scheme"]) =>
        IF path = <<"*">> THEN s.value["method"] = <<"OPTIONS">> ELSE path[1] = "/"

checkControlData(s) ==
    /\ "method" \in s.seen /\ validToken(s.value["method"])
    /\ IF s.value["method"] = <<"CONNECT">> THEN checkConnect(s)
       ELSE /\ "scheme" \in s.seen /\ validScheme(s.value["scheme"])
            /\ "path" \in s.seen /\ checkPath(s)
            /\ checkAuthority(s.value["scheme"], s.value["authority"])

\* The authority of the request: the pseudo-header field's, or else Host's.
authorityOf(s) == IF "authority" \in s.seen THEN s.value["authority"] ELSE TheValue(s.hosts)

resolveAuthority(s) ==
    /\ Len(s.hosts) <= 1
    /\ IF "authority" \notin s.seen THEN checkAuthority(s.value["scheme"], TheValue(s.hosts))
       ELSE s.hosts # <<>> => sameAuthority(s.value["scheme"], s.value["authority"], s.hosts[1])

\* parseContentLength, and -1 for what is not a decimal number of 63 bits.
NoContentLength == -1
DigitValue(d) == CHOOSE n \in 0..9 :
    <<"0", "1", "2", "3", "4", "5", "6", "7", "8", "9">>[n + 1] = d
parseContentLength(v) ==
    IF v = <<>> \/ \E i \in DOMAIN v : v[i] \notin Digits THEN NoContentLength
    ELSE FoldLeft(LAMBDA n, d : 10 * n + DigitValue(d), 0, v)

contentLength(s) == IF s.clens = <<>> THEN NoContentLength ELSE parseContentLength(s.clens[1])

setContentLength(s, endStream) ==
    s.clens # <<>> => /\ Len(s.clens) = 1
                      /\ contentLength(s) # NoContentLength
                      /\ endStream => contentLength(s) = 0

Parse(fields, endStream) ==
    LET s == FoldLeft(parseField, Nothing, fields) IN
    [ok |-> s.ok /\ checkControlData(s) /\ resolveAuthority(s) /\ setContentLength(s, endStream),
     method |-> s.value["method"], scheme |-> s.value["scheme"], path |-> s.value["path"],
     authority |-> authorityOf(s), contentLength |-> contentLength(s), priority |-> s.prios]

ValidateTrailers(fields) ==
    \A i \in DOMAIN fields : checkField(fields[i]) /\ ~isPseudo(fields[i]) /\ checkRequestField(fields[i])

-----------------------------------------------------------------------------
(***************************************************************************)
(* RFC 9113, sections 8.1 to 8.3 and 8.5, and RFC 9110, 7.2 and 8.6, of a  *)
(* field list as a whole: which lists are requests, and of which resource. *)
(***************************************************************************)
\* RFC 9110, 5.6.2, and RFC 3986, 3.1, of words of letters, digits and marks.
Letters(octet) == octet \in {"G", "GET", "OPTIONS", "CONNECT", "x", "http", "https", "HTTPS", "ftp"}
SchemeOctet(octet) == Letters(octet) \/ octet \in Digits \cup {"+", "-", "."}
LegalMethod(v) ==
    v # <<>> /\ \A i \in DOMAIN v : SchemeOctet(v[i]) \/ v[i] \in {"!", "#", "$", "%", "&", "'", "*", "^", "_", "GRAVE", "|", "~"}
LegalScheme(v) == v # <<>> /\ Letters(v[1]) /\ \A i \in DOMAIN v : SchemeOctet(v[i])

At(fields, name) == {i \in DOMAIN fields : fields[i].name = name}
Value(fields, p) == LET at == At(fields, <<":", p>>) IN
    IF at = {} THEN <<>> ELSE fields[CHOOSE i \in at : TRUE].value
Has(fields, p) == At(fields, <<":", p>>) # {}

LegalLines(fields) ==
    \A i \in DOMAIN fields :
        /\ LegalName(fields[i].name) /\ LegalValue(fields[i].value)
        /\ fields[i].name \notin {<<word>> : word \in connectionSpecific \ {"te"}}
        /\ fields[i].name = <<"te">> => fields[i].value \in {<<"trailers">>, <<"TRAILERS">>}

LegalPseudo(fields) ==
    LET pseudo == {i \in DOMAIN fields : fields[i].name[1] = ":"} IN
    /\ pseudo = 1..Cardinality(pseudo)
    /\ {fields[i].name : i \in pseudo} \subseteq {<<":", p>> : p \in PseudoNames}
    /\ \A p \in PseudoNames : Cardinality(At(fields, <<":", p>>)) <= 1

\* An authority, as a host and a port that may be left out.
Target(scheme, a) ==
    LET low == asciiLower(a)
        default == IF asciiLower(scheme) = <<"https">> THEN "443" ELSE
                   IF asciiLower(scheme) = <<"http">> THEN "80" ELSE "" IN
    IF Len(low) > 1 /\ low[Len(low) - 1] = ":" /\ low[Len(low)] = default
    THEN SubSeq(low, 1, Len(low) - 2) ELSE low

LegalAuthority(scheme, a) ==
    \A i \in DOMAIN a : /\ a[i] \notin Control \cup {"/", "?", "#"}
                        /\ a[i] = "@" => asciiLower(scheme) \notin {<<"http">>, <<"https">>}

IsRequest(fields, endStream) ==
    LET method == Value(fields, "method")
        scheme == Value(fields, "scheme")
        path == Value(fields, "path")
        web == asciiLower(scheme) \in {<<"http">>, <<"https">>}
        hosts == {fields[i].value : i \in At(fields, <<"host">>)}
        claims == hosts \cup IF Has(fields, "authority") THEN {Value(fields, "authority")} ELSE {}
        lengths == At(fields, <<"content-length">>) IN
    /\ LegalLines(fields) /\ LegalPseudo(fields)
    /\ LegalMethod(method)
    /\ IF method = <<"CONNECT">>
       THEN ~Has(fields, "scheme") /\ ~Has(fields, "path") /\ Value(fields, "authority") # <<>>
       ELSE /\ LegalScheme(scheme) /\ path # <<>>
            /\ \A i \in DOMAIN path : path[i] \notin Control
            /\ web => path[1] = "/" \/ (path = <<"*">> /\ method = <<"OPTIONS">>)
    \* One target, however many fields name it.
    /\ Cardinality(At(fields, <<"host">>)) <= 1
    /\ Cardinality({Target(scheme, a) : a \in claims}) <= 1
    /\ \A a \in claims : Has(fields, "authority") => Target(scheme, a) = Target(scheme, Value(fields, "authority"))
    /\ LegalAuthority(scheme, IF Has(fields, "authority") THEN Value(fields, "authority")
                              ELSE IF hosts = {} THEN <<>> ELSE CHOOSE a \in hosts : TRUE)
    \* One length, which END_STREAM does not belie.
    /\ Cardinality(lengths) <= 1
    /\ \A i \in lengths : LET v == fields[i].value IN
        /\ v # <<>> /\ \A k \in DOMAIN v : v[k] \in Digits
        /\ endStream => \A k \in DOMAIN v : v[k] = "0"

JudgedRight(fields, endStream) ==
    LET r == Parse(fields, endStream) IN
    /\ r.ok <=> IsRequest(fields, endStream)
    /\ r.ok => /\ r.method = Value(fields, "method") /\ r.path = Value(fields, "path")
               /\ r.contentLength # NoContentLength <=> At(fields, <<"content-length">>) # {}
               /\ \A i \in At(fields, <<"host">>) :
                    Target(r.scheme, fields[i].value) = Target(r.scheme, r.authority)
=============================================================================
