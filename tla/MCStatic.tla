------------------------------- MODULE MCStatic ------------------------------
(* Values for checking Static, and the bounded inputs of the rules it applies. *)
EXTENDS Static, RequestRules

MCNoTag == <<<<0, 0>>>>
MCFileNames == {<<"a">>, <<"d", "index.html">>}
MCDirectories == {<<>>, <<"d">>}
MCTargets == {<<>>, <<"a">>, <<"d", "">>, <<"x", "..", "d">>, <<"!">>, <<"d", ".", ".", "..", "a">>}
MCProbed == {<<"a">>}
MCRangeSets == {<<From(1)>>, <<Suffix(1), Pair(0, 0)>>}
Symmetry == Permutations(Clients)

\* The rules below are of no state: they are checked once, where the exploration starts.
AtStart == clock = 0 /\ requested = 0 /\ contents = Cardinality(FileNames)

UpTo(S, n) == UNION {[1..k -> S] : k \in 0..n}

-----------------------------------------------------------------------------
\* Preconditions: lists of tags and dates, on none, one or two lines.
Tag == <<<<1, 1>>>>
Other == <<<<2, 1>>>>
TagLines ==
    {<<>>, <<AnyTag>>, <<TagList(<<Member(Tag, FALSE)>>)>>, <<TagList(<<Member(Tag, TRUE)>>)>>,
     <<TagList(<<Member(Other, FALSE), Member(Tag, FALSE)>>)>>, <<TagList(<<Member(Other, TRUE)>>)>>,
     <<TagList(<<Member(Tag, FALSE), Junk>>)>>, <<AnyTag, AnyTag>>}
DateLines == {<<>>, <<NoDate>>, <<0>>, <<2>>, <<4>>, <<2, 2>>}

Conditions == {[Ask("GET", <<>>) EXCEPT !.ifMatch = m, !.ifNoneMatch = n, !.ifUnmodifiedSince = u,
                    !.ifModifiedSince = s] : m, n \in TagLines, u, s \in DateLines}

Specs == {Empty, Bad, From(0), From(1), From(3), From(9), Pair(0, 0), Pair(1, 2), Pair(2, 1), Pair(0, 9),
          Pair(7, 9), Pair(9, 7), Pair(7, 4), Suffix(0), Suffix(1), Suffix(9)}
RangeInputs == UpTo(Specs, 3) \cup [1..4 -> {Empty, Bad, From(0), Pair(0, 0), Suffix(1), From(9)}]

(***************************************************************************)
(* What is answered is what RFC 9110 and RFC 3986 say, of every short      *)
(* input made of these values: which precondition decides and how          *)
(* (conditional.go, evaluate), on which date (modTime, "what makes the     *)
(* field and the comparison the same number"), which octets a range-set    *)
(* names (ranges.go, evaluateRange), and which name a target resolves to   *)
(* (path.go, resolve). The exception, two inverted positions too large to  *)
(* be told apart, is InvertedIsInvalid.                                    *)
(***************************************************************************)
AnswersFollowTheRules == AtStart =>
    /\ \A r \in Conditions, tag \in {Tag, NoTag}, mtime \in {NoDate, 1, 3, 5} :
        LET mod == modTime(mtime, 3) IN evaluate(r, tag, mod) = Precondition(r, tag, mod)
    /\ \A mtime, now, later \in 0..5 : DateHolds(mtime, now, later)
    /\ \A set \in RangeInputs, size \in 1..3 : RangesAreRight(set, size)
    /\ \A t \in UpTo({"", ".", "..", "a", "!"}, 5) : NameIsRight(t)

(***************************************************************************)
(* What the source says and the code does not do: a range whose last       *)
(* position is before its first is invalid, and the field ignored          *)
(* (ranges.go:408, "bytes=9-5 is invalid against every file there has ever *)
(* been"; :414, "Validity first, always"). parsePos (ranges.go:542) reads  *)
(* every position past the largest integer as that integer. Refuted under  *)
(* Static.cfg, in the place of its properties.                             *)
(***************************************************************************)
InvertedIsInvalid == AtStart =>
    \A first, last \in 0..9, size \in 1..3 :
        last < first => rangeVerdict(<<Pair(first, last)>>, size).verdict = "ignore"

-----------------------------------------------------------------------------
F(name, value) == [name |-> name, value |-> value]
P(p, values) == {<<F(<<":", p>>, v)>> : v \in values}
R(word, value) == F(<<word>>, value)

Targeted == {m \o s \o p \o a :
    m \in {<<>>} \cup P("method", {<<"GET">>, <<"OPTIONS">>, <<"CONNECT">>, <<"G", "SP">>,
                               <<"G", "#">>, <<"G", "\"">>}),
    s \in {<<>>} \cup P("scheme", {<<"http">>, <<"HTTPS">>, <<"ftp">>, <<"1", "x">>, <<"x", "+", "1">>,
                               <<"x", "#">>}),
    p \in {<<>>} \cup P("path", {<<>>, <<"/", "x">>, <<"*">>, <<"x">>, <<"/", "CTL">>}),
    a \in {<<>>} \cup P("authority", {<<>>, <<"h">>, <<"H", ":", "443">>, <<"u", "@", "h">>, <<"h", "/">>})}

Regular ==
    {<<>>, <<R("host", <<"h">>)>>, <<R("host", <<"h", ":", "80">>)>>, <<R("host", <<"H", "CTL">>)>>,
     <<R("host", <<"h">>), R("host", <<"h">>)>>,
     <<R("content-length", <<"0">>), R("te", <<"TRAILERS">>)>>, <<R("content-length", <<"1", "2">>)>>,
     <<R("content-length", <<"+", "1">>)>>, <<R("content-length", <<Huge>>)>>, <<R("content-length", <<>>)>>,
     <<R("content-length", <<"0">>), R("content-length", <<"0">>)>>}

\* What spoils any request: put before or after its fields.
Spoiling ==
    {R("te", <<"gzip">>), R("connection", <<"x">>), F(<<>>, <<>>), F(<<"UPPER">>, <<>>),
     F(<<"x", ":">>, <<>>), R("x", <<"v", "LF">>), R("x", <<"SP", "v">>), F(<<":", "path">>, <<"/">>),
     F(<<":", "other">>, <<>>), F(<<":">>, <<>>), R("priority", <<"u">>)}
Good == <<F(<<":", "method">>, <<"GET">>), F(<<":", "scheme">>, <<"https">>), F(<<":", "path">>, <<"/">>)>>

(***************************************************************************)
(* A field list is taken as a request when, and only when, it is one, and  *)
(* then for the target and with the length its fields give: no two layers  *)
(* can see two different requests in it (internal/request/request.go,      *)
(* Parse). A trailer section has no pseudo-header field.                   *)
(***************************************************************************)
RequestsAreJudged == AtStart =>
    /\ \A t \in Targeted, r \in Regular, end \in BOOLEAN : JudgedRight(t \o r, end)
    /\ \A f, g \in Spoiling, end \in BOOLEAN : \A i \in 0..3 :
        JudgedRight(SubSeq(Good, 1, i) \o <<f>> \o SubSeq(Good, i + 1, 3) \o <<g>>, end)
    /\ \A f, g \in Spoiling :
        ValidateTrailers(<<f, g>>) <=> LegalLines(<<f, g>>) /\ \A h \in {f, g} : h.name[1] # ":"
=============================================================================
