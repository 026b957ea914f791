--------------------------- MODULE ResponseFields ---------------------------
(***************************************************************************)
(* What a response's field sections must be (internal/response/fields.go). *)
(*                                                                         *)
(* A name or a value is a sequence of tokens: an octet that some rule      *)
(* looks at, or a word of octets that none does.                           *)
(***************************************************************************)
EXTENDS Integers, Sequences, SequencesExt

pseudoStatus == <<":", "status">>

Digits == {"0", "1", "2", "3", "4", "5", "6", "7", "8", "9"}

\* Classes of octets, each with one token for what is not a character of a word.
Upper == {"UPPER"}
Control == {"NUL", "LF", "CR", "HTAB", "SP", "CTL"}
Whitespace == {"SP", "HTAB"}

isPseudo(f) == f.name # <<>> /\ f.name[1] = ":"

\* checkFieldLine: the whole name but one leading colon, and the value with its edges.
checkFieldLine(f) ==
    LET name == IF isPseudo(f) THEN Tail(f.name) ELSE f.name IN
    /\ f.name # <<>>
    /\ \A i \in DOMAIN name : name[i] \notin Upper \cup Control \cup {":"}
    /\ \A i \in DOMAIN f.value : f.value[i] \notin {"NUL", "LF", "CR"}
    /\ f.value # <<>> => /\ f.value[1] \notin Whitespace
                         /\ f.value[Len(f.value)] \notin Whitespace

connectionSpecific ==
    {"connection", "proxy-connection", "keep-alive", "transfer-encoding", "upgrade", "te"}

checkRegular(f) == \A word \in connectionSpecific : f.name # <<word>>

checkStatus(v) ==
    /\ Len(v) = 3
    /\ \A i \in DOMAIN v : v[i] \in Digits
    /\ v[1] \in {"1", "2", "3", "4", "5"}

\* One turn of checkSection's loop.
sectionField(kind, s, f) ==
    IF ~isPseudo(f)
    THEN [s EXCEPT !.regular = TRUE, !.ok = @ /\ checkFieldLine(f) /\ checkRegular(f)]
    ELSE [s EXCEPT !.status = TRUE,
                   !.ok = /\ @ /\ checkFieldLine(f)
                          /\ ~s.regular
                          /\ kind = "header" /\ f.name = pseudoStatus
                          /\ ~s.status /\ checkStatus(f.value)]

checkSection(kind, fields) ==
    LET last == FoldLeft(LAMBDA s, f : sectionField(kind, s, f),
                         [status |-> FALSE, regular |-> FALSE, ok |-> TRUE], fields) IN
    last.ok /\ (kind = "header" => last.status)

\* Writer.informational: the class of the first status.
informational(fields) ==
    \E i \in DOMAIN fields :
        /\ fields[i].name = pseudoStatus
        /\ \A j \in 1 .. i - 1 : fields[j].name # pseudoStatus
        /\ fields[i].value # <<>> /\ fields[i].value[1] = "1"

-----------------------------------------------------------------------------
(***************************************************************************)
(* What RFC 9113, sections 8.2 and 8.3, says of a section a peer receives. *)
(***************************************************************************)
LegalName(name) ==
    name # <<>> /\ \A i \in DOMAIN name : /\ name[i] \notin Upper \cup Control
                                          /\ name[i] = ":" => i = 1
LegalValue(v) ==
    \A i \in DOMAIN v : /\ v[i] \notin {"NUL", "LF", "CR"}
                        /\ v[i] \in Whitespace => i \notin {1, Len(v)}

LegalSection(kind, fields) ==
    LET pseudo == {i \in DOMAIN fields : fields[i].name[1] = ":"} IN
    /\ \A i \in DOMAIN fields : LegalName(fields[i].name) /\ LegalValue(fields[i].value)
    /\ \A i \in DOMAIN fields : fields[i].name \notin {<<word>> : word \in connectionSpecific}
    /\ pseudo = IF kind = "header" THEN {1} ELSE {}
    /\ kind = "header" => /\ fields[1].name = pseudoStatus
                          /\ \E c \in {"1", "2", "3", "4", "5"}, d, e \in Digits :
                                fields[1].value = <<c, d, e>>
=============================================================================
