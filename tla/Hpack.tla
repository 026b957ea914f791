-------------------------------- MODULE Hpack --------------------------------
(***************************************************************************)
(* The HPACK codec (internal/hpack): the dynamic table, Encode and Decode, *)
(* as operators on a table.                                                *)
(*                                                                         *)
(* A field's name and value are sequences of tokens: an octet that some    *)
(* rule looks at, or a word of octets that none does. A block is a         *)
(* sequence of representations; the integer and string codings, Huffman's  *)
(* included, are left out.                                                 *)
(***************************************************************************)
EXTENDS Integers, Sequences, SequencesExt

CONSTANTS
    Static,     \* the static table: a sequence of fields
    Overhead,   \* what an entry costs besides its octets, 32
    TableSize   \* defaultDynamicTableSize, 4096

ASSUME HpackAssumption == Overhead \in Nat /\ TableSize \in Nat

entrySize(f) == Len(f.name) + Len(f.value) + Overhead

\* dynamicTable.size, and the cost of a field list: the sum of its fields' costs.
Size(fs) == FoldLeft(LAMBDA n, f : n + entrySize(f), 0, fs)

\* newDynamicTable; entries[1] is the most recent one.
NewTable == [entries |-> <<>>, max |-> TableSize, ceiling |-> TableSize]

\* The newest entries that fit in size octets: the oldest are dropped one by one.
Newest(entries, size) ==
    LET fits == {k \in 0..Len(entries) : Size(SubSeq(entries, 1, k)) <= size} IN
    IF fits = {} THEN <<>> ELSE SubSeq(entries, 1, CHOOSE k \in fits : \A j \in fits : j <= k)

evictToFit(t) == [t EXCEPT !.entries = Newest(@, t.max)]

\* The ceiling never raises what is in use, it only caps it.
setCeiling(t, n) ==
    IF t.max > n THEN evictToFit([t EXCEPT !.ceiling = n, !.max = n])
    ELSE [t EXCEPT !.ceiling = n]

setMax(t, n) == evictToFit([t EXCEPT !.max = n])

\* A field that does not fit in the whole table empties it and is not added.
add(t, f) ==
    IF entrySize(f) > t.max THEN [t EXCEPT !.entries = <<>>]
    ELSE [t EXCEPT !.entries = <<f>> \o Newest(@, t.max - entrySize(f))]

-----------------------------------------------------------------------------
\* The combined address space: the static table, then the dynamic one, newest first.
Space(t) == Static \o t.entries

\* The first index of a set, 0 when it is empty.
First(S) == IF S = {} THEN 0 ELSE CHOOSE i \in S : \A j \in S : i <= j

findExact(t, f) ==
    First({i \in DOMAIN Space(t) : Space(t)[i].name = f.name /\ Space(t)[i].value = f.value})

findName(t, f) == First({i \in DOMAIN Space(t) : Space(t)[i].name = f.name})

\* A literal of one of three kinds: the name by index, or itself when index is 0.
encodeLiteral(t, f, kind) ==
    LET i == findName(t, f) IN
    [kind |-> kind, index |-> i, name |-> IF i = 0 THEN f.name ELSE <<>>, value |-> f.value]

Indexed(i) == [kind |-> "indexed", index |-> i, name |-> <<>>, value |-> <<>>]

\* Mutant: a sensitive field is compressed like any other.
M_EncodeField(e, f) ==
    LET i == findExact(e.table, f) IN
    IF i # 0 THEN [e EXCEPT !.out = Append(@, Indexed(i))]
    ELSE [table |-> add(e.table, f), out |-> Append(e.out, encodeLiteral(e.table, f, "incremental"))]

\* One turn of Encode's loop. A sensitive field is never looked up by its value and
\* never added.
EncodeField(e, f) ==
    LET i == findExact(e.table, f) IN
    IF f.sensitive THEN [e EXCEPT !.out = Append(@, encodeLiteral(e.table, f, "never"))]
    ELSE IF i # 0 THEN [e EXCEPT !.out = Append(@, Indexed(i))]
    ELSE [table |-> add(e.table, f), out |-> Append(e.out, encodeLiteral(e.table, f, "incremental"))]

Encode(t, fields) == FoldLeft(EncodeField, [table |-> t, out |-> <<>>], fields)

-----------------------------------------------------------------------------
\* lookupIndexed finds the entry, or the index is out of range.
InRange(t, i) == i \in 1..Len(Static) + Len(t.entries)

\* decodeLiteral's field, once its index is known to be in range.
Literal(t, r) ==
    [name |-> IF r.index = 0 THEN r.name ELSE Space(t)[r.index].name,
     value |-> r.value, sensitive |-> r.kind = "never"]

\* One turn of Decode's loop: after an error nothing more is decoded.
DecodeField(d, r) ==
    LET t == d.table
        Fail == [d EXCEPT !.err = TRUE]
        Push(f) == [d EXCEPT !.fields = Append(@, f)] IN
    CASE d.err -> d
      [] r.kind = "indexed" -> IF InRange(t, r.index) THEN Push(Space(t)[r.index]) ELSE Fail
      [] r.kind = "resize" ->
           IF d.fields # <<>> \/ r.index > t.ceiling THEN Fail
           ELSE [d EXCEPT !.table = setMax(t, r.index)]
      [] OTHER ->
           IF r.index # 0 /\ ~InRange(t, r.index) THEN Fail
           ELSE LET f == Literal(t, r) IN
                IF r.kind = "incremental" THEN [Push(f) EXCEPT !.table = add(t, f)] ELSE Push(f)

Decode(t, block) == FoldLeft(DecodeField, [table |-> t, fields |-> <<>>, err |-> FALSE], block)
=============================================================================
