-------------------------------- MODULE Ranges -------------------------------
(***************************************************************************)
(* Byte ranges (internal/static/ranges.go). A range-set is a sequence of   *)
(* specifiers as written between its commas; a position is the number its  *)
(* digits stand for, however many there are.                               *)
(***************************************************************************)
EXTENDS Integers, Sequences, FiniteSets, SequencesExt

CONSTANTS
    maxRanges,
    MaxInt64

ASSUME RangesAssumption == maxRanges \in Nat /\ MaxInt64 \in Nat

Least(a, b) == IF a < b THEN a ELSE b

\* What stands between two commas: nothing, "first-", "first-last", "-n" or none of these.
Empty == [kind |-> "empty", first |-> 0, last |-> 0]
Bad == [kind |-> "bad", first |-> 0, last |-> 0]
From(first) == [kind |-> "from", first |-> first, last |-> 0]
Pair(first, last) == [kind |-> "pair", first |-> first, last |-> last]
Suffix(n) == [kind |-> "suffix", first |-> n, last |-> 0]
Specifiers == [kind : {"empty", "bad", "from", "pair", "suffix"}, first : Nat, last : Nat]

\* Digits that do not fit are the largest position there is.
parsePos(n) == Least(n, MaxInt64)

\* parseRangeSpec: the span, whether it is satisfiable, and whether it is a specifier.
NotASpec == [ok |-> FALSE, satisfiable |-> FALSE, first |-> 0, last |-> 0]
Unsatisfiable == [NotASpec EXCEPT !.ok = TRUE]
Span(first, last) == [ok |-> TRUE, satisfiable |-> TRUE, first |-> first, last |-> last]

parseRangeSpec(spec, size) ==
    LET first == parsePos(spec.first)
        last == IF spec.kind = "from" THEN MaxInt64 ELSE parsePos(spec.last) IN
    CASE spec.kind = "suffix" /\ first = 0 -> Unsatisfiable
      [] spec.kind = "suffix" /\ first # 0 -> Span(IF first >= size THEN 0 ELSE size - first, size - 1)
      [] spec.kind = "bad" -> NotASpec
      [] OTHER -> IF last < first THEN NotASpec ELSE IF first >= size THEN Unsatisfiable
                  ELSE Span(first, Least(last, size - 1))

\* One turn of parseRangeSet's loop, which ends at a bad specifier or at one too many.
parseNext(s, spec, size) ==
    LET p == parseRangeSpec(spec, size) IN
    IF spec.kind = "empty" \/ ~s.ok \/ s.specs > maxRanges THEN s
    ELSE IF s.specs = maxRanges THEN [s EXCEPT !.specs = @ + 1, !.spans = <<>>]
    ELSE [ok |-> p.ok, specs |-> s.specs + 1,
          spans |-> IF ~p.ok THEN <<>> ELSE IF p.satisfiable
                    THEN Append(s.spans, [first |-> p.first, last |-> p.last]) ELSE s.spans]

parseRangeSet(set, size) ==
    FoldLeft(LAMBDA s, spec : parseNext(s, spec, size),
             [ok |-> TRUE, specs |-> 0, spans |-> <<>>], set)

spanLength(s) == s.last - s.first + 1
Total(spans) == FoldLeft(LAMBDA n, s : n + spanLength(s), 0, spans)

\* What evaluateRange makes of a byte range-set: the spans, and a verdict.
rangeVerdict(set, size) ==
    LET p == parseRangeSet(set, size) IN
    CASE ~p.ok \/ p.specs = 0 -> [verdict |-> "ignore", spans |-> <<>>]
      [] p.ok /\ p.specs # 0 /\ (p.specs > maxRanges \/ p.spans = <<>>)
            -> [verdict |-> "notSatisfiable", spans |-> <<>>]
      [] OTHER -> IF Total(p.spans) > size THEN [verdict |-> "ignore", spans |-> <<>>]
                  ELSE [verdict |-> "partial", spans |-> p.spans]

-----------------------------------------------------------------------------
(***************************************************************************)
(* RFC 9110, section 14.1.2, and the package's own two bounds: the octets  *)
(* that each specifier names, of a representation of size octets.          *)
(***************************************************************************)
Named(spec, size) ==
    {o \in 0..size - 1 : CASE spec.kind = "suffix" -> o >= size - spec.first
                           [] spec.kind = "from" -> o >= spec.first
                           [] spec.kind = "pair" -> spec.first <= o /\ o <= spec.last
                           [] OTHER -> FALSE}

\* Two positions past the largest one are the same to the package, which cannot tell
\* that they are inverted.
Invalid(spec) ==
    spec.kind = "bad" \/ (spec.kind = "pair" /\ spec.last < spec.first /\ spec.last < MaxInt64)

RangesAreRight(set, size) ==
    LET specs == SelectSeq(set, LAMBDA s : s.kind # "empty")
        read == SubSeq(specs, 1, Least(Len(specs), maxRanges))
        named == SelectSeq([i \in DOMAIN read |-> Named(read[i], size)], LAMBDA S : S # {})
        got == rangeVerdict(set, size)
        Octets(s) == s.first..s.last
        invalid == \E i \in DOMAIN read : Invalid(read[i]) IN
    CASE got.verdict = "partial" ->
            /\ ~invalid /\ Len(specs) <= maxRanges
            /\ [i \in DOMAIN got.spans |-> Octets(got.spans[i])] = named
            /\ Total(got.spans) <= size
      [] got.verdict = "notSatisfiable" -> ~invalid /\ (named = <<>> \/ Len(specs) > maxRanges)
      [] got.verdict = "ignore" ->
            \/ invalid \/ specs = <<>>
            \/ FoldLeft(LAMBDA n, S : n + Cardinality(S), 0, named) > size
=============================================================================
