-------------------------------- MODULE Paths --------------------------------
(***************************************************************************)
(* From a request's target to a name in the served directory               *)
(* (internal/static/path.go). A target is the segments between its         *)
(* slashes, without its query, and none at all when the target does not    *)
(* begin with one; a segment that does not unescape to a safe file name is *)
(* one of Unsafe. A name is the sequence of its segments.                  *)
(***************************************************************************)
EXTENDS Integers, Sequences, FiniteSets, SequencesExt

CONSTANT Unsafe   \* segments that unescape or safeSegment refuses

\* One turn of resolve's loop.
resolveNext(s, seg) ==
    CASE seg \in {"", "."} -> s
      [] seg = ".." -> [s EXCEPT !.name = IF @ = <<>> THEN @ ELSE Front(@)]
      [] seg \in Unsafe -> [s EXCEPT !.ok = FALSE]
      [] OTHER -> [s EXCEPT !.name = Append(@, seg)]

resolve(segments) ==
    IF segments = <<>> THEN [name |-> <<>>, slash |-> FALSE, ok |-> FALSE]
    ELSE [slash |-> Last(segments) = ""] @@
             FoldLeft(resolveNext, [name |-> <<>>, ok |-> TRUE], segments)

-----------------------------------------------------------------------------
(***************************************************************************)
(* The name is what is left when every ".." has taken the nearest segment  *)
(* that is before it and not taken: nothing outside the root is named.     *)
(***************************************************************************)
Plain(seg) == seg \notin {"", ".", ".."}

NameIsRight(segments) ==
    LET r == resolve(segments)
        kept == {i \in DOMAIN segments :
                   Plain(segments[i]) /\ \A j \in i..Len(segments) :
                      Len(SelectSeq(SubSeq(segments, i, j), LAMBDA g : g = ".."))
                        < Len(SelectSeq(SubSeq(segments, i, j), Plain))} IN
    /\ r.ok <=> segments # <<>> /\ \A i \in DOMAIN segments : segments[i] \notin Unsafe
    /\ r.ok => r.name = [k \in 1..Cardinality(kept) |->
                           segments[CHOOSE i \in kept : Cardinality({j \in kept : j < i}) = k - 1]]
=============================================================================
