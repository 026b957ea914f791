----------------------------- MODULE Conditional ----------------------------
(***************************************************************************)
(* Entity tags and preconditions (internal/static/etag.go, conditional.go).*)
(*                                                                         *)
(* The lines of a field are a sequence, empty when the field is absent. A  *)
(* list of tags is "*" (any) or members, of which one that is no entity    *)
(* tag is not ok. A date that does not parse is NoDate; one that does is a *)
(* tick that begins a second.                                              *)
(***************************************************************************)
EXTENDS Integers, Sequences

CONSTANTS
    NoTag,
    Second    \* ticks to a second, which is all that an HTTP date tells

ASSUME ConditionalAssumption == Second \in Nat \ {0}

NoDate == -1

Member(opaque, weak) == [opaque |-> opaque, weak |-> weak, ok |-> TRUE]
Junk == [opaque |-> NoTag, weak |-> FALSE, ok |-> FALSE]
TagList(members) == [any |-> FALSE, members |-> members]
AnyTag == [any |-> TRUE, members |-> <<>>]

\* matches: one bad member spoils the list, wherever it is. "*" is no entity tag.
matches(value, tag, weakOK) ==
    /\ tag # NoTag /\ ~value.any
    /\ \A i \in DOMAIN value.members : value.members[i].ok
    /\ \E i \in DOMAIN value.members :
        value.members[i].opaque = tag /\ (weakOK \/ ~value.members[i].weak)

matchesStrong(value, tag) == matches(value, tag, FALSE)
matchesWeak(value, tag) == matches(value, tag, TRUE)

\* Mutant: the date keeps the file system's resolution.
M_Truncate(t) == t

\* time.Time.Truncate(time.Second)
Truncate(t) == t - (t % Second)

\* The modification date a response gives: never later than the response.
modTime(mtime, now) ==
    IF mtime = NoDate THEN NoDate
    ELSE IF Truncate(mtime) > Truncate(now) THEN Truncate(now) ELSE Truncate(mtime)

\* condDate: the one line of a date field, of a file that has a date.
condDate(lines, mod) == IF mod = NoDate \/ Len(lines) # 1 THEN NoDate ELSE lines[1]

failsMatch(r, tag) ==
    r.ifMatch # <<>> /\ (Len(r.ifMatch) > 1 \/ ~(r.ifMatch[1].any \/ matchesStrong(r.ifMatch[1], tag)))

failsUnmodified(r, mod) ==
    LET date == condDate(r.ifUnmodifiedSince, mod) IN
    r.ifMatch = <<>> /\ date # NoDate /\ mod > date

noneMatches(r, tag) ==
    Len(r.ifNoneMatch) = 1 /\ (r.ifNoneMatch[1].any \/ matchesWeak(r.ifNoneMatch[1], tag))

notModifiedSince(r, mod) ==
    LET date == condDate(r.ifModifiedSince, mod) IN date # NoDate /\ mod <= date

\* Mutant: a tag that does not match leaves the question to the date.
M_evaluate(r, tag, mod) ==
    CASE failsMatch(r, tag) \/ failsUnmodified(r, mod) -> "failed"
      [] noneMatches(r, tag) \/ notModifiedSince(r, mod) -> "notModified"
      [] OTHER -> "send"

\* An if-none-match of any kind silences if-modified-since.
evaluate(r, tag, mod) ==
    IF failsMatch(r, tag) \/ failsUnmodified(r, mod) THEN "failed"
    ELSE IF r.ifNoneMatch # <<>>
    THEN IF noneMatches(r, tag) THEN "notModified" ELSE "send"
    ELSE IF notModifiedSince(r, mod) THEN "notModified" ELSE "send"

\* ifRangeIsFalse: anything but one strong tag, which is the current one.
ifRangeIsFalse(r, tag) ==
    /\ r.ifRange # <<>>
    /\ Len(r.ifRange) > 1 \/ r.ifRange[1].weak \/ ~r.ifRange[1].ok
        \/ tag = NoTag \/ r.ifRange[1].opaque # tag

-----------------------------------------------------------------------------
(***************************************************************************)
(* RFC 9110, sections 13.1 and 13.2.2, step by step: which field decides,  *)
(* and what it says of a representation with this tag and this date.       *)
(***************************************************************************)
\* Whether a list names the representation, under the comparison asked for.
Names(lines, tag, strong) ==
    /\ Len(lines) = 1
    /\ \/ lines[1].any
       \/ /\ \A i \in DOMAIN lines[1].members : lines[1].members[i].ok
          /\ tag # NoTag
          /\ tag \in {lines[1].members[i].opaque :
                i \in {j \in DOMAIN lines[1].members : strong => ~lines[1].members[j].weak}}

Valid(lines, mod) == Len(lines) = 1 /\ lines[1] # NoDate /\ mod # NoDate

\* The steps in their order: the one that is asked and fails first decides.
Fails(step, r, tag, mod) ==
    CASE step = 1 -> r.ifMatch # <<>> /\ ~Names(r.ifMatch, tag, TRUE)
      [] step = 2 -> r.ifMatch = <<>> /\ Valid(r.ifUnmodifiedSince, mod) /\ mod > r.ifUnmodifiedSince[1]
      [] step = 3 -> r.ifNoneMatch # <<>> /\ Names(r.ifNoneMatch, tag, FALSE)
      [] step = 4 -> r.ifNoneMatch = <<>> /\ Valid(r.ifModifiedSince, mod) /\ mod <= r.ifModifiedSince[1]

Precondition(r, tag, mod) ==
    LET failing == {i \in 1..4 : Fails(i, r, tag, mod)} IN
    CASE failing = {} -> "send"
      [] failing # {} /\ failing \cap {1, 2} # {} -> "failed"
      [] OTHER -> "notModified"

\* What a response publishes of a file that is older than it: the second it was written
\* in, and a client that sends the date back is told that the file is unchanged, for as
\* long as it is.
DateHolds(mtime, now, later) ==
    LET mod == modTime(mtime, now)
        published == CHOOSE d \in 0..now : d % Second = 0 /\ d <= mtime /\ mtime < d + Second
        back == [ifMatch |-> <<>>, ifNoneMatch |-> <<>>, ifUnmodifiedSince |-> <<>>,
                 ifModifiedSince |-> <<published>>] IN
    mtime <= now /\ now <= later =>
        mod = published /\ evaluate(back, NoTag, modTime(mtime, later)) = "notModified"
=============================================================================
