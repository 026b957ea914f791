----------------------------- MODULE Priorities -----------------------------
(***************************************************************************)
(* The peer's priority signals (RFC 9218) and which of them governs: the   *)
(* Priority field of a request, and the PRIORITY_UPDATE frame, which       *)
(* reaches the scheduler at once or when its stream opens.                 *)
(*                                                                         *)
(* The reader goroutine decides (internal/server/conn.go) from its own     *)
(* high-water mark, the signals it has buffered (internal/priority/        *)
(* pending.go) and the stream table's answers; the handlers' reports of    *)
(* finished responses reach the table only with the next stream frame.     *)
(* The field is applied while the stream layer handles the frame that      *)
(* completes the request (internal/exchange/exchange.go), a buffered frame *)
(* after it; a malformed request's field is not read, like an absent one.  *)
(***************************************************************************)
EXTENDS Integers, FiniteSets

CONSTANTS
    Ids,             \* identifiers a client may use: odd
    Values,          \* priorities
    MaxConcurrent    \* limits.MaxConcurrentStreams

None == "none"

ASSUME PrioritiesAssumption ==
    /\ Ids \subseteq {i \in Nat : i % 2 = 1}
    /\ MaxConcurrent \in Nat
    /\ None \notin Values

VARIABLES
    lastStreamID,   \* conn.lastStreamID
    pending,        \* conn.pending: the buffered signals, None where there is none
    prio,           \* the frame writer's priorities, None where there is none
    live,           \* the key set of Table.streams
    highestRemote,  \* Table.highestRemote
    assembling,     \* the stream whose header block is incomplete, 0 for none
    sent,           \* Table.sent: ended both ways once the report is drained
    connErr,        \* why the connection ended
    said,           \* history: of a stream that was not closed, its last
                    \* PRIORITY_UPDATE, or else the field of its request
    discarded,      \* history: identifiers whose signal was dropped while idle
    crowded,        \* history: the active streams when the limit was enforced
    plain           \* history: no block has spanned frames, no PRIORITY has come

signals == <<pending, prio, said, discarded, crowded, plain>>
table == <<live, highestRemote, assembling, sent>>
vars == <<lastStreamID, signals, table, connErr>>

Held == {id \in Ids : pending[id] # None}
Idle(id) == id \notin live /\ id > highestRemote

Init ==
    /\ lastStreamID = 0
    /\ pending = [id \in Ids |-> None]
    /\ prio = [id \in Ids |-> None]
    /\ live = {}
    /\ highestRemote = 0
    /\ assembling = 0
    /\ sent = {}
    /\ connErr = "nil"
    /\ said = [id \in Ids |-> None]
    /\ discarded = {}
    /\ crowded = 0
    /\ plain = TRUE

Up == connErr = "nil"

\* Mutant: only the streams above the one that opened are kept.
M_Prune(ps, below) == [id \in Ids |-> IF id <= below + 2 THEN None ELSE ps[id]]

\* Pending.Prune
Prune(ps, below) == [id \in Ids |-> IF id < below THEN None ELSE ps[id]]

\* Mutant: the signal is applied although the stream did not open.
M_leftIdleAnyway(id, open, ps, pr) ==
    <<Prune([ps EXCEPT ![id] = None], id),
      IF ps[id] # None THEN [pr EXCEPT ![id] = ps[id]] ELSE pr>>

\* leftIdle: the buffered signals and the writer's priorities after stream id has
\* left the idle state, open being the streams the table now holds.
leftIdle(id, open, ps, pr) ==
    <<Prune([ps EXCEPT ![id] = None], id),
      IF ps[id] # None /\ id \in open THEN [pr EXCEPT ![id] = ps[id]] ELSE pr>>

\* frameWriter.Forget, for every stream that leaves the table
Forget(pr, gone) == [id \in Ids |-> IF id \in gone THEN None ELSE pr[id]]

\* Requests.Headers, for a request with a Priority field whose stream opened.
prioritized(id, open, field, pr) ==
    IF field # None /\ id \in open THEN [pr EXCEPT ![id] = field] ELSE pr

\* What moves with a frame for id that leaves the table with the streams in open,
\* the signals then being in after: the buffered ones and the writer's.
dispatched(id, open, field, after) ==
    /\ live' = open
    /\ sent' = {}
    /\ pending' = after[1]
    /\ prio' = after[2]
    /\ lastStreamID' = IF id > lastStreamID THEN id ELSE lastStreamID
    /\ said' = IF field # None /\ id \in open /\ said[id] = None
               THEN [said EXCEPT ![id] = field] ELSE said
    /\ UNCHANGED <<connErr, discarded, crowded>>

\* Mutant: the buffered signal is applied before the frame is handled, and the field
\* that the frame carries over it.
M_handleStreamFrame(id, open, field) ==
    LET kept == Forget(prio, live \ open)
        left == IF id > lastStreamID THEN leftIdle(id, open, pending, kept)
                ELSE <<pending, kept>>
    IN  dispatched(id, open, field, <<left[1], prioritized(id, open, field, left[2])>>)

\* handleStreamFrame, given the streams the table holds once HandleFrame has drained
\* its reports and applied the frame, and the request's Priority field, None if there
\* is no request or no field.
handleStreamFrame(id, open, field) ==
    LET kept == prioritized(id, open, field, Forget(prio, live \ open))
    IN  dispatched(id, open, field, IF id > lastStreamID THEN leftIdle(id, open, pending, kept)
                                    ELSE <<pending, kept>>)

Drained == live \ sent

\* The streams after a header block for id completes.
Admitted(id) == IF Cardinality(Drained) < MaxConcurrent THEN Drained \cup {id} ELSE Drained

\* HEADERS that opens a stream.
Headers(id, endHeaders, field) ==
    /\ Up /\ assembling = 0
    /\ id > highestRemote
    /\ highestRemote' = id
    /\ assembling' = IF endHeaders THEN 0 ELSE id
    /\ plain' = (plain /\ endHeaders)
    /\ handleStreamFrame(id, IF endHeaders THEN Admitted(id) ELSE Drained, field)

\* The verdict on the stream was given with its HEADERS; that it could be another
\* by now makes no difference to the signals.
Continuation(field) ==
    /\ Up /\ assembling # 0
    /\ assembling' = 0
    /\ UNCHANGED <<highestRemote, plain>>
    /\ handleStreamFrame(assembling, Admitted(assembling), field)

\* A PRIORITY frame, which the table ignores in every state.
PriorityFrame(id) ==
    /\ Up /\ assembling = 0
    /\ plain' = FALSE
    /\ UNCHANGED <<highestRemote, assembling>>
    /\ handleStreamFrame(id, Drained, None)

RstStream(id) ==
    /\ Up /\ assembling = 0
    /\ id <= highestRemote
    /\ UNCHANGED <<highestRemote, assembling, plain>>
    /\ handleStreamFrame(id, Drained \ {id}, None)

\* A handler reports the end of a response whose request is complete.
ReportSendEnd(id) ==
    /\ Up /\ id \in live
    /\ sent' = sent \cup {id}
    /\ UNCHANGED <<lastStreamID, signals, live, highestRemote, assembling, connErr>>

overLimit(id) ==
    id \notin Held /\ Cardinality(Held) + Cardinality(live) >= MaxConcurrent

\* The frame layer's parsing and the refusal of even identifiers come before.
handlePriorityUpdate(id, p) ==
    /\ Up /\ assembling = 0
    /\ said' = [said EXCEPT ![id] = IF id \in live \/ Idle(id) THEN p ELSE @]
    /\ IF id \in live
       THEN prio' = [prio EXCEPT ![id] = p] /\ UNCHANGED <<pending, connErr, discarded, crowded>>
       ELSE IF id <= lastStreamID
       THEN /\ discarded' = IF Idle(id) THEN discarded \cup {id} ELSE discarded
            /\ UNCHANGED <<pending, prio, connErr, crowded>>
       ELSE IF overLimit(id)
       THEN /\ connErr' = "crowded"
            /\ crowded' = Cardinality(Held) + Cardinality(Drained)
            /\ UNCHANGED <<pending, prio, discarded>>
       ELSE pending' = [pending EXCEPT ![id] = p] /\ UNCHANGED <<prio, connErr, discarded, crowded>>
    /\ UNCHANGED <<lastStreamID, table, plain>>

Next ==
    \/ \E id \in Ids :
        \/ \E endHeaders \in BOOLEAN, field \in Values \cup {None} : Headers(id, endHeaders, field)
        \/ PriorityFrame(id)
        \/ RstStream(id)
        \/ ReportSendEnd(id)
        \/ \E p \in Values : handlePriorityUpdate(id, p)
    \/ \E field \in Values \cup {None} : Continuation(field)

Spec == Init /\ [][Next]_vars

-----------------------------------------------------------------------------
TypeOK ==
    /\ lastStreamID \in Ids \cup {0} /\ highestRemote \in Ids \cup {0}
    /\ assembling \in Ids \cup {0}
    /\ pending \in [Ids -> Values \cup {None}] /\ prio \in [Ids -> Values \cup {None}]
    /\ live \subseteq Ids /\ sent \subseteq live
    /\ connErr \in {"nil", "crowded"}
    /\ crowded \in Nat

(***************************************************************************)
(* The buffer holds signals for streams that can still open and for no     *)
(* others, and never more of them than the streams the peer may have: it   *)
(* needs no timer and no cap of its own (pending.go:117, "There is no      *)
(* order of frames that keeps an entry alive").                            *)
(***************************************************************************)
BufferIsIdle ==
    /\ \A id \in Held : Idle(id) /\ id > lastStreamID
    /\ Cardinality(Held) <= MaxConcurrent

(***************************************************************************)
(* The writer remembers a priority only for a stream that is live, whether *)
(* it was signalled before or after the stream opened (conn.go:1239, "the  *)
(* one entry nothing ever removes").                                       *)
(***************************************************************************)
PrioritiesAreOfLiveStreams == \A id \in Ids : prio[id] # None => id \in live

(***************************************************************************)
(* However streams come and go, no signal is kept for one that can no longer*)
(* use it: not in the buffer and not in the writer.                        *)
(***************************************************************************)
NothingIsKept == TypeOK /\ BufferIsIdle /\ PrioritiesAreOfLiveStreams

(***************************************************************************)
(* A live stream is scheduled by its last PRIORITY_UPDATE, before it opened*)
(* or since, and else by the Priority field of its request: a frame that   *)
(* came first and waited in the buffer overrides the field (RFC 9218       *)
(* section 7, exchange.go:264-279). So it is as long as header blocks take *)
(* one frame and no PRIORITY frame comes.                                  *)
(***************************************************************************)
LastSaid == \A id \in live : prio[id] = said[id]
LastSignalCounts == plain => LastSaid

(***************************************************************************)
(* What the source says and the code does not do. Each is refuted under    *)
(* Priorities.cfg in the place of its properties.                          *)
(***************************************************************************)
\* conn.go:1235: "apply it once the referenced stream is opened.  This is that
\* moment, and it is the only one".
AppliedWhenOpened == LastSaid

\* conn.go:1196: "makes every identifier at or below it that is not live closed".
DiscardedIsClosed == discarded = {}

\* conn.go:1143: "Both terms are counted rather than estimated".
CountIsExact == connErr = "crowded" => crowded >= MaxConcurrent
=============================================================================
