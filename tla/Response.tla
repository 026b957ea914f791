------------------------------ MODULE Response ------------------------------
(***************************************************************************)
(* The responses of one connection (internal/response): a Writer for each  *)
(* handler, the Encoder they share, and what the peer makes of the frames. *)
(*                                                                         *)
(* Encoder.mu is held from a frame's or a block's first Enqueue to its     *)
(* last: burst holds the frames still to come, and the mutex is free when  *)
(* there are none. The reader goroutine applies SETTINGS meanwhile, each   *)
(* parameter under the mutex, and then enqueues the acknowledgement. The   *)
(* frames wait in Outbox, of Depth frames, and the peer reads each as it   *)
(* leaves.                                                                 *)
(*                                                                         *)
(* A handler makes any calls in any order, ignores every error and at last *)
(* returns, upon which exchange.finish ends its response. A call that only *)
(* returns an error is a stuttering step.                                  *)
(***************************************************************************)
EXTENDS Hpack, ResponseFields, Outbox, FiniteSets

CONSTANTS
    Sections,             \* field lists a handler may ask for
    SettingsFrames,       \* SETTINGS of the peer: sequences of parameters
    MaxEncoderTableSize,  \* limits.MaxEncoderTableSize
    MaxFrameSize,         \* the peer's, in representations
    DefaultMaxFrameSize,
    Depth,                \* defaultQueueDepth
    MaxCalls,             \* bound: calls that send something
    MaxSettings           \* bound: SETTINGS frames

Streams == Lanes \ {0}
NoLimit == -1  \* noHeaderListLimit

Fields == [name : Seq(STRING), value : Seq(STRING), sensitive : BOOLEAN]

ASSUME ResponseAssumption ==
    /\ 0 \in Lanes
    /\ \A s \in Sections : \A i \in DOMAIN s : s[i] \in Fields
    /\ \A s \in SettingsFrames : \A i \in DOMAIN s : s[i].id \in {"table", "list"}
    /\ DefaultMaxFrameSize \in Nat \ {0}

serverError == <<[name |-> pseudoStatus, value |-> <<"5", "0", "0">>, sensitive |-> FALSE]>>

\* The lists that checkSection lets through.
Sendable(kind) == {fields \in Sections \cup {serverError} : checkSection(kind, fields)}
HeaderSections == Sendable("header")
TrailerSections == Sendable("trailer")

VARIABLES
    w,         \* each stream's Writer, and whether its handler still runs
    codec,     \* Encoder.codec: its dynamic table
    maxList,   \* Encoder.maxList
    burst,     \* what the holder of Encoder.mu has still to enqueue
    todo,      \* parameters of a SETTINGS frame the reader has still to apply
    owed,      \* the SETTINGS frame it will acknowledge, <<>> when there is none
    stopped,   \* the frame writer refuses frames
    no,        \* frames enqueued
    calls, settings,
    peer,      \* the peer's decoder, its limit and the block it is reading
    heard,     \* how far each response has come, for the peer
    refused    \* history: streams of a section larger than the peer's limit

outbox == <<queue, mid, out>>
encoder == <<codec, maxList, burst>>
reader == <<todo, owed, settings>>
audience == <<peer, heard>>
vars == <<outbox, w, encoder, reader, stopped, no, calls, audience, refused>>

Init ==
    /\ OutboxInit
    /\ w = [id \in Streams |-> [wroteHeader |-> FALSE, closed |-> FALSE, handler |-> "running"]]
    /\ codec = NewTable
    /\ maxList = NoLimit
    /\ burst = <<>>
    /\ todo = <<>> /\ owed = <<>>
    /\ stopped = FALSE
    /\ no = 0
    /\ calls = 0 /\ settings = 0
    /\ peer = [table |-> NewTable, list |-> NoLimit, block |-> <<>>, fin |-> FALSE, garbled |-> FALSE]
    /\ heard = [id \in Streams |-> "start"]
    /\ refused = {}

-----------------------------------------------------------------------------
Free == burst = <<>>

splitAt == IF MaxFrameSize < DefaultMaxFrameSize THEN DefaultMaxFrameSize ELSE MaxFrameSize

Frame(id, kind, end, fin, block, fields) ==
    [no |-> 0, id |-> id, kind |-> kind, end |-> end, fin |-> fin, block |-> block,
     fields |-> fields]

\* The frames of a block: a HEADERS even when it is empty, and its CONTINUATIONs. The
\* last one carries the fields it was made of, for the peer to compare.
Cut(id, block, fields, fin) ==
    LET count == IF block = <<>> THEN 1 ELSE (Len(block) + splitAt - 1) \div splitAt
        Piece(i) == SubSeq(block, (i - 1) * splitAt + 1, i * splitAt)
        end(i) == i = count IN
    [i \in 1..count |->
        Frame(id, IF i = 1 THEN "headers" ELSE "continuation", end(i), fin /\ i = 1,
              SubSeq(block, (i - 1) * splitAt + 1, IF end(i) THEN Len(block) ELSE i * splitAt),
              IF end(i) THEN fields ELSE <<>>)]

checkListSize(fields) == maxList = NoLimit \/ Size(fields) <= maxList

\* Mutant: the list is measured once it is encoded.
M_writeSection(id, fields, fin) ==
    LET e == Encode(codec, fields) IN
    /\ Free
    /\ codec' = e.table
    /\ IF checkListSize(fields)
       THEN burst' = Cut(id, e.out, fields, fin) /\ UNCHANGED refused
       ELSE UNCHANGED burst /\ refused' = refused \cup {id}
    /\ UNCHANGED maxList

\* A list above the peer's limit is refused before it touches the table.
writeSection(id, fields, fin) ==
    LET e == Encode(codec, fields) IN
    /\ Free
    /\ IF checkListSize(fields)
       THEN codec' = e.table /\ burst' = Cut(id, e.out, fields, fin) /\ UNCHANGED refused
       ELSE UNCHANGED <<codec, burst>> /\ refused' = refused \cup {id}
    /\ UNCHANGED maxList

\* Encoder.enqueue, of a DATA frame.
enqueue(id, fin) ==
    /\ Free
    /\ burst' = <<Frame(id, "data", FALSE, fin, <<>>, <<>>)>>
    /\ UNCHANGED <<codec, maxList, refused>>

(***************************************************************************)
(* The Writer's methods, each with the handler's state after it.           *)
(***************************************************************************)
writeHeader(id, fields, fin, handler) ==
    /\ ~w[id].closed /\ ~w[id].wroteHeader
    /\ fields \in HeaderSections
    /\ ~(fin /\ informational(fields))
    /\ w' = [w EXCEPT ![id] = [wroteHeader |-> ~informational(fields), closed |-> fin,
                               handler |-> handler]]
    /\ writeSection(id, fields, fin)

\* Mutant: a response that has ended may be written to.
M_Writable(id) == w[id].wroteHeader

\* Neither ErrDone nor ErrNoHeader.
MayWrite(id) == w[id].wroteHeader /\ ~w[id].closed

\* One frame of Write's loop, once Credit.Reserve has granted it.
Write(id) == MayWrite(id) /\ enqueue(id, FALSE) /\ UNCHANGED w

End(id, handler) ==
    /\ MayWrite(id)
    /\ w' = [w EXCEPT ![id].closed = TRUE, ![id].handler = handler]
    /\ enqueue(id, TRUE)

Trailers(id, fields) ==
    /\ MayWrite(id)
    /\ fields \in TrailerSections
    /\ w' = [w EXCEPT ![id].closed = TRUE]
    /\ writeSection(id, fields, TRUE)

Running(id) == w[id].handler = "running"

\* A call of the handler that sends something.
Call(id) ==
    /\ Running(id)
    /\ calls < MaxCalls
    /\ calls' = calls + 1
    /\ \/ \E fields \in Sections, fin \in BOOLEAN : writeHeader(id, fields, fin, "running")
       \/ \E fields \in Sections : Trailers(id, fields)
       \/ Write(id)
       \/ End(id, "running")
    /\ UNCHANGED <<outbox, reader, stopped, no, audience>>

\* The handler returns, or panics.
Return(id) ==
    /\ Running(id)
    /\ w' = [w EXCEPT ![id].handler = "returned"]
    /\ UNCHANGED <<outbox, encoder, reader, stopped, no, calls, audience, refused>>

\* exchange.finish: Close, and a 500 if that says nothing was written.
finish(id) ==
    /\ w[id].handler = "returned"
    /\ \/ /\ w[id].closed
          /\ w' = [w EXCEPT ![id].handler = "done"]
          /\ UNCHANGED <<encoder, refused>>
       \/ End(id, "done")
       \/ writeHeader(id, serverError, TRUE, "done")
    /\ UNCHANGED <<outbox, reader, stopped, no, calls, audience>>

(***************************************************************************)
(* The queue.                                                              *)
(***************************************************************************)
\* Mutant: the frames of a block that is not whole take up room like any other.
M_admits(f) == MapThenSumSet(LAMBDA id : Len(queue[id]), Lanes) < Depth

admits(f) == ContinuesBlock(f) \/ Length < Depth

\* Enqueue of the next frame by the holder of Encoder.mu. A frame is refused when the
\* writer has stopped, and what is left of its block is not offered.
Enqueue ==
    /\ ~Free
    /\ IF stopped THEN burst' = <<>> /\ UNCHANGED <<outbox, no>>
       ELSE /\ admits(burst[1])
            /\ Put([burst[1] EXCEPT !.no = no + 1])
            /\ no' = no + 1
            /\ burst' = Tail(burst)
    /\ UNCHANGED <<w, codec, maxList, reader, stopped, calls, audience, refused>>

Stop ==
    /\ ~stopped
    /\ stopped' = TRUE
    /\ UNCHANGED <<outbox, w, encoder, reader, no, calls, audience, refused>>

(***************************************************************************)
(* The reader goroutine and the peer's SETTINGS.                           *)
(***************************************************************************)
ReceiveSettings(s) ==
    /\ owed = <<>> /\ settings < MaxSettings
    /\ settings' = settings + 1
    /\ todo' = s /\ owed' = s
    /\ UNCHANGED <<outbox, w, encoder, stopped, no, calls, audience, refused>>

SetMaxDynamicTableSize(n) ==
    codec' = setCeiling(codec, IF n < MaxEncoderTableSize THEN n ELSE MaxEncoderTableSize)

\* Table.SetHeaderTableSize or Table.SetMaxHeaderListSize.
Apply ==
    /\ todo # <<>> /\ Free
    /\ todo' = Tail(todo)
    /\ \/ todo[1].id = "table" /\ SetMaxDynamicTableSize(todo[1].n) /\ UNCHANGED maxList
       \/ todo[1].id = "list" /\ maxList' = todo[1].n /\ UNCHANGED codec
    /\ UNCHANGED <<outbox, w, burst, owed, settings, stopped, no, calls, audience, refused>>

Acknowledge ==
    /\ owed # <<>> /\ todo = <<>>
    /\ IF stopped THEN UNCHANGED <<outbox, no>>
       ELSE LET ack == Frame(0, "control", FALSE, FALSE, <<>>, owed) IN
            admits(ack) /\ Put([ack EXCEPT !.no = no + 1]) /\ no' = no + 1
    /\ owed' = <<>>
    /\ UNCHANGED <<w, encoder, todo, settings, stopped, calls, audience, refused>>

(***************************************************************************)
(* The peer. It decodes each block as it ends, holds its table to what it  *)
(* asked for from the acknowledgement on, and follows the message grammar  *)
(* of RFC 9113, section 8.1.                                               *)
(***************************************************************************)
AfterAck(p, s) ==
    FoldLeft(LAMBDA q, a : IF a.id = "table" THEN [q EXCEPT !.table = setCeiling(@, a.n)]
                           ELSE [q EXCEPT !.list = a.n], p, s)

\* The stage of a response after a section of fields, with END_STREAM or without.
AfterSection(stage, fields, fin) ==
    CASE stage = "start" /\ LegalSection("header", fields) /\ informational(fields) /\ ~fin -> "start"
      [] stage = "start" /\ LegalSection("header", fields) /\ ~informational(fields)
            -> IF fin THEN "over" ELSE "content"
      [] stage = "content" /\ LegalSection("trailer", fields) /\ fin -> "over"
      [] OTHER -> "malformed"

AfterData(stage, fin) ==
    IF stage # "content" THEN "malformed" ELSE IF fin THEN "over" ELSE "content"

Read(f) ==
    LET block == peer.block \o f.block
        fin == IF f.kind = "headers" THEN f.fin ELSE peer.fin
        d == Decode(peer.table, block) IN
    CASE f.kind = "control" -> peer' = AfterAck(peer, f.fields) /\ UNCHANGED heard
      [] f.kind = "data" ->
            heard' = [heard EXCEPT ![f.id] = AfterData(@, f.fin)] /\ UNCHANGED peer
      [] f.kind \in {"headers", "continuation"} /\ ~f.end ->
            peer' = [peer EXCEPT !.block = block, !.fin = fin] /\ UNCHANGED heard
      [] OTHER ->
            /\ peer' = [peer EXCEPT
                   !.table = d.table, !.block = <<>>, !.fin = FALSE,
                   !.garbled = \/ @ \/ d.err \/ d.fields # f.fields
                               \/ peer.list # NoLimit /\ Size(f.fields) > peer.list]
            /\ heard' = [heard EXCEPT ![f.id] = AfterSection(@, f.fields, fin)]

Transmit(id) ==
    /\ Ready(id) /\ InTurn(id)
    /\ Shift(id)
    /\ Read(Head(queue[id]))
    /\ UNCHANGED <<out, w, encoder, reader, stopped, no, calls, refused>>

-----------------------------------------------------------------------------
Next ==
    \/ \E id \in Streams : Call(id) \/ Return(id) \/ finish(id)
    \/ \E s \in SettingsFrames : ReceiveSettings(s)
    \/ Apply \/ Acknowledge
    \/ Enqueue
    \/ \E id \in Lanes : Transmit(id)
    \/ Stop

Spec == Init /\ [][Next]_vars

-----------------------------------------------------------------------------
Frames == [no : Nat, id : Lanes, kind : {"data", "control", "headers", "continuation"},
           end : BOOLEAN, fin : BOOLEAN, block : Seq([kind : STRING, index : Nat,
           name : Seq(STRING), value : Seq(STRING)]), fields : Sections \cup SettingsFrames
           \cup {<<>>, serverError}]

TypeOK ==
    /\ queue \in [Lanes -> Seq(Frames)] /\ burst \in Seq(Frames)
    /\ w \in [Streams -> [wroteHeader : BOOLEAN, closed : BOOLEAN,
                           handler : {"running", "returned", "done"}]]
    /\ heard \in [Streams -> {"start", "content", "over", "malformed"}]
    /\ \A t \in {codec, peer.table} :
        t.entries \in Seq(Fields) /\ Size(t.entries) <= t.max /\ t.max <= t.ceiling

(***************************************************************************)
(* The peer decodes every section to the fields the handler gave, however  *)
(* handlers, resizes and refused lists interleave, and gets no section     *)
(* larger than the limit it was told is in force (encoder.go:106,          *)
(* encoder.go:260).                                                        *)
(***************************************************************************)
PeerUnderstands == TypeOK /\ ~peer.garbled

(***************************************************************************)
(* Every response is a message: interim sections, one final section,       *)
(* content, perhaps trailers, one END_STREAM and nothing behind it, each   *)
(* section well formed (writer.go:85). A stream one of whose sections the  *)
(* peer's limit refused is excused: see BodyHasItsHeader.                  *)
(***************************************************************************)
ResponsesAreMessages == \A id \in Streams \ refused : heard[id] # "malformed"

(***************************************************************************)
(* What a handler calls sensitive enters neither end's table, where later  *)
(* responses would be compared with it (hpack/encoder.go:20).              *)
(***************************************************************************)
SensitiveStaysOut ==
    \A s \in Sections : \A i \in DOMAIN s : s[i].sensitive =>
        \A t \in {codec, peer.table} : \A j \in DOMAIN t.entries :
            t.entries[j].name = s[i].name => t.entries[j].value # s[i].value

(***************************************************************************)
(* The mutex that responses share holds nobody up for good: whoever waits  *)
(* for room, its holder among them, waits for frames that can be written.  *)
(* A block of which some frames are still to come is none (encoder.go:324, *)
(* "The wait is short by construction").                                   *)
(***************************************************************************)
WaitsEnd ==
    \A f \in {burst[1] : i \in 1..Len(burst)} \cup {Frame(0, "control", FALSE, FALSE, <<>>, owed)} :
        admits(f) \/ \E id \in Lanes : Ready(id)

(***************************************************************************)
(* What the source says and the code does not do.                          *)
(***************************************************************************)
\* writer.go:46: ErrNoHeader "is returned by Write, Close and Trailers before any
\* header section has been written. §8.1 makes the header section the first thing in a
\* message, so a body or a trailer section without one is not a response the peer could
\* parse." A section the peer's limit refused counts as written.
BodyHasItsHeader == \A id \in Streams : heard[id] # "malformed"
=============================================================================
