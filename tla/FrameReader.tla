---------------------------- MODULE FrameReader -----------------------------
(***************************************************************************)
(* Reading a peer's frames (internal/frame/reader.go): the preface, then   *)
(* ReadFrame in a loop. ReadFrame is split where it waits for octets: the  *)
(* header, then the payload. The peer sends any header and any payload,    *)
(* and may close its side between any two octets.                          *)
(*                                                                         *)
(* The caller is server.conn, which leaves its loop at the first error.    *)
(***************************************************************************)
EXTENDS FrameCodec

CONSTANTS
    MaxFrameSize,            \* ReaderConfig
    MaxHeaderBlockSize,
    MaxContinuationFrames,
    StreamIds,               \* stream identifiers the peer puts in headers
    Settings                 \* settings it sends, as records of id and value

ASSUME ReaderAssumption ==
    /\ MaxFrameSize \in Nat \ {0}
    /\ MaxHeaderBlockSize \in Nat \ {0}
    /\ MaxContinuationFrames \in Nat \ {0}
    /\ StreamIds \subseteq Nat

VARIABLES
    phase,           \* what the reader goroutine waits for, or "caller", or "ended"
    hdr,             \* rd.hdr
    blockStream,     \* Reader.blockStream
    blockSize,       \* Reader.blockSize
    continuations,   \* Reader.continuations
    got,             \* what ReadPreface or ReadFrame returned
    unread,          \* octets of the last header's payload still on the wire
    cut,             \* where the peer closed: "no", "boundary" or "inside" a frame
    delivered        \* history: the open block, as the frames returned so far tell it

block == <<blockStream, blockSize, continuations>>
vars == <<phase, hdr, block, got, unread, cut, delivered>>

NoHeader == [type |-> "none", len |-> 0, flags |-> {}, stream |-> 0]
NoBlock == [stream |-> 0, n |-> 0, frames |-> 0]
Pending == Ok(NoFrame)
ioErr(e) == [scope |-> "io", err |-> e, frame |-> NoFrame]

\* NewReader raises a block limit below one frame to meet it.
maxHeaderBlockSize == IF MaxHeaderBlockSize < MaxFrameSize THEN MaxFrameSize ELSE MaxHeaderBlockSize

\* Headers a peer may send: 24 bits of length, of which those above the limit are
\* alike, and the flags that some parser looks at.
Headers ==
    (UNION {[type : {t}, len : 0..MaxFrameSize + 1, flags : SUBSET flagsOf[t], stream : StreamIds] :
              t \in DOMAIN flagsOf})
    \cup [type : {"UNKNOWN"}, len : 0..MaxFrameSize + 1, flags : {{}}, stream : StreamIds]

\* The payloads under header h, as the parsers see them.
Payloads(h) ==
    [pad : IF Padded \in h.flags THEN 0..MaxFrameSize ELSE {0},
     word : IF h.len >= wordLen THEN StreamIds ELSE {0},
     settings : IF h.type = "SETTINGS" THEN [1..h.len \div settingLen -> Settings] ELSE {<<>>}]

Init ==
    /\ phase = "preface"
    /\ hdr = NoHeader
    /\ blockStream = 0 /\ blockSize = 0 /\ continuations = 0
    /\ got = Pending
    /\ unread = 0
    /\ cut = "no"
    /\ delivered = NoBlock

Fail(r) == phase' = "ended" /\ got' = r

-----------------------------------------------------------------------------
\* The octets are the preface, or something else: an HTTP/1.1 request, say.
ReadPreface(matches) ==
    /\ phase = "preface"
    /\ IF matches THEN phase' = "header" /\ UNCHANGED got ELSE Fail(connErr("PROTOCOL_ERROR"))
    /\ UNCHANGED <<hdr, block, unread, cut, delivered>>

\* Once a block is open only a CONTINUATION on its stream may come.
checkContinuity(h) ==
    IF blockStream # 0 THEN h.type = "CONTINUATION" /\ h.stream = blockStream
    ELSE h.type # "CONTINUATION"

\* The first half of ReadFrame: both checks come before the payload is read.
ReadHeader(h) ==
    /\ phase = "header"
    /\ hdr' = h
    /\ unread' = h.len
    /\ IF h.len > MaxFrameSize THEN Fail(connErr("FRAME_SIZE_ERROR"))
       ELSE IF ~checkContinuity(h) THEN Fail(connErr("PROTOCOL_ERROR"))
       ELSE phase' = "payload" /\ UNCHANGED got
    /\ UNCHANGED <<block, cut, delivered>>

\* Mutant: the frame that ends a block is not held to the limits.
M_checkBlockLimits(total, spread, end) ==
    end \/ (total <= maxHeaderBlockSize /\ spread <= MaxContinuationFrames)

\* Applied to the frame that ends the block as well.
checkBlockLimits(total, spread, end) ==
    total <= maxHeaderBlockSize /\ spread <= MaxContinuationFrames

\* beginBlock and extendBlock end here: the limits, then END_HEADERS.
finishFrame(f, total, spread) ==
    LET end == EndHeaders \in f.flags IN
    /\ blockStream' = IF end THEN 0 ELSE f.stream
    /\ blockSize' = IF end THEN 0 ELSE total
    /\ continuations' = IF end THEN 0 ELSE spread
    /\ IF checkBlockLimits(total, spread, end) THEN phase' = "caller" /\ got' = Ok(f)
       ELSE Fail(connErr("ENHANCE_YOUR_CALM"))

trackBlock(f) ==
    CASE f.type \in {"HEADERS", "PUSH_PROMISE"} -> finishFrame(f, f.n, 0)
      [] f.type = "CONTINUATION" -> finishFrame(f, blockSize + f.n, continuations + 1)
      [] OTHER -> phase' = "caller" /\ got' = Ok(f) /\ UNCHANGED block

\* The open block as a caller knows it, from the frames alone.
Note(r) ==
    delivered' =
        IF r.frame = NoFrame \/ r.frame.type \notin {"HEADERS", "PUSH_PROMISE", "CONTINUATION"}
        THEN delivered
        ELSE IF EndHeaders \in r.frame.flags THEN NoBlock
        ELSE IF r.frame.type = "CONTINUATION"
        THEN [stream |-> delivered.stream, n |-> delivered.n + r.frame.n, frames |-> delivered.frames + 1]
        ELSE [stream |-> r.frame.stream, n |-> r.frame.n, frames |-> 0]

\* Mutant: a frame of unknown type is skipped before its payload is read.
M_Discard == phase' = "header" /\ hdr' = NoHeader /\ UNCHANGED unread

\* A frame of unknown type, payload and all: the loop goes on to the next header.
Discard == phase' = "header" /\ hdr' = NoHeader /\ unread' = 0

\* The second half of ReadFrame: the payload is there.
ReadPayload(p) ==
    /\ phase = "payload"
    /\ LET r == parse(hdr, p) IN
       IF ~known(hdr.type) THEN Discard /\ UNCHANGED <<got, block>>
       ELSE /\ unread' = 0
            /\ IF r.err # "nil" THEN Fail(r) /\ UNCHANGED block ELSE trackBlock(r.frame)
            /\ UNCHANGED hdr
    /\ Note(got')
    /\ UNCHANGED cut

\* What ReadFrame makes of a payload of which the peer sent none, or some.
truncated(none) == "ErrUnexpectedEOF"

\* The peer closes where the reader waits: before a first octet, or after some.
PeerCloses(none) ==
    /\ \/ /\ phase \in {"preface", "header"}
          /\ cut' = IF none THEN "boundary" ELSE "inside"
          /\ Fail(ioErr(IF none THEN "EOF" ELSE "ErrUnexpectedEOF"))
       \/ /\ phase = "payload" /\ unread > 0
          /\ cut' = "inside"
          /\ Fail(ioErr(truncated(none)))
    /\ UNCHANGED <<hdr, block, unread, delivered>>

\* The caller handles the frame and calls ReadFrame again.
Take ==
    /\ phase = "caller"
    /\ phase' = "header"
    /\ got' = Pending
    /\ hdr' = NoHeader
    /\ UNCHANGED <<block, unread, cut, delivered>>

Next ==
    \/ \E matches \in BOOLEAN : ReadPreface(matches)
    \/ \E h \in Headers : ReadHeader(h)
    \/ \E p \in Payloads(hdr) : ReadPayload(p)
    \/ \E none \in BOOLEAN : PeerCloses(none)
    \/ Take

Spec == Init /\ [][Next]_vars

-----------------------------------------------------------------------------
(* Properties                                                              *)

TypeOK ==
    /\ phase \in {"preface", "header", "payload", "caller", "ended"}
    /\ hdr \in Headers \cup {NoHeader}
    /\ blockStream \in StreamIds \cup {0} /\ blockSize \in Nat /\ continuations \in Nat
    /\ unread \in 0..MaxFrameSize + 1
    /\ cut \in {"no", "boundary", "inside"}

\* A header is read where one begins: every octet of the frames before it has been
\* consumed, the payloads of unknown frames included, and no payload is read that
\* the buffer cannot hold.
InStep ==
    /\ phase = "header" => unread = 0
    /\ phase = "payload" => hdr.len <= MaxFrameSize

\* io.EOF means that the peer closed between two frames, or before the preface, and
\* nothing else does (ReadFrame's contract).
EOFIsClean == got.err = "EOF" <=> cut = "boundary"

\* BlockOpen reports the block that the frames returned have left open, and a
\* frame that carries a part of a block is never the subject of a stream error,
\* which would leave the decoder without it.
BlockIsKnown ==
    /\ phase # "ended" => <<blockStream, blockSize, continuations>> =
                          <<delivered.stream, delivered.n, delivered.frames>>
    /\ got.scope = "stream" => hdr.type \notin {"HEADERS", "PUSH_PROMISE", "CONTINUATION"}

\* The octet stream is cut into frames where the peer meant them to be cut.
FramesAreWhole == TypeOK /\ InStep /\ EOFIsClean /\ BlockIsKnown

\* Parser and writer agree: a frame that was accepted would be written with the
\* header it came with, so no octet of its payload is lost or counted twice, and
\* what the receive windows are debited (Table.data, PayloadLen) is what was sent.
FramesRoundTrip ==
    phase = "caller" => /\ got.frame.n \in Nat
                        /\ HeaderOf(got.frame) = hdr

\* What the caller has in its hands, in FieldBlocks' terms.
Given ==
    IF got.frame = NoFrame THEN [kind |-> "none", stream |-> 0, n |-> 0, end |-> FALSE]
    ELSE [kind |-> CASE got.frame.type \in {"HEADERS", "PUSH_PROMISE"} -> "opening"
                     [] got.frame.type = "CONTINUATION" -> "continuation"
                     [] OTHER -> "other",
          stream |-> got.frame.stream, n |-> got.frame.n,
          end |-> EndHeaders \in got.frame.flags]

\* The frames returned keep FieldBlocks' promise, on which the stream table's
\* assembly of blocks and the HPACK decoder rest.
Promise == INSTANCE FieldBlocks WITH
    Limit <- maxHeaderBlockSize, Spread <- MaxContinuationFrames,
    open <- delivered.stream, size <- delivered.n, frames <- delivered.frames,
    given <- Given

KeepsBlocksPromise == Promise!BlocksSpec
=============================================================================
