----------------------------- MODULE FrameCodec -----------------------------
(***************************************************************************)
(* The frame codecs (internal/frame): which payloads each parser accepts,  *)
(* with what error it refuses the others, and the length and flags a frame *)
(* has when it is written.                                                 *)
(*                                                                         *)
(* Octets are counted. Of a payload the parsers look at four things, which *)
(* never overlap in one frame: the pad length, the 31-bit word at the      *)
(* front of the content, the settings, and how much follows.               *)
(***************************************************************************)
EXTENDS Integers, Sequences

CONSTANTS
    MaxWindowSize,         \* frame.MaxWindowSize, 2^31 - 1
    DefaultMaxFrameSize,   \* frame.DefaultMaxFrameSize, 16384
    MaxLength              \* frame.MaxLength, 2^24 - 1

ASSUME CodecAssumption ==
    /\ MaxWindowSize \in Nat /\ DefaultMaxFrameSize \in Nat /\ MaxLength \in Nat
    /\ DefaultMaxFrameSize <= MaxLength

\* The flag bits. END_STREAM and ACK are the same one.
EndStream == 1
Ack == 1
EndHeaders == 4
Padded == 8
Priority == 32

\* The fixed parts of payloads, in octets.
padOverhead == 1
priorityLen == 5
wordLen == 4
settingLen == 6
pingLen == 8
goAwayMinLen == 8

\* The bits that mean something in a frame of each type. A type without a parser
\* has none, and the parser table is asked what is known.
flagsOf ==
    [DATA |-> {EndStream, Padded},
     HEADERS |-> {EndStream, EndHeaders, Padded, Priority},
     PRIORITY |-> {}, RST_STREAM |-> {}, SETTINGS |-> {Ack},
     PUSH_PROMISE |-> {EndHeaders, Padded}, PING |-> {Ack}, GOAWAY |-> {},
     WINDOW_UPDATE |-> {}, CONTINUATION |-> {EndHeaders}, PRIORITY_UPDATE |-> {}]

known(type) == type \in DOMAIN flagsOf

NoFrame == [type |-> "none"]

Ok(f) == [scope |-> "none", err |-> "nil", frame |-> f]
connErr(code) == [scope |-> "connection", err |-> code, frame |-> NoFrame]
streamErr(code) == [scope |-> "stream", err |-> code, frame |-> NoFrame]

\* A frame: the octets of its data, fragment, debug data or field value in n, the
\* number its word names in word.
Frame(h, n, pad, word, settings) ==
    [type |-> h.type, stream |-> h.stream, flags |-> h.flags \cap flagsOf[h.type],
     n |-> n, pad |-> pad, word |-> word, settings |-> settings]

-----------------------------------------------------------------------------
(* Parsing                                                                 *)

\* Mutant: a frame that is all padding but for one octet more.
M_splitPadding(h, p) ==
    IF Padded \notin h.flags THEN [err |-> "nil", n |-> h.len, pad |-> 0]
    ELSE IF h.len < padOverhead THEN [err |-> "FRAME_SIZE_ERROR", n |-> 0, pad |-> 0]
    ELSE IF p.pad > h.len THEN [err |-> "PROTOCOL_ERROR", n |-> 0, pad |-> 0]
    ELSE [err |-> "nil", n |-> h.len - padOverhead - p.pad, pad |-> p.pad]

\* The content's octets once the pad length and the padding are taken off.
splitPadding(h, p) ==
    IF Padded \notin h.flags THEN [err |-> "nil", n |-> h.len, pad |-> 0]
    ELSE IF h.len < padOverhead THEN [err |-> "FRAME_SIZE_ERROR", n |-> 0, pad |-> 0]
    ELSE IF p.pad >= h.len THEN [err |-> "PROTOCOL_ERROR", n |-> 0, pad |-> 0]
    ELSE [err |-> "nil", n |-> h.len - padOverhead - p.pad, pad |-> p.pad]

parseData(h, p) ==
    LET c == splitPadding(h, p) IN
    IF h.stream = 0 THEN connErr("PROTOCOL_ERROR")
    ELSE IF c.err # "nil" THEN connErr(c.err)
    ELSE Ok(Frame(h, c.n, c.pad, 0, <<>>))

\* The dependency is not compared with the stream here: Table.admit does that.
parseHeaders(h, p) ==
    LET c == splitPadding(h, p)
        front == IF Priority \in h.flags THEN priorityLen ELSE 0 IN
    IF h.stream = 0 THEN connErr("PROTOCOL_ERROR")
    ELSE IF c.err # "nil" THEN connErr(c.err)
    ELSE IF c.n < front THEN connErr("FRAME_SIZE_ERROR")
    ELSE Ok(Frame(h, c.n - front, c.pad, IF front > 0 THEN p.word ELSE 0, <<>>))

parsePriority(h, p) ==
    IF h.stream = 0 THEN connErr("PROTOCOL_ERROR")
    ELSE IF h.len # priorityLen THEN streamErr("FRAME_SIZE_ERROR")
    ELSE IF p.word = h.stream THEN streamErr("PROTOCOL_ERROR")
    ELSE Ok(Frame(h, 0, 0, p.word, <<>>))

parseRSTStream(h, p) ==
    IF h.stream = 0 THEN connErr("PROTOCOL_ERROR")
    ELSE IF h.len # wordLen THEN connErr("FRAME_SIZE_ERROR")
    ELSE Ok(Frame(h, 0, 0, p.word, <<>>))

\* What is wrong with one setting; an unknown identifier is ignored.
validateSetting(s) ==
    CASE s.id = "ENABLE_PUSH" /\ s.value > 1 -> "PROTOCOL_ERROR"
      [] s.id = "INITIAL_WINDOW_SIZE" /\ s.value > MaxWindowSize -> "FLOW_CONTROL_ERROR"
      [] s.id = "MAX_FRAME_SIZE" /\ s.value \notin DefaultMaxFrameSize..MaxLength -> "PROTOCOL_ERROR"
      [] s.id = "NO_RFC7540_PRIORITIES" /\ s.value > 1 -> "PROTOCOL_ERROR"
      [] OTHER -> "nil"

\* The first setting that is wrong decides.
parseSettings(h, p) ==
    LET wrong == {i \in DOMAIN p.settings : validateSetting(p.settings[i]) # "nil"}
        first == CHOOSE i \in wrong : \A j \in wrong : i <= j IN
    IF h.stream # 0 THEN connErr("PROTOCOL_ERROR")
    ELSE IF Ack \in h.flags /\ h.len # 0 THEN connErr("FRAME_SIZE_ERROR")
    ELSE IF h.len % settingLen # 0 THEN connErr("FRAME_SIZE_ERROR")
    ELSE IF wrong # {} THEN connErr(validateSetting(p.settings[first]))
    ELSE Ok(Frame(h, 0, 0, 0, p.settings))

parsePushPromise(h, p) ==
    LET c == splitPadding(h, p) IN
    IF h.stream = 0 THEN connErr("PROTOCOL_ERROR")
    ELSE IF c.err # "nil" THEN connErr(c.err)
    ELSE IF c.n < wordLen THEN connErr("FRAME_SIZE_ERROR")
    ELSE IF p.word = 0 THEN connErr("PROTOCOL_ERROR")
    ELSE Ok(Frame(h, c.n - wordLen, c.pad, p.word, <<>>))

parsePing(h, p) ==
    IF h.stream # 0 THEN connErr("PROTOCOL_ERROR")
    ELSE IF h.len # pingLen THEN connErr("FRAME_SIZE_ERROR")
    ELSE Ok(Frame(h, 0, 0, 0, <<>>))

parseGoAway(h, p) ==
    IF h.stream # 0 THEN connErr("PROTOCOL_ERROR")
    ELSE IF h.len < goAwayMinLen THEN connErr("FRAME_SIZE_ERROR")
    ELSE Ok(Frame(h, h.len - goAwayMinLen, 0, p.word, <<>>))

\* The length is looked at before the stream.
parseWindowUpdate(h, p) ==
    IF h.len # wordLen THEN connErr("FRAME_SIZE_ERROR")
    ELSE IF p.word = 0 /\ h.stream = 0 THEN connErr("PROTOCOL_ERROR")
    ELSE IF p.word = 0 THEN streamErr("PROTOCOL_ERROR")
    ELSE Ok(Frame(h, 0, 0, p.word, <<>>))

parseContinuation(h, p) ==
    IF h.stream = 0 THEN connErr("PROTOCOL_ERROR")
    ELSE Ok(Frame(h, h.len, 0, 0, <<>>))

parsePriorityUpdate(h, p) ==
    IF h.stream # 0 THEN connErr("PROTOCOL_ERROR")
    ELSE IF h.len < wordLen THEN connErr("FRAME_SIZE_ERROR")
    ELSE IF p.word = 0 THEN connErr("PROTOCOL_ERROR")
    ELSE Ok(Frame(h, h.len - wordLen, 0, p.word, <<>>))

parse(h, p) ==
    CASE h.type = "DATA" -> parseData(h, p)
      [] h.type = "HEADERS" -> parseHeaders(h, p)
      [] h.type = "PRIORITY" -> parsePriority(h, p)
      [] h.type = "RST_STREAM" -> parseRSTStream(h, p)
      [] h.type = "SETTINGS" -> parseSettings(h, p)
      [] h.type = "PUSH_PROMISE" -> parsePushPromise(h, p)
      [] h.type = "PING" -> parsePing(h, p)
      [] h.type = "GOAWAY" -> parseGoAway(h, p)
      [] h.type = "WINDOW_UPDATE" -> parseWindowUpdate(h, p)
      [] h.type = "CONTINUATION" -> parseContinuation(h, p)
      [] h.type = "PRIORITY_UPDATE" -> parsePriorityUpdate(h, p)

-----------------------------------------------------------------------------
(* Writing                                                                 *)

paddedLen(f, n) == IF Padded \in f.flags THEN n + padOverhead + f.pad ELSE n

\* Frame.PayloadLen, which the writer puts into the header and the receive
\* windows are debited by.
PayloadLen(f) ==
    CASE f.type = "DATA" -> paddedLen(f, f.n)
      [] f.type = "HEADERS" -> paddedLen(f, f.n + IF Priority \in f.flags THEN priorityLen ELSE 0)
      [] f.type = "PRIORITY" -> priorityLen
      [] f.type \in {"RST_STREAM", "WINDOW_UPDATE"} -> wordLen
      [] f.type = "SETTINGS" -> IF Ack \in f.flags THEN 0 ELSE settingLen * Len(f.settings)
      [] f.type = "PUSH_PROMISE" -> paddedLen(f, f.n + wordLen)
      [] f.type = "PING" -> pingLen
      [] f.type = "GOAWAY" -> goAwayMinLen + f.n
      [] f.type = "CONTINUATION" -> f.n
      [] f.type = "PRIORITY_UPDATE" -> wordLen + f.n

HeaderOf(f) == [type |-> f.type, len |-> PayloadLen(f), flags |-> f.flags, stream |-> f.stream]
=============================================================================
