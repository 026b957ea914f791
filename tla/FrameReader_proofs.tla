------------------------ MODULE FrameReader_proofs -------------------------
(***************************************************************************)
(* Proofs about FrameReader and its codecs for every limit, every set of   *)
(* stream identifiers and every set of settings.                           *)
(*                                                                         *)
(* First the parsers, without a state: whatever the header and the payload,*)
(* a parser refuses with an error of its own or returns the frame that was *)
(* announced.  Then the reader: the invariants of the runs are inductive   *)
(* only together with what each phase may take for granted (Waiting,       *)
(* Checked, Held).  Last, every step of the reader is a step of FieldBlocks*)
(* or leaves what FieldBlocks sees unchanged.                              *)
(***************************************************************************)
EXTENDS FrameReader, WellFoundedInduction, TLAPS

\* The frames that carry a part of a header block.
Carriers == {"HEADERS", "PUSH_PROMISE", "CONTINUATION"}

\* What a parser may answer when it refuses the payload under h.
Refused(r, h) ==
    /\ r = [scope |-> r.scope, err |-> r.err, frame |-> NoFrame]
    /\ r.err \notin {"nil", "EOF"}
    /\ r.scope \in {"connection", "stream"}
    /\ r.scope = "stream" => h.type \in {"PRIORITY", "WINDOW_UPDATE"}

\* What it answers when it accepts it.
Accepted(r, h) ==
    /\ r = Ok(r.frame)
    /\ r.frame.type = h.type /\ r.frame.stream = h.stream /\ r.frame.flags = h.flags
    /\ r.frame.n \in Nat
    /\ PayloadLen(r.frame) = h.len
    /\ h.type \in Carriers => h.stream # 0

USE CodecAssumption, ReaderAssumption

\* Nine octets of header, and the flags that mean something for its type.
LEMMA HeaderShape ==
    ASSUME NEW h \in Headers
    PROVE  /\ h.len \in 0..MaxFrameSize + 1 /\ h.len \in Nat
           /\ h.stream \in StreamIds /\ h.stream \in Nat
           /\ h = [type |-> h.type, len |-> h.len, flags |-> h.flags, stream |-> h.stream]
           /\ known(h.type) => h.flags \subseteq flagsOf[h.type]
<1> DEFINE Of(t) == [type : {t}, len : 0..MaxFrameSize + 1, flags : SUBSET flagsOf[t],
                     stream : StreamIds]
           Unknown == [type : {"UNKNOWN"}, len : 0..MaxFrameSize + 1, flags : {{}},
                       stream : StreamIds]
<1>1. CASE h \in Unknown
  <2>1. h.type = "UNKNOWN"
    BY <1>1
  <2>2. ~known(h.type)
    BY <2>1 DEF known, flagsOf
  <2>3. h = [type |-> h.type, len |-> h.len, flags |-> h.flags, stream |-> h.stream]
    BY <1>1
  <2>4. h.len \in 0..MaxFrameSize + 1 /\ h.stream \in StreamIds
    BY <1>1
  <2>5. QED
    BY <2>2, <2>3, <2>4
<1>2. CASE h \notin Unknown
  <2>1. h \in UNION {Of(t) : t \in DOMAIN flagsOf}
    BY <1>2 DEF Headers
  <2>2. PICK t \in DOMAIN flagsOf : h \in Of(t)
    BY <2>1
  <2>3. h.type = t /\ h.flags \in SUBSET flagsOf[t]
    BY <2>2
  <2>4. h = [type |-> h.type, len |-> h.len, flags |-> h.flags, stream |-> h.stream]
    BY <2>2
  <2>5. h.len \in 0..MaxFrameSize + 1 /\ h.stream \in StreamIds
    BY <2>2
  <2>6. QED
    BY <2>3, <2>4, <2>5
<1>3. QED
  BY <1>1, <1>2

\* The settings under a SETTINGS header are as many as its length holds.
LEMMA PayloadShape ==
    ASSUME NEW h \in Headers, known(h.type), NEW p \in Payloads(h)
    PROVE  /\ p.pad \in Nat
           /\ p.settings \in Seq(Settings)
           /\ h.type = "SETTINGS" => Len(p.settings) = h.len \div settingLen
  <1>1. h.len \div settingLen \in Nat
    BY HeaderShape, Z3 DEF settingLen
  <1>2. p.pad \in Nat
    BY DEF Payloads
  <1>3. CASE h.type = "SETTINGS"
    <2>1. p.settings \in [1..h.len \div settingLen -> Settings]
      BY <1>3 DEF Payloads
    <2>2. QED
      BY <1>1, <1>2, <1>3, <2>1
  <1>4. CASE h.type # "SETTINGS"
    <2>1. p.settings = <<>>
      BY <1>4 DEF Payloads
    <2>2. QED
      BY <1>2, <1>4, <2>1
  <1>5. QED
    BY <1>3, <1>4

\* splitPadding loses no octet: the content, the pad length and the padding make up
\* the payload.
LEMMA PaddingLemma ==
    ASSUME NEW h \in Headers, known(h.type), NEW p \in Payloads(h),
           NEW c, c = splitPadding(h, p), c.err = "nil"
    PROVE  /\ c.n \in Nat /\ c.pad \in Nat
           /\ h.len = c.n + (IF Padded \in h.flags THEN padOverhead + c.pad ELSE 0)
<1>1. h.len \in Nat /\ p.pad \in Nat
  BY HeaderShape, PayloadShape
<1>2. CASE Padded \notin h.flags
  BY <1>1, <1>2 DEF splitPadding
<1>3. CASE Padded \in h.flags
  <2>1. ~(h.len < padOverhead) /\ ~(p.pad >= h.len)
    BY <1>3 DEF splitPadding
  <2>2. c = [err |-> "nil", n |-> h.len - padOverhead - p.pad, pad |-> p.pad]
    BY <1>3, <2>1 DEF splitPadding
  <2>3. QED
    BY <1>1, <1>3, <2>1, <2>2 DEF padOverhead
<1>4. QED
  BY <1>2, <1>3

\* splitPadding refuses with one of two errors.
LEMMA PaddingErrors ==
    ASSUME NEW h, NEW p
    PROVE  splitPadding(h, p).err \in {"nil", "FRAME_SIZE_ERROR", "PROTOCOL_ERROR"}
  BY DEF splitPadding

\* Frame keeps the flags of a header, since its parser knows them all.
LEMMA FrameShape ==
    ASSUME NEW h \in Headers, known(h.type), NEW n \in Nat, NEW pad, NEW word, NEW settings,
           NEW f, f = Frame(h, n, pad, word, settings)
    PROVE  /\ f.type = h.type /\ f.stream = h.stream /\ f.flags = h.flags
           /\ f.n = n /\ f.pad = pad /\ f.word = word /\ f.settings = settings
  BY HeaderShape DEF Frame

\* parseData refuses, or returns the frame announced.
LEMMA DataLemma ==
    ASSUME NEW h \in Headers, h.type = "DATA", NEW p \in Payloads(h)
    PROVE  Refused(parseData(h, p), h) \/ Accepted(parseData(h, p), h)
  <1> DEFINE c == splitPadding(h, p)
             f == Frame(h, c.n, c.pad, 0, <<>>)
  <1>1. known(h.type)
    BY DEF known, flagsOf
  <1>2. CASE h.stream = 0 \/ c.err # "nil"
    BY <1>2, PaddingErrors DEF parseData, connErr, Refused
  <1>3. CASE h.stream # 0 /\ c.err = "nil"
    <2>1. parseData(h, p) = Ok(f)
      BY <1>3 DEF parseData
    <2>2. c.n \in Nat /\ c.pad \in Nat /\ h.len = c.n + (IF Padded \in h.flags THEN padOverhead + c.pad ELSE 0)
      BY <1>1, <1>3, PaddingLemma
    <2> HIDE DEF c
    <2>3. /\ f.type = h.type /\ f.stream = h.stream /\ f.flags = h.flags
          /\ f.n = c.n /\ f.pad = c.pad
      BY <1>1, <2>2, FrameShape
    <2> HIDE DEF f
    <2>4. PayloadLen(f) = h.len
      BY <2>2, <2>3 DEF PayloadLen, paddedLen, padOverhead
    <2>5. QED
      BY <2>1, <2>2, <2>3, <2>4 DEF Accepted, Ok, Carriers
  <1>4. QED
    BY <1>2, <1>3

\* parseHeaders, with and without the priority fields.
LEMMA HeadersLemma ==
    ASSUME NEW h \in Headers, h.type = "HEADERS", NEW p \in Payloads(h)
    PROVE  Refused(parseHeaders(h, p), h) \/ Accepted(parseHeaders(h, p), h)
  <1> DEFINE c == splitPadding(h, p)
             front == IF Priority \in h.flags THEN priorityLen ELSE 0
             word == IF front > 0 THEN p.word ELSE 0
             f == Frame(h, c.n - front, c.pad, word, <<>>)
  <1>1. known(h.type)
    BY DEF known, flagsOf
  <1>2. CASE h.stream = 0 \/ c.err # "nil" \/ c.n < front
    BY <1>2, PaddingErrors DEF parseHeaders, connErr, Refused
  <1>3. CASE h.stream # 0 /\ c.err = "nil" /\ ~(c.n < front)
    <2>1. parseHeaders(h, p) = Ok(f)
      BY <1>3 DEF parseHeaders
    <2>2. c.n \in Nat /\ c.pad \in Nat /\ h.len = c.n + (IF Padded \in h.flags THEN padOverhead + c.pad ELSE 0)
      BY <1>1, <1>3, PaddingLemma
    <2>3. front \in Nat /\ c.n - front \in Nat
      BY <1>3, <2>2 DEF priorityLen
    <2> HIDE DEF c, word
    <2>4. /\ f.type = h.type /\ f.stream = h.stream /\ f.flags = h.flags
          /\ f.n = c.n - front /\ f.pad = c.pad
      BY <1>1, <2>3, FrameShape
    <2> HIDE DEF f
    <2>5. PayloadLen(f) = h.len
      BY <2>2, <2>3, <2>4 DEF PayloadLen, paddedLen, padOverhead
    <2>6. QED
      BY <1>3, <2>1, <2>3, <2>4, <2>5 DEF Accepted, Ok
  <1>4. QED
    BY <1>2, <1>3

\* parsePushPromise, with and without padding.
LEMMA PushPromiseLemma ==
    ASSUME NEW h \in Headers, h.type = "PUSH_PROMISE", NEW p \in Payloads(h)
    PROVE  Refused(parsePushPromise(h, p), h) \/ Accepted(parsePushPromise(h, p), h)
  <1> DEFINE c == splitPadding(h, p)
             f == Frame(h, c.n - wordLen, c.pad, p.word, <<>>)
  <1>1. known(h.type)
    BY DEF known, flagsOf
  <1>2. CASE h.stream = 0 \/ c.err # "nil" \/ c.n < wordLen \/ p.word = 0
    BY <1>2, PaddingErrors DEF parsePushPromise, connErr, Refused
  <1>3. CASE h.stream # 0 /\ c.err = "nil" /\ ~(c.n < wordLen) /\ p.word # 0
    <2>1. parsePushPromise(h, p) = Ok(f)
      BY <1>3 DEF parsePushPromise
    <2>2. c.n \in Nat /\ c.pad \in Nat /\ h.len = c.n + (IF Padded \in h.flags THEN padOverhead + c.pad ELSE 0)
      BY <1>1, <1>3, PaddingLemma
    <2>3. c.n - wordLen \in Nat
      BY <1>3, <2>2 DEF wordLen
    <2> HIDE DEF c
    <2>4. /\ f.type = h.type /\ f.stream = h.stream /\ f.flags = h.flags
          /\ f.n = c.n - wordLen /\ f.pad = c.pad
      BY <1>1, <2>3, FrameShape
    <2> HIDE DEF f
    <2>5. PayloadLen(f) = h.len
      BY <2>2, <2>3, <2>4 DEF PayloadLen, paddedLen, padOverhead, wordLen
    <2>6. QED
      BY <1>3, <2>1, <2>3, <2>4, <2>5 DEF Accepted, Ok
  <1>4. QED
    BY <1>2, <1>3

\* A set of naturals that is not empty has a least element.
LEMMA LeastNatural ==
    ASSUME NEW S \in SUBSET Nat, S # {}
    PROVE  \E i \in S : \A j \in S : i <= j
<1> DEFINE R == OpToRel(<, Nat)
<1>1. IsWellFoundedOn(R, Nat)
  BY NatLessThanWellFounded
<1>2. \A i, j \in Nat : <<j, i>> \in R <=> j < i
  BY DEF OpToRel
<1> HIDE DEF R
<1>3. PICK i \in S : \A j \in S : ~(<<j, i>> \in R)
  BY <1>1, WFMin
<1>4. \A j \in S : ~(j < i)
  BY <1>2, <1>3
<1>5. QED
  BY <1>4

\* parseSettings: the first setting that is wrong decides, and six octets each make up
\* the payload.
LEMMA SettingsLemma ==
    ASSUME NEW h \in Headers, h.type = "SETTINGS", NEW p \in Payloads(h)
    PROVE  Refused(parseSettings(h, p), h) \/ Accepted(parseSettings(h, p), h)
  <1> DEFINE wrong == {i \in DOMAIN p.settings : validateSetting(p.settings[i]) # "nil"}
             first == CHOOSE i \in wrong : \A j \in wrong : i <= j
             err == validateSetting(p.settings[first])
             f == Frame(h, 0, 0, 0, p.settings)
  <1>1. known(h.type)
    BY DEF known, flagsOf
  <1>2. p.settings \in Seq(Settings) /\ Len(p.settings) = h.len \div settingLen
    BY <1>1, PayloadShape
  <1>3. CASE h.stream # 0 \/ (Ack \in h.flags /\ h.len # 0) \/ h.len % settingLen # 0
    BY <1>3 DEF parseSettings, connErr, Refused
  <1>4. CASE h.stream = 0 /\ ~(Ack \in h.flags /\ h.len # 0) /\ h.len % settingLen = 0
    <2>1. CASE wrong # {}
      <3>1. parseSettings(h, p) = connErr(err)
        BY <1>4, <2>1 DEF parseSettings
      <3>2. first \in wrong
        <4>1. wrong \in SUBSET Nat
          BY <1>2
        <4> HIDE DEF wrong
        <4>2. \E i \in wrong : \A j \in wrong : i <= j
          BY <2>1, <4>1, LeastNatural
        <4>3. QED
          BY <4>2
      <3>3. err # "nil" /\ err # "EOF"
        BY <3>2 DEF validateSetting
      <3> HIDE DEF err
      <3>4. QED
        BY <3>1, <3>3 DEF connErr, Refused
    <2>2. CASE wrong = {}
      <3>1. parseSettings(h, p) = Ok(f)
        BY <1>4, <2>2 DEF parseSettings
      <3>2. /\ f.type = h.type /\ f.stream = h.stream /\ f.flags = h.flags
            /\ f.n = 0 /\ f.settings = p.settings
        BY <1>1, FrameShape
      <3> HIDE DEF f
      <3>3. h.len \in Nat /\ settingLen * (h.len \div settingLen) = h.len
        BY <1>1, <1>4, HeaderShape, Z3 DEF settingLen
      <3>4. PayloadLen(f) = h.len
        BY <1>2, <1>4, <3>2, <3>3 DEF PayloadLen
      <3>5. QED
        BY <3>1, <3>2, <3>4 DEF Accepted, Ok, Carriers
    <2>3. QED
      BY <2>1, <2>2
  <1>5. QED
    BY <1>3, <1>4

\* The octets of a payload that are not counted in a frame's n, padding apart.
fixedLen(type) ==
    CASE type = "PRIORITY" -> priorityLen
      [] type \in {"RST_STREAM", "WINDOW_UPDATE", "PRIORITY_UPDATE"} -> wordLen
      [] type = "PING" -> pingLen
      [] type = "GOAWAY" -> goAwayMinLen
      [] type = "CONTINUATION" -> 0

\* A frame without padding has its counted octets and a fixed part.
LEMMA PlainFrameLemma ==
    ASSUME NEW h \in Headers, known(h.type), NEW n \in Nat, NEW word,
           h.type \in {"PRIORITY", "RST_STREAM", "PING", "GOAWAY", "WINDOW_UPDATE", "CONTINUATION",
                      "PRIORITY_UPDATE"},
           h.len = n + fixedLen(h.type),
           h.type \in {"GOAWAY", "CONTINUATION", "PRIORITY_UPDATE"} \/ n = 0,
           h.type = "CONTINUATION" => h.stream # 0
    PROVE  Accepted(Ok(Frame(h, n, 0, word, <<>>)), h)
<1> DEFINE f == Frame(h, n, 0, word, <<>>)
<1>1. f.type = h.type /\ f.stream = h.stream /\ f.flags = h.flags /\ f.n = n
  BY FrameShape
<1> HIDE DEF f
<1>2. PayloadLen(f) = h.len
  BY <1>1 DEF PayloadLen, fixedLen, priorityLen, wordLen, pingLen, goAwayMinLen
<1>3. Accepted(Ok(f), h)
  BY <1>1, <1>2 DEF Accepted, Ok, Carriers
<1>4. QED
  BY <1>3 DEF f

\* parsePriority: five octets, or an error of the stream.
LEMMA PriorityLemma ==
    ASSUME NEW h \in Headers, h.type = "PRIORITY", NEW p \in Payloads(h)
    PROVE  Refused(parsePriority(h, p), h) \/ Accepted(parsePriority(h, p), h)
<1>1. known(h.type) /\ h.len \in Nat
  BY HeaderShape DEF known, flagsOf
<1>2. CASE h.stream = 0 \/ h.len # priorityLen \/ p.word = h.stream
  BY <1>2 DEF parsePriority, connErr, streamErr, Refused
<1>3. CASE ~(h.stream = 0 \/ h.len # priorityLen \/ p.word = h.stream)
  <2>1. parsePriority(h, p) = Ok(Frame(h, 0, 0, p.word, <<>>))
    BY <1>3 DEF parsePriority
  <2>2. 0 \in Nat /\ h.len = 0 + fixedLen(h.type)
    BY <1>1, <1>3 DEF fixedLen, priorityLen, wordLen, pingLen, goAwayMinLen
  <2>3. QED
    BY <1>1, <1>3, <2>1, <2>2, PlainFrameLemma
<1>4. QED
  BY <1>2, <1>3

\* parseRSTStream: four octets.
LEMMA RSTStreamLemma ==
    ASSUME NEW h \in Headers, h.type = "RST_STREAM", NEW p \in Payloads(h)
    PROVE  Refused(parseRSTStream(h, p), h) \/ Accepted(parseRSTStream(h, p), h)
<1>1. known(h.type) /\ h.len \in Nat
  BY HeaderShape DEF known, flagsOf
<1>2. CASE h.stream = 0 \/ h.len # wordLen
  BY <1>2 DEF parseRSTStream, connErr, streamErr, Refused
<1>3. CASE ~(h.stream = 0 \/ h.len # wordLen)
  <2>1. parseRSTStream(h, p) = Ok(Frame(h, 0, 0, p.word, <<>>))
    BY <1>3 DEF parseRSTStream
  <2>2. 0 \in Nat /\ h.len = 0 + fixedLen(h.type)
    BY <1>1, <1>3 DEF fixedLen, priorityLen, wordLen, pingLen, goAwayMinLen
  <2>3. QED
    BY <1>1, <1>3, <2>1, <2>2, PlainFrameLemma
<1>4. QED
  BY <1>2, <1>3

\* parsePing: eight octets.
LEMMA PingLemma ==
    ASSUME NEW h \in Headers, h.type = "PING", NEW p \in Payloads(h)
    PROVE  Refused(parsePing(h, p), h) \/ Accepted(parsePing(h, p), h)
<1>1. known(h.type) /\ h.len \in Nat
  BY HeaderShape DEF known, flagsOf
<1>2. CASE h.stream # 0 \/ h.len # pingLen
  BY <1>2 DEF parsePing, connErr, streamErr, Refused
<1>3. CASE ~(h.stream # 0 \/ h.len # pingLen)
  <2>1. parsePing(h, p) = Ok(Frame(h, 0, 0, 0, <<>>))
    BY <1>3 DEF parsePing
  <2>2. 0 \in Nat /\ h.len = 0 + fixedLen(h.type)
    BY <1>1, <1>3 DEF fixedLen, priorityLen, wordLen, pingLen, goAwayMinLen
  <2>3. QED
    BY <1>1, <1>3, <2>1, <2>2, PlainFrameLemma
<1>4. QED
  BY <1>2, <1>3

\* parseGoAway: eight octets and the debug data.
LEMMA GoAwayLemma ==
    ASSUME NEW h \in Headers, h.type = "GOAWAY", NEW p \in Payloads(h)
    PROVE  Refused(parseGoAway(h, p), h) \/ Accepted(parseGoAway(h, p), h)
<1>1. known(h.type) /\ h.len \in Nat
  BY HeaderShape DEF known, flagsOf
<1>2. CASE h.stream # 0 \/ h.len < goAwayMinLen
  BY <1>2 DEF parseGoAway, connErr, streamErr, Refused
<1>3. CASE ~(h.stream # 0 \/ h.len < goAwayMinLen)
  <2>1. parseGoAway(h, p) = Ok(Frame(h, h.len - goAwayMinLen, 0, p.word, <<>>))
    BY <1>3 DEF parseGoAway
  <2>2. h.len - goAwayMinLen \in Nat /\ h.len = h.len - goAwayMinLen + fixedLen(h.type)
    BY <1>1, <1>3 DEF fixedLen, priorityLen, wordLen, pingLen, goAwayMinLen
  <2>3. QED
    BY <1>1, <1>3, <2>1, <2>2, PlainFrameLemma
<1>4. QED
  BY <1>2, <1>3

\* parseWindowUpdate: four octets, and no increment of zero.
LEMMA WindowUpdateLemma ==
    ASSUME NEW h \in Headers, h.type = "WINDOW_UPDATE", NEW p \in Payloads(h)
    PROVE  Refused(parseWindowUpdate(h, p), h) \/ Accepted(parseWindowUpdate(h, p), h)
<1>1. known(h.type) /\ h.len \in Nat
  BY HeaderShape DEF known, flagsOf
<1>2. CASE h.len # wordLen \/ p.word = 0
  BY <1>2 DEF parseWindowUpdate, connErr, streamErr, Refused
<1>3. CASE ~(h.len # wordLen \/ p.word = 0)
  <2>1. parseWindowUpdate(h, p) = Ok(Frame(h, 0, 0, p.word, <<>>))
    BY <1>3 DEF parseWindowUpdate
  <2>2. 0 \in Nat /\ h.len = 0 + fixedLen(h.type)
    BY <1>1, <1>3 DEF fixedLen, priorityLen, wordLen, pingLen, goAwayMinLen
  <2>3. QED
    BY <1>1, <1>3, <2>1, <2>2, PlainFrameLemma
<1>4. QED
  BY <1>2, <1>3

\* parseContinuation: all of it is fragment.
LEMMA ContinuationLemma ==
    ASSUME NEW h \in Headers, h.type = "CONTINUATION", NEW p \in Payloads(h)
    PROVE  Refused(parseContinuation(h, p), h) \/ Accepted(parseContinuation(h, p), h)
<1>1. known(h.type) /\ h.len \in Nat
  BY HeaderShape DEF known, flagsOf
<1>2. CASE h.stream = 0
  BY <1>2 DEF parseContinuation, connErr, streamErr, Refused
<1>3. CASE ~(h.stream = 0)
  <2>1. parseContinuation(h, p) = Ok(Frame(h, h.len, 0, 0, <<>>))
    BY <1>3 DEF parseContinuation
  <2>2. h.len \in Nat /\ h.len = h.len + fixedLen(h.type)
    BY <1>1, <1>3 DEF fixedLen, priorityLen, wordLen, pingLen, goAwayMinLen
  <2>3. QED
    BY <1>1, <1>3, <2>1, <2>2, PlainFrameLemma
<1>4. QED
  BY <1>2, <1>3

\* parsePriorityUpdate: four octets and the field value.
LEMMA PriorityUpdateLemma ==
    ASSUME NEW h \in Headers, h.type = "PRIORITY_UPDATE", NEW p \in Payloads(h)
    PROVE  Refused(parsePriorityUpdate(h, p), h) \/ Accepted(parsePriorityUpdate(h, p), h)
<1>1. known(h.type) /\ h.len \in Nat
  BY HeaderShape DEF known, flagsOf
<1>2. CASE h.stream # 0 \/ h.len < wordLen \/ p.word = 0
  BY <1>2 DEF parsePriorityUpdate, connErr, streamErr, Refused
<1>3. CASE ~(h.stream # 0 \/ h.len < wordLen \/ p.word = 0)
  <2>1. parsePriorityUpdate(h, p) = Ok(Frame(h, h.len - wordLen, 0, p.word, <<>>))
    BY <1>3 DEF parsePriorityUpdate
  <2>2. h.len - wordLen \in Nat /\ h.len = h.len - wordLen + fixedLen(h.type)
    BY <1>1, <1>3 DEF fixedLen, priorityLen, wordLen, pingLen, goAwayMinLen
  <2>3. QED
    BY <1>1, <1>3, <2>1, <2>2, PlainFrameLemma
<1>4. QED
  BY <1>2, <1>3

(***************************************************************************)
(* Parser and writer agree, for every type there is: a payload is refused, *)
(* by an error that is never io.EOF and is a stream's only where the frame *)
(* carries no header block, or yields the frame its header announced, of   *)
(* the same length when it is written (Frame.PayloadLen).                  *)
(***************************************************************************)
THEOREM ParsersAgree ==
    ASSUME NEW h \in Headers, known(h.type), NEW p \in Payloads(h)
    PROVE  Refused(parse(h, p), h) \/ Accepted(parse(h, p), h)
<1>1. h.type \in {"DATA", "HEADERS", "PRIORITY", "RST_STREAM", "SETTINGS", "PUSH_PROMISE", "PING", "GOAWAY",
                 "WINDOW_UPDATE", "CONTINUATION", "PRIORITY_UPDATE"}
  BY DEF known, flagsOf
<1>2. CASE h.type = "DATA"
  <2>1. parse(h, p) = parseData(h, p)
    BY <1>2 DEF parse
  <2>2. QED
    BY <1>2, <2>1, DataLemma
<1>3. CASE h.type = "HEADERS"
  <2>1. parse(h, p) = parseHeaders(h, p)
    BY <1>3 DEF parse
  <2>2. QED
    BY <1>3, <2>1, HeadersLemma
<1>4. CASE h.type = "PRIORITY"
  <2>1. parse(h, p) = parsePriority(h, p)
    BY <1>4 DEF parse
  <2>2. QED
    BY <1>4, <2>1, PriorityLemma
<1>5. CASE h.type = "RST_STREAM"
  <2>1. parse(h, p) = parseRSTStream(h, p)
    BY <1>5 DEF parse
  <2>2. QED
    BY <1>5, <2>1, RSTStreamLemma
<1>6. CASE h.type = "SETTINGS"
  <2>1. parse(h, p) = parseSettings(h, p)
    BY <1>6 DEF parse
  <2>2. QED
    BY <1>6, <2>1, SettingsLemma
<1>7. CASE h.type = "PUSH_PROMISE"
  <2>1. parse(h, p) = parsePushPromise(h, p)
    BY <1>7 DEF parse
  <2>2. QED
    BY <1>7, <2>1, PushPromiseLemma
<1>8. CASE h.type = "PING"
  <2>1. parse(h, p) = parsePing(h, p)
    BY <1>8 DEF parse
  <2>2. QED
    BY <1>8, <2>1, PingLemma
<1>9. CASE h.type = "GOAWAY"
  <2>1. parse(h, p) = parseGoAway(h, p)
    BY <1>9 DEF parse
  <2>2. QED
    BY <1>9, <2>1, GoAwayLemma
<1>10. CASE h.type = "WINDOW_UPDATE"
  <2>1. parse(h, p) = parseWindowUpdate(h, p)
    BY <1>10 DEF parse
  <2>2. QED
    BY <1>10, <2>1, WindowUpdateLemma
<1>11. CASE h.type = "CONTINUATION"
  <2>1. parse(h, p) = parseContinuation(h, p)
    BY <1>11 DEF parse
  <2>2. QED
    BY <1>11, <2>1, ContinuationLemma
<1>12. CASE h.type = "PRIORITY_UPDATE"
  <2>1. parse(h, p) = parsePriorityUpdate(h, p)
    BY <1>12 DEF parse
  <2>2. QED
    BY <1>12, <2>1, PriorityUpdateLemma
<1>13. QED
  BY <1>1, <1>2, <1>3, <1>4, <1>5, <1>6, <1>7, <1>8, <1>9, <1>10, <1>11, <1>12

-----------------------------------------------------------------------------
\* Nothing is held and nothing is closed while the reader waits.
Waiting == phase \in {"preface", "header", "payload"} => got = Pending /\ cut = "no"

\* The header of the payload that is awaited has passed both checks.
Checked ==
    phase = "payload" => /\ hdr \in Headers /\ checkContinuity(hdr)
                         /\ unread = hdr.len

\* The frame in the caller's hands is the one its header announced.
Held ==
    phase = "caller" => /\ hdr \in Headers /\ known(hdr.type) /\ Accepted(got, hdr)
                        /\ unread = 0 /\ cut = "no"

\* The inductive invariant.
IInv ==
    /\ TypeOK
    /\ delivered \in [stream : StreamIds \cup {0}, n : Nat, frames : Nat]
    /\ InStep
    /\ phase = "preface" => unread = 0
    /\ EOFIsClean
    /\ BlockIsKnown
    /\ Waiting
    /\ Checked
    /\ Held
    /\ phase = "ended" => got.frame = NoFrame

\* A new reader satisfies the invariant.
LEMMA InitIInv == Init => IInv
<1> SUFFICES ASSUME Init PROVE IInv
  OBVIOUS
<1>1. TypeOK
  BY DEF Init, TypeOK
<1>2. InStep /\ unread = 0 /\ EOFIsClean /\ BlockIsKnown
  BY DEF Init, InStep, EOFIsClean, BlockIsKnown, Pending, Ok, NoBlock
<1>3. Waiting /\ Checked /\ Held
  BY DEF Init, Waiting, Checked, Held
<1>4. QED
  BY <1>1, <1>2, <1>3 DEF IInv, Init, NoBlock

\* The preface, or the error for what is not the preface.
LEMMA ReadPrefaceInv ==
    ASSUME IInv, NEW matches \in BOOLEAN, ReadPreface(matches)
    PROVE  IInv'
<1>1. TypeOK'
  BY DEF IInv, TypeOK, ReadPreface, Fail, block
<1>2. CASE matches
  BY <1>1, <1>2 DEF IInv, ReadPreface, block, InStep, EOFIsClean, BlockIsKnown, Waiting, Checked, Held
<1>3. CASE ~matches
  <2>1. got' = [scope |-> "connection", err |-> "PROTOCOL_ERROR", frame |-> NoFrame] /\ phase' = "ended"
    BY <1>3 DEF ReadPreface, Fail, connErr
  <2>2. EOFIsClean'
    BY <1>3, <2>1 DEF IInv, ReadPreface, EOFIsClean, Waiting, Pending, Ok
  <2>3. QED
    BY <1>1, <1>3, <2>1, <2>2
       DEF IInv, ReadPreface, block, InStep, BlockIsKnown, Waiting, Checked, Held
<1>4. QED
  BY <1>2, <1>3

\* A header that passes both checks, or one of their errors.
LEMMA ReadHeaderInv ==
    ASSUME IInv, NEW h \in Headers, ReadHeader(h)
    PROVE  IInv'
<1>1. TypeOK'
  BY HeaderShape DEF IInv, TypeOK, ReadHeader, Fail, block
<1>2. CASE ~(h.len > MaxFrameSize) /\ checkContinuity(h)
  <2>1. phase' = "payload" /\ got' = got /\ hdr' = h /\ unread' = h.len
    BY <1>2 DEF ReadHeader
  <2>2. InStep' /\ Checked'
    BY <1>2, <2>1, HeaderShape DEF ReadHeader, InStep, Checked, checkContinuity, block
  <2>3. Waiting' /\ Held' /\ EOFIsClean' /\ BlockIsKnown'
    BY <2>1 DEF IInv, ReadHeader, EOFIsClean, Waiting, Held, BlockIsKnown, block, Pending, Ok
  <2>4. QED
    BY <1>1, <2>1, <2>2, <2>3 DEF IInv, ReadHeader
<1>3. CASE h.len > MaxFrameSize \/ ~checkContinuity(h)
  <2>1. PICK e \in {"FRAME_SIZE_ERROR", "PROTOCOL_ERROR"} : Fail(connErr(e))
    BY <1>3 DEF ReadHeader
  <2>2. got' = [scope |-> "connection", err |-> e, frame |-> NoFrame] /\ phase' = "ended"
    BY <2>1 DEF Fail, connErr
  <2>3. EOFIsClean'
    BY <2>2 DEF IInv, ReadHeader, EOFIsClean, Waiting, Pending, Ok
  <2>4. QED
    BY <1>1, <2>2, <2>3
       DEF IInv, ReadHeader, block, InStep, BlockIsKnown, Waiting, Checked, Held
<1>4. QED
  BY <1>2, <1>3

\* The peer's end is io.EOF between frames and ErrUnexpectedEOF elsewhere.
LEMMA PeerClosesInv ==
    ASSUME IInv, NEW none \in BOOLEAN, PeerCloses(none)
    PROVE  IInv'
<1>1. TypeOK'
  BY DEF IInv, TypeOK, PeerCloses, Fail, block
<1>2. /\ phase' = "ended"
      /\ \/ got' = ioErr("EOF") /\ cut' = "boundary"
         \/ got' = ioErr("ErrUnexpectedEOF") /\ cut' = "inside"
  BY DEF PeerCloses, Fail, truncated
<1>3. EOFIsClean' /\ got'.frame = NoFrame /\ got'.scope = "io"
  BY <1>2 DEF EOFIsClean, ioErr
<1>4. QED
  BY <1>1, <1>2, <1>3
     DEF IInv, PeerCloses, block, InStep, BlockIsKnown, Waiting, Checked, Held

\* The caller's next call of ReadFrame.
LEMMA TakeInv ==
    ASSUME IInv, Take
    PROVE  IInv'
<1>1. TypeOK'
  BY DEF IInv, TypeOK, Take, block
<1>2. QED
  BY <1>1 DEF IInv, Take, block, InStep, EOFIsClean, BlockIsKnown, Waiting, Checked, Held, Pending, Ok

\* The payload: skipped, refused, or parsed and tracked.
LEMMA ReadPayloadInv ==
    ASSUME IInv, NEW p \in Payloads(hdr), ReadPayload(p)
    PROVE  IInv'
<1> DEFINE r == parse(hdr, p)
<1>1. /\ phase = "payload" /\ got = Pending /\ cut = "no" /\ cut' = "no"
      /\ hdr \in Headers /\ checkContinuity(hdr) /\ unread' = 0
  BY DEF IInv, Waiting, Checked, ReadPayload, Discard
<1>2. CASE ~known(hdr.type)
  <2>1. /\ phase' = "header" /\ hdr' = NoHeader /\ UNCHANGED <<got, block>>
        /\ delivered' = delivered
    BY <1>1, <1>2 DEF ReadPayload, Discard, Note, Pending, Ok
  <2>2. QED
    BY <1>1, <2>1
       DEF IInv, TypeOK, block, InStep, EOFIsClean, BlockIsKnown, Waiting, Checked, Held, Pending, Ok
<1>3. CASE known(hdr.type) /\ Refused(r, hdr)
  <2>1. phase' = "ended" /\ got' = r /\ UNCHANGED <<hdr, block>>
    BY <1>3 DEF ReadPayload, Fail, Refused
  <2>2. got'.frame = NoFrame /\ delivered' = delivered
    BY <1>3, <2>1 DEF ReadPayload, Note, Refused
  <2>3. TypeOK'
    BY <1>1, <2>1 DEF IInv, TypeOK, block
  <2>4. EOFIsClean' /\ BlockIsKnown'
    BY <1>1, <1>3, <2>1 DEF EOFIsClean, BlockIsKnown, Refused
  <2>5. QED
    BY <1>1, <2>1, <2>2, <2>3, <2>4 DEF IInv, InStep, Waiting, Checked, Held
<1>4. CASE known(hdr.type) /\ Accepted(r, hdr)
  <2> DEFINE f == r.frame
             end == EndHeaders \in f.flags
  <2>1. /\ r = Ok(f) /\ r.err = "nil"
        /\ f.type = hdr.type /\ f.stream = hdr.stream /\ f.n \in Nat
        /\ f # NoFrame /\ f.type # "none"
    BY <1>4 DEF Accepted, Ok, NoFrame, known, flagsOf
  <2>2. trackBlock(f) /\ UNCHANGED hdr /\ Note(got')
    BY <1>4, <2>1 DEF ReadPayload
  <2>3. f.stream \in StreamIds /\ f.stream \in Nat
    BY <1>1, <2>1, HeaderShape
  <2>4. <<blockStream, blockSize, continuations>> = <<delivered.stream, delivered.n, delivered.frames>>
    BY <1>1 DEF IInv, BlockIsKnown
  <2>5. Accepted(Ok(f), hdr)
    BY <1>4, <2>1
  <2> HIDE DEF f, r
  <2>6. ASSUME NEW total \in Nat, NEW spread \in Nat, finishFrame(f, total, spread),
               f.type \in Carriers,
               ~end => delivered' = IF got'.frame = NoFrame THEN delivered
                                    ELSE [stream |-> f.stream, n |-> total, frames |-> spread]
        PROVE  IInv'
    <3>1. TypeOK'
      BY <1>1, <2>2, <2>3, <2>6 DEF IInv, TypeOK, finishFrame, Fail
    <3>2. CASE checkBlockLimits(total, spread, end)
      <4>1. phase' = "caller" /\ got' = Ok(f) /\ got'.frame = f /\ got'.err = "nil" /\ got'.scope = "none"
        BY <2>6, <3>2 DEF finishFrame, Ok
      <4>2. end => delivered' = NoBlock
        BY <2>1, <2>2, <2>6, <4>1 DEF Note, Carriers
      <4>3. /\ blockStream' = IF end THEN 0 ELSE f.stream
            /\ blockSize' = IF end THEN 0 ELSE total
            /\ continuations' = IF end THEN 0 ELSE spread
        BY <2>6 DEF finishFrame
      <4>4. BlockIsKnown' /\ delivered' \in [stream : StreamIds \cup {0}, n : Nat, frames : Nat]
        BY <2>1, <2>3, <2>6, <4>1, <4>2, <4>3 DEF BlockIsKnown, NoBlock
      <4>5. EOFIsClean' /\ Held'
        BY <1>1, <1>4, <2>2, <2>5, <4>1 DEF EOFIsClean, Held
      <4>6. QED
        BY <1>1, <3>1, <4>1, <4>4, <4>5 DEF IInv, InStep, Waiting, Checked
    <3>3. CASE ~checkBlockLimits(total, spread, end)
      <4>1. phase' = "ended" /\ got' = [scope |-> "connection", err |-> "ENHANCE_YOUR_CALM", frame |-> NoFrame]
        BY <2>6, <3>3 DEF finishFrame, Fail, connErr
      <4>2. delivered' = delivered
        BY <2>2, <4>1 DEF Note
      <4>3. QED
        BY <1>1, <3>1, <4>1, <4>2
           DEF IInv, InStep, EOFIsClean, BlockIsKnown, Waiting, Checked, Held
    <3>4. QED
      BY <3>2, <3>3
  <2>7. CASE f.type \in {"HEADERS", "PUSH_PROMISE"}
    <3>1. finishFrame(f, f.n, 0)
      BY <2>2, <2>7 DEF trackBlock
    <3>2. ~end => delivered' = IF got'.frame = NoFrame THEN delivered
                               ELSE [stream |-> f.stream, n |-> f.n, frames |-> 0]
      BY <2>2, <2>7, <3>1 DEF finishFrame, Fail, Note, Ok, connErr
    <3>3. QED
      BY <2>1, <2>6, <2>7, <3>1, <3>2 DEF Carriers
  <2>8. CASE f.type = "CONTINUATION"
    <3> DEFINE total == blockSize + f.n
               spread == continuations + 1
    <3>1. finishFrame(f, total, spread) /\ total \in Nat /\ spread \in Nat
      BY <2>1, <2>2, <2>8 DEF trackBlock, IInv, TypeOK
    <3>2. f.stream = delivered.stream
      BY <1>1, <2>1, <2>4, <2>8 DEF checkContinuity
    <3>3. delivered = [stream |-> f.stream, n |-> blockSize, frames |-> continuations]
      BY <2>4, <3>2 DEF IInv
    <3>4. ~end => delivered' = IF got'.frame = NoFrame THEN delivered
                               ELSE [stream |-> f.stream, n |-> total, frames |-> spread]
      <4>1. got'.frame = NoFrame \/ got'.frame = f
        BY <3>1 DEF finishFrame, Fail, Ok, connErr
      <4>2. QED
        BY <2>2, <2>8, <3>3, <4>1 DEF Note
    <3> HIDE DEF total, spread
    <3>5. QED
      BY <2>6, <2>8, <3>1, <3>4 DEF Carriers
  <2>9. CASE f.type \notin Carriers
    <3>1. phase' = "caller" /\ got' = Ok(f) /\ UNCHANGED block
      BY <2>2, <2>9 DEF trackBlock, Carriers
    <3>2. got'.frame = f /\ got'.err = "nil" /\ got'.scope = "none" /\ delivered' = delivered
      BY <2>2, <2>9, <3>1 DEF Note, Ok, Carriers
    <3>3. TypeOK'
      BY <1>1, <2>2, <3>1 DEF IInv, TypeOK, block
    <3>4. EOFIsClean' /\ BlockIsKnown' /\ Held'
      BY <1>1, <1>4, <2>2, <2>4, <2>5, <3>1, <3>2 DEF EOFIsClean, BlockIsKnown, Held, block
    <3>5. QED
      BY <1>1, <3>1, <3>2, <3>3, <3>4 DEF IInv, InStep, Waiting, Checked
  <2>10. QED
    BY <2>7, <2>8, <2>9 DEF Carriers
<1>5. QED
  BY <1>1, <1>2, <1>3, <1>4, ParsersAgree

\* Every step of the reader keeps the invariant.
LEMMA StepIInv == IInv /\ [Next]_vars => IInv'
<1> SUFFICES ASSUME IInv, [Next]_vars PROVE IInv'
  OBVIOUS
<1>1. ASSUME NEW matches \in BOOLEAN, ReadPreface(matches) PROVE IInv'
  BY <1>1, ReadPrefaceInv
<1>2. ASSUME NEW h \in Headers, ReadHeader(h) PROVE IInv'
  BY <1>2, ReadHeaderInv
<1>3. ASSUME NEW p \in Payloads(hdr), ReadPayload(p) PROVE IInv'
  BY <1>3, ReadPayloadInv
<1>4. ASSUME NEW none \in BOOLEAN, PeerCloses(none) PROVE IInv'
  BY <1>4, PeerClosesInv
<1>5. CASE Take
  BY <1>5, TakeInv
<1>6. CASE UNCHANGED vars
  BY <1>6 DEF IInv, TypeOK, InStep, EOFIsClean, BlockIsKnown, Waiting, Checked, checkContinuity, Held,
              vars, block
<1>7. QED
  BY <1>1, <1>2, <1>3, <1>4, <1>5, <1>6 DEF Next

\* The invariant holds in every behaviour of the reader.
THEOREM Inductive == Spec => []IInv
  BY InitIInv, StepIInv, PTL DEF Spec

(***************************************************************************)
(* The octet stream is cut where the peer meant it to be cut, io.EOF is    *)
(* reported for nothing but an end between frames, and BlockOpen tells of  *)
(* the block that the frames returned have left open (ReadFrame).          *)
(***************************************************************************)
THEOREM FramesAreWholeCorrect == Spec => []FramesAreWhole
<1>1. IInv => FramesAreWhole
  BY DEF IInv, FramesAreWhole
<1>2. QED
  BY <1>1, Inductive, PTL

(***************************************************************************)
(* The frame in the caller's hands would be written with the header it came*)
(* with, so the receive windows are debited what was sent (PayloadLen).    *)
(***************************************************************************)
THEOREM FramesRoundTripCorrect == Spec => []FramesRoundTrip
<1>1. IInv => FramesRoundTrip
  <2> SUFFICES ASSUME IInv, phase = "caller" PROVE got.frame.n \in Nat /\ HeaderOf(got.frame) = hdr
    BY DEF FramesRoundTrip
  <2>1. hdr \in Headers /\ Accepted(got, hdr)
    BY DEF IInv, Held
  <2>2. hdr = [type |-> hdr.type, len |-> hdr.len, flags |-> hdr.flags, stream |-> hdr.stream]
    BY <2>1, HeaderShape
  <2>3. QED
    BY <2>1, <2>2 DEF Accepted, HeaderOf
<1>2. QED
  BY <1>1, Inductive, PTL

-----------------------------------------------------------------------------
\* The caller holds nothing, in FieldBlocks' terms, exactly when no frame was returned.
LEMMA GivenNothing == Given = Promise!Nothing <=> got.frame = NoFrame
<1>1. CASE got.frame = NoFrame
  BY <1>1 DEF Given, Promise!Nothing
<1>2. CASE got.frame # NoFrame
  <2>1. Given.kind \in {"opening", "continuation", "other"}
    BY <1>2 DEF Given
  <2>2. Promise!Nothing.kind = "none"
    BY DEF Promise!Nothing
  <2>3. Given.kind # Promise!Nothing.kind
    BY <2>1, <2>2
  <2>4. QED
    BY <1>2, <2>3
<1>3. QED
  BY <1>1, <1>2

\* A payload gives the caller a frame that FieldBlocks allows, or shows it nothing.
LEMMA ReadPayloadKeepsPromise ==
    ASSUME IInv, NEW p \in Payloads(hdr), ReadPayload(p)
    PROVE  [Promise!BlocksNext]_<<delivered.stream, delivered.n, delivered.frames, Given>>
<1> DEFINE Kept == UNCHANGED <<delivered.stream, delivered.n, delivered.frames, Given>>
           r == parse(hdr, p)
<1> SUFFICES Promise!BlocksNext \/ Kept
  OBVIOUS
<1>0. got'.frame = NoFrame /\ delivered' = delivered => Kept
  BY DEF Given, IInv, Waiting, ReadPayload, Pending, Ok
<1>1. /\ got = Pending /\ got.frame = NoFrame /\ hdr \in Headers /\ checkContinuity(hdr)
      /\ <<blockStream, blockSize, continuations>> = <<delivered.stream, delivered.n, delivered.frames>>
  BY DEF IInv, Waiting, Checked, BlockIsKnown, ReadPayload, Pending, Ok
<1>2. CASE ~known(hdr.type)
  BY <1>0, <1>1, <1>2 DEF ReadPayload, Discard, Note
<1>3. CASE known(hdr.type) /\ Refused(r, hdr)
  BY <1>0, <1>3 DEF ReadPayload, Fail, Note, Refused
<1>4. CASE known(hdr.type) /\ Accepted(r, hdr)
  <2> DEFINE f == r.frame
             end == EndHeaders \in f.flags
  <2>1. /\ r = Ok(f) /\ r.err = "nil"
        /\ f.type = hdr.type /\ f.stream = hdr.stream /\ f.n \in Nat
        /\ f # NoFrame
        /\ hdr.type \in Carriers => hdr.stream # 0
    BY <1>4 DEF Accepted, Ok, NoFrame, known, flagsOf
  <2>2. trackBlock(f) /\ Note(got')
    BY <1>4, <2>1 DEF ReadPayload
  <2> HIDE DEF f, r
  <2>3. CASE got'.frame = NoFrame
    BY <1>0, <2>2, <2>3 DEF Note
  <2>4. CASE got'.frame # NoFrame
    <3>1. got' = Ok(f) /\ got'.frame = f
      BY <2>2, <2>4 DEF trackBlock, finishFrame, Fail, connErr, Ok
    <3>2. Given = Promise!Nothing
      BY <1>1, GivenNothing
    <3> DEFINE g == [kind |-> CASE f.type \in {"HEADERS", "PUSH_PROMISE"} -> "opening"
                                [] f.type = "CONTINUATION" -> "continuation"
                                [] OTHER -> "other",
                     stream |-> f.stream, n |-> f.n, end |-> end]
    <3>3. Given' = g
      BY <2>4, <3>1 DEF Given
    <3>4. g.stream = f.stream /\ g.n = f.n /\ g.end = end
      OBVIOUS
    <3>5. CASE f.type \in {"HEADERS", "PUSH_PROMISE"}
      <4>1. finishFrame(f, f.n, 0) /\ checkBlockLimits(f.n, 0, end)
        BY <2>2, <2>4, <3>5 DEF trackBlock, finishFrame, Fail, connErr
      <4>2. delivered' = IF end THEN NoBlock ELSE [stream |-> f.stream, n |-> f.n, frames |-> 0]
        BY <2>2, <2>4, <3>1, <3>5 DEF Note
      <4>3. g.kind = "opening" /\ g.stream # 0 /\ delivered.stream = 0
        BY <1>1, <2>1, <3>5 DEF Carriers, checkContinuity
      <4> HIDE DEF g
      <4>4. Promise!Grow(g, g.n, 0)
        BY <3>4, <4>1, <4>2 DEF Promise!Grow, checkBlockLimits, NoBlock
      <4>5. Promise!Give(g)
        BY <3>2, <3>3, <4>3, <4>4 DEF Promise!Give
      <4>6. QED
        BY <3>3, <4>5 DEF Promise!BlocksNext
    <3>6. CASE f.type = "CONTINUATION"
      <4>1. /\ finishFrame(f, blockSize + f.n, continuations + 1)
            /\ checkBlockLimits(blockSize + f.n, continuations + 1, end)
        BY <2>2, <2>4, <3>6 DEF trackBlock, finishFrame, Fail, connErr
      <4>2. delivered' = IF end THEN NoBlock
                         ELSE [stream |-> delivered.stream, n |-> delivered.n + f.n,
                               frames |-> delivered.frames + 1]
        BY <2>2, <2>4, <3>1, <3>6 DEF Note
      <4>3. g.kind = "continuation" /\ delivered.stream # 0 /\ g.stream = delivered.stream
        BY <1>1, <2>1, <3>6 DEF checkContinuity
      <4> HIDE DEF g
      <4>4. Promise!Grow(g, delivered.n + g.n, delivered.frames + 1)
        BY <1>1, <3>4, <4>1, <4>2, <4>3 DEF Promise!Grow, checkBlockLimits, NoBlock
      <4>5. Promise!Give(g)
        BY <3>2, <3>3, <4>3, <4>4 DEF Promise!Give
      <4>6. QED
        BY <3>3, <4>5 DEF Promise!BlocksNext
    <3>7. CASE f.type \notin Carriers
      <4>1. delivered' = delivered
        BY <2>2, <3>1, <3>7 DEF Note, Carriers
      <4>2. g.kind = "other" /\ delivered.stream = 0
        BY <1>1, <2>1, <3>7 DEF Carriers, checkContinuity
      <4> HIDE DEF g
      <4>3. Promise!Give(g)
        BY <3>2, <3>3, <4>1, <4>2 DEF Promise!Give
      <4>4. QED
        BY <3>3, <4>3 DEF Promise!BlocksNext
    <3>8. QED
      BY <3>5, <3>6, <3>7 DEF Carriers
  <2>5. QED
    BY <2>3, <2>4
<1>5. QED
  BY <1>1, <1>2, <1>3, <1>4, ParsersAgree DEF ReadPayload

\* Every step of the reader is a step of FieldBlocks or a stutter.
LEMMA PromiseStep ==
    IInv /\ [Next]_vars
      => [Promise!BlocksNext]_<<delivered.stream, delivered.n, delivered.frames, Given>>
<1> DEFINE Kept == UNCHANGED <<delivered.stream, delivered.n, delivered.frames, Given>>
<1> SUFFICES ASSUME IInv, [Next]_vars
             PROVE  Promise!BlocksNext \/ Kept
  OBVIOUS
<1>0. got.frame = NoFrame /\ got'.frame = NoFrame /\ delivered' = delivered => Kept
  BY DEF Given
<1>1. ASSUME NEW matches \in BOOLEAN, ReadPreface(matches) PROVE Kept
  <2>1. got.frame = NoFrame /\ got'.frame = NoFrame /\ delivered' = delivered
    BY <1>1 DEF IInv, Waiting, ReadPreface, Fail, Pending, Ok, connErr
  <2>2. QED
    BY <1>0, <2>1
<1>2. ASSUME NEW h \in Headers, ReadHeader(h) PROVE Kept
  <2>1. got.frame = NoFrame /\ got'.frame = NoFrame /\ delivered' = delivered
    BY <1>2 DEF IInv, Waiting, ReadHeader, Fail, Pending, Ok, connErr
  <2>2. QED
    BY <1>0, <2>1
<1>3. ASSUME NEW p \in Payloads(hdr), ReadPayload(p) PROVE Promise!BlocksNext \/ Kept
  BY <1>3, ReadPayloadKeepsPromise
<1>4. ASSUME NEW none \in BOOLEAN, PeerCloses(none) PROVE Kept
  <2>1. got.frame = NoFrame /\ got'.frame = NoFrame /\ delivered' = delivered
    BY <1>4 DEF IInv, Waiting, PeerCloses, Fail, Pending, Ok, ioErr
  <2>2. QED
    BY <1>0, <2>1
<1>5. CASE Take
  <2>1. got.frame # NoFrame
    BY <1>5 DEF IInv, Held, Accepted, Take, NoFrame, known, flagsOf
  <2>2. got'.frame = NoFrame /\ delivered' = delivered
    BY <1>5 DEF Take, Pending, Ok
  <2>3. Given # Promise!Nothing
    BY <2>1, GivenNothing
  <2>4. Given' = Promise!Nothing
    BY <2>2, GivenNothing DEF Given, Promise!Nothing
  <2>5. Promise!Take
    BY <2>2, <2>3, <2>4 DEF Promise!Take
  <2>6. QED
    BY <2>5 DEF Promise!BlocksNext
<1>6. CASE UNCHANGED vars
  BY <1>6 DEF vars, Given
<1>7. QED
  BY <1>1, <1>2, <1>3, <1>4, <1>5, <1>6 DEF Next

\* A new reader is a new block sequence.
LEMMA PromiseInit == Init => Promise!BlocksInit
  BY GivenNothing DEF Init, Promise!BlocksInit, NoBlock, Pending, Ok

(***************************************************************************)
(* The reader implements FieldBlocks: header blocks reach the stream table *)
(* contiguous, on one stream, and within both limits, their last frame     *)
(* included (Reader.checkContinuity, beginBlock, extendBlock).             *)
(***************************************************************************)
THEOREM KeepsBlocksPromiseCorrect == Spec => KeepsBlocksPromise
  BY PromiseInit, PromiseStep, Inductive, PTL DEF Spec, KeepsBlocksPromise, Promise!BlocksSpec
=============================================================================
