---------------------------- MODULE StreamTable ----------------------------
(***************************************************************************)
(* The streams of one connection: the state machine of                     *)
(* internal/stream/table.go, the requests it hands to                      *)
(* internal/exchange/exchange.go, the bodies of internal/exchange/body.go, *)
(* and the goroutine that answers each request.                            *)
(*                                                                         *)
(* The reader goroutine handles one frame at a time: HandleFrame takes a   *)
(* frame and drains the send-ends reported so far, and then one of the     *)
(* frame actions dispatches it.  Handler goroutines run between any two of *)
(* these steps.  The frame layer has already enforced that a header block  *)
(* is followed only by its own CONTINUATIONs, so nothing else arrives      *)
(* while one is being assembled.                                           *)
(*                                                                         *)
(* Octets are counted only against a declared content-length; the receive  *)
(* windows are RecvFlow's subject and appear here as a verdict on the      *)
(* frame, the send windows FlowSender's and appear as their key set.       *)
(***************************************************************************)
EXTENDS Integers, FiniteSets

CONSTANTS
    Ids,            \* stream identifiers a peer may name
    MaxConcurrent,  \* Table.maxConcurrent
    ResetBurst,     \* tokens of the RST_STREAM bucket
    Lengths,        \* content-lengths a request may declare
    Flaws,          \* ways in which the peer may misbehave
    MaxFrames       \* bound: frames the reader handles

NoContentLength == -1

ASSUME IdsAssumption == Ids \subseteq Nat \ {0}
ASSUME BoundsAssumption ==
    /\ MaxConcurrent \in Nat /\ ResetBurst \in Nat /\ MaxFrames \in Nat
    /\ Lengths \subseteq Nat \cup {NoContentLength}

VARIABLES
    streams,        \* Table.streams: the state of every live stream
    highestRemote,  \* Table.highestRemote
    assembling,     \* Table.assembling, its id 0 when there is no block
    sent,           \* Table.sent: send-ends reported and not yet applied
    windowed,       \* the key set of the Sender's windows
    prio,           \* the key set of the frame writer's priorities
    tokens,         \* Table.resets
    arriving,       \* the key set of Requests.arriving
    declared,       \* inbound.declared
    received,       \* inbound.received
    body,           \* Body: octets buffered, ended, failed
    handler,        \* the goroutine answering each request
    reader,         \* the reader goroutine, between frames or dispatching one
    connErr,        \* why run returned, "nil" while the connection is up
    frames,         \* frames handled so far
    rst,            \* history: streams this server reset
    peerDoneWith,   \* history: streams the peer sent END_STREAM or RST_STREAM on
    answered,       \* history: streams whose response's END_STREAM was enqueued
    room,           \* history: had a peer we reset nothing of a stream to spare
                    \* when it sent the frame
    refused,        \* history: streams refused, with the room the peer had
    blocks,         \* history: header blocks completed
    decoded         \* history: header blocks decoded

table == <<streams, highestRemote, assembling, windowed, prio>>
requests == <<arriving, declared, received>>
history == <<rst, peerDoneWith, answered, refused, blocks, decoded>>
vars == <<table, sent, tokens, requests, body, handler, reader, connErr, frames,
          room, history>>

NoBlock == [id |-> 0, trailers |-> FALSE, endStream |-> FALSE, verdict |-> "ok"]
EmptyBody == [chunks |-> 0, ended |-> FALSE, failed |-> FALSE]

Live == {id \in Ids : streams[id] # "none"}

\* Table.StateOf
StateOf(id) ==
    IF streams[id] # "none" THEN streams[id]
    ELSE IF id % 2 = 0 \/ id > highestRemote THEN "idle"
    ELSE "closed"

\* Stream.peerDone
peerDone(id) == streams[id] = "halfClosedRemote"

LiveStates == {"open", "halfClosedLocal", "halfClosedRemote"}

\* Stream.recvEnd, as the state the stream is left in
recvEnd == [state \in LiveStates |-> IF state = "halfClosedLocal" THEN "closed" ELSE "halfClosedRemote"]

\* Table.SendEnd, as the state the stream is left in
SendEnd == [state \in LiveStates |-> IF state = "halfClosedRemote" THEN "closed" ELSE "halfClosedLocal"]

\* The streams the peer itself counts as open (RFC 9113 5.1.2): those it
\* opened that neither end has reset and that have not ended both ways.
PeerCounts ==
    {id \in Ids : /\ handler[id] # "none"
                  /\ id \notin rst
                  /\ ~(id \in peerDoneWith /\ id \in answered)}

-----------------------------------------------------------------------------
Init ==
    /\ streams = [id \in Ids |-> "none"]
    /\ highestRemote = 0
    /\ assembling = NoBlock
    /\ sent = {}
    /\ windowed = {}
    /\ prio = {}
    /\ tokens = ResetBurst
    /\ arriving = {}
    /\ declared = [id \in Ids |-> NoContentLength]
    /\ received = [id \in Ids |-> 0]
    /\ body = [id \in Ids |-> EmptyBody]
    /\ handler = [id \in Ids |-> "none"]
    /\ reader = "reading"
    /\ connErr = "nil"
    /\ frames = 0
    /\ rst = {}
    /\ peerDoneWith = {}
    /\ answered = {}
    /\ room = TRUE
    /\ refused = {}
    /\ blocks = 0
    /\ decoded = 0

(***************************************************************************)
(* Effects shared by the frame actions.                                    *)
(***************************************************************************)
\* Mutant: the send window is not retired.
M_Move(S, next) ==
    LET gone == {id \in S : next[streams[id]] = "closed"} IN
    /\ streams' = [id \in Ids |-> IF id \in gone THEN "none"
                                  ELSE IF id \in S THEN next[streams[id]]
                                  ELSE streams[id]]
    /\ windowed' = windowed
    /\ prio' = prio \ gone

\* Put the streams of S into the states next gives; retire the closed ones from
\* the table, the Sender and the frame writer.
Move(S, next) ==
    LET gone == {id \in S : next[streams[id]] = "closed"} IN
    /\ streams' = [id \in Ids |-> IF id \in gone THEN "none"
                                  ELSE IF id \in S THEN next[streams[id]]
                                  ELSE streams[id]]
    /\ windowed' = windowed \ gone
    /\ prio' = prio \ gone

Closed == [state \in LiveStates |-> "closed"]

\* Body.add, Body.end and Body.fail, with the wake-up that follows each.
Wake(id) == IF handler[id] = "parked" THEN [handler EXCEPT ![id] = "woken"] ELSE handler
BodyEnd(id) == body' = [body EXCEPT ![id].ended = TRUE] /\ handler' = Wake(id)
\* Mutant: the reader of the body is not woken.
M_BodyFail(id) == body' = [body EXCEPT ![id].failed = TRUE] /\ handler' = handler

BodyFail(id) == body' = [body EXCEPT ![id].failed = TRUE] /\ handler' = Wake(id)

\* run's loop goes back to reading; a connection error leaves it instead.
Return == reader' = "reading" /\ UNCHANGED connErr
ConnError(why) == reader' = "stopped" /\ connErr' = why
StreamError(id) == Return /\ rst' = rst \cup {id}

\* exchange.malformed: fail the body, forget the request, reset the stream.
Malformed(id) ==
    /\ BodyFail(id)
    /\ arriving' = arriving \ {id}
    /\ StreamError(id)

(***************************************************************************)
(* The reader goroutine.                                                   *)
(***************************************************************************)
\* The peer's next frame is read, and HandleFrame drains the reports.
HandleFrame ==
    /\ reader = "reading"
    /\ frames < MaxFrames
    /\ frames' = frames + 1
    /\ reader' = "dispatching"
    /\ Move(sent \cap Live, SendEnd)
    /\ sent' = {}
    /\ room' = (rst = {} /\ Cardinality(PeerCounts) < MaxConcurrent)
    /\ UNCHANGED <<highestRemote, assembling, tokens, requests, body, handler,
                   connErr, history>>

Dispatching == reader = "dispatching"
BetweenBlocks == Dispatching /\ assembling.id = 0

\* A frame that is answered without changing any stream.
Leaves == UNCHANGED <<table, tokens, requests, body, handler, peerDoneWith, refused,
                      blocks, decoded>>

\* completeBlock on a trailer section: the peer is done, whatever becomes of it.
Trailers(id, flaw) ==
    /\ Move({id}, recvEnd)
    /\ IF id \notin arriving
       THEN ConnError("notArriving") /\ UNCHANGED <<arriving, body, handler, rst>>
       ELSE IF flaw = "malformed"
               \/ (declared[id] # NoContentLength /\ received[id] # declared[id])
       THEN Malformed(id)
       ELSE /\ BodyEnd(id)
            /\ arriving' = arriving \ {id}
            /\ Return /\ UNCHANGED rst
    /\ UNCHANGED <<declared, received>>

\* completeBlock on a new request, and Requests.Headers: the request may have a
\* Priority field.
Request(id, endStream, length, flaw) ==
    /\ streams' = [streams EXCEPT ![id] = IF endStream THEN recvEnd["open"] ELSE "open"]
    /\ windowed' = windowed \cup {id}
    /\ prio' \in IF flaw = "malformed" THEN {prio} ELSE {prio, prio \cup {id}}
    /\ IF flaw = "malformed"
       THEN StreamError(id) /\ UNCHANGED <<requests, body, handler>>
       ELSE /\ Return /\ UNCHANGED rst
            /\ handler' = [handler EXCEPT ![id] = "running"]
            /\ IF endStream
               THEN /\ body' = [body EXCEPT ![id].ended = TRUE]
                    /\ UNCHANGED requests
               ELSE /\ arriving' = arriving \cup {id}
                    /\ declared' = [declared EXCEPT ![id] = length]
                    /\ UNCHANGED <<received, body>>

\* Mutant: a refused block is answered without being decoded.
M_completeBlock(b, length, flaw) ==
    /\ assembling' = NoBlock
    /\ blocks' = blocks + 1
    /\ IF b.verdict # "ok"
       THEN /\ StreamError(b.id)
            /\ UNCHANGED <<streams, windowed, prio, requests, body, handler, decoded,
                           refused>>
       ELSE IF flaw = "undecodable"
       THEN /\ ConnError("compression")
            /\ UNCHANGED <<streams, windowed, prio, requests, body, handler, rst,
                           refused, decoded>>
       ELSE /\ decoded' = decoded + 1
            /\ UNCHANGED refused
            /\ IF b.trailers THEN Trailers(b.id, flaw)
               ELSE Request(b.id, b.endStream, length, flaw)
    /\ UNCHANGED <<sent, tokens, answered>>

\* completeBlock: decode first, then the verdict, then the request or trailers.
completeBlock(b, length, flaw) ==
    /\ assembling' = NoBlock
    /\ blocks' = blocks + 1
    /\ IF flaw = "undecodable"
       THEN /\ ConnError("compression")
            /\ UNCHANGED <<streams, windowed, prio, requests, body, handler, rst,
                           refused, decoded>>
       ELSE /\ decoded' = decoded + 1
            /\ refused' = IF b.verdict = "refused"
                          THEN refused \cup {[id |-> b.id, room |-> room]} ELSE refused
            /\ IF b.verdict # "ok"
               THEN /\ StreamError(b.id)
                    /\ UNCHANGED <<streams, windowed, prio, requests, body, handler>>
               ELSE IF b.trailers THEN Trailers(b.id, flaw)
               ELSE Request(b.id, b.endStream, length, flaw)
    /\ UNCHANGED <<sent, tokens, answered>>

\* extend: keep the block, or complete it when the frame ends it.
extend(b, endHeaders, length, flaw) ==
    IF endHeaders
    THEN completeBlock(b, length, flaw)
    ELSE /\ assembling' = b
         /\ Return
         /\ UNCHANGED <<streams, windowed, prio, sent, tokens, requests, body, handler,
                        rst, answered, refused, blocks, decoded>>

\* admit, and the verdicts of beginTrailers.
admit(id, flaw) ==
    IF flaw = "selfDependent" THEN "selfDependent"
    ELSE IF Cardinality(Live) >= MaxConcurrent THEN "refused"
    ELSE "ok"

trailersVerdict(id, endStream) ==
    IF peerDone(id) THEN "streamClosed"
    ELSE IF ~endStream THEN "noEndStream"
    ELSE "ok"

\* Mutant: an identifier may be used again.
M_Unused(id) == id % 2 = 1

\* openStream: a client's identifiers are odd and ascend.
Unused(id) == id % 2 = 1 /\ id > highestRemote

Headers(id, endStream, endHeaders, length, flaw) ==
    /\ BetweenBlocks
    /\ peerDoneWith' = IF endStream THEN peerDoneWith \cup {id} ELSE peerDoneWith
    /\ UNCHANGED <<frames, room>>
    /\ IF streams[id] # "none"
       THEN /\ extend([id |-> id, trailers |-> TRUE, endStream |-> endStream,
                       verdict |-> trailersVerdict(id, endStream)],
                      endHeaders, length, flaw)
            /\ UNCHANGED highestRemote
       ELSE IF ~Unused(id)
       THEN /\ ConnError("protocol")
            /\ UNCHANGED <<table, sent, tokens, requests, body, handler, rst, answered,
                           refused, blocks, decoded>>
       ELSE /\ highestRemote' = id
            /\ extend([id |-> id, trailers |-> FALSE, endStream |-> endStream,
                       verdict |-> admit(id, flaw)],
                      endHeaders, length, flaw)

Continuation(endHeaders, length, flaw) ==
    /\ Dispatching
    /\ assembling.id # 0
    /\ extend(assembling, endHeaders, length, flaw)
    /\ UNCHANGED <<highestRemote, frames, room, peerDoneWith>>

\* Requests.Data: the content-length is checked as the octets arrive and again
\* at the end.
Deliver(id, octets, endStream) ==
    LET total == received[id] + octets
        bounded == declared[id] # NoContentLength IN
    IF id \notin arriving
    THEN ConnError("notArriving") /\ UNCHANGED <<requests, body, handler, rst>>
    ELSE /\ received' = [received EXCEPT ![id] = total]
         /\ UNCHANGED declared
         /\ IF bounded /\ total > declared[id] THEN Malformed(id)
            ELSE LET short == bounded /\ endStream /\ total # declared[id] IN
                 /\ body' = [body EXCEPT ![id] = [chunks |-> @.chunks + octets,
                                                  ended |-> endStream /\ ~short,
                                                  failed |-> @.failed \/ short]]
                 /\ handler' = Wake(id)
                 /\ arriving' = IF endStream THEN arriving \ {id} ELSE arriving
                 /\ IF short THEN StreamError(id) ELSE Return /\ UNCHANGED rst

\* verdict is what the two receive windows say of the frame: RecvFlow.
Data(id, octets, endStream, verdict) ==
    /\ BetweenBlocks
    /\ peerDoneWith' = IF endStream THEN peerDoneWith \cup {id} ELSE peerDoneWith
    /\ IF verdict = "overConnection" \/ StateOf(id) = "idle"
       THEN ConnError("protocol") /\ UNCHANGED <<streams, windowed, prio, requests,
                                                 body, handler, rst>>
       ELSE IF StateOf(id) = "closed" \/ peerDone(id) \/ verdict = "overStream"
       THEN StreamError(id) /\ UNCHANGED <<streams, windowed, prio, requests, body,
                                           handler>>
       ELSE /\ IF endStream THEN Move({id}, recvEnd)
               ELSE UNCHANGED <<streams, windowed, prio>>
            /\ Deliver(id, octets, endStream)
    /\ UNCHANGED <<highestRemote, assembling, sent, tokens, frames, room, answered,
                   refused, blocks, decoded>>

\* Bucket.Allow, as far as the table sees it.
Allow == tokens > 0

\* Requests.Canceled
Canceled(id) ==
    IF id \in arriving
    THEN BodyFail(id) /\ arriving' = arriving \ {id}
    ELSE UNCHANGED <<body, handler, arriving>>

RstStream(id) ==
    /\ BetweenBlocks
    /\ peerDoneWith' = peerDoneWith \cup {id}
    /\ IF StateOf(id) = "idle" \/ ~Allow
       THEN /\ ConnError(IF StateOf(id) = "idle" THEN "protocol" ELSE "calm")
            /\ UNCHANGED <<streams, windowed, prio, tokens, arriving, body, handler>>
       ELSE /\ tokens' = tokens - 1
            /\ Return
            /\ IF streams[id] = "none"
               THEN UNCHANGED <<streams, windowed, prio>> ELSE Move({id}, Closed)
            /\ IF streams[id] = "none"
               THEN UNCHANGED <<body, handler, arriving>> ELSE Canceled(id)
    /\ UNCHANGED <<highestRemote, assembling, sent, declared, received, frames, room,
                   rst, answered, refused, blocks, decoded>>

\* overflow: the Sender's window refuses the increment.
WindowUpdate(id, overflow) ==
    /\ BetweenBlocks
    /\ IF StateOf(id) = "idle" THEN ConnError("protocol") /\ UNCHANGED rst
       ELSE IF streams[id] # "none" /\ overflow THEN StreamError(id)
       ELSE Return /\ UNCHANGED rst
    /\ Leaves /\ UNCHANGED <<sent, frames, room, answered>>

\* A PRIORITY frame is accepted in every state and changes nothing.
Priority(id) ==
    /\ BetweenBlocks
    /\ Return
    /\ Leaves /\ UNCHANGED <<sent, frames, room, rst, answered>>

\* A PRIORITY_UPDATE for a live stream reaches the frame writer's map.  The
\* connection handles it itself, without HandleFrame's drains.  (One that came
\* before its stream is the subject of Priorities.)
Prioritize(id) ==
    /\ reader = "reading" /\ assembling.id = 0
    /\ frames < MaxFrames
    /\ frames' = frames + 1
    /\ id \in Live
    /\ prio' = prio \cup {id}
    /\ UNCHANGED <<streams, highestRemote, assembling, windowed, sent, tokens, requests,
                   body, handler, reader, connErr, room, history>>

\* The connection ends for a reason of its own: the peer left, a timeout, a
\* shutdown.
EndConnection ==
    /\ reader = "reading"
    /\ ConnError("ended")
    /\ UNCHANGED <<table, sent, tokens, requests, body, handler, frames, room, history>>

\* Mutant: the bodies are forgotten and not failed.
M_Close ==
    /\ reader = "stopped"
    /\ reader' = "closed"
    /\ arriving' = {}
    /\ UNCHANGED <<table, sent, tokens, declared, received, body, handler, connErr,
                   frames, room, history>>

\* conn.Serve's deferred StreamHandler.Close: Requests.Close fails every body
\* that is still arriving.
Close ==
    /\ reader = "stopped"
    /\ reader' = "closed"
    /\ body' = [id \in Ids |-> IF id \in arriving THEN [body[id] EXCEPT !.failed = TRUE]
                               ELSE body[id]]
    /\ handler' = [id \in Ids |-> IF id \in arriving /\ handler[id] = "parked"
                                  THEN "woken" ELSE handler[id]]
    /\ arriving' = {}
    /\ UNCHANGED <<table, sent, tokens, declared, received, connErr, frames, room,
                   history>>

\* Time passes and the bucket earns a token.
Refill ==
    /\ tokens < ResetBurst
    /\ tokens' = tokens + 1
    /\ UNCHANGED <<table, sent, requests, body, handler, reader, connErr, frames, room,
                   history>>

(***************************************************************************)
(* A handler goroutine: it reads the body, parks when there is nothing to  *)
(* read, and at some point returns, which ends the response and then       *)
(* reports the end.                                                        *)
(***************************************************************************)
HandlerUnchanged == UNCHANGED <<table, tokens, requests, reader, connErr, frames, room,
                                rst, peerDoneWith, refused, blocks, decoded>>

Running(id) == handler[id] \in {"running", "woken"}

\* Body.take
Read(id) ==
    /\ Running(id)
    /\ IF body[id].failed \/ (body[id].chunks = 0 /\ body[id].ended)
       THEN handler' = [handler EXCEPT ![id] = "running"] /\ UNCHANGED body
       ELSE IF body[id].chunks > 0
       THEN /\ body' = [body EXCEPT ![id].chunks = @ - 1]
            /\ handler' = [handler EXCEPT ![id] = "running"]
       ELSE handler' = [handler EXCEPT ![id] = "parked"] /\ UNCHANGED body
    /\ HandlerUnchanged /\ UNCHANGED <<sent, answered>>

\* finish, first half: the response's END_STREAM is enqueued.
EndResponse(id) ==
    /\ handler[id] = "running"
    /\ handler' = [handler EXCEPT ![id] = "ended"]
    /\ answered' = answered \cup {id}
    /\ HandlerUnchanged /\ UNCHANGED <<sent, body>>

\* finish, second half.
ReportSendEnd(id) ==
    /\ handler[id] = "ended"
    /\ handler' = [handler EXCEPT ![id] = "returned"]
    /\ sent' = sent \cup {id}
    /\ HandlerUnchanged /\ UNCHANGED <<body, answered>>

Handler(id) == Read(id) \/ EndResponse(id) \/ ReportSendEnd(id)

FrameFlaws == Flaws \cap {"malformed", "undecodable", "selfDependent"}
WindowVerdicts == {"fits"} \cup (Flaws \cap {"overConnection", "overStream"})

Dispatch ==
    \/ \E id \in Ids, endStream, endHeaders \in BOOLEAN, length \in Lengths,
          flaw \in FrameFlaws \cup {"none"} :
            Headers(id, endStream, endHeaders, length, flaw)
    \/ \E endHeaders \in BOOLEAN, length \in Lengths, flaw \in FrameFlaws \cup {"none"} :
            Continuation(endHeaders, length, flaw)
    \/ \E id \in Ids, octets \in 0 .. 1, endStream \in BOOLEAN,
          verdict \in WindowVerdicts : Data(id, octets, endStream, verdict)
    \/ \E id \in Ids :
        \/ RstStream(id)
        \/ \E overflow \in {FALSE} \cup (IF "overflow" \in Flaws THEN {TRUE} ELSE {}) :
                WindowUpdate(id, overflow)
        \/ Priority(id)

Next ==
    \/ HandleFrame
    \/ Dispatch
    \/ EndConnection
    \/ Close
    \/ Refill
    \/ \E id \in Ids : Prioritize(id) \/ Handler(id)

Spec == Init /\ [][Next]_vars

(***************************************************************************)
(* Fairness: the reader tears the connection down once run has returned    *)
(* (a deferred call), and a handler goroutine that can run does run.  That *)
(* a handler returns at all is its own business: nothing is assumed of     *)
(* EndResponse.                                                            *)
(***************************************************************************)
Fairness ==
    /\ WF_vars(Close)
    /\ \A id \in Ids : WF_vars(Read(id)) /\ WF_vars(ReportSendEnd(id))

FairSpec == Spec /\ Fairness
-----------------------------------------------------------------------------
States == LiveStates \cup {"none"}
Verdicts == {"ok", "refused", "selfDependent", "streamClosed", "noEndStream"}

TypeOK ==
    /\ streams \in [Ids -> States]
    /\ highestRemote \in Nat
    /\ assembling \in [id : Ids \cup {0}, trailers : BOOLEAN, endStream : BOOLEAN,
                       verdict : Verdicts]
    /\ sent \subseteq Ids
    /\ windowed \subseteq Ids /\ prio \subseteq Ids /\ arriving \subseteq Ids
    /\ tokens \in 0 .. ResetBurst
    /\ declared \in [Ids -> Nat \cup {NoContentLength}]
    /\ received \in [Ids -> Nat]
    /\ body \in [Ids -> [chunks : Nat, ended : BOOLEAN, failed : BOOLEAN]]
    /\ handler \in [Ids -> {"none", "running", "parked", "woken", "ended", "returned"}]
    /\ reader \in {"reading", "dispatching", "stopped", "closed"}
    /\ connErr \in {"nil", "protocol", "compression", "calm", "notArriving", "ended"}
    /\ frames \in 0 .. MaxFrames
    /\ rst \subseteq Ids /\ peerDoneWith \subseteq Ids /\ answered \subseteq Ids
    /\ room \in BOOLEAN
    /\ refused \subseteq [id : Ids, room : BOOLEAN]
    /\ blocks \in Nat /\ decoded \in Nat

(***************************************************************************)
(* The table never holds more streams than it advertised, although a       *)
(* stream is admitted when its first HEADERS arrives and enters the map    *)
(* only when its last CONTINUATION does (table.go:837, table.go:988).      *)
(***************************************************************************)
ConcurrencyBound == Cardinality(Live) <= MaxConcurrent

(***************************************************************************)
(* The maps keyed by stream stay in step: a send window for exactly the    *)
(* live streams, and a priority for no other (table.go:1158, "one entry    *)
(* per live stream").                                                      *)
(***************************************************************************)
MapsInStep == windowed = Live /\ prio \subseteq Live

(***************************************************************************)
(* A request is recorded as arriving only while its stream is live and the *)
(* peer has not ended it, so every way a stream ends has reached the body: *)
(* the exchange layer holds no request the table has finished with.        *)
(***************************************************************************)
ArrivingIsOpen ==
    arriving \subseteq {id \in Live : ~peerDone(id) /\ handler[id] # "none"}

(***************************************************************************)
(* The four owners of something keyed by stream - the table, the sender, the*)
(* writer and the exchange - lose a stream together, however it ends.      *)
(***************************************************************************)
OwnersAgree == MapsInStep /\ ArrivingIsOpen

(***************************************************************************)
(* The table is sound: it is typed, it never holds more streams than it    *)
(* advertised, and its owners agree with it about each (table.go:837).     *)
(***************************************************************************)
TableIsSound == TypeOK /\ ConcurrencyBound /\ OwnersAgree

(***************************************************************************)
(* A handler parked in Body.Read is one the reader can still release: its  *)
(* body has nothing to deliver, has neither ended nor failed, and is in    *)
(* the map that Data, Trailers, Canceled and Close look it up in           *)
(* (exchange.go:395, "a goroutine leak per connection").                   *)
(***************************************************************************)
NoStrandedHandler ==
    \A id \in Ids : handler[id] = "parked" =>
        /\ id \in arriving
        /\ body[id] = EmptyBody

(***************************************************************************)
(* A trailer section under assembly with no verdict against it has its     *)
(* stream still in the table when its last CONTINUATION arrives, although  *)
(* send-ends are drained in between (table.go:274, "a stream that vanished *)
(* in between - which cannot happen").                                     *)
(***************************************************************************)
TrailersHaveTheirStream ==
    assembling.id # 0 /\ assembling.trailers /\ assembling.verdict = "ok"
        => streams[assembling.id] \in {"open", "halfClosedLocal"}

(***************************************************************************)
(* Every header block that completes is decoded, refused ones included, so *)
(* that the HPACK state stays the peer's (table.go:945); the exception is  *)
(* the block that ends the connection by failing to decode.                *)
(***************************************************************************)
EveryBlockDecoded == decoded = blocks \/ (connErr = "compression" /\ decoded = blocks - 1)

(***************************************************************************)
(* A header block keeps what it was promised with its first frame until its*)
(* last: its stream, and the decoding.                                     *)
(***************************************************************************)
BlocksAreHonoured == TrailersHaveTheirStream /\ EveryBlockDecoded

(***************************************************************************)
(* An identifier that is closed stays closed: no frame, report or late     *)
(* CONTINUATION brings a stream back (RFC 9113 5.1.1).                     *)
(***************************************************************************)
ClosedForGood ==
    [][\A id \in Ids : StateOf(id) = "closed" /\ id # assembling.id
            => StateOf(id)' = "closed"]_vars

(***************************************************************************)
(* Once run has returned, every handler waiting for its request's content  *)
(* is released (exchange.go:395).                                          *)
(***************************************************************************)
EndReleasesHandlers ==
    \A id \in Ids : (reader = "stopped" /\ handler[id] = "parked") ~> handler[id] # "parked"

(***************************************************************************)
(* What the source says and the code does not do. Each is refuted under    *)
(* StreamTable.cfg in the place of its properties.                         *)
(***************************************************************************)
\* sender.go:168: Retire is "called for every stream that leaves the open set
\* however it left: END_STREAM in both directions, RST_STREAM from the peer, or
\* a stream error of our own."
ResetStreamsAreRetired == reader = "reading" => rst \cap windowed = {}

\* exchange.go:481: a body frame for a request that is not arriving is one
\* "The stream table does not deliver".
NotArrivingIsUnreachable == connErr # "notArriving"

\* table.go:474: "a slot freed by a response that finished a moment ago has to
\* be free by then; draining after the dispatch instead would refuse a request
\* the peer was entitled to send".
EntitledIsNotRefused == \A r \in refused : ~r.room
=============================================================================
