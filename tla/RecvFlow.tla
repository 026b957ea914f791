------------------------------ MODULE RecvFlow ------------------------------
(***************************************************************************)
(* Receive-side flow control: how the credit a peer spends on request      *)
(* content finds its way back to it.                                       *)
(*                                                                         *)
(* Four parties: the peer, which sends DATA within the windows it believes *)
(* it has; the reader goroutine, which drains the credit ledger, debits    *)
(* its windows and buffers the payload (stream/table.go); the handler      *)
(* goroutines, which read the payload and report it (exchange/body.go);    *)
(* and the wire, a queue in each direction.  The streams are uploads whose *)
(* HEADERS have been handled already.                                      *)
(*                                                                         *)
(* The peer here follows the protocol.  What the table does about one that *)
(* does not is in StreamTable.                                             *)
(***************************************************************************)
EXTENDS Integers, Sequences, FiniteSets, Functions

CONSTANTS
    Streams,             \* uploads in progress
    InitialWindowSize,   \* flow.InitialWindowSize: 65535
    ReplenishThreshold,  \* limits.ReplenishThreshold: half a window
    Payloads,            \* content lengths of a DATA frame
    Pads,                \* padding octets of a DATA frame
    Buffers,             \* lengths of the slices handlers read into
    Resets,              \* streams the peer may abandon
    Patient,             \* streams whose handler reads the body to its end
    MaxOctets            \* bound: octets the peer sends on a stream

ASSUME RecvAssumption ==
    /\ Streams \subseteq Nat \ {0} /\ IsFiniteSet(Streams)
    /\ InitialWindowSize \in Nat /\ ReplenishThreshold \in 1 .. InitialWindowSize
    /\ Payloads \subseteq Nat /\ Pads \subseteq Nat /\ Buffers \subseteq Nat \ {0}
    /\ Resets \subseteq Streams /\ Patient \subseteq Streams

VARIABLES
    up,            \* frames on the wire to the server
    down,          \* WINDOW_UPDATEs on the wire to the peer
    peerConn,      \* the peer's copy of the connection window
    peerStream,    \* the peer's copy of each stream window
    peerDone,      \* streams the peer has ended or reset
    sentOctets,    \* octets the peer has sent on each stream
    connRecv,      \* Table.connRecv
    recv,          \* Stream.recv
    live,          \* the key set of Table.streams
    connCredit,    \* Table.connCredit
    streamCredit,  \* Table.streamCredit
    credited,      \* the key set of Table.streamCredit
    reported,      \* Table.sent
    localDone,     \* streams in state half-closed (local)
    reader,        \* idle, or the step of HandleFrame it is at
    frame,         \* the frame in hand
    overrun,       \* the reader answered FLOW_CONTROL_ERROR
    body,          \* Body: payload lengths left to read, ended, failed
    handler,       \* where the handler goroutine of each stream is
    report,        \* what it has to report: n and more, then the increments
    lost           \* history: octets debited that no handler will ever report

peer == <<peerConn, peerStream, peerDone, sentOctets>>
windows == <<connRecv, recv, live, localDone>>
credit == <<connCredit, streamCredit, credited>>
reading == <<reader, frame, overrun>>
handling == <<body, handler, report>>
recvVars == <<up, down, peer, windows, credit, reported, reading, handling, lost>>

NoCredit == [pending |-> 0, granted |-> 0]
NoDataFrame == [kind |-> "none", id |-> 0, octets |-> 0, pad |-> 0, end |-> FALSE]
NoReport == [n |-> 0, more |-> FALSE, conn |-> 0, stream |-> 0]

Octets(f) == f.octets + f.pad
Min2(a, b) == IF a < b THEN a ELSE b

RecvInit ==
    /\ up = <<>> /\ down = <<>>
    /\ peerConn = InitialWindowSize
    /\ peerStream = [id \in Streams |-> InitialWindowSize]
    /\ peerDone = {}
    /\ sentOctets = [id \in Streams |-> 0]
    /\ connRecv = InitialWindowSize
    /\ recv = [id \in Streams |-> InitialWindowSize]
    /\ live = Streams
    /\ connCredit = NoCredit
    /\ streamCredit = [id \in Streams |-> NoCredit]
    /\ credited = {}
    /\ reported = {}
    /\ localDone = {}
    /\ reader = "idle"
    /\ frame = NoDataFrame
    /\ overrun = FALSE
    /\ body = [id \in Streams |-> [chunks |-> <<>>, ended |-> FALSE, failed |-> FALSE]]
    /\ handler = [id \in Streams |-> "running"]
    /\ report = [id \in Streams |-> NoReport]
    /\ lost = 0

(***************************************************************************)
(* The peer.  It spends no more than both of its windows hold.             *)
(***************************************************************************)
SendData(id, octets, pad, end) ==
    LET n == octets + pad IN
    /\ id \notin peerDone
    /\ n <= Min2(peerConn, peerStream[id])
    /\ sentOctets[id] + n <= MaxOctets
    /\ n > 0 \/ end
    /\ up' = Append(up, [kind |-> "data", id |-> id, octets |-> octets,
                         pad |-> pad, end |-> end])
    /\ peerConn' = peerConn - n
    /\ peerStream' = [peerStream EXCEPT ![id] = @ - n]
    /\ peerDone' = IF end THEN peerDone \cup {id} ELSE peerDone
    /\ sentOctets' = [sentOctets EXCEPT ![id] = @ + n]
    /\ UNCHANGED <<down, windows, credit, reported, reading, handling, lost>>

SendReset(id) ==
    /\ id \in Resets \ peerDone
    /\ up' = Append(up, [kind |-> "rst", id |-> id, octets |-> 0, pad |-> 0, end |-> FALSE])
    /\ peerDone' = peerDone \cup {id}
    /\ UNCHANGED <<down, peerConn, peerStream, sentOctets, windows, credit, reported,
                   reading, handling, lost>>

ReceiveWindowUpdate ==
    /\ down # <<>>
    /\ LET f == Head(down) IN
       IF f.id = 0
       THEN peerConn' = peerConn + f.inc /\ UNCHANGED peerStream
       ELSE peerStream' = [peerStream EXCEPT ![f.id] = @ + f.inc] /\ UNCHANGED peerConn
    /\ down' = Tail(down)
    /\ UNCHANGED <<up, peerDone, sentOctets, windows, credit, reported, reading,
                   handling, lost>>

(***************************************************************************)
(* The reader goroutine.                                                   *)
(***************************************************************************)
\* The next frame is read, and drainSent applies the reported send-ends: a
\* stream whose request has ended too is retired, another is half-closed.
ReadFrame ==
    /\ reader = "idle" /\ ~overrun
    /\ up # <<>>
    /\ frame' = Head(up)
    /\ up' = Tail(up)
    /\ live' = live \ {id \in reported : body[id].ended}
    /\ localDone' = localDone \cup {id \in reported : ~body[id].ended}
    /\ reported' = {}
    /\ reader' = "drained"
    /\ UNCHANGED <<down, peer, connRecv, recv, credit, overrun, handling, lost>>

\* Mutant: the advertised credit is applied and not cleared.
M_DrainCredit ==
    /\ reader = "drained"
    /\ connRecv' = connRecv + connCredit.granted
    /\ recv' = [id \in Streams |-> IF id \in live THEN recv[id] + streamCredit[id].granted
                                   ELSE recv[id]]
    /\ credited' = {id \in credited : id \in live \/ streamCredit[id].pending # 0}
    /\ reader' = "current"
    /\ UNCHANGED <<up, down, peer, live, localDone, connCredit, streamCredit, reported,
                   frame, overrun, handling, lost>>

\* drainCredit: what was advertised reaches the windows before the frame does.
\* An entry of a stream no longer live is dropped once it holds nothing.
DrainCredit ==
    /\ reader = "drained"
    /\ connRecv' = connRecv + connCredit.granted
    /\ connCredit' = [connCredit EXCEPT !.granted = 0]
    /\ recv' = [id \in Streams |-> IF id \in live THEN recv[id] + streamCredit[id].granted
                                   ELSE recv[id]]
    /\ streamCredit' = [id \in Streams |-> [streamCredit[id] EXCEPT !.granted = 0]]
    /\ credited' = {id \in credited : id \in live \/ streamCredit[id].pending # 0}
    /\ reader' = "current"
    /\ UNCHANGED <<up, down, peer, live, localDone, reported, frame, overrun, handling,
                   lost>>

Done == reader' = "idle" /\ frame' = NoDataFrame

\* wake.Signal and wake.Broadcast: one goroutine reads a body.
Wake(id) == [handler EXCEPT ![id] = IF @ = "parked" THEN "running" ELSE @]

\* Table.data: the connection window first, whatever becomes of the frame.
Data ==
    LET n == Octets(frame)
        id == frame.id IN
    /\ reader = "current"
    /\ frame.kind = "data"
    /\ Done
    /\ IF n > connRecv
       THEN overrun' = TRUE /\ UNCHANGED <<connRecv, recv, live, body, handler, lost>>
       ELSE /\ connRecv' = connRecv - n
            /\ IF id \notin live
               THEN lost' = lost + n /\ UNCHANGED <<recv, live, body, handler, overrun>>
               ELSE IF n > recv[id]
               THEN overrun' = TRUE /\ UNCHANGED <<recv, live, body, handler, lost>>
               ELSE /\ recv' = [recv EXCEPT ![id] = @ - n]
                    /\ live' = IF frame.end THEN live \ (localDone \cap {id}) ELSE live
                    /\ body' = [body EXCEPT ![id].chunks = Append(@, frame.octets),
                                            ![id].ended = frame.end]
                    /\ handler' = Wake(id)
                    /\ lost' = lost + frame.pad
                    /\ UNCHANGED overrun
    /\ UNCHANGED <<up, down, peer, localDone, credit, reported, report>>

\* Table.rstStream and Requests.Canceled: what was buffered is never read.
RstStream ==
    LET id == frame.id IN
    /\ reader = "current"
    /\ frame.kind = "rst"
    /\ Done
    /\ live' = live \ {id}
    /\ IF id \in live
       THEN /\ body' = [body EXCEPT ![id].failed = TRUE]
            /\ handler' = Wake(id)
       ELSE UNCHANGED <<body, handler>>
    /\ UNCHANGED <<up, down, peer, connRecv, recv, localDone, credit, reported, overrun,
                   report, lost>>

(***************************************************************************)
(* A handler goroutine.                                                    *)
(***************************************************************************)
\* Body.take: at most what one payload still holds.
Take(id) ==
    LET b == body[id] IN
    /\ handler[id] = "running"
    /\ ~b.failed /\ b.chunks # <<>>
    /\ \E size \in Buffers :
        LET n == Min2(size, Head(b.chunks))
            left == IF n = Head(b.chunks) THEN Tail(b.chunks)
                    ELSE <<Head(b.chunks) - n>> \o Tail(b.chunks) IN
        /\ body' = [body EXCEPT ![id].chunks = left]
        /\ IF n > 0
           THEN /\ report' = [report EXCEPT ![id] =
                        [NoReport EXCEPT !.n = n, !.more = ~b.ended \/ left # <<>>]]
                /\ handler' = [handler EXCEPT ![id] = "reporting"]
           ELSE UNCHANGED <<report, handler>>
    /\ UNCHANGED <<up, down, peer, windows, credit, reported, reading, lost>>

Park(id) ==
    /\ handler[id] = "running"
    /\ ~body[id].failed /\ body[id].chunks = <<>> /\ ~body[id].ended
    /\ handler' = [handler EXCEPT ![id] = "parked"]
    /\ UNCHANGED <<up, down, peer, windows, credit, reported, reading, body, report, lost>>

\* Mutant: the threshold itself is not enough.
M_Due(c, n) == IF c.pending + n <= ReplenishThreshold THEN 0 ELSE c.pending + n

\* recvCredit.earn: nothing is due until the threshold is reached.
Due(c, n) == IF c.pending + n < ReplenishThreshold THEN 0 ELSE c.pending + n

\* What becomes due is on its way, and counts as granted until it is drained.
Earn(c, n) == [pending |-> c.pending + n - Due(c, n), granted |-> c.granted + Due(c, n)]

\* Table.ReportConsumed, under Table.mu: both ledgers, then the frames.
ReportConsumed(id) ==
    LET n == report[id].n IN
    /\ handler[id] = "reporting"
    /\ connCredit' = Earn(connCredit, n)
    /\ IF report[id].more
       THEN /\ streamCredit' = [streamCredit EXCEPT ![id] = Earn(@, n)]
            /\ credited' = credited \cup {id}
       ELSE UNCHANGED <<streamCredit, credited>>
    /\ report' = [report EXCEPT ![id] =
            [NoReport EXCEPT !.conn = Due(connCredit, n),
                             !.stream = IF report[id].more
                                        THEN Due(streamCredit[id], n) ELSE 0]]
    /\ handler' = [handler EXCEPT ![id] =
            IF report'[id] = NoReport THEN "running" ELSE "enqueueing"]
    /\ UNCHANGED <<up, down, peer, windows, reported, reading, body, lost>>

\* The connection's WINDOW_UPDATE is enqueued first, the stream's second.
EnqueueConn(id) ==
    /\ handler[id] = "enqueueing"
    /\ report[id].conn > 0
    /\ down' = Append(down, [id |-> 0, inc |-> report[id].conn])
    /\ report' = [report EXCEPT ![id].conn = 0]
    /\ handler' = [handler EXCEPT ![id] =
            IF report[id].stream = 0 THEN "running" ELSE "enqueueing"]
    /\ UNCHANGED <<up, peer, windows, credit, reported, reading, body, lost>>

EnqueueStream(id) ==
    /\ handler[id] = "enqueueing"
    /\ report[id].conn = 0
    /\ down' = Append(down, [id |-> id, inc |-> report[id].stream])
    /\ report' = [report EXCEPT ![id] = NoReport]
    /\ handler' = [handler EXCEPT ![id] = "running"]
    /\ UNCHANGED <<up, peer, windows, credit, reported, reading, body, lost>>

\* The handler returns, and finish reports the end of the response.
Return(id) ==
    /\ handler[id] = "running"
    /\ id \in Patient => body[id].failed \/ (body[id].ended /\ body[id].chunks = <<>>)
    /\ handler' = [handler EXCEPT ![id] = "returned"]
    /\ reported' = reported \cup {id}
    /\ UNCHANGED <<up, down, peer, windows, credit, reading, body, report, lost>>

Handler(id) ==
    Take(id) \/ Park(id) \/ ReportConsumed(id) \/ EnqueueConn(id) \/ EnqueueStream(id)
        \/ Return(id)

HandleFrame == ReadFrame \/ DrainCredit \/ Data \/ RstStream

RecvNext ==
    \/ \E id \in Streams, octets \in Payloads, pad \in Pads, end \in BOOLEAN :
            SendData(id, octets, pad, end)
    \/ \E id \in Streams : SendReset(id)
    \/ ReceiveWindowUpdate
    \/ HandleFrame
    \/ \E id \in Streams : Handler(id)

RecvSpec == RecvInit /\ [][RecvNext]_recvVars

-----------------------------------------------------------------------------
RecvTypeOK ==
    /\ peerConn \in Int /\ peerStream \in [Streams -> Int]
    /\ connRecv \in Nat /\ recv \in [Streams -> Nat]
    /\ live \subseteq Streams /\ credited \subseteq Streams
    /\ connCredit \in [pending : Nat, granted : Nat]
    /\ streamCredit \in [Streams -> [pending : Nat, granted : Nat]]
    /\ reader \in {"idle", "drained", "current"}
    /\ handler \in [Streams -> {"running", "parked", "reporting", "enqueueing", "returned"}]
    /\ lost \in Nat

(***************************************************************************)
(* A peer that spends only what it was offered is never told it overran,   *)
(* however the reader's drain, the handlers' reports and the WINDOW_UPDATEs*)
(* on the wire interleave (table.go:582, "a peer that spends exactly what  *)
(* it was offered is never told it overran").                              *)
(***************************************************************************)
NoFalseOverrun == ~overrun

\* The octets of a queue of frames, the credit for one window in a queue of
\* WINDOW_UPDATEs, and the octets a handler has not read yet.
Carried(q) == SumFunction([i \in DOMAIN q |-> Octets(q[i])])
Returned(q, id) == SumFunction([i \in DOMAIN q |-> IF q[i].id = id THEN q[i].inc ELSE 0])
Unread(id) == SumFunction(body[id].chunks)

(***************************************************************************)
(* The two ends agree about the connection's credit: what the peer holds,  *)
(* what it has in flight and what it has been sent is what the server's    *)
(* window and its undrained advertisements hold.                           *)
(***************************************************************************)
ConnAgreement ==
    peerConn + Carried(up) + Octets(frame) + Returned(down, 0)
        + SumFunction([id \in Streams |-> report[id].conn])
      = connRecv + connCredit.granted

(***************************************************************************)
(* No octet of connection credit is created or lost track of: it is in the *)
(* window, advertised, earned, buffered for a handler, in a handler's      *)
(* hands, or among the octets no handler will report (padding, and frames  *)
(* on streams that are gone).                                              *)
(***************************************************************************)
ConnConserved ==
    connRecv + connCredit.granted + connCredit.pending
        + SumFunction([id \in Streams |-> Unread(id) + report[id].n]) + lost
      = InitialWindowSize

(***************************************************************************)
(* A window is never restored above what it started at (table.go:621), and *)
(* a body never holds more than one window of content (body.go:24).        *)
(***************************************************************************)
WithinInitial ==
    /\ connRecv + connCredit.granted <= InitialWindowSize
    /\ \A id \in Streams :
        /\ recv[id] + streamCredit[id].granted <= InitialWindowSize
        /\ Unread(id) <= InitialWindowSize

(***************************************************************************)
(* The two ends keep one account of credit: none is lost, none is invented,*)
(* and they agree on it, so no peer that keeps to it is told it overran.   *)
(***************************************************************************)
CreditIsConserved ==
    RecvTypeOK /\ NoFalseOverrun /\ ConnAgreement /\ ConnConserved /\ WithinInitial

\* The wire is empty and every handler has read what there is.
Quiet ==
    /\ up = <<>> /\ down = <<>> /\ reader = "idle" /\ ~overrun
    /\ \A id \in Streams : handler[id] \in {"parked", "returned"}
Waiting == {id \in Streams : handler[id] = "parked"}

(***************************************************************************)
(* When nothing is in motion, a peer with more to send holds all of both   *)
(* windows but what lies under the threshold: what the server keeps back   *)
(* is never more than that, however many streams share the connection      *)
(* (bounds.go:77, table.go:509).  Octets no handler reads come off the     *)
(* connection's window as well, and padding off both.                      *)
(***************************************************************************)
HalfWindowOnHand ==
    Quiet => \A id \in Waiting :
        /\ peerConn + lost + SumFunction([i \in Streams |-> Unread(i)])
             > InitialWindowSize - ReplenishThreshold
        /\ peerStream[id] + lost > InitialWindowSize - ReplenishThreshold

(***************************************************************************)
(* What the source says and the code does not do. Each is refuted under    *)
(* RecvFlow.cfg in the place of its properties, once the constants have    *)
(* the values named here, if any.                                          *)
(***************************************************************************)
\* bounds.go:81: "Half a window is what makes it impossible for a peer to stall
\* on a body this server is reading." Not with padding (Pads <- MCPads, and handlers that
\* read to the end, Patient <- MCStreams and Resets <- MCNone, which hold without it).
NoStall == Quiet => \A id \in Waiting : peerConn > 0 /\ peerStream[id] > 0

\* table.go:611: the entry of a stream that is gone is "dropped here ... Without
\* this the connection would accumulate one entry per upload".
CreditIsSwept ==
    reader = "current" => \A id \in credited \ live : handler[id] # "returned"
=============================================================================
