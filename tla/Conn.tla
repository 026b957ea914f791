------------------------------- MODULE Conn --------------------------------
(***************************************************************************)
(* One connection from accept to close: the reader goroutine of            *)
(* internal/server/conn.go (TLS handshake, preface, read loop, dispatch,   *)
(* farewell, drain), the calls other goroutines make on it (Shutdown,      *)
(* Close), and the read deadline they share.                               *)
(*                                                                         *)
(* Time is kept as what is left of each deadline; Tick lets it run out.    *)
(* The frame writer is reduced to what FrameWriter promises: a bounded     *)
(* FIFO of connection frames that is drained, cut off or lost.             *)
(***************************************************************************)
EXTENDS Integers, Sequences, FiniteSets, FiniteSetsExt

CONSTANTS
    TLS,            \* whether the listener is a TLS one
    Frames,         \* what the peer may send once its preface is in
    MaxFrames,      \* bound: how many frames it sends, the preface included
    MaxInbox,       \* bound: how many of them wait in the receive buffer
    QueueDepth,     \* defaultQueueDepth
    TLSHandshake, Preface, SettingsAck, Idle,   \* limits.Timeouts, in ticks
    DrainGrace      \* drainGrace

(***************************************************************************)
(* A frame is [type, arg].  arg is the stream of a stream frame; for       *)
(* SETTINGS it is 0 or 1 for a value of NO_RFC7540_PRIORITIES and 2 for a  *)
(* parameter that cannot be applied.                                       *)
(***************************************************************************)
Types == {"settings", "ack", "ping", "ignored", "goaway", "illegal", "stream",
          "badStream", "unparsable", "badPriority"}

ASSUME ConnAssumption ==
    /\ TLS \in BOOLEAN
    /\ Frames \subseteq [type : Types, arg : Nat]
    /\ MaxFrames \in Nat /\ MaxInbox \in Nat
    /\ QueueDepth \in Nat \ {0}
    /\ {TLSHandshake, Preface, SettingsAck, Idle, DrainGrace} \subseteq Nat \ {0}

VARIABLES
    \* the reader goroutine
    pc,             \* where it is
    armed,          \* setReadDeadline's kind and deadline, before it takes the lock
    deadlineKind,   \* conn.deadlineKind
    held,           \* the frame being dispatched
    reply,          \* the frame it is enqueueing in answer
    ackDue,         \* what is left of conn.settingsAckDue, Off for its zero value
    gotSettings, settingsApplied, peerNoRFC7540Priorities,
    lastStreamID,
    err,            \* what run returned
    told,           \* what handler.Close was given
    \* shared
    quit,           \* conn.quit is closed
    shutdown,       \* the goroutine in conn.Shutdown: before, between its halves, after
    deadline,       \* what is left of the socket's read deadline, Off for none
    sock,           \* "open" or "closed"
    \* the peer
    inbox,          \* the receive buffer
    eof,            \* the peer has closed its sending half
    sent,           \* how many frames it has sent
    \* the frame writer
    queue, writer, wire, writeFailed,   \* with the connection's own frames only
    \* history
    handled,        \* streams whose frames reached the stream layer
    applied,        \* SETTINGS frames put into force
    waited,         \* ticks spent in the read or drain in progress
    drained         \* how the drain ended

loop == <<pc, armed, deadlineKind, held, reply>>
parms == <<ackDue, gotSettings, settingsApplied, peerNoRFC7540Priorities, lastStreamID>>
ending == <<err, told, drained>>
peer == <<inbox, eof, sent>>
out == <<queue, writer, wire, writeFailed>>
seen == <<handled, applied>>
asked == <<quit, shutdown>>
vars == <<loop, parms, ending, asked, deadline, sock, peer, out, seen, waited>>

Off == -1
NoFrame == [type |-> "none", arg |-> 0]
Longest == Max({TLSHandshake, Preface, SettingsAck, Idle, DrainGrace})

\* A clean start: the writer runs and nothing has been read or written.
Init ==
    /\ pc = IF TLS THEN "accepted" ELSE "first"
    /\ armed = [kind |-> "preface", left |-> 0] /\ deadlineKind = "preface"
    /\ held = NoFrame /\ reply = NoFrame
    /\ ackDue = Off
    /\ gotSettings = FALSE /\ settingsApplied = FALSE /\ peerNoRFC7540Priorities = FALSE
    /\ lastStreamID = 0
    /\ err = "nil" /\ told = "nil" /\ drained = "no"
    /\ quit = FALSE /\ shutdown = "before"
    /\ deadline = Off /\ sock = "open"
    /\ inbox = <<>> /\ eof = FALSE /\ sent = 0
    /\ queue = <<>> /\ writer = "runs" /\ wire = <<>> /\ writeFailed = FALSE
    /\ handled = {} /\ applied = 0 /\ waited = 0

-----------------------------------------------------------------------------
(* The handshake, before Serve. *)

\* handshake sets its deadline on the connection directly, without deadlineMu.
BeginHandshake ==
    /\ pc = "accepted"
    /\ IF sock = "open" THEN pc' = "handshake" /\ deadline' = TLSHandshake
       ELSE pc' = "discard" /\ UNCHANGED deadline
    /\ waited' = 0
    /\ UNCHANGED <<armed, deadlineKind, held, reply, parms, ending, asked, sock, peer, out, seen>>

Handshake ==
    /\ pc = "handshake"
    /\ \/ sock = "open" /\ deadline # 0 /\ pc' = "clear"
       \/ (sock = "closed" \/ deadline = 0 \/ eof) /\ pc' = "discard"
    /\ UNCHANGED <<armed, deadlineKind, held, reply, parms, ending, asked, deadline, sock, peer, out, seen, waited>>

\* The handshake's deadline is cleared; then ALPN decides.
ClearDeadline ==
    /\ pc = "clear"
    /\ deadline' = IF sock = "open" THEN Off ELSE deadline
    /\ pc' \in IF sock = "open" THEN {"first", "discard"} ELSE {"discard"}
    /\ UNCHANGED <<armed, deadlineKind, held, reply, parms, ending, asked, sock, peer, out, seen, waited>>

\* discard: stop the writer without writing; the handler is not closed.
Discard ==
    /\ pc = "discard"
    /\ IF writer = "gone" THEN pc' = "closed" /\ sock' = "closed" /\ UNCHANGED writer
       ELSE pc' = pc /\ writer' = "cut" /\ UNCHANGED sock
    /\ UNCHANGED <<armed, deadlineKind, held, reply, parms, ending, asked, deadline, peer, queue,
                   wire, writeFailed, seen, waited>>

-----------------------------------------------------------------------------
(* The read loop. *)

Out(type) == [type |-> type, arg |-> 0]

\* run: our SETTINGS first.  Nothing can have stopped the writer yet.
First ==
    /\ pc = "first"
    /\ queue' = Append(queue, Out("settings"))
    /\ pc' = "preface"
    /\ UNCHANGED <<armed, deadlineKind, held, reply, parms, ending, asked, deadline, sock, peer,
                   writer, wire, writeFailed, seen, waited>>

\* deadlineFor, and the choice at the top of setReadDeadline
Earlier(kind, left) ==
    IF ackDue # Off /\ ackDue < left THEN [kind |-> "settingsAck", left |-> ackDue]
    ELSE [kind |-> kind, left |-> left]

\* The loop's check of the flag, and the deadline it decides to ask for.
Arm ==
    /\ pc \in {"preface", "loop"}
    /\ IF pc = "loop" /\ quit
       THEN pc' = "over" /\ err' = "shuttingDown" /\ UNCHANGED <<armed, deadlineKind>>
       ELSE /\ armed' = IF pc = "preface" THEN Earlier("preface", Preface) ELSE Earlier("idle", Idle)
            /\ deadlineKind' = armed'.kind
            /\ pc' = IF pc = "preface" THEN "lockPreface" ELSE "lock"
            /\ UNCHANGED err
    /\ waited' = 0
    /\ UNCHANGED <<held, reply, parms, told, drained, asked, deadline, sock, peer, out, seen>>

\* Mutant: the flag is not looked at again under the lock.
M_setReadDeadline ==
    /\ pc \in {"lockPreface", "lock"}
    /\ IF sock = "closed" THEN pc' = "over" /\ err' = "transport" /\ UNCHANGED deadline
       ELSE /\ deadline' = armed.left
            /\ pc' = IF pc = "lock" THEN "read" ELSE "readPreface"
            /\ UNCHANGED err
    /\ UNCHANGED <<armed, deadlineKind, held, reply, parms, told, drained, asked, sock, peer, out, seen, waited>>

\* The part of setReadDeadline under deadlineMu.
setReadDeadline ==
    /\ pc \in {"lockPreface", "lock"}
    /\ IF sock = "closed" THEN pc' = "over" /\ err' = "transport" /\ UNCHANGED deadline
       ELSE /\ deadline' = IF quit THEN 0 ELSE armed.left
            /\ pc' = IF pc = "lock" THEN "read" ELSE "readPreface"
            /\ UNCHANGED err
    /\ UNCHANGED <<armed, deadlineKind, held, reply, parms, told, drained, asked, sock, peer, out, seen, waited>>

Reading == pc \in {"read", "readPreface"}

\* readError for an expired deadline
Expired == IF quit THEN "shuttingDown"
           ELSE CASE deadlineKind = "settingsAck" -> "settingsTimeout"
                  [] deadlineKind = "preface" -> "prefaceTimeout"
                  [] OTHER -> "idle"

\* A read that fails: the socket was closed under it, its deadline has passed
\* (whatever the receive buffer holds), or the peer has gone: between two frames,
\* or within one.
ReadFails ==
    /\ Reading
    /\ \/ sock = "closed" /\ err' = "transport"
       \/ sock = "open" /\ deadline = 0 /\ err' = Expired
       \/ sock = "open" /\ deadline # 0 /\ eof /\ inbox = <<>> /\ err' \in {"peerClosed", "transport"}
    /\ pc' = "over"
    /\ UNCHANGED <<armed, deadlineKind, held, reply, parms, told, drained, asked, deadline, sock, peer, out, seen, waited>>

\* The preface, or something else in its place; the clock for the
\* acknowledgement starts.
ReadPreface ==
    /\ pc = "readPreface" /\ sock = "open" /\ deadline # 0 /\ inbox # <<>>
    /\ inbox' = Tail(inbox)
    /\ IF Head(inbox).type = "preface"
       THEN pc' = "loop" /\ ackDue' = SettingsAck /\ UNCHANGED err
       ELSE pc' = "over" /\ err' = "connError" /\ UNCHANGED ackDue
    /\ UNCHANGED <<armed, deadlineKind, held, reply, gotSettings, settingsApplied, peerNoRFC7540Priorities,
                   lastStreamID, told, drained, asked, deadline, sock, eof, sent, out, seen, waited>>

\* ReadFrame: the parsers' errors leave the loop, whatever their scope.
ReadFrame ==
    /\ pc = "read" /\ sock = "open" /\ deadline # 0 /\ inbox # <<>>
    /\ inbox' = Tail(inbox)
    /\ CASE Head(inbox).type \in {"unparsable", "preface"} ->
                pc' = "over" /\ err' = "connError" /\ UNCHANGED held
         [] Head(inbox).type = "badPriority" ->
                pc' = "over" /\ err' = "streamError" /\ UNCHANGED held
         [] OTHER -> pc' = "dispatch" /\ held' = Head(inbox) /\ UNCHANGED err
    /\ UNCHANGED <<armed, deadlineKind, reply, parms, told, drained, asked, deadline, sock, eof, sent,
                   out, seen, waited>>

-----------------------------------------------------------------------------
(* dispatch *)

Fails(e) == pc' = "over" /\ err' = e /\ UNCHANGED reply
Answers(f) == pc' = "reply" /\ reply' = f /\ UNCHANGED err
Absorbs == pc' = "loop" /\ UNCHANGED <<reply, err>>

\* applySetting for every parameter of the frame held
Applies == held.arg \in {0, 1} /\ (settingsApplied => (held.arg = 1) = peerNoRFC7540Priorities)

handleSettings ==
    IF held.type = "ack"
    THEN /\ ackDue' = Off /\ Absorbs
         /\ UNCHANGED <<settingsApplied, peerNoRFC7540Priorities, applied>>
    ELSE IF Applies
    THEN /\ peerNoRFC7540Priorities' = (held.arg = 1)
         /\ settingsApplied' = TRUE
         /\ applied' = applied + 1
         /\ Answers(Out("ack"))
         /\ UNCHANGED ackDue
    ELSE Fails("connError") /\ UNCHANGED <<ackDue, settingsApplied, peerNoRFC7540Priorities, applied>>

\* The stream layer's verdict is in the frame's type: accepted, a stream error,
\* or a connection error.
handleStreamFrame ==
    /\ handled' = handled \cup {held.arg}
    /\ lastStreamID' = IF held.arg > lastStreamID THEN held.arg ELSE lastStreamID
    /\ CASE held.type = "stream" -> Absorbs
         [] held.type = "badStream" -> Answers([type |-> "rst", arg |-> held.arg])
         [] OTHER -> Fails("connError")

\* "ignored" stands for a PING acknowledgement, a PRIORITY_UPDATE and a
\* connection-level WINDOW_UPDATE that changes nothing here; "illegal" with no
\* stream for PUSH_PROMISE and a connection-level update that overflows.
dispatch ==
    /\ pc = "dispatch"
    /\ gotSettings' = (gotSettings \/ held.type \in {"settings", "ack"})
    /\ IF ~gotSettings'
       THEN Fails("connError") /\ UNCHANGED <<ackDue, settingsApplied, peerNoRFC7540Priorities, lastStreamID, seen>>
       ELSE CASE held.type \in {"settings", "ack"} ->
                     handleSettings /\ UNCHANGED <<lastStreamID, handled>>
              [] held.type \in {"stream", "badStream", "illegal"} /\ held.arg # 0 ->
                     handleStreamFrame /\ UNCHANGED <<ackDue, settingsApplied, peerNoRFC7540Priorities, applied>>
              [] OTHER ->
                     /\ CASE held.type = "ping" -> Answers(Out("pong"))
                          [] held.type = "goaway" -> Fails("peerGoAway")
                          [] held.type = "illegal" -> Fails("connError")
                          [] OTHER -> Absorbs
                     /\ UNCHANGED <<ackDue, settingsApplied, peerNoRFC7540Priorities, lastStreamID, seen>>
    /\ held' = NoFrame
    /\ UNCHANGED <<armed, deadlineKind, told, drained, asked, deadline, sock, peer, out, waited>>

\* A panic under HandleFrame: Serve's deferred calls run, then runConn's recovery
\* stops the writer.
Panic ==
    /\ pc = "dispatch" /\ gotSettings /\ held.type \in {"stream", "badStream"}
    /\ handled' = handled \cup {held.arg}
    /\ lastStreamID' = IF held.arg > lastStreamID THEN held.arg ELSE lastStreamID
    /\ err' = "panicked" /\ told' = "panicked"
    /\ sock' = "closed"
    /\ writer' = IF writer = "gone" THEN writer ELSE "cut"
    /\ pc' = "recovered"
    /\ UNCHANGED <<armed, deadlineKind, held, reply, ackDue, gotSettings, settingsApplied, peerNoRFC7540Priorities,
                   drained, asked, deadline, peer, queue, wire, writeFailed, applied, waited>>

\* runConn waits for the writer.
Recovered ==
    /\ pc = "recovered" /\ writer = "gone"
    /\ pc' = "closed"
    /\ UNCHANGED <<armed, deadlineKind, held, reply, parms, ending, asked, deadline, sock, peer, out, seen, waited>>

\* Enqueue from the reader: it waits while the queue is full.
Reply ==
    /\ pc = "reply"
    /\ IF writer # "runs" THEN pc' = "over" /\ err' = "transport" /\ UNCHANGED queue
       ELSE /\ Len(queue) < QueueDepth
            /\ queue' = Append(queue, reply) /\ pc' = "loop" /\ UNCHANGED err
    /\ reply' = NoFrame
    /\ UNCHANGED <<armed, deadlineKind, held, parms, told, drained, asked, deadline, sock, peer,
                   writer, wire, writeFailed, seen, waited>>

-----------------------------------------------------------------------------
(* Serve, once run has returned. *)

Farewells == {"peerGoAway", "idle", "shuttingDown", "connError", "settingsTimeout", "prefaceTimeout"}

\* Mutant: the writer is cut off once the GOAWAY is queued.
M_farewell ==
    /\ pc = "over" /\ err \in Farewells
    /\ IF writer # "runs" THEN UNCHANGED <<queue, writer>>
       ELSE /\ Len(queue) < QueueDepth
            /\ queue' = Append(queue, [type |-> "goaway", arg |-> lastStreamID])
            /\ writer' = "cut"
    /\ pc' = "wait"
    /\ UNCHANGED <<armed, deadlineKind, held, reply, parms, ending, asked, deadline, sock, peer, wire,
                   writeFailed, seen, waited>>

\* Mutant: the writer is not asked to stop.
M_farewellWithoutStop ==
    /\ pc = "over" /\ err \in Farewells
    /\ IF writer # "runs" THEN UNCHANGED queue
       ELSE /\ Len(queue) < QueueDepth
            /\ queue' = Append(queue, [type |-> "goaway", arg |-> lastStreamID])
    /\ pc' = "wait"
    /\ UNCHANGED <<armed, deadlineKind, held, reply, parms, ending, asked, deadline, sock, peer, writer, wire,
                   writeFailed, seen, waited>>

\* The final GOAWAY, then Shutdown of the writer.
farewell ==
    /\ pc = "over" /\ err \in Farewells
    /\ IF writer # "runs" THEN UNCHANGED <<queue, writer>>
       ELSE /\ Len(queue) < QueueDepth
            /\ queue' = Append(queue, [type |-> "goaway", arg |-> lastStreamID])
            /\ writer' = "drains"
    /\ pc' = "wait"
    /\ UNCHANGED <<armed, deadlineKind, held, reply, parms, ending, asked, deadline, sock, peer, wire,
                   writeFailed, seen, waited>>

\* Without a GOAWAY: a peer that has gone is still sent what is queued, a broken
\* socket is not.
LeaveSilently ==
    /\ pc = "over" /\ err \notin Farewells
    /\ writer' = IF writer = "gone" THEN writer
                 ELSE IF err = "peerClosed" THEN "drains" ELSE "cut"
    /\ pc' = "wait"
    /\ UNCHANGED <<armed, deadlineKind, held, reply, parms, ending, asked, deadline, sock, peer, queue, wire,
                   writeFailed, seen, waited>>

\* The writer is waited for; gracefulClose half-closes, where the socket still can,
\* and arms its own deadline.
Wait ==
    /\ pc = "wait" /\ writer = "gone"
    /\ \/ /\ err \in Farewells /\ sock = "open"
          /\ pc' = "drain" /\ deadline' = DrainGrace /\ waited' = 0
       \/ /\ err \notin Farewells \/ sock = "closed" \/ writeFailed
          /\ pc' = "tell" /\ UNCHANGED <<deadline, waited>>
    /\ UNCHANGED <<armed, deadlineKind, held, reply, parms, ending, asked, sock, peer, out, seen>>

\* gracefulClose's reads
Drain ==
    /\ pc = "drain"
    /\ \/ /\ sock = "open" /\ deadline # 0 /\ inbox # <<>>
          /\ inbox' = Tail(inbox) /\ UNCHANGED <<pc, drained>>
       \/ /\ sock = "closed" \/ (inbox = <<>> /\ eof)
          /\ pc' = "tell" /\ drained' = "gone" /\ UNCHANGED inbox
       \/ /\ sock = "open" /\ deadline = 0
          /\ pc' = "tell" /\ drained' = "expired" /\ UNCHANGED inbox
    /\ UNCHANGED <<armed, deadlineKind, held, reply, parms, err, told, asked, deadline, sock, eof, sent,
                   out, seen, waited>>

\* Mutant: the endings Serve does not report are not reported to the handler either.
M_Tell ==
    /\ pc = "tell"
    /\ told' = IF err \in {"peerClosed", "peerGoAway", "idle", "shuttingDown"} THEN "nil" ELSE err
    /\ sock' = "closed"
    /\ pc' = "closed"
    /\ UNCHANGED <<armed, deadlineKind, held, reply, parms, err, drained, asked, deadline, peer, out, seen, waited>>

\* Serve's deferred calls: handler.Close(ended), then the socket.
Tell ==
    /\ pc = "tell"
    /\ told' = err
    /\ sock' = "closed"
    /\ pc' = "closed"
    /\ UNCHANGED <<armed, deadlineKind, held, reply, parms, err, drained, asked, deadline, peer, out, seen, waited>>

-----------------------------------------------------------------------------
(* Other goroutines. *)

\* conn.Shutdown: the flag, then, under deadlineMu, the deadline.
Shutdown ==
    /\ \/ shutdown = "before" /\ quit' = TRUE /\ shutdown' = "between" /\ UNCHANGED deadline
       \/ shutdown = "between" /\ shutdown' = "after" /\ UNCHANGED quit
          /\ deadline' = (IF sock = "open" THEN 0 ELSE deadline)
    /\ UNCHANGED <<loop, parms, ending, sock, peer, out, seen, waited>>

\* conn.Close, which the server calls when the grace has expired.
Close ==
    /\ sock = "open" /\ sock' = "closed"
    /\ UNCHANGED <<loop, parms, ending, asked, deadline, peer, out, seen, waited>>

\* The writer goroutine: one write, which fails on a closed socket or when the
\* peer reads nothing for as long as the write deadline; or its end.
WriterStep ==
    /\ \/ /\ writer \in {"runs", "drains"} /\ queue # <<>> /\ sock = "open"
          /\ wire' = Append(wire, Head(queue)) /\ queue' = Tail(queue)
          /\ UNCHANGED <<writer, writeFailed>>
       \/ /\ writer \in {"runs", "drains"} /\ queue # <<>>
          /\ writer' = "gone" /\ writeFailed' = TRUE
          /\ UNCHANGED <<queue, wire>>
       \/ /\ (writer = "drains" /\ queue = <<>>) \/ writer = "cut"
          /\ writer' = "gone"
          /\ UNCHANGED <<queue, wire, writeFailed>>
    /\ UNCHANGED <<loop, parms, ending, asked, deadline, sock, peer, seen, waited>>

Send(f) == inbox' = Append(inbox, f) /\ sent' = sent + 1

\* The peer sends its preface, then frames, or closes its half.
PeerSends ==
    /\ ~eof /\ sock = "open" /\ sent < MaxFrames /\ Len(inbox) < MaxInbox
    /\ \/ sent = 0 /\ Send(Out("preface")) /\ UNCHANGED eof
       \/ \E f \in Frames : Send(f) /\ UNCHANGED eof
       \/ eof' = TRUE /\ UNCHANGED <<inbox, sent>>
    /\ UNCHANGED <<loop, parms, ending, asked, deadline, sock, out, seen, waited>>

Less(n) == IF n > 0 THEN n - 1 ELSE n

Tick ==
    /\ pc # "closed"
    /\ deadline' = Less(deadline)
    /\ ackDue' = Less(ackDue)
    /\ armed' = [armed EXCEPT !.left = Less(@)]
    /\ waited' = IF waited < Longest THEN waited + 1 ELSE waited
    /\ UNCHANGED <<pc, deadlineKind, held, reply, gotSettings, settingsApplied, peerNoRFC7540Priorities,
                   lastStreamID, ending, asked, sock, peer, out, seen>>

Reader ==
    \/ BeginHandshake \/ Handshake \/ ClearDeadline \/ Discard
    \/ First \/ Arm \/ setReadDeadline \/ ReadFails \/ ReadPreface \/ ReadFrame
    \/ dispatch \/ Panic \/ Recovered \/ Reply
    \/ farewell \/ LeaveSilently \/ Wait \/ Drain \/ Tell

Next == Reader \/ Shutdown \/ Close \/ WriterStep \/ PeerSends \/ Tick

Spec == Init /\ [][Next]_vars

\* The Go scheduler runs every goroutine that can run, a write deadline ends every
\* write, and time passes.  Nothing is asked of the peer.
FairSpec == Spec /\ WF_vars(Reader) /\ WF_vars(WriterStep) /\ WF_vars(Tick)

-----------------------------------------------------------------------------
TypeOK ==
    /\ err \in Farewells \cup {"nil", "peerClosed", "transport", "streamError", "panicked"}
    /\ told \in {"nil", err}
    /\ (pc = "dispatch") = (held # NoFrame) \/ pc \in {"recovered", "closed"}
    /\ (pc = "reply") = (reply # NoFrame)
    /\ deadline \in Off .. Longest /\ ackDue \in Off .. SettingsAck
    /\ armed.left \in 0 .. Longest
    /\ writer \in {"runs", "drains", "cut", "gone"}
    /\ Len(queue) <= QueueDepth
    /\ lastStreamID \in Nat

(***************************************************************************)
(* A shutdown is never slept through: once conn.Shutdown has returned, a   *)
(* read loop waiting on the socket waits under an expired deadline         *)
(* (conn.go:698, "a shutdown that returns in a minute instead of at        *)
(* once").                                                                 *)
(***************************************************************************)
InterruptStands == shutdown = "after" /\ Reading /\ sock = "open" => deadline = 0

(***************************************************************************)
(* The peer is blamed only for its own silence: each timeout was waited    *)
(* out in full, however the deadline of the read was moved (conn.go:859).  *)
(***************************************************************************)
TimeoutsAreTrue == pc = "over" =>
    /\ err = "idle" => waited >= Idle
    /\ err = "prefaceTimeout" => waited >= Preface
    /\ err = "settingsTimeout" => ackDue = 0

(***************************************************************************)
(* The read deadline is right whoever moved it last: a shutdown is heard at*)
(* once, and a peer is cut off for its own silence only (conn.go:698,      *)
(* conn.go:859).                                                           *)
(***************************************************************************)
DeadlinesAreTrue == TypeOK /\ InterruptStands /\ TimeoutsAreTrue

(***************************************************************************)
(* GOAWAY's promise: every stream the server may have acted on is at or    *)
(* below the identifier it carries, also the stream whose frame ended the  *)
(* connection (conn.go:338).                                               *)
(***************************************************************************)
GoAwayCovers ==
    \A i \in 1 .. Len(wire) : wire[i].type = "goaway" => \A id \in handled : id <= wire[i].arg

(***************************************************************************)
(* The first frame the peer sees is our SETTINGS (RFC 9113 section 3.4),   *)
(* however early the connection ends, and it is told goodbye at most once. *)
(***************************************************************************)
SettingsFirst ==
    /\ \A i \in 1 .. Len(wire) : wire[i].type = "settings" <=> i = 1
    /\ Cardinality({i \in 1 .. Len(wire) : wire[i].type = "goaway"}) <= 1

(***************************************************************************)
(* A connection that could write leaves nothing unsaid: every SETTINGS     *)
(* frame it put into force is acknowledged, every frame it queued is sent, *)
(* and every ending that owes a GOAWAY has sent it, although the writer is *)
(* another goroutine and the socket is closed right after (conn.go:505).   *)
(***************************************************************************)
NothingUnsaid ==
    pc = "closed" /\ err \in Farewells \cup {"peerClosed"} /\ ~writeFailed =>
        /\ queue = <<>>
        /\ Cardinality({i \in 1 .. Len(wire) : wire[i].type = "ack"}) = applied
        /\ err \in Farewells => \E i \in 1 .. Len(wire) : wire[i].type = "goaway"

(***************************************************************************)
(* What HTTP/2 has a server say is said, once and in its place: SETTINGS   *)
(* first, the acknowledgements, GOAWAY last and true.                      *)
(***************************************************************************)
SaysWhatItMust == SettingsFirst /\ NothingUnsaid /\ GoAwayCovers

(***************************************************************************)
(* Whoever parked for something the connection can no longer produce is    *)
(* told a reason, on every path out of Serve, a panic included, and with   *)
(* the writer already stopped unless it was a panic (conn.go:463).         *)
(***************************************************************************)
HandlersAreTold ==
    /\ pc = "closed" => writer = "gone" /\ sock = "closed"
    /\ pc = "closed" => told = err
    /\ told \notin {"nil", "panicked"} => writer = "gone"

(***************************************************************************)
(* A connection asked to stop is over in the end, whatever the peer does   *)
(* (conn.go:687).                                                          *)
(***************************************************************************)
ShutdownEnds == (shutdown = "after") ~> (pc = "closed")

(***************************************************************************)
(* What the source says and the code does not do. Each is refuted under    *)
(* Conn.cfg in the place of its properties.                                *)
(***************************************************************************)
\* conn.go:788: a stream error "takes one stream down and leaves the connection
\* serving the others".
StreamErrorsSpareTheConnection == err # "streamError"

\* conn.go:352: deadlineMu "orders the read deadline's two writers".  The handshake
\* is a third.
NoReadOutlastsShutdown ==
    shutdown = "after" /\ (Reading \/ pc = "handshake") /\ sock = "open" => deadline = 0

\* conn.go:601: "nothing else touches the socket while it works".
DrainIsUndisturbed == drained = "expired" => waited >= DrainGrace
=============================================================================
