---------------------------- MODULE FrameWriter ----------------------------
(***************************************************************************)
(* The write half of one connection: internal/server/writer.go over        *)
(* internal/frame/writer.go.                                               *)
(*                                                                         *)
(* Any number of goroutines Enqueue frames, one for each lane here; the    *)
(* writer goroutine takes them from the scheduler, gathers a burst and     *)
(* writes it.  One mutex and one condition variable serve them all.  The   *)
(* scheduler is Outbox: what holds here holds for every order in which the *)
(* real one may hand the frames out.                                       *)
(***************************************************************************)
EXTENDS Outbox, FiniteSets, SequencesExt, FiniteSetsExt

CONSTANTS
    Script,     \* what each lane's goroutine sends: kind, end, and whether
                \* it fills a frame
    Depth,      \* defaultQueueDepth
    HighWater,  \* coalesceHighWater, in frames
    Caps        \* SETTINGS_MAX_FRAME_SIZE values the peer may announce

DefaultCap == 1

BlockKinds == {"headers", "continuation"}

\* Frame i of s leaves a field block open.
Opens(s, i) == i \in DOMAIN s /\ s[i].kind \in BlockKinds /\ ~s[i].end

\* Scripts hold whole field blocks: that is all writeSection cuts.
ASSUME WriterAssumption ==
    /\ Lanes \subseteq Nat /\ IsFiniteSet(Lanes)
    /\ Script \in [Lanes -> Seq([kind : {"data", "control"} \cup BlockKinds,
                                 end : BOOLEAN, full : BOOLEAN])]
    /\ \A id \in Lanes : \A i \in 1 .. Len(Script[id]) + 1 :
        Opens(Script[id], i - 1) <=> i \in DOMAIN Script[id] /\ Script[id][i].kind = "continuation"
    /\ Depth \in Nat \ {0} /\ HighWater \in Nat \ {0}
    /\ Caps \subseteq Nat \ {0}

VARIABLES
    cap,           \* frame.Writer.maxFrameSize
    sent,          \* frames of its script each goroutine has built
    hand,          \* the frame each is enqueueing
    caller,        \* where each is in Enqueue
    writer,        \* where the writer goroutine is
    burst,         \* frame.Writer.buf
    wire,          \* frames that have reached the socket whole
    err,           \* frameWriter.err
    stopGraceful,  \* frameWriter.stopGraceful
    stopAbrupt,    \* frameWriter.stopAbrupt
    gone,          \* frameWriter.gone
    unannounced    \* a stop flag is set and its Broadcast is still to come

outbox == <<queue, mid, out>>
callers == <<sent, hand, caller>>
stops == <<stopGraceful, stopAbrupt, gone, unannounced>>
vars == <<outbox, cap, callers, writer, burst, wire, err, stops>>

NoErr == "nil"

Init ==
    /\ OutboxInit
    /\ cap = DefaultCap
    /\ sent = [id \in Lanes |-> 0]
    /\ hand = [id \in Lanes |-> NoFrame]
    /\ caller = [id \in Lanes |-> "idle"]
    /\ writer = "awaiting"
    /\ burst = <<>>
    /\ wire = <<>>
    /\ err = NoErr
    /\ stopGraceful = FALSE /\ stopAbrupt = FALSE
    /\ gone = FALSE
    /\ unannounced = FALSE

Awake(who) == IF who = "parked" THEN "running" ELSE who

\* Mutant: cond.Signal() wakes one waiter, whichever it is.
M_Broadcast(calling, writing) ==
    \/ \E id \in Lanes : /\ calling[id] = "parked"
                         /\ caller' = [calling EXCEPT ![id] = "running"]
                         /\ writer' = writing
    \/ /\ \A id \in Lanes : writing = "parked" \/ calling[id] # "parked"
       /\ caller' = calling
       /\ writer' = IF writing = "parked" THEN "awaiting" ELSE writing

\* cond.Broadcast(), by a goroutine that leaves the callers and the writer where
\* calling and writing say.
Broadcast(calling, writing) ==
    /\ caller' = [id \in Lanes |-> Awake(calling[id])]
    /\ writer' = IF writing = "parked" THEN "awaiting" ELSE writing

(***************************************************************************)
(* The goroutines that send.                                               *)
(***************************************************************************)
\* The goroutine holds Encoder.mu: it has begun a field block and not enqueued the last
\* frame of it, nor been refused. (Single frames hold it too, which nothing here needs.)
Encoding(id) ==
    /\ caller[id] # "refused"
    /\ sent[id] > 0
    /\ LET s == Script[id][sent[id]] IN
        s.kind \in BlockKinds /\ (s.end => caller[id] # "idle")

\* The response layer cuts content to the peer's frame size as it reads it, and a field
\* block under the encoder's lock.
Build(id) ==
    /\ caller[id] = "idle"
    /\ sent[id] < Len(Script[id])
    /\ Script[id][sent[id] + 1].kind = "headers" => \A other \in Lanes : ~Encoding(other)
    /\ LET s == Script[id][sent[id] + 1] IN
       hand' = [hand EXCEPT ![id] =
            [no |-> sent[id] + 1, id |-> id, kind |-> s.kind, end |-> s.end,
             size |-> IF s.full THEN cap ELSE DefaultCap]]
    /\ sent' = [sent EXCEPT ![id] = @ + 1]
    /\ caller' = [caller EXCEPT ![id] = "running"]
    /\ UNCHANGED <<outbox, cap, writer, burst, wire, err, stops>>

admits(f) == ContinuesBlock(f) \/ Length < Depth

stopped == gone \/ stopGraceful \/ stopAbrupt

Enqueue(id) ==
    /\ caller[id] = "running"
    /\ IF stopped
       THEN /\ caller' = [caller EXCEPT ![id] = "refused"]
            /\ UNCHANGED <<outbox, writer>>
       ELSE IF admits(hand[id])
       THEN /\ Put(hand[id])
            /\ Broadcast([caller EXCEPT ![id] = "idle"], writer)
       ELSE /\ caller' = [caller EXCEPT ![id] = "parked"]
            /\ UNCHANGED <<outbox, writer>>
    /\ UNCHANGED <<cap, sent, hand, burst, wire, err, stops>>

(***************************************************************************)
(* The reader goroutine and whoever ends the connection.                   *)
(***************************************************************************)
SetMaxFrameSize(size) ==
    /\ cap # size
    /\ cap' = size
    /\ UNCHANGED <<outbox, callers, writer, burst, wire, err, stops>>

\* Shutdown and Close set their flag under the mutex and broadcast after it.
Shutdown ==
    /\ ~stopGraceful
    /\ stopGraceful' = TRUE
    /\ unannounced' = TRUE
    /\ UNCHANGED <<outbox, cap, callers, writer, burst, wire, err, stopAbrupt, gone>>

Close ==
    /\ ~stopAbrupt
    /\ stopAbrupt' = TRUE
    /\ unannounced' = TRUE
    /\ UNCHANGED <<outbox, cap, callers, writer, burst, wire, err, stopGraceful, gone>>

Announce ==
    /\ unannounced
    /\ unannounced' = FALSE
    /\ Broadcast(caller, writer)
    /\ UNCHANGED <<outbox, cap, sent, hand, burst, wire, err, stopGraceful, stopAbrupt,
                   gone>>

(***************************************************************************)
(* The writer goroutine.                                                   *)
(***************************************************************************)
Pop(next) == \E id \in Lanes : Get(id) /\ Broadcast(caller, next)
Empty == \A id \in Lanes : ~Ready(id)

\* await: abrupt stop, then the queue, then graceful stop.
await ==
    /\ writer = "awaiting"
    /\ IF stopAbrupt THEN writer' = "stopping" /\ UNCHANGED <<outbox, caller>>
       ELSE IF ~Empty THEN Pop("buffering")
       ELSE /\ writer' = IF stopGraceful THEN "stopping" ELSE "parked"
            /\ UNCHANGED <<outbox, caller>>
    /\ UNCHANGED <<cap, sent, hand, burst, wire, err, stops>>

\* frame.Writer.Queue: a frame over the peer's limit is refused, and the frames
\* buffered ahead of it are lost with it.
Queue ==
    /\ writer = "buffering"
    /\ IF out.size > cap
       THEN err' = "oversize" /\ writer' = "stopping" /\ UNCHANGED burst
       ELSE burst' = Append(burst, out) /\ writer' = "taking" /\ UNCHANGED err
    /\ UNCHANGED <<outbox, cap, callers, wire, stops>>

\* Mutant: a full buffer ends the burst.
M_mayTake == Len(burst) < HighWater

\* A burst goes on below the high water, and to the end of a field block.
mayTake == Len(burst) < HighWater \/ mid # NoStream

takeIf ==
    /\ writer = "taking"
    /\ IF mayTake /\ ~Empty THEN Pop("buffering")
       ELSE writer' = "flushing" /\ UNCHANGED <<outbox, caller>>
    /\ UNCHANGED <<cap, sent, hand, burst, wire, err, stops>>

Flush ==
    /\ writer = "flushing"
    /\ wire' = wire \o burst
    /\ burst' = <<>>
    /\ writer' = "awaiting"
    /\ UNCHANGED <<outbox, cap, callers, err, stops>>

\* Mutant: a failed write is not latched, and the next burst follows it.
M_FlushFails ==
    /\ writer = "flushing"
    /\ \E n \in 0 .. Len(burst) : wire' = wire \o SubSeq(burst, 1, n)
    /\ err' = "write"
    /\ burst' = <<>>
    /\ writer' = "awaiting"
    /\ UNCHANGED <<outbox, cap, callers, stops>>

\* The peer has gone, or has not read for as long as the write deadline. Any part of the
\* burst may have reached it: the whole frames of that part are on the wire.
FlushFails ==
    /\ writer = "flushing"
    /\ \E n \in 0 .. Len(burst) : wire' = wire \o SubSeq(burst, 1, n)
    /\ err' = "write"
    /\ burst' = <<>>
    /\ writer' = "stopping"
    /\ UNCHANGED <<outbox, cap, callers, stops>>

\* Mutant: the flag the callers wake to read is not set.
M_stop ==
    /\ writer = "stopping"
    /\ Broadcast(caller, "gone")
    /\ UNCHANGED <<outbox, cap, sent, hand, burst, wire, err, stops>>

stop ==
    /\ writer = "stopping"
    /\ gone' = TRUE
    /\ Broadcast(caller, "gone")
    /\ UNCHANGED <<outbox, cap, sent, hand, burst, wire, err, stopGraceful, stopAbrupt,
                   unannounced>>

run == await \/ Queue \/ takeIf \/ Flush \/ FlushFails \/ stop

Next ==
    \/ \E id \in Lanes : Build(id) \/ Enqueue(id)
    \/ \E size \in Caps : SetMaxFrameSize(size)
    \/ Shutdown \/ Close \/ Announce
    \/ run

Spec == Init /\ [][Next]_vars

(***************************************************************************)
(* Fairness: goroutines that can run do, a Broadcast that follows an       *)
(* unlock is reached, and a socket write ends, one way or the other, by    *)
(* its deadline.                                                           *)
(***************************************************************************)
Fairness ==
    /\ WF_vars(run)
    /\ WF_vars(Announce)
    /\ \A id \in Lanes : WF_vars(Enqueue(id))

FairSpec == Spec /\ Fairness

-----------------------------------------------------------------------------
TypeOK ==
    /\ cap \in Caps \cup {DefaultCap}
    /\ \A id \in Lanes : sent[id] \in 0 .. Len(Script[id])
    /\ caller \in [Lanes -> {"idle", "running", "parked", "refused"}]
    /\ writer \in {"awaiting", "parked", "buffering", "taking", "flushing", "stopping",
                   "gone"}
    /\ err \in {NoErr, "oversize", "write"}
    /\ gone = (writer = "gone")
    /\ mid \in Lanes \cup {NoStream}

(***************************************************************************)
(* A stop that is graceful and meets no error writes every frame that was  *)
(* accepted, but for a field block whose end never came (writer.go:289,    *)
(* "This is how a GOAWAY reaches the peer").                               *)
(***************************************************************************)
GracefulStopDrains ==
    gone /\ err = NoErr /\ ~stopAbrupt => Empty /\ burst = <<>>

(***************************************************************************)
(* What has been written ends inside a field block only where a write has  *)
(* failed, for a burst ends with a whole block: an abrupt stop leaves the  *)
(* peer with no half of one (writer.go:400). After a failed write, of      *)
(* which nobody knows how much arrived, nothing is sent that would land in *)
(* the middle of what did (frame/writer.go:177).                           *)
(***************************************************************************)
WireEndsWhole ==
    /\ wire # <<>> /\ ~EndsItem(wire[Len(wire)]) => err = "write"
    /\ err = "write" => writer \in {"stopping", "gone"}

(***************************************************************************)
(* However the writer stops, the peer has whole blocks, but for those that *)
(* a failed write has cut, and after a graceful stop that met no error all *)
(* of them (writer.go:289, writer.go:400).                                 *)
(***************************************************************************)
StopsEndWhole == GracefulStopDrains /\ WireEndsWhole

Blocks(id) == {i \in DOMAIN Script[id] : Script[id][i].kind \in BlockKinds}

(***************************************************************************)
(* The memory a peer that does not read can make the server hold: the      *)
(* depth, and the one field block that was open when it was reached        *)
(* (writer.go:34, scheduler.go:73).                                        *)
(***************************************************************************)
QueueIsBounded ==
    Length <= Depth \/ \E id \in Lanes : Length <= Depth + Cardinality(Blocks(id))

(***************************************************************************)
(* Every waiting goroutine has somebody to wake it: a caller parks only on *)
(* a full queue of a writer that is neither asleep nor gone, and the       *)
(* writer sleeps only with nothing to write; a stop flag reaches either    *)
(* through the Broadcast that is on its way (writer.go:107).               *)
(***************************************************************************)
NobodySleepsThroughWork ==
    /\ \A id \in Lanes : caller[id] = "parked" =>
            /\ Length >= Depth /\ writer \notin {"parked", "gone"}
            /\ stopGraceful \/ stopAbrupt => unannounced
    /\ writer = "parked" => Empty /\ (stopGraceful \/ stopAbrupt => unannounced)

(***************************************************************************)
(* Nobody gets past the condition variable who should wait, and nobody waits*)
(* at it who should not.                                                   *)
(***************************************************************************)
WaitsAreRight == TypeOK /\ QueueIsBounded /\ NobodySleepsThroughWork

(***************************************************************************)
(* Enqueue returns: with the frame accepted or with an error, whatever the *)
(* peer and the end of the connection do (writer.go:190).                  *)
(***************************************************************************)
EnqueueReturns ==
    \A id \in Lanes : caller[id] \in {"running", "parked"} ~> caller[id] \in {"idle", "refused"}

(***************************************************************************)
(* What the source says and the code does not do. Each is refuted under    *)
(* FrameWriter.cfg in the place of its properties.                         *)
(***************************************************************************)
\* server/writer.go:178: "a response split at the old cap is still legal".
OldCapIsStillLegal == err # "oversize"
=============================================================================
