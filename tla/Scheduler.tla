----------------------------- MODULE Scheduler -----------------------------
(***************************************************************************)
(* The order of the frames on one connection: internal/server/scheduler.go.*)
(*                                                                         *)
(* The frame writer calls every method under its mutex, so a method is one *)
(* action.  What it is given are the frames of responses, in the order the *)
(* response layer produces them (internal/response/encoder.go), the        *)
(* control frames of other goroutines, the peer's priority signals, and    *)
(* the stream table's Forget.                                              *)
(*                                                                         *)
(* A frame carries the number of its Push, which is its identity here.     *)
(***************************************************************************)
EXTENDS Integers, Sequences, FiniteSets, SequencesExt, FiniteSetsExt

CONSTANTS
    Ids,          \* streams with a response
    Spanning,     \* streams whose field sections may take several frames
    Controlled,   \* streams, and 0, that control frames name
    Urgencies,    \* the bands: 0 .. 7 in the code
    Default,      \* Params of a stream nothing was said about
    Params,       \* Params the peer may signal
    MaxPushes,    \* bound: frames pushed
    MaxSignals    \* bound: priority signals

nonIncrementalTurn == 0

ASSUME SchedulerAssumption ==
    /\ Ids \subseteq Nat \ {nonIncrementalTurn} /\ IsFiniteSet(Ids)
    /\ Spanning \subseteq Ids
    /\ Controlled \subseteq Ids \cup {0}
    /\ Urgencies \subseteq Nat
    /\ Params \subseteq [urgency : Urgencies, inc : BOOLEAN]
    /\ Default \in [urgency : Urgencies, inc : BOOLEAN]
    /\ MaxPushes \in Nat

VARIABLES
    seq,        \* scheduler.seq
    lane,       \* scheduler.lane
    pinned,     \* scheduler.pinned
    runs,       \* scheduler.runs: the frames of each incomplete field block
    data,       \* scheduler.streams[id].data
    place,      \* scheduler.streams[id].band and .inc
    bands,      \* scheduler.bands
    prio,       \* scheduler.prio
    n,          \* scheduler.n
    blocked,    \* scheduler.blocked
    phase,      \* how far each stream's response has got
    forgotten,  \* streams the table has retired
    signals,    \* priority signals so far
    out,        \* history: the frame popped last
    skips       \* history: turns of its band each stream has waited through

producers == <<phase, forgotten, signals>>
vars == <<seq, lane, pinned, runs, data, place, bands, prio, n, blocked, producers,
          out, skips>>

NoFrame == [no |-> 0, id |-> 0, kind |-> "none", end |-> FALSE]
Waiting == {id \in Ids : data[id] # <<>>}

Init ==
    /\ seq = 0
    /\ lane = <<>>
    /\ pinned = <<>>
    /\ runs = [id \in Ids |-> <<>>]
    /\ data = [id \in Ids |-> <<>>]
    /\ place = [id \in Ids |-> Default]
    /\ bands = [u \in Urgencies |-> [ring |-> <<>>, nonInc |-> {}]]
    /\ prio = [id \in Ids |-> Default]
    /\ n = 0
    /\ blocked = 0
    /\ phase = [id \in Ids |-> "start"]
    /\ forgotten = {}
    /\ signals = 0
    /\ out = NoFrame
    /\ skips = [id \in Ids |-> 0]

(***************************************************************************)
(* One band's round robin.                                                 *)
(***************************************************************************)
rotate(r) == IF r = <<>> THEN r ELSE Append(Tail(r), Head(r))

\* The non-incremental streams of a band share one turn.
Enter(b, id, inc) ==
    IF inc THEN [b EXCEPT !.ring = Append(@, id)]
    ELSE [ring |-> IF b.nonInc = {} THEN Append(b.ring, nonIncrementalTurn) ELSE b.ring,
          nonInc |-> b.nonInc \cup {id}]

Leave(b, id, inc) ==
    IF inc THEN [b EXCEPT !.ring = RemoveFirst(@, id)]
    ELSE LET rest == b.nonInc \ {id} IN
         [ring |-> IF rest = {} THEN RemoveFirst(b.ring, nonIncrementalTurn) ELSE b.ring,
          nonInc |-> rest]

enter(bs, id, p) == [bs EXCEPT ![p.urgency] = Enter(@, id, p.inc)]
leave(bs, id, p) == [bs EXCEPT ![p.urgency] = Leave(@, id, p.inc)]

(***************************************************************************)
(* Push.                                                                   *)
(***************************************************************************)
Frame(id, kind, end) == [no |-> seq + 1, id |-> id, kind |-> kind, end |-> end]

Enters(id) == Len(data[id]) = 0

PushData(f) ==
    /\ data' = [data EXCEPT ![f.id] = Append(@, f)]
    /\ n' = n + 1
    /\ IF Enters(f.id)
       THEN /\ place' = [place EXCEPT ![f.id] = prio[f.id]]
            /\ bands' = enter(bands, f.id, prio[f.id])
       ELSE UNCHANGED <<place, bands>>
    /\ UNCHANGED <<lane, runs, blocked>>

\* What a completed block takes off the blocked count.
Released(run) == Len(run)

\* Any frame that is not DATA joins the stream's open block, if it has one.
PushOther(f) ==
    LET run == IF f.id \in Ids THEN runs[f.id] ELSE <<>>
        whole == Append(run, f)
        item == [frames |-> whole, stream |-> f.id, seq |-> whole[1].no]
        opens == f.kind = "headers" /\ ~f.end IN
    /\ IF (run # <<>> /\ ~f.end) \/ (run = <<>> /\ opens)
       THEN /\ runs' = [runs EXCEPT ![f.id] = whole]
            /\ blocked' = blocked + 1
            /\ UNCHANGED <<lane, n>>
       ELSE /\ lane' = Append(lane, item)
            /\ n' = n + Len(whole)
            /\ blocked' = blocked - (IF run = <<>> THEN 0 ELSE Released(run))
            /\ runs' = IF run = <<>> THEN runs ELSE [runs EXCEPT ![f.id] = <<>>]
    /\ UNCHANGED <<data, place, bands>>

Push(f) ==
    /\ seq < MaxPushes
    /\ seq' = seq + 1
    /\ IF f.kind = "data" THEN PushData(f) ELSE PushOther(f)
    /\ UNCHANGED <<pinned, prio, forgotten, signals, out, skips>>

(***************************************************************************)
(* Pop, one action per branch.                                             *)
(***************************************************************************)
\* take, and leave when it was the stream's last.
Take(id) ==
    /\ out' = Head(data[id])
    /\ data' = [data EXCEPT ![id] = Tail(@)]
    /\ n' = n - 1
    /\ UNCHANGED <<seq, lane, pinned, runs, place, prio, blocked, producers>>

PopPinned ==
    /\ pinned # <<>>
    /\ out' = Head(pinned)
    /\ pinned' = Tail(pinned)
    /\ n' = n - 1
    /\ UNCHANGED <<seq, lane, runs, data, place, bands, prio, blocked, producers, skips>>

\* Mutant: nothing goes ahead of the head of the lane.
M_Overdue == FALSE

\* The stream at the head of the lane has DATA that was pushed before it.
Overdue ==
    LET id == lane[1].stream IN
    id \in Ids /\ data[id] # <<>> /\ Head(data[id]).no < lane[1].seq

PopLane ==
    /\ pinned = <<>> /\ lane # <<>> /\ ~Overdue
    /\ out' = Head(lane[1].frames)
    /\ pinned' = Tail(lane[1].frames)
    /\ lane' = Tail(lane)
    /\ n' = n - 1
    /\ UNCHANGED <<seq, runs, data, place, bands, prio, blocked, producers, skips>>

outOfTurn ==
    /\ pinned = <<>> /\ lane # <<>> /\ Overdue
    /\ LET id == lane[1].stream IN
       /\ Take(id)
       /\ bands' = IF Len(data[id]) = 1 THEN leave(bands, id, place[id]) ELSE bands
       /\ skips' = [skips EXCEPT ![id] = 0]

\* Mutant: the least urgent band is served.
M_Band == Max({u \in Urgencies : bands[u].ring # <<>>})

\* The most urgent band with a participant, and the stream whose turn it is.
Band == Min({u \in Urgencies : bands[u].ring # <<>>})
Turn == Head(bands[Band].ring)
Served == IF Turn = nonIncrementalTurn THEN Min(bands[Band].nonInc) ELSE Turn

\* Mutant: the turn is not passed on.
M_Advanced(b, id) ==
    IF Len(data[id]) > 1 THEN b ELSE Leave(b, id, place[id].inc)

\* The turn passes on when its holder has more to send, and when the group has.
Advanced(b, id) ==
    IF Len(data[id]) > 1 THEN [b EXCEPT !.ring = rotate(@)]
    ELSE LET left == Leave(b, id, place[id].inc) IN
         IF Turn = nonIncrementalTurn /\ left.nonInc # {}
         THEN [left EXCEPT !.ring = rotate(@)] ELSE left

serve ==
    /\ pinned = <<>> /\ lane = <<>>
    /\ \E u \in Urgencies : bands[u].ring # <<>>
    /\ Take(Served)
    /\ bands' = [bands EXCEPT ![Band] = Advanced(@, Served)]
    /\ skips' = [id \in Ids |->
                    IF id = Served THEN 0
                    ELSE IF id \in Waiting /\ place[id].urgency = Band
                    THEN skips[id] + 1 ELSE skips[id]]

Pop == PopPinned \/ PopLane \/ outOfTurn \/ serve

(***************************************************************************)
(* Priorities.                                                             *)
(***************************************************************************)
\* Mutant: DATA that is waiting stays where it is.
M_SetPriority(id, p) ==
    /\ id \notin forgotten
    /\ signals < MaxSignals
    /\ signals' = signals + 1
    /\ prio' = [prio EXCEPT ![id] = p]
    /\ UNCHANGED <<seq, lane, pinned, runs, data, place, bands, n, blocked, phase,
                   forgotten, out, skips>>

\* A stream with DATA waiting moves to the back of its new band.
SetPriority(id, p) ==
    /\ id \notin forgotten
    /\ signals < MaxSignals
    /\ signals' = signals + 1
    /\ prio' = [prio EXCEPT ![id] = p]
    /\ IF id \in Waiting /\ place[id] # p
       THEN /\ place' = [place EXCEPT ![id] = p]
            /\ bands' = enter(leave(bands, id, place[id]), id, p)
            /\ skips' = [skips EXCEPT ![id] = 0]
       ELSE UNCHANGED <<place, bands, skips>>
    /\ UNCHANGED <<seq, lane, pinned, runs, data, n, blocked, phase, forgotten, out>>

Forget(id) ==
    /\ id \notin forgotten
    /\ prio' = [prio EXCEPT ![id] = Default]
    /\ forgotten' = forgotten \cup {id}
    /\ UNCHANGED <<seq, lane, pinned, runs, data, place, bands, n, blocked, phase,
                   signals, out, skips>>

(***************************************************************************)
(* The frames of a response: a header section, DATA, perhaps a trailer     *)
(* section.  The encoder enqueues a section under its mutex, so only one   *)
(* is open on the connection at a time.                                    *)
(***************************************************************************)
InSection(id) == phase[id] \in {"inHeaders", "inTrailers"}

Section(id, end) ==
    /\ phase[id] \in {"start", "content"}
    /\ \A j \in Ids : ~InSection(j)
    /\ end \/ id \in Spanning
    /\ Push(Frame(id, "headers", end))
    /\ phase' = [phase EXCEPT ![id] =
            IF @ = "start" THEN (IF end THEN "content" ELSE "inHeaders")
            ELSE (IF end THEN "over" ELSE "inTrailers")]

Continue(id, end) ==
    /\ InSection(id)
    /\ Push(Frame(id, "continuation", end))
    /\ phase' = [phase EXCEPT ![id] = IF ~end THEN @
                                      ELSE IF @ = "inHeaders" THEN "content" ELSE "over"]

Content(id) ==
    /\ phase[id] = "content"
    /\ Push(Frame(id, "data", FALSE))
    /\ UNCHANGED phase

\* SETTINGS, PING, GOAWAY, WINDOW_UPDATE, RST_STREAM: from any goroutine.
Control(id) ==
    /\ Push(Frame(id, "control", FALSE))
    /\ UNCHANGED phase

Next ==
    \/ \E id \in Ids :
        \/ \E end \in BOOLEAN : Section(id, end) \/ Continue(id, end)
        \/ Content(id)
        \/ \E p \in Params : SetPriority(id, p)
        \/ Forget(id)
    \/ \E id \in Controlled : Control(id)
    \/ Pop

Spec == Init /\ [][Next]_vars

-----------------------------------------------------------------------------
Frames == [no : Nat, id : Ids \cup {0}, end : BOOLEAN,
           kind : {"none", "data", "headers", "continuation", "control"}]

TypeOK ==
    /\ seq \in 0 .. MaxPushes
    /\ \A i \in DOMAIN lane : lane[i].frames \in Seq(Frames) /\ lane[i].frames # <<>>
    /\ pinned \in Seq(Frames)
    /\ runs \in [Ids -> Seq(Frames)] /\ data \in [Ids -> Seq(Frames)]
    /\ place \in [Ids -> [urgency : Urgencies, inc : BOOLEAN]]
    /\ prio \in [Ids -> [urgency : Urgencies, inc : BOOLEAN]]
    /\ \A u \in Urgencies : /\ bands[u].ring \in Seq(Ids \cup {nonIncrementalTurn})
                             /\ bands[u].nonInc \subseteq Ids
    /\ n \in Nat /\ blocked \in Nat
    /\ out \in Frames

(***************************************************************************)
(* The rings and the queues never part: a stream with DATA waiting has one *)
(* place, in the ring of its band if it is incremental and in the band's   *)
(* group otherwise; a group has one turn while it has members; and nothing *)
(* else is in a ring.  removeID hides a mistake here by doing nothing      *)
(* (scheduler.go:553).                                                     *)
(***************************************************************************)
RingsMatchQueues ==
    \A u \in Urgencies :
        LET here == {id \in Waiting : place[id].urgency = u}
            inc == {id \in here : place[id].inc} IN
        /\ bands[u].nonInc = here \ inc
        /\ ToSet(bands[u].ring) = inc \cup (IF here = inc THEN {} ELSE {nonIncrementalTurn})
        /\ Len(bands[u].ring) = Cardinality(ToSet(bands[u].ring))

\* Where the frames of a family of queues are.
Slots(q) == UNION {{k} \X DOMAIN q[k] : k \in DOMAIN q}

Items == [k \in DOMAIN lane |-> lane[k].frames]

(***************************************************************************)
(* The two counters are the frames that could be written and the frames    *)
(* that could not: the writer's depth bound and its decision to sleep rest *)
(* on the first (scheduler.go:255).                                        *)
(***************************************************************************)
CountsAreExact ==
    /\ n = Len(pinned) + Cardinality(Slots(Items)) + Cardinality(Slots(data))
    /\ blocked = Cardinality(Slots(runs))

(***************************************************************************)
(* While the count is above zero Pop finds a frame, and only then: were it *)
(* to come back empty-handed the writer would sleep beside its work, and   *)
(* were it to find one at zero the depth would be a frame short            *)
(* (scheduler.go:388).                                                     *)
(***************************************************************************)
NothingIsStuck ==
    n > 0 <=> \/ pinned # <<>> \/ lane # <<>>
              \/ \E u \in Urgencies : bands[u].ring # <<>>

(***************************************************************************)
(* A priority signal governs the DATA that was waiting when it arrived as  *)
(* well as what comes later (scheduler.go:301, "the difference between a   *)
(* signal that applies and one that applies to the next response").        *)
(***************************************************************************)
SignalsApply == \A id \in Waiting \ forgotten : place[id] = prio[id]

(***************************************************************************)
(* The scheduler keeps one set of frames under many indexes - queues, rings,*)
(* group turns, places and two counters - and they all tell the same of it.*)
(***************************************************************************)
IndexesAgree ==
    /\ TypeOK
    /\ RingsMatchQueues
    /\ CountsAreExact
    /\ NothingIsStuck
    /\ SignalsApply

(***************************************************************************)
(* Sharing: an incremental stream waits through at most one turn of every  *)
(* other participant of its band before its own (scheduler.go:116).        *)
(***************************************************************************)
TurnsComeRound ==
    \A id \in Waiting : place[id].inc => skips[id] < Cardinality(Ids)

(***************************************************************************)
(* A DATA frame leaves only when no more urgent stream has DATA waiting,   *)
(* and no control frame or header section waits, unless that is the        *)
(* stream's own later one (scheduler.go:25, scheduler.go:399).             *)
(***************************************************************************)
UrgentFirst ==
    [][out'.kind = "data" /\ out' # out =>
        \/ /\ lane = <<>>
           /\ \A id \in Waiting \ forgotten :
                out'.id \in forgotten \/ prio[out'.id].urgency <= prio[id].urgency
        \/ lane # <<>> /\ lane[1].stream = out'.id /\ out'.no < lane[1].seq]_vars

(***************************************************************************)
(* The scheduler keeps the promise of Outbox: each stream's frames in the  *)
(* order pushed, and field blocks whole and uninterrupted (scheduler.go:44,*)
(* writer.go:191).                                                         *)
(***************************************************************************)
Held ==
    ToSet(pinned) \cup (UNION {ToSet(lane[i].frames) : i \in DOMAIN lane})
        \cup (UNION {ToSet(runs[id]) \cup ToSet(data[id]) : id \in Ids})

\* The frames of a set in the order they were pushed.
InOrder(S) ==
    [k \in 1 .. Cardinality(S) |->
        CHOOSE f \in S : Cardinality({g \in S : g.no < f.no}) = k - 1]

Promise == INSTANCE Outbox WITH
    Lanes <- Ids \cup {0},
    queue <- [id \in Ids \cup {0} |-> InOrder({f \in Held : f.id = id})],
    mid <- IF pinned = <<>> THEN -1 ELSE pinned[1].id

KeepsOutboxPromise == Promise!OutboxSpec

(***************************************************************************)
(* What the source says and the code does not do. Each is refuted under    *)
(* Scheduler.cfg in the place of its properties, once the constants have   *)
(* the values named here, if any.                                          *)
(***************************************************************************)
\* scheduler.go:70: "The interleaving above is now impossible rather than
\* unlikely, whoever enqueues what": a frame between a HEADERS and its
\* CONTINUATION. A control frame of the block's stream comes there (Controlled <- MCIds).
BlocksAreContiguous ==
    [][out.kind \in {"headers", "continuation"} /\ ~out.end /\ out' # out
        => out'.kind = "continuation" /\ out'.id = out.id]_vars
=============================================================================
