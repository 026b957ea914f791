------------------------------- MODULE Outbox -------------------------------
(***************************************************************************)
(* What the scheduler promises the rest of the server about the frames it  *)
(* holds (internal/server/scheduler.go): each stream's frames leave in the *)
(* order they were pushed, a field block leaves as one run of frames with  *)
(* nothing in between, and no part of it leaves before all of it is there. *)
(* Field blocks and control frames leave in the order they were completed, *)
(* which HPACK rests on. Which stream's content goes next is left open.    *)
(*                                                                         *)
(* Scheduler implements this specification. Response is built on it, and   *)
(* FrameWriter on its frames in any order (Get).                           *)
(***************************************************************************)
EXTENDS Integers, Sequences, FiniteSetsExt

CONSTANT Lanes   \* stream identifiers, and 0 for the connection itself

VARIABLES
    queue,   \* the frames waiting on each stream, in the order pushed
    mid,     \* the stream whose field block is part-way out, -1 when none is
    out      \* the frame that left last

NoStream == -1
NoFrame == [no |-> 0, id |-> 0, kind |-> "none", end |-> FALSE]

\* A frame with nothing to follow it in its item.
EndsItem(f) == f.kind \in {"data", "control"} \/ f.end

\* The last frame pushed promises a CONTINUATION.
OpenBlock(q) == q # <<>> /\ ~EndsItem(q[Len(q)])

\* The item at the front is complete.
Whole(q) == \E i \in DOMAIN q : EndsItem(q[i])

OutboxInit ==
    /\ queue = [id \in Lanes |-> <<>>]
    /\ mid = NoStream
    /\ out = NoFrame

\* A block, once opened, is continued by its CONTINUATIONs and nothing else.
Put(f) ==
    /\ f.kind = "continuation" <=> OpenBlock(queue[f.id])
    /\ queue' = [queue EXCEPT ![f.id] = Append(@, f)]
    /\ UNCHANGED <<mid, out>>

Ready(id) == Whole(queue[id]) /\ mid \in {NoStream, id}

Shift(id) ==
    /\ queue' = [queue EXCEPT ![id] = Tail(@)]
    /\ mid' = IF EndsItem(Head(queue[id])) THEN NoStream ELSE id

\* Any frame that may leave.
Get(id) == Ready(id) /\ Shift(id) /\ out' = Head(queue[id])

\* The numbers of the frames of q that complete something other than content.
Completions(q) == {q[i].no : i \in {j \in DOMAIN q : q[j].kind # "data" /\ EndsItem(q[j])}}

\* What is at the front was completed before anything else but content.
InTurn(id) ==
    \/ Head(queue[id]).kind = "data"
    \/ \A i \in DOMAIN queue[id], other \in Lanes :
        (\A j \in 1 .. i - 1 : ~EndsItem(queue[id][j])) /\ EndsItem(queue[id][i])
            => \A no \in Completions(queue[other]) : queue[id][i].no <= no

GetInTurn(id) == Get(id) /\ InTurn(id)

OutboxNext ==
    \/ \E id \in Lanes : /\ Len(queue'[id]) > Len(queue[id])
                         /\ Put(queue'[id][Len(queue'[id])])
    \/ \E id \in Lanes : GetInTurn(id)

-----------------------------------------------------------------------------
\* For those who bound the queue: the frames of one lane that could be written now,
\* and scheduler.Len. A block that is not whole does not count, and its CONTINUATIONs
\* need no room.
Writable(q) == Max({0} \cup {i \in DOMAIN q : EndsItem(q[i])})
Length == SumFunction([id \in Lanes |-> Writable(queue[id])])
ContinuesBlock(f) == f.kind = "continuation" /\ OpenBlock(queue[f.id])

OutboxSpec == OutboxInit /\ [][OutboxNext]_<<queue, mid, out>>
=============================================================================
