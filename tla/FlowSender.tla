----------------------------- MODULE FlowSender -----------------------------
(***************************************************************************)
(* The send half of one connection's flow control: internal/flow/sender.go *)
(* over the window arithmetic of internal/flow/window.go.                  *)
(*                                                                         *)
(* The reader goroutine applies WINDOW_UPDATE and SETTINGS frames, opens   *)
(* and retires streams, and ends the connection; one writer goroutine per  *)
(* stream spends credit in Reserve and parks on the condition variable     *)
(* when there is none.  Every critical section of Sender.mu is one action. *)
(* A writer is identified by the stream it writes.                         *)
(***************************************************************************)
EXTENDS Integers, FiniteSets

CONSTANTS
    Streams,            \* stream identifiers the peer uses
    InitialWindowSize,  \* window.go: 65535
    MaxWindowSize,      \* window.go: 2^31 - 1
    Increments,         \* WINDOW_UPDATE increments; the frame layer refuses 0
    Sizes,              \* SETTINGS_INITIAL_WINDOW_SIZE values
    Wants,              \* lengths a writer asks Reserve for
    Reasons,            \* errors Close may be given
    MaxFrames           \* bound: credit and SETTINGS frames the peer sends

ASSUME StreamsAssumption == Streams \subseteq Nat \ {0}
ASSUME WindowAssumption ==
    /\ MaxWindowSize \in Nat
    /\ InitialWindowSize \in 0 .. MaxWindowSize
ASSUME InputAssumption ==
    /\ Increments \subseteq 1 .. MaxWindowSize
    /\ Sizes \subseteq 0 .. MaxWindowSize
    /\ Wants \subseteq Nat \ {0}
    /\ MaxFrames \in Nat

NoErr == "nil"
Gone == "ErrStreamGone"
ASSUME ReasonsAssumption == NoErr \notin Reasons /\ Gone \notin Reasons

VARIABLES
    conn,      \* Sender.conn.n
    open,      \* the key set of Sender.stream
    stream,    \* Sender.stream: [initial, n] of every open stream
    initial,   \* Sender.initial
    err,       \* Sender.err
    reader,    \* the reader: serving, failing on a connection error, or done
    pc,        \* where each stream's writer is in Reserve
    want,      \* the argument of the writer's current Reserve
    result,    \* the error the writer's last Reserve returned
    used,      \* identifiers opened so far (the stream table never repeats one)
    frames,    \* credit and SETTINGS frames applied so far
    paid,      \* history: octets of WINDOW_UPDATE accepted, connection
    spent,     \* history: octets of DATA reserved, connection
    paidOn,    \* history: octets of WINDOW_UPDATE accepted, per stream
    spentOn    \* history: octets of DATA reserved, per stream

windows == <<conn, open, stream, initial>>
writers == <<pc, want, result>>
history == <<paid, spent, paidOn, spentOn>>
vars == <<windows, err, reader, writers, used, frames, history>>

(***************************************************************************)
(* Window: the arithmetic of RFC 9113 section 6.9, in window.go.           *)
(***************************************************************************)
NewStreamWindow(size) == [initial |-> size, n |-> size]

\* Consume admits an empty frame on any window, and otherwise what fits.
Fits(n, k) == k = 0 \/ k <= n

\* Mutant: checks the increment, not the sum.
M_Overflows(n, k) == k > MaxWindowSize

\* Increase checks the sum, not the operands.
Overflows(n, k) == n + k > MaxWindowSize

\* SetInitialSize moves the credit by the change of the initial size.
Next_n(w, size) == w.n + (size - w.initial)

\* Mutants: a deficit is forgiven; the change is stored as the new size.
M_Resized(w, size) ==
    [initial |-> size,
     n |-> IF Next_n(w, size) < 0 THEN 0 ELSE Next_n(w, size)]
Resized(w, size) == [initial |-> size, n |-> Next_n(w, size)]

-----------------------------------------------------------------------------
Init ==
    /\ conn = InitialWindowSize
    /\ open = {}
    /\ stream = [id \in Streams |-> NewStreamWindow(0)]
    /\ initial = InitialWindowSize
    /\ err = NoErr
    /\ reader = "serving"
    /\ pc = [id \in Streams |-> "idle"]
    /\ want = [id \in Streams |-> 0]
    /\ result = [id \in Streams |-> NoErr]
    /\ used = {}
    /\ frames = 0
    /\ paid = 0
    /\ spent = 0
    /\ paidOn = [id \in Streams |-> 0]
    /\ spentOn = [id \in Streams |-> 0]

\* Mutant: credit.Signal(), which wakes one parked writer, if there is one.
M_Signal ==
    IF \E id \in Streams : pc[id] = "parked"
    THEN \E id \in Streams : /\ pc[id] = "parked"
                             /\ pc' = [pc EXCEPT ![id] = "woken"]
    ELSE pc' = pc

\* credit.Broadcast(): every parked writer will run Reserve's loop again.
Broadcast ==
    pc' = [id \in Streams |-> IF pc[id] = "parked" THEN "woken" ELSE pc[id]]

(***************************************************************************)
(* The reader goroutine.  After a connection error it applies no further   *)
(* frame: the only thing left for it is to Close.                          *)
(***************************************************************************)
Open(id) ==
    /\ reader = "serving"
    /\ id \notin used
    /\ open' = open \cup {id}
    /\ stream' = [stream EXCEPT ![id] = NewStreamWindow(initial)]
    /\ used' = used \cup {id}
    /\ UNCHANGED <<conn, initial, err, reader, writers, frames, history>>

Retire(id) ==
    /\ reader = "serving"
    /\ id \in open
    /\ open' = open \ {id}
    /\ Broadcast
    /\ UNCHANGED <<conn, stream, initial, err, reader, want, result, used,
                   frames, history>>

\* The peer's next WINDOW_UPDATE or SETTINGS frame reaches the Sender.
Receive ==
    /\ reader = "serving"
    /\ frames < MaxFrames
    /\ frames' = frames + 1

CreditConn(k) ==
    /\ Receive
    /\ IF err # NoErr
       THEN UNCHANGED <<conn, reader, pc, paid>>
       ELSE IF Overflows(conn, k)
       THEN /\ reader' = "failing"
            /\ UNCHANGED <<conn, pc, paid>>
       ELSE /\ conn' = conn + k
            /\ paid' = paid + k
            /\ Broadcast
            /\ UNCHANGED reader
    /\ UNCHANGED <<open, stream, initial, err, want, result, used, spent,
                   paidOn, spentOn>>

\* An overflow on a stream's window is a stream error: RST_STREAM, and the
\* connection goes on with the window as it was.
CreditStream(id, k) ==
    /\ Receive
    /\ IF err # NoErr \/ id \notin open \/ Overflows(stream[id].n, k)
       THEN UNCHANGED <<stream, pc, paidOn>>
       ELSE /\ stream' = [stream EXCEPT ![id].n = @ + k]
            /\ paidOn' = [paidOn EXCEPT ![id] = @ + k]
            /\ Broadcast
    /\ UNCHANGED <<conn, open, initial, err, reader, want, result, used, paid,
                   spent, spentOn>>

\* The windows a new initial size takes over the maximum, and the streams the
\* ascending loop reaches before the lowest of them.
TooLarge(size) == {id \in open : Next_n(stream[id], size) > MaxWindowSize}
Reached(size) == {id \in open : \A j \in TooLarge(size) : id < j}

SetInitialSize(size) ==
    /\ Receive
    /\ IF err # NoErr
       THEN UNCHANGED <<stream, initial, reader, pc>>
       ELSE /\ stream' = [id \in Streams |->
                            IF id \in Reached(size)
                            THEN Resized(stream[id], size) ELSE stream[id]]
            /\ IF TooLarge(size) # {}
               THEN reader' = "failing" /\ UNCHANGED <<initial, pc>>
               ELSE initial' = size /\ Broadcast /\ UNCHANGED reader
    /\ UNCHANGED <<conn, open, err, want, result, used, history>>

\* Mutant: nobody is woken.
M_CloseSilently(reason) ==
    /\ err = NoErr
    /\ err' = reason
    /\ reader' = IF reader = "failing" THEN "done" ELSE reader
    /\ UNCHANGED <<windows, writers, used, frames, history>>

\* The first reason wins; a second Close changes nothing.
Close(reason) ==
    /\ err = NoErr
    /\ err' = reason
    /\ reader' = IF reader = "failing" THEN "done" ELSE reader
    /\ Broadcast
    /\ UNCHANGED <<windows, want, result, used, frames, history>>

(***************************************************************************)
(* A stream's writer.  Reserve starts outside the lock; each pass of its   *)
(* loop is one critical section, and ends by returning an error, returning *)
(* credit, or parking.                                                     *)
(***************************************************************************)
Call(id, w) ==
    /\ id \in used
    /\ pc[id] = "idle"
    /\ pc' = [pc EXCEPT ![id] = "running"]
    /\ want' = [want EXCEPT ![id] = w]
    /\ UNCHANGED <<windows, err, reader, result, used, frames, history>>

Running(id) == pc[id] \in {"running", "woken"}

ReserveFail(id) ==
    /\ Running(id)
    /\ err # NoErr \/ id \notin open
    /\ pc' = [pc EXCEPT ![id] = "returned"]
    /\ result' = [result EXCEPT ![id] = IF err # NoErr THEN err ELSE Gone]
    /\ UNCHANGED <<windows, err, reader, want, used, frames, history>>

Min2(a, b) == IF a < b THEN a ELSE b

\* The smallest of what was asked for and what each window holds.
Grant(id) == Min2(want[id], Min2(conn, stream[id].n))

Active(id) == Running(id) /\ err = NoErr /\ id \in open

\* Both windows are debited in the one critical section.
ReserveTake(id) ==
    /\ Active(id)
    /\ Grant(id) > 0
    /\ conn' = conn - Grant(id)
    /\ stream' = [stream EXCEPT ![id].n = @ - Grant(id)]
    /\ spent' = spent + Grant(id)
    /\ spentOn' = [spentOn EXCEPT ![id] = @ + Grant(id)]
    /\ pc' = [pc EXCEPT ![id] = "idle"]
    /\ UNCHANGED <<open, initial, err, reader, want, result, used, frames, paid,
                   paidOn>>

ReservePark(id) ==
    /\ Active(id)
    /\ Grant(id) <= 0
    /\ pc' = [pc EXCEPT ![id] = "parked"]
    /\ UNCHANGED <<windows, err, reader, want, result, used, frames, history>>

Reserve(id) == ReserveFail(id) \/ ReserveTake(id) \/ ReservePark(id)

Next ==
    \/ \E id \in Streams : Open(id) \/ Retire(id)
    \/ \E k \in Increments : CreditConn(k)
    \/ \E id \in Streams, k \in Increments : id \in used /\ CreditStream(id, k)
    \/ \E size \in Sizes : SetInitialSize(size)
    \/ \E reason \in Reasons : Close(reason)
    \/ \E id \in Streams, w \in Wants : Call(id, w)
    \/ \E id \in Streams : Reserve(id)

Spec == Init /\ [][Next]_vars

(***************************************************************************)
(* Fairness.  The Go scheduler runs every runnable goroutine and           *)
(* sync.Mutex hands the lock to a starving one, so a writer in Reserve     *)
(* keeps taking its critical section.  The reader tears the connection     *)
(* down after a connection error: conn.Serve runs its deferred Close.      *)
(***************************************************************************)
Fairness ==
    /\ \A id \in Streams : WF_vars(Reserve(id))
    /\ WF_vars(reader = "failing" /\ \E reason \in Reasons : Close(reason))

FairSpec == Spec /\ Fairness

-----------------------------------------------------------------------------
TypeOK ==
    /\ conn \in Int
    /\ open \subseteq used
    /\ stream \in [Streams -> [initial : Nat, n : Int]]
    /\ initial \in 0 .. MaxWindowSize
    /\ err \in Reasons \cup {NoErr}
    /\ reader \in {"serving", "failing", "done"}
    /\ pc \in [Streams -> {"idle", "running", "parked", "woken", "returned"}]
    /\ want \in [Streams -> Nat]
    /\ result \in [Streams -> Reasons \cup {NoErr, Gone}]
    /\ used \subseteq Streams
    /\ frames \in Nat
    /\ paid \in Nat /\ spent \in Nat
    /\ paidOn \in [Streams -> Nat]
    /\ spentOn \in [Streams -> Nat]

(***************************************************************************)
(* The peer keeps its own copy of every window, from the frames it sent    *)
(* and the DATA it receives.  The Sender's copy is that number, for the    *)
(* connection and for every open stream, across any order of credit,       *)
(* spending and changes of the initial size: neither end ever drifts.      *)
(* (sender.go:30, "the two ends would disagree about the connection's      *)
(* credit for the rest of the connection".)                                *)
(***************************************************************************)
ConnLedger == conn = InitialWindowSize + paid - spent
StreamLedger ==
    \A id \in open :
        /\ stream[id].n = stream[id].initial + paidOn[id] - spentOn[id]
        /\ err = NoErr /\ reader = "serving" => stream[id].initial = initial
Ledger == ConnLedger /\ StreamLedger

(***************************************************************************)
(* No window ever holds more than MaxWindowSize, and the connection window *)
(* never goes below zero, although a stream's may (window.go:100).         *)
(***************************************************************************)
WithinBounds ==
    /\ conn \in 0 .. MaxWindowSize
    /\ \A id \in open : stream[id].n <= MaxWindowSize

(***************************************************************************)
(* The windows are what the peer was promised they would be: every variable*)
(* has its type, and no window is over its bound (window.go:100).          *)
(***************************************************************************)
WindowsAreSound == TypeOK /\ WithinBounds

(***************************************************************************)
(* A writer that is parked with no wake-up on its way has nothing to do:   *)
(* the connection is up, its stream is open, and one of its two windows is *)
(* empty.  The exception is the interval in which the reader holds a       *)
(* connection error and has not called Close yet, because a refused        *)
(* SETTINGS raises some windows without a broadcast (sender.go:262).       *)
(***************************************************************************)
NoLostWakeup ==
    \A id \in Streams : pc[id] = "parked" =>
        /\ err = NoErr
        /\ id \in open
        /\ reader = "failing" \/ conn <= 0 \/ stream[id].n <= 0

(***************************************************************************)
(* Every writer the end of the connection turns away hears the same        *)
(* reason, the one recorded first (sender.go:287).                         *)
(***************************************************************************)
OneReason == \A id \in Streams : result[id] \in Reasons => result[id] = err

(***************************************************************************)
(* A step that spends credit spends a positive amount that both windows    *)
(* held, so that neither Consume in Reserve can refuse (sender.go:370).    *)
(***************************************************************************)
SpendsWhatItHas ==
    [][\A id \in Streams : spentOn'[id] # spentOn[id] =>
          LET k == spentOn'[id] - spentOn[id] IN
          /\ k > 0
          /\ Fits(conn, k)
          /\ Fits(stream[id].n, k)]_vars

(***************************************************************************)
(* Close reaches every writer: once the connection is over, each Reserve   *)
(* in progress returns (sender.go:276, "waits for the life of the          *)
(* process" without it).                                                   *)
(***************************************************************************)
CloseReleasesWriters ==
    \A id \in Streams :
        (err # NoErr /\ (Running(id) \/ pc[id] = "parked")) ~> pc[id] = "returned"

(***************************************************************************)
(* Retire reaches the retired stream's writer (sender.go:182).             *)
(***************************************************************************)
RetireReleasesWriter ==
    \A id \in Streams :
        (id \in used \ open /\ (Running(id) \/ pc[id] = "parked"))
            ~> pc[id] = "returned"

(***************************************************************************)
(* Credit that both windows hold for good is not left unspent by a writer  *)
(* waiting for it (sender.go:57, "leaving the credit unspent and the right *)
(* writer asleep").                                                        *)
(***************************************************************************)
CreditIsSpent ==
    \A id \in Streams :
        ~<>[](/\ Running(id) \/ pc[id] = "parked"
              /\ err = NoErr /\ id \in open
              /\ conn > 0 /\ stream[id].n > 0)

(***************************************************************************)
(* No writer waits in Reserve for ever: the end of the connection, the end *)
(* of its stream and credit to spend each get it out.                      *)
(***************************************************************************)
WritersAreServed == CloseReleasesWriters /\ RetireReleasesWriter /\ CreditIsSpent
=============================================================================
