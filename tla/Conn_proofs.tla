---------------------------- MODULE Conn_proofs ----------------------------
(***************************************************************************)
(* Proofs about Conn for any lengths of the timeouts, any depth of the     *)
(* queue, any set of frames and any number of them.                        *)
(*                                                                         *)
(* Three arguments are made side by side.  A deadline is honest: as long as*)
(* nobody asked the connection to stop, what is left of it and what was    *)
(* waited already make up the whole timeout (Honest); Shutdown is the only *)
(* one to shorten it, and has set the flag by then (Interrupted).  What the*)
(* connection says is one sequence, however far the writer is with it      *)
(* (Said), and only the reader adds to it; the acknowledgements it owes    *)
(* are counted there (Speech).  And the writer stops for a reason (Writer):*)
(* told to, or because a write failed.                                     *)
(***************************************************************************)
EXTENDS Conn, FiniteSetTheorems, SequenceTheorems, TLAPS

\* Before the connection has said anything, and once run has returned.
Early == {"accepted", "handshake", "clear", "discard", "first"}
Serving == {"preface", "lockPreface", "readPreface", "loop", "lock", "read", "dispatch", "reply"}
Late == {"wait", "drain", "tell", "closed"}
Kinds == {"preface", "idle", "settingsAck"}
Errs == Farewells \cup {"nil", "peerClosed", "transport", "streamError", "panicked"}
Spoken == [type : {"settings", "ack", "pong", "rst", "goaway"}, arg : Nat]

\* The types of the variables the invariants speak of.
Scalars ==
    /\ pc \in Early \cup Serving \cup Late \cup {"over", "recovered"}
    /\ armed \in [kind : Kinds, left : 0 .. Longest] /\ deadlineKind \in Kinds
    /\ held \in Frames \cup {NoFrame}
    /\ reply \in {NoFrame} \cup [type : {"ack", "pong", "rst"}, arg : Nat]
    /\ ackDue \in Off .. SettingsAck /\ deadline \in Off .. Longest /\ waited \in 0 .. Longest
    /\ lastStreamID \in Nat
    /\ err \in Errs /\ told \in Errs
    /\ quit \in BOOLEAN /\ shutdown \in {"before", "between", "after"}
    /\ sock \in {"open", "closed"}
    /\ writer \in {"runs", "drains", "cut", "gone"} /\ writeFailed \in BOOLEAN
    /\ handled \subseteq Nat /\ applied \in Nat

\* And of the sequences.
Queues ==
    /\ inbox \in Seq(Frames \cup {Out("preface")})
    /\ queue \in Seq(Spoken) /\ wire \in Seq(Spoken) /\ Len(queue) <= QueueDepth

\* The two together.
Typed == Scalars /\ Queues

\* What each place in the reader's code has behind it.
Control ==
    /\ pc = "dispatch" => held # NoFrame
    /\ held # NoFrame => pc \in {"dispatch", "recovered", "closed"}
    /\ pc = "reply" <=> reply # NoFrame
    /\ pc \in Early \cup Serving => err = "nil"
    /\ pc \in {"over", "wait", "drain", "tell"} => err \notin {"nil", "panicked"}
    /\ pc \notin {"recovered", "closed"} => told = "nil"
    /\ pc = "recovered" => told = "panicked" /\ err = "panicked" /\ sock = "closed"
    /\ pc \in {"drain", "tell"} => writer = "gone"
    /\ pc = "closed" => told = err /\ writer = "gone" /\ sock = "closed"

\* A shutdown has raised its flag before it moves the deadline.
Interrupted == (shutdown # "before" => quit) /\ InterruptStands

\* A deadline that is no earlier than the peer's own silence makes it.
Honest(left) ==
    /\ left >= 0
    /\ deadlineKind = "idle" => waited + left >= Idle
    /\ deadlineKind = "preface" => waited + left >= Preface
    /\ deadlineKind = "settingsAck" => left = ackDue

\* The deadline about to be set, and the one that is.
Clocks ==
    /\ pc \in {"lock", "lockPreface"} => armed.kind = deadlineKind /\ Honest(armed.left)
    /\ Reading /\ ~quit => Honest(deadline)
    /\ TimeoutsAreTrue

\* The connection's own frames in the order they reach the wire.
Said == wire \o queue
\* The acknowledgements in s, and the one the reader is about to enqueue.
Acks(s) == {i \in 1 .. Len(s) : s[i].type = "ack"}
Owed == IF pc = "reply" /\ reply.type = "ack" THEN 1 ELSE 0

\* SETTINGS first and once, GOAWAY last and true, one acknowledgement for each SETTINGS.
Speech ==
    /\ pc \in Early => Said = <<>>
    /\ pc \in Serving \cup {"over"} => Said # <<>>
    /\ \A i \in 1 .. Len(Said) : Said[i].type = "settings" <=> i = 1
    /\ \A i \in 1 .. Len(Said) : Said[i].type = "goaway" =>
           pc \in Late /\ i = Len(Said) /\ Said[i].arg = lastStreamID
    /\ \A id \in handled : id <= lastStreamID
    /\ ~writeFailed => Cardinality(Acks(Said)) + Owed = applied

\* Serve is past run, and means what is queued to be sent.
Owes == pc \in Late /\ err \in Farewells \cup {"peerClosed"}

\* The writer stops for a reason.
Writer ==
    /\ pc \in (Early \ {"discard"}) \cup Serving \cup {"over"} =>
           writer = "runs" \/ (writer = "gone" /\ writeFailed)
    /\ Owes => writer \in {"drains", "gone"}
    /\ Owes /\ writer = "gone" /\ ~writeFailed => queue = <<>>
    /\ Owes /\ err \in Farewells /\ ~writeFailed => Said # <<>> /\ Said[Len(Said)].type = "goaway"

\* The inductive invariant.
IInv == Typed /\ Control /\ Interrupted /\ Clocks /\ Speech /\ Writer

\* The longest of five numbers is one of them and no smaller than any.
LEMMA LongestIs ==
    /\ Longest \in Nat \ {0}
    /\ \A n \in {TLSHandshake, Preface, SettingsAck, Idle, DrainGrace} : n <= Longest
<1> DEFINE S == {TLSHandshake, Preface, SettingsAck, Idle, DrainGrace}
           Bigger(a, b) == IF a >= b THEN a ELSE b
           m == Bigger(TLSHandshake, Bigger(Preface, Bigger(SettingsAck, Bigger(Idle, DrainGrace))))
<1>1. S \subseteq Nat \ {0}
  BY ConnAssumption
<1>2. m \in S /\ \A n \in S : m >= n
  BY <1>1
<1> HIDE DEF m
<1>3. Longest \in S /\ \A n \in S : Longest >= n
  BY <1>2 DEF Longest, Max
<1>4. QED
  BY <1>1, <1>3

\* The values that stand for none are no others.
LEMMA Symbols == Off = -1 /\ NoFrame.type = "none" /\ NoFrame \notin Frames
  BY ConnAssumption DEF Off, NoFrame, Types

\* Where the reader is.
LEMMA ControlStep == IInv /\ [Next]_vars => Control'
<1> SUFFICES ASSUME IInv, [Next]_vars PROVE Control'
  OBVIOUS
<1> USE DEF loop, parms, ending, peer, out, seen, asked, vars
<1>1. CASE BeginHandshake
  BY <1>1, Symbols DEF BeginHandshake, IInv, Control, Typed, Scalars, Early, Serving, Late
<1>2. CASE Handshake
  BY <1>2, Symbols DEF Handshake, IInv, Control, Typed, Scalars, Early, Serving, Late
<1>3. CASE ClearDeadline
  BY <1>3, Symbols DEF ClearDeadline, IInv, Control, Typed, Scalars, Early, Serving, Late
<1>4. CASE Discard
  BY <1>4, Symbols DEF Discard, IInv, Control, Typed, Scalars, Early, Serving, Late
<1>5. CASE First
  BY <1>5, Symbols DEF First, IInv, Control, Typed, Scalars, Early, Serving, Late, Out
<1>6. CASE Arm
  BY <1>6, Symbols DEF Arm, IInv, Control, Typed, Scalars, Early, Serving, Late, Earlier
<1>7. CASE setReadDeadline
  BY <1>7, Symbols DEF setReadDeadline, IInv, Control, Typed, Scalars, Early, Serving, Late
<1>8. CASE ReadFails
  BY <1>8, Symbols DEF ReadFails, IInv, Control, Typed, Scalars, Early, Serving, Late, Reading, Expired, Farewells
<1>9. CASE ReadPreface
  BY <1>9, Symbols DEF ReadPreface, IInv, Control, Typed, Scalars, Early, Serving, Late, Out
<1>10. CASE ReadFrame
  <2>1. Head(inbox) \in Frames \cup {Out("preface")}
    BY <1>10 DEF ReadFrame, IInv, Typed, Queues
  <2>2. Head(inbox) # NoFrame
    BY <2>1, Symbols DEF Out
  <2>3. QED
    BY <1>10, <2>2, Symbols DEF ReadFrame, IInv, Control, Typed, Scalars, Early, Serving, Late
<1>11. CASE dispatch
  BY <1>11, Symbols DEF dispatch, IInv, Control, Typed, Scalars, Early, Serving, Late, handleSettings, handleStreamFrame, Fails, Answers, Absorbs, Applies, Out
<1>12. CASE Panic
  BY <1>12, Symbols DEF Panic, IInv, Control, Typed, Scalars, Early, Serving, Late
<1>13. CASE Recovered
  BY <1>13, Symbols DEF Recovered, IInv, Control, Typed, Scalars, Early, Serving, Late
<1>14. CASE Reply
  BY <1>14, Symbols DEF Reply, IInv, Control, Typed, Scalars, Early, Serving, Late
<1>15. CASE farewell
  BY <1>15, Symbols DEF farewell, IInv, Control, Typed, Scalars, Early, Serving, Late
<1>16. CASE LeaveSilently
  BY <1>16, Symbols DEF LeaveSilently, IInv, Control, Typed, Scalars, Early, Serving, Late
<1>17. CASE Wait
  BY <1>17, Symbols DEF Wait, IInv, Control, Typed, Scalars, Early, Serving, Late
<1>18. CASE Drain
  BY <1>18, Symbols DEF Drain, IInv, Control, Typed, Scalars, Early, Serving, Late
<1>19. CASE Tell
  BY <1>19, Symbols DEF Tell, IInv, Control, Typed, Scalars, Early, Serving, Late
<1>20. CASE Shutdown
  BY <1>20, Symbols DEF Shutdown, IInv, Control, Typed, Scalars, Early, Serving, Late
<1>21. CASE Close
  BY <1>21, Symbols DEF Close, IInv, Control, Typed, Scalars, Early, Serving, Late
<1>22. CASE WriterStep
  BY <1>22, Symbols DEF WriterStep, IInv, Control, Typed, Scalars, Early, Serving, Late
<1>23. CASE PeerSends
  BY <1>23, Symbols DEF PeerSends, IInv, Control, Typed, Scalars, Early, Serving, Late, Send, Out
<1>24. CASE Tick
  BY <1>24, Symbols DEF Tick, IInv, Control, Typed, Scalars, Early, Serving, Late, Less
<1>25. CASE UNCHANGED vars
  BY <1>25, Symbols DEF IInv, Control, Typed, Scalars, Early, Serving, Late
<1>26. QED
  BY <1>1, <1>2, <1>3, <1>4, <1>5, <1>6, <1>7, <1>8, <1>9, <1>10, <1>11, <1>12, <1>13, <1>14, <1>15, <1>16, <1>17, <1>18, <1>19, <1>20, <1>21, <1>22, <1>23, <1>24, <1>25 DEF Next, Reader

\* A shutdown is heard.
LEMMA InterruptedStep == IInv /\ [Next]_vars => Interrupted'
<1> SUFFICES ASSUME IInv, [Next]_vars PROVE Interrupted'
  OBVIOUS
<1> USE DEF loop, parms, ending, peer, out, seen, asked, vars
<1>1. CASE BeginHandshake
  BY <1>1 DEF BeginHandshake, IInv, Interrupted, InterruptStands, Reading, Typed, Scalars, Early, Serving, Late
<1>2. CASE Handshake
  BY <1>2 DEF Handshake, IInv, Interrupted, InterruptStands, Reading, Typed, Scalars, Early, Serving, Late
<1>3. CASE ClearDeadline
  BY <1>3 DEF ClearDeadline, IInv, Interrupted, InterruptStands, Reading, Typed, Scalars, Early, Serving, Late
<1>4. CASE Discard
  BY <1>4 DEF Discard, IInv, Interrupted, InterruptStands, Reading, Typed, Scalars, Early, Serving, Late
<1>5. CASE First
  BY <1>5 DEF First, IInv, Interrupted, InterruptStands, Reading, Typed, Scalars, Early, Serving, Late, Out
<1>6. CASE Arm
  BY <1>6 DEF Arm, IInv, Interrupted, InterruptStands, Reading, Typed, Scalars, Early, Serving, Late, Earlier
<1>7. CASE setReadDeadline
  BY <1>7 DEF setReadDeadline, IInv, Interrupted, InterruptStands, Reading, Typed, Scalars, Early, Serving, Late
<1>8. CASE ReadFails
  BY <1>8 DEF ReadFails, IInv, Interrupted, InterruptStands, Reading, Typed, Scalars, Early, Serving, Late, Reading, Expired, Farewells
<1>9. CASE ReadPreface
  BY <1>9 DEF ReadPreface, IInv, Interrupted, InterruptStands, Reading, Typed, Scalars, Early, Serving, Late, Out
<1>10. CASE ReadFrame
  BY <1>10 DEF ReadFrame, IInv, Interrupted, InterruptStands, Reading, Typed, Scalars, Early, Serving, Late
<1>11. CASE dispatch
  BY <1>11 DEF dispatch, IInv, Interrupted, InterruptStands, Reading, Typed, Scalars, Early, Serving, Late, handleSettings, handleStreamFrame, Fails, Answers, Absorbs, Applies, Out
<1>12. CASE Panic
  BY <1>12 DEF Panic, IInv, Interrupted, InterruptStands, Reading, Typed, Scalars, Early, Serving, Late
<1>13. CASE Recovered
  BY <1>13 DEF Recovered, IInv, Interrupted, InterruptStands, Reading, Typed, Scalars, Early, Serving, Late
<1>14. CASE Reply
  BY <1>14 DEF Reply, IInv, Interrupted, InterruptStands, Reading, Typed, Scalars, Early, Serving, Late
<1>15. CASE farewell
  BY <1>15 DEF farewell, IInv, Interrupted, InterruptStands, Reading, Typed, Scalars, Early, Serving, Late
<1>16. CASE LeaveSilently
  BY <1>16 DEF LeaveSilently, IInv, Interrupted, InterruptStands, Reading, Typed, Scalars, Early, Serving, Late
<1>17. CASE Wait
  BY <1>17 DEF Wait, IInv, Interrupted, InterruptStands, Reading, Typed, Scalars, Early, Serving, Late
<1>18. CASE Drain
  BY <1>18 DEF Drain, IInv, Interrupted, InterruptStands, Reading, Typed, Scalars, Early, Serving, Late
<1>19. CASE Tell
  BY <1>19 DEF Tell, IInv, Interrupted, InterruptStands, Reading, Typed, Scalars, Early, Serving, Late
<1>20. CASE Shutdown
  BY <1>20 DEF Shutdown, IInv, Interrupted, InterruptStands, Reading, Typed, Scalars, Early, Serving, Late
<1>21. CASE Close
  BY <1>21 DEF Close, IInv, Interrupted, InterruptStands, Reading, Typed, Scalars, Early, Serving, Late
<1>22. CASE WriterStep
  BY <1>22 DEF WriterStep, IInv, Interrupted, InterruptStands, Reading, Typed, Scalars, Early, Serving, Late
<1>23. CASE PeerSends
  BY <1>23 DEF PeerSends, IInv, Interrupted, InterruptStands, Reading, Typed, Scalars, Early, Serving, Late, Send, Out
<1>24. CASE Tick
  BY <1>24 DEF Tick, IInv, Interrupted, InterruptStands, Reading, Typed, Scalars, Early, Serving, Late, Less
<1>25. CASE UNCHANGED vars
  BY <1>25 DEF IInv, Interrupted, InterruptStands, Reading, Typed, Scalars, Early, Serving, Late
<1>26. QED
  BY <1>1, <1>2, <1>3, <1>4, <1>5, <1>6, <1>7, <1>8, <1>9, <1>10, <1>11, <1>12, <1>13, <1>14, <1>15, <1>16, <1>17, <1>18, <1>19, <1>20, <1>21, <1>22, <1>23, <1>24, <1>25 DEF Next, Reader

\* The queues keep their types.
LEMMA QueuesStep == IInv /\ [Next]_vars => Queues'
<1> SUFFICES ASSUME IInv, [Next]_vars PROVE Queues'
  OBVIOUS
<1> USE DEF loop, parms, ending, peer, out, seen, asked, vars
<1>1. CASE BeginHandshake
  BY <1>1 DEF BeginHandshake, IInv, Typed, Queues
<1>2. CASE Handshake
  BY <1>2 DEF Handshake, IInv, Typed, Queues
<1>3. CASE ClearDeadline
  BY <1>3 DEF ClearDeadline, IInv, Typed, Queues
<1>4. CASE Discard
  BY <1>4 DEF Discard, IInv, Typed, Queues
<1>5. CASE First
  <2>1. queue = <<>>
    BY <1>5, EmptySeq, ConcatProperties DEF First, IInv, Typed, Queues, Speech, Said, Early
  <2>2. queue' = <<Out("settings")>> /\ Out("settings") \in Spoken
    BY <1>5, <2>1 DEF First, Out, Spoken
  <2>3. queue' \in Seq(Spoken) /\ Len(queue') = 1
    BY <2>2
  <2>4. QED
    BY <1>5, <2>3, ConnAssumption DEF First, IInv, Typed, Queues
<1>6. CASE Arm
  BY <1>6 DEF Arm, IInv, Typed, Queues, Earlier
<1>7. CASE setReadDeadline
  BY <1>7 DEF setReadDeadline, IInv, Typed, Queues
<1>8. CASE ReadFails
  BY <1>8 DEF ReadFails, IInv, Typed, Queues, Reading, Expired, Farewells
<1>9. CASE ReadPreface
  BY <1>9 DEF ReadPreface, IInv, Typed, Queues, Out
<1>10. CASE ReadFrame
  BY <1>10 DEF ReadFrame, IInv, Typed, Queues
<1>11. CASE dispatch
  BY <1>11 DEF dispatch, IInv, Typed, Queues, handleSettings, handleStreamFrame, Fails, Answers, Absorbs, Applies, Out
<1>12. CASE Panic
  BY <1>12 DEF Panic, IInv, Typed, Queues
<1>13. CASE Recovered
  BY <1>13 DEF Recovered, IInv, Typed, Queues
<1>14. CASE Reply
  <2>1. CASE writer # "runs"
    BY <1>14, <2>1 DEF Reply, IInv, Typed, Queues
  <2>2. CASE writer = "runs"
    <3>1. reply \in Spoken
      BY <1>14 DEF Reply, IInv, Typed, Scalars, Control, Spoken
    <3>2. queue' = Append(queue, reply) /\ Len(queue) < QueueDepth
      BY <1>14, <2>2 DEF Reply
    <3>3. queue' \in Seq(Spoken) /\ Len(queue') <= QueueDepth
      BY <3>1, <3>2, ConnAssumption DEF IInv, Typed, Queues
    <3>4. QED
      BY <1>14, <3>3 DEF Reply, IInv, Typed, Queues
  <2>3. QED
    BY <2>1, <2>2
<1>15. CASE farewell
  <2>1. CASE writer # "runs"
    BY <1>15, <2>1 DEF farewell, IInv, Typed, Queues
  <2>2. CASE writer = "runs"
    <3>1. [type |-> "goaway", arg |-> lastStreamID] \in Spoken
      BY DEF IInv, Typed, Scalars, Spoken
    <3>2. queue' = Append(queue, [type |-> "goaway", arg |-> lastStreamID]) /\ Len(queue) < QueueDepth
      BY <1>15, <2>2 DEF farewell
    <3>3. queue' \in Seq(Spoken) /\ Len(queue') <= QueueDepth
      BY <3>1, <3>2, ConnAssumption DEF IInv, Typed, Queues
    <3>4. QED
      BY <1>15, <3>3 DEF farewell, IInv, Typed, Queues
  <2>3. QED
    BY <2>1, <2>2
<1>16. CASE LeaveSilently
  BY <1>16 DEF LeaveSilently, IInv, Typed, Queues
<1>17. CASE Wait
  BY <1>17 DEF Wait, IInv, Typed, Queues
<1>18. CASE Drain
  BY <1>18 DEF Drain, IInv, Typed, Queues
<1>19. CASE Tell
  BY <1>19 DEF Tell, IInv, Typed, Queues
<1>20. CASE Shutdown
  BY <1>20 DEF Shutdown, IInv, Typed, Queues
<1>21. CASE Close
  BY <1>21 DEF Close, IInv, Typed, Queues
<1>22. CASE WriterStep
  <2>1. CASE UNCHANGED <<queue, wire>>
    BY <1>22, <2>1 DEF WriterStep, IInv, Typed, Queues
  <2>2. CASE queue # <<>> /\ wire' = Append(wire, Head(queue)) /\ queue' = Tail(queue)
    <3>1. Head(queue) \in Spoken /\ Tail(queue) \in Seq(Spoken) /\ Len(Tail(queue)) = Len(queue) - 1
      BY <2>2 DEF IInv, Typed, Queues
    <3>0. \A s \in Seq(Spoken), h \in Spoken : Append(s, h) \in Seq(Spoken)
      OBVIOUS
    <3>a. wire' \in Seq(Spoken)
      <4>1. wire \in Seq(Spoken) /\ wire' = Append(wire, Head(queue))
        BY <2>2 DEF IInv, Typed, Queues
      <4>2. QED
        BY <3>0, <3>1, <4>1, Zenon
    <3>b. Len(queue) \in Nat /\ Len(queue) <= QueueDepth /\ queue' = Tail(queue)
      BY <2>2 DEF IInv, Typed, Queues
    <3>c. Len(queue) - 1 <= QueueDepth
      BY <3>b, ConnAssumption
    <3>2. wire' \in Seq(Spoken) /\ queue' \in Seq(Spoken) /\ Len(queue') <= QueueDepth
      BY <3>1, <3>a, <3>b, <3>c, Zenon
    <3>3. QED
      BY <1>22, <3>2 DEF WriterStep, IInv, Typed, Queues
  <2>3. QED
    BY <1>22, <2>1, <2>2 DEF WriterStep
<1>23. CASE PeerSends
  <2>1. UNCHANGED <<queue, wire>>
    BY <1>23 DEF PeerSends
  <2>2. CASE inbox' = inbox
    BY <2>1, <2>2 DEF IInv, Typed, Queues
  <2>3. ASSUME NEW f \in Frames \cup {Out("preface")}, inbox' = Append(inbox, f)
        PROVE  Queues'
    BY <2>1, <2>3 DEF IInv, Typed, Queues
  <2>4. QED
    BY <1>23, <2>2, <2>3 DEF PeerSends, Send
<1>24. CASE Tick
  BY <1>24 DEF Tick, IInv, Typed, Queues, Less
<1>25. CASE UNCHANGED vars
  BY <1>25 DEF IInv, Typed, Queues
<1>26. QED
  BY <1>1, <1>2, <1>3, <1>4, <1>5, <1>6, <1>7, <1>8, <1>9, <1>10, <1>11, <1>12, <1>13, <1>14, <1>15, <1>16, <1>17, <1>18, <1>19, <1>20, <1>21, <1>22, <1>23, <1>24, <1>25 DEF Next, Reader

\* Everything else keeps its type.
LEMMA ScalarsStep == IInv /\ [Next]_vars => Scalars'
<1> SUFFICES ASSUME IInv, [Next]_vars PROVE Scalars'
  OBVIOUS
<1> USE DEF loop, parms, ending, peer, out, seen, asked, vars
<1>1. CASE BeginHandshake
  BY <1>1, Symbols, LongestIs, ConnAssumption DEF BeginHandshake, IInv, Typed, Scalars, Early, Serving, Late, Kinds, Errs, Farewells
<1>2. CASE Handshake
  BY <1>2, Symbols, LongestIs, ConnAssumption DEF Handshake, IInv, Typed, Scalars, Early, Serving, Late, Kinds, Errs, Farewells
<1>3. CASE ClearDeadline
  BY <1>3, Symbols, LongestIs, ConnAssumption DEF ClearDeadline, IInv, Typed, Scalars, Early, Serving, Late, Kinds, Errs, Farewells
<1>4. CASE Discard
  BY <1>4, Symbols, LongestIs, ConnAssumption DEF Discard, IInv, Typed, Scalars, Early, Serving, Late, Kinds, Errs, Farewells
<1>5. CASE First
  BY <1>5, Symbols, LongestIs, ConnAssumption DEF First, IInv, Typed, Scalars, Early, Serving, Late, Kinds, Errs, Farewells, Out
<1>6. CASE Arm
  BY <1>6, Symbols, LongestIs, ConnAssumption DEF Arm, IInv, Typed, Scalars, Early, Serving, Late, Kinds, Errs, Farewells, Earlier
<1>7. CASE setReadDeadline
  BY <1>7, Symbols, LongestIs, ConnAssumption DEF setReadDeadline, IInv, Typed, Scalars, Early, Serving, Late, Kinds, Errs, Farewells
<1>8. CASE ReadFails
  <2>1. /\ pc' = "over" /\ err' \in {"peerClosed", "transport", Expired}
        /\ UNCHANGED <<armed, deadlineKind, held, reply, ackDue, deadline, waited, lastStreamID, told, quit,
                       shutdown, sock, writer, writeFailed, handled, applied>>
    BY <1>8 DEF ReadFails
  <2>2. Expired \in Errs
    BY DEF IInv, Typed, Scalars, Kinds, Errs, Farewells, Expired
  <2>3. err' \in Errs
    BY <2>1, <2>2 DEF Errs
  <2> QED
    BY <2>1, <2>3 DEF IInv, Typed, Scalars
<1>9. CASE ReadPreface
  <2>1. /\ \/ pc' = "loop" /\ ackDue' = SettingsAck /\ err' = err
           \/ pc' = "over" /\ ackDue' = ackDue /\ err' = "connError"
        /\ UNCHANGED <<armed, deadlineKind, held, reply, deadline, waited, lastStreamID, told, quit,
                       shutdown, sock, writer, writeFailed, handled, applied>>
    BY <1>9 DEF ReadPreface
  <2>2. SettingsAck \in Off .. SettingsAck
    BY Symbols, ConnAssumption
  <2>3. ackDue' \in Off .. SettingsAck /\ err' \in Errs
    BY <2>1, <2>2 DEF IInv, Typed, Scalars, Errs, Farewells
  <2>4. pc' \in Early \cup Serving \cup Late \cup {"over", "recovered"}
    BY <2>1 DEF Serving
  <2> QED
    BY <2>1, <2>3, <2>4 DEF IInv, Typed, Scalars
<1>10. CASE ReadFrame
  <2>1. Head(inbox) \in Frames \cup {Out("preface")}
    BY <1>10 DEF ReadFrame, IInv, Typed, Queues
  <2>2. held' \in Frames \cup {NoFrame}
    BY <1>10, <2>1 DEF ReadFrame, Out, IInv, Typed, Scalars
  <2>3. pc' \in {"over", "dispatch"} /\ err' \in Errs
    BY <1>10 DEF ReadFrame, IInv, Typed, Scalars, Errs, Farewells
  <2>4. QED
    BY <1>10, <2>2, <2>3 DEF ReadFrame, IInv, Typed, Scalars, Serving
<1>11. CASE dispatch
  <2>0. held \in Frames /\ held.arg \in Nat /\ lastStreamID \in Nat /\ applied \in Nat /\ handled \subseteq Nat
    BY <1>11, ConnAssumption DEF dispatch, IInv, Typed, Scalars, Control
  <2>1. /\ lastStreamID' \in Nat /\ applied' \in Nat /\ handled' \subseteq Nat
    BY <1>11, <2>0 DEF dispatch, handleSettings, handleStreamFrame
  <2>2. /\ pc' \in {"over", "loop", "reply"} /\ err' \in Errs
        /\ reply' \in {NoFrame} \cup [type : {"ack", "pong", "rst"}, arg : Nat]
    BY <1>11, <2>0 DEF dispatch, handleSettings, handleStreamFrame, Fails, Answers, Absorbs, Out,
                        IInv, Typed, Scalars, Errs, Farewells
  <2>3. ackDue' \in Off .. SettingsAck
    BY <1>11, Symbols, ConnAssumption DEF dispatch, handleSettings, IInv, Typed, Scalars
  <2>4. held' = NoFrame
        /\ UNCHANGED <<armed, deadlineKind, told, drained, asked, deadline, sock, peer, out, waited>>
    BY <1>11 DEF dispatch
  <2>5. QED
    BY <2>1, <2>2, <2>3, <2>4 DEF IInv, Typed, Scalars, Serving
<1>12. CASE Panic
  <2>0. held \in Frames /\ held.arg \in Nat /\ lastStreamID \in Nat /\ applied \in Nat /\ handled \subseteq Nat
    BY <1>12, ConnAssumption DEF Panic, IInv, Typed, Scalars, Control
  <2>1. /\ lastStreamID' \in Nat /\ applied' \in Nat /\ handled' \subseteq Nat
    BY <1>12, <2>0 DEF Panic, handleSettings, handleStreamFrame
  <2>2. QED
    BY <1>12, <2>1 DEF Panic, IInv, Typed, Scalars, Errs
<1>13. CASE Recovered
  BY <1>13, Symbols, LongestIs, ConnAssumption DEF Recovered, IInv, Typed, Scalars, Early, Serving, Late, Kinds, Errs, Farewells
<1>14. CASE Reply
  BY <1>14, Symbols, LongestIs, ConnAssumption DEF Reply, IInv, Typed, Scalars, Early, Serving, Late, Kinds, Errs, Farewells
<1>15. CASE farewell
  BY <1>15, Symbols, LongestIs, ConnAssumption DEF farewell, IInv, Typed, Scalars, Early, Serving, Late, Kinds, Errs, Farewells
<1>16. CASE LeaveSilently
  BY <1>16, Symbols, LongestIs, ConnAssumption DEF LeaveSilently, IInv, Typed, Scalars, Early, Serving, Late, Kinds, Errs, Farewells
<1>17. CASE Wait
  BY <1>17, Symbols, LongestIs, ConnAssumption DEF Wait, IInv, Typed, Scalars, Early, Serving, Late, Kinds, Errs, Farewells
<1>18. CASE Drain
  BY <1>18, Symbols, LongestIs, ConnAssumption DEF Drain, IInv, Typed, Scalars, Early, Serving, Late, Kinds, Errs, Farewells
<1>19. CASE Tell
  BY <1>19, Symbols, LongestIs, ConnAssumption DEF Tell, IInv, Typed, Scalars, Early, Serving, Late, Kinds, Errs, Farewells
<1>20. CASE Shutdown
  <2>1. quit' \in BOOLEAN /\ shutdown' \in {"before", "between", "after"}
    BY <1>20 DEF Shutdown, IInv, Typed, Scalars
  <2>2. deadline' \in Off .. Longest
    BY <1>20, Symbols, LongestIs DEF Shutdown, IInv, Typed, Scalars
  <2>3. QED
    BY <1>20, <2>1, <2>2 DEF Shutdown, IInv, Typed, Scalars
<1>21. CASE Close
  BY <1>21, Symbols, LongestIs, ConnAssumption DEF Close, IInv, Typed, Scalars, Early, Serving, Late, Kinds, Errs, Farewells
<1>22. CASE WriterStep
  <2>1. writer' \in {"runs", "drains", "cut", "gone"}
    BY <1>22 DEF WriterStep, IInv, Typed, Scalars
  <2>2. writeFailed' \in BOOLEAN
    BY <1>22 DEF WriterStep, IInv, Typed, Scalars
  <2>3. QED
    BY <1>22, <2>1, <2>2 DEF WriterStep, IInv, Typed, Scalars
<1>23. CASE PeerSends
  BY <1>23, Symbols, LongestIs, ConnAssumption DEF PeerSends, IInv, Typed, Scalars, Early, Serving, Late, Kinds, Errs, Farewells, Send, Out
<1>24. CASE Tick
  <2>1. armed' \in [kind : Kinds, left : 0 .. Longest]
    BY <1>24, LongestIs DEF Tick, Less, IInv, Typed, Scalars
  <2>2. ackDue' \in Off .. SettingsAck
    BY <1>24, Symbols, ConnAssumption DEF Tick, Less, IInv, Typed, Scalars
  <2>3. deadline' \in Off .. Longest
    BY <1>24, Symbols, LongestIs DEF Tick, Less, IInv, Typed, Scalars
  <2>4. waited' \in 0 .. Longest
    BY <1>24, LongestIs DEF Tick, IInv, Typed, Scalars
  <2>5. QED
    BY <1>24, <2>1, <2>2, <2>3, <2>4 DEF Tick, IInv, Typed, Scalars
<1>25. CASE UNCHANGED vars
  BY <1>25, Symbols, LongestIs, ConnAssumption DEF IInv, Typed, Scalars, Early, Serving, Late, Kinds, Errs, Farewells
<1>26. QED
  BY <1>1, <1>2, <1>3, <1>4, <1>5, <1>6, <1>7, <1>8, <1>9, <1>10, <1>11, <1>12, <1>13, <1>14, <1>15, <1>16, <1>17, <1>18, <1>19, <1>20, <1>21, <1>22, <1>23, <1>24, <1>25 DEF Next, Reader

\* The deadlines stay honest, Tick by Tick.
LEMMA ClocksStep == IInv /\ [Next]_vars => Clocks'
<1> SUFFICES ASSUME IInv, [Next]_vars PROVE Clocks'
  OBVIOUS
<1> USE DEF loop, parms, ending, peer, out, seen, asked, vars
<1>1. CASE BeginHandshake
  BY <1>1, Symbols, LongestIs, ConnAssumption DEF BeginHandshake, IInv, Clocks, Honest, TimeoutsAreTrue, Reading, Typed, Scalars, Early, Serving, Late, Kinds
<1>2. CASE Handshake
  BY <1>2, Symbols, LongestIs, ConnAssumption DEF Handshake, IInv, Clocks, Honest, TimeoutsAreTrue, Reading, Typed, Scalars, Early, Serving, Late, Kinds
<1>3. CASE ClearDeadline
  BY <1>3, Symbols, LongestIs, ConnAssumption DEF ClearDeadline, IInv, Clocks, Honest, TimeoutsAreTrue, Reading, Typed, Scalars, Early, Serving, Late, Kinds
<1>4. CASE Discard
  BY <1>4, Symbols, LongestIs, ConnAssumption DEF Discard, IInv, Clocks, Honest, TimeoutsAreTrue, Reading, Typed, Scalars, Early, Serving, Late, Kinds
<1>5. CASE First
  BY <1>5, Symbols, LongestIs, ConnAssumption DEF First, IInv, Clocks, Honest, TimeoutsAreTrue, Reading, Typed, Scalars, Early, Serving, Late, Kinds, Out
<1>6. CASE Arm
  BY <1>6, Symbols, LongestIs, ConnAssumption DEF Arm, IInv, Clocks, Honest, TimeoutsAreTrue, Reading, Typed, Scalars, Early, Serving, Late, Kinds, Earlier
<1>7. CASE setReadDeadline
  BY <1>7, Symbols, LongestIs, ConnAssumption DEF setReadDeadline, IInv, Clocks, Honest, TimeoutsAreTrue, Reading, Typed, Scalars, Early, Serving, Late, Kinds
<1>8. CASE ReadFails
  <2>1. /\ UNCHANGED <<armed, deadlineKind, deadline, ackDue, waited, sock>>
        /\ pc' = "over" /\ Reading
        /\ err' \in {"transport", "peerClosed"} \/ (err' = Expired /\ deadline = 0)
    BY <1>8 DEF ReadFails
  <2>2. /\ deadlineKind \in Kinds /\ waited \in Nat
        /\ ~quit /\ deadline = 0 => Honest(0)
    BY <2>1, LongestIs DEF IInv, Clocks, Typed, Scalars
  <2>3. ASSUME ~quit, deadline = 0, err' = Expired PROVE TimeoutsAreTrue'
    <3>1. Honest(0) /\ waited' = waited /\ ackDue' = ackDue
      BY <2>1, <2>2, <2>3
    <3>2. CASE deadlineKind = "idle"
      BY <2>2, <2>3, <3>1, <3>2, ConnAssumption DEF Expired, Honest, TimeoutsAreTrue
    <3>3. CASE deadlineKind = "preface"
      BY <2>2, <2>3, <3>1, <3>3, ConnAssumption DEF Expired, Honest, TimeoutsAreTrue
    <3>4. CASE deadlineKind = "settingsAck"
      BY <2>3, <3>1, <3>4 DEF Expired, Honest, TimeoutsAreTrue
    <3> QED
      BY <2>2, <3>2, <3>3, <3>4 DEF Kinds
  <2>4. ASSUME err' \in {"transport", "peerClosed", "shuttingDown"} PROVE TimeoutsAreTrue'
    BY <2>4 DEF TimeoutsAreTrue
  <2>5. TimeoutsAreTrue'
    BY <2>1, <2>3, <2>4 DEF Expired
  <2> QED
    BY <2>1, <2>5 DEF Clocks, Reading
<1>9. CASE ReadPreface
  BY <1>9, Symbols, LongestIs, ConnAssumption DEF ReadPreface, IInv, Clocks, Honest, TimeoutsAreTrue, Reading, Typed, Scalars, Early, Serving, Late, Kinds, Out
<1>10. CASE ReadFrame
  BY <1>10, Symbols, LongestIs, ConnAssumption DEF ReadFrame, IInv, Clocks, Honest, TimeoutsAreTrue, Reading, Typed, Scalars, Early, Serving, Late, Kinds
<1>11. CASE dispatch
  BY <1>11, Symbols, LongestIs, ConnAssumption DEF dispatch, IInv, Clocks, Honest, TimeoutsAreTrue, Reading, Typed, Scalars, Early, Serving, Late, Kinds, handleSettings, handleStreamFrame, Fails, Answers, Absorbs, Applies, Out
<1>12. CASE Panic
  BY <1>12, Symbols, LongestIs, ConnAssumption DEF Panic, IInv, Clocks, Honest, TimeoutsAreTrue, Reading, Typed, Scalars, Early, Serving, Late, Kinds
<1>13. CASE Recovered
  BY <1>13, Symbols, LongestIs, ConnAssumption DEF Recovered, IInv, Clocks, Honest, TimeoutsAreTrue, Reading, Typed, Scalars, Early, Serving, Late, Kinds
<1>14. CASE Reply
  BY <1>14, Symbols, LongestIs, ConnAssumption DEF Reply, IInv, Clocks, Honest, TimeoutsAreTrue, Reading, Typed, Scalars, Early, Serving, Late, Kinds
<1>15. CASE farewell
  BY <1>15, Symbols, LongestIs, ConnAssumption DEF farewell, IInv, Clocks, Honest, TimeoutsAreTrue, Reading, Typed, Scalars, Early, Serving, Late, Kinds
<1>16. CASE LeaveSilently
  BY <1>16, Symbols, LongestIs, ConnAssumption DEF LeaveSilently, IInv, Clocks, Honest, TimeoutsAreTrue, Reading, Typed, Scalars, Early, Serving, Late, Kinds
<1>17. CASE Wait
  BY <1>17, Symbols, LongestIs, ConnAssumption DEF Wait, IInv, Clocks, Honest, TimeoutsAreTrue, Reading, Typed, Scalars, Early, Serving, Late, Kinds
<1>18. CASE Drain
  BY <1>18, Symbols, LongestIs, ConnAssumption DEF Drain, IInv, Clocks, Honest, TimeoutsAreTrue, Reading, Typed, Scalars, Early, Serving, Late, Kinds
<1>19. CASE Tell
  BY <1>19, Symbols, LongestIs, ConnAssumption DEF Tell, IInv, Clocks, Honest, TimeoutsAreTrue, Reading, Typed, Scalars, Early, Serving, Late, Kinds
<1>20. CASE Shutdown
  <2>1. quit'
    BY <1>20 DEF Shutdown, IInv, Interrupted
  <2>2. UNCHANGED <<loop, parms, ending, waited>>
    BY <1>20 DEF Shutdown
  <2>3. QED
    BY <2>1, <2>2 DEF IInv, Clocks, Honest, TimeoutsAreTrue, Reading
<1>21. CASE Close
  BY <1>21, Symbols, LongestIs, ConnAssumption DEF Close, IInv, Clocks, Honest, TimeoutsAreTrue, Reading, Typed, Scalars, Early, Serving, Late, Kinds
<1>22. CASE WriterStep
  BY <1>22, Symbols, LongestIs, ConnAssumption DEF WriterStep, IInv, Clocks, Honest, TimeoutsAreTrue, Reading, Typed, Scalars, Early, Serving, Late, Kinds
<1>23. CASE PeerSends
  BY <1>23, Symbols, LongestIs, ConnAssumption DEF PeerSends, IInv, Clocks, Honest, TimeoutsAreTrue, Reading, Typed, Scalars, Early, Serving, Late, Kinds, Send, Out
<1>24. CASE Tick
  BY <1>24, Symbols, LongestIs, ConnAssumption DEF Tick, IInv, Clocks, Honest, TimeoutsAreTrue, Reading, Typed, Scalars, Early, Serving, Late, Kinds, Less
<1>25. CASE UNCHANGED vars
  BY <1>25, Symbols, LongestIs, ConnAssumption DEF IInv, Clocks, Honest, TimeoutsAreTrue, Reading, Typed, Scalars, Early, Serving, Late, Kinds
<1>26. QED
  BY <1>1, <1>2, <1>3, <1>4, <1>5, <1>6, <1>7, <1>8, <1>9, <1>10, <1>11, <1>12, <1>13, <1>14, <1>15, <1>16, <1>17, <1>18, <1>19, <1>20, <1>21, <1>22, <1>23, <1>24, <1>25 DEF Next, Reader

\* Moving the head of the queue to the end of the wire changes nothing of what is said.
LEMMA Concats ==
    ASSUME NEW s \in Seq(Spoken), NEW t \in Seq(Spoken), NEW e \in Spoken
    PROVE  /\ s \o t \in Seq(Spoken) /\ s \o Append(t, e) = Append(s \o t, e)
           /\ t # <<>> => Append(s, Head(t)) \o Tail(t) = s \o t
           /\ s \o <<>> = s
<1>1. s \o t \in Seq(Spoken) /\ s \o <<>> = s
  OBVIOUS
<1>2. s \o Append(t, e) = Append(s \o t, e)
  OBVIOUS
<1>3. t # <<>> => Append(s, Head(t)) \o Tail(t) = s \o t
  OBVIOUS
<1>4. QED
  BY <1>1, <1>2, <1>3

LEMMA AcksCount ==
    ASSUME NEW s \in Seq(Spoken)
    PROVE  Cardinality(Acks(s)) \in Nat /\ IsFiniteSet(Acks(s))
<1>1. Acks(s) \in SUBSET (1 .. Len(s)) /\ Len(s) \in Nat
  BY DEF Acks
<1>2. IsFiniteSet(1 .. Len(s))
  BY <1>1, FS_Interval
<1>3. IsFiniteSet(Acks(s))
  BY <1>1, <1>2, FS_Subset
<1>4. QED
  BY <1>3, FS_CardinalityType

\* One more frame is one more acknowledgement, or none.
LEMMA AcksAppend ==
    ASSUME NEW s \in Seq(Spoken), NEW e \in Spoken
    PROVE  Cardinality(Acks(Append(s, e))) = Cardinality(Acks(s)) + (IF e.type = "ack" THEN 1 ELSE 0)
<1>1. Len(Append(s, e)) = Len(s) + 1 /\ Len(s) \in Nat /\ Append(s, e)[Len(s) + 1] = e
      /\ \A i \in 1 .. Len(s) : Append(s, e)[i] = s[i]
  OBVIOUS
<1>2. Cardinality(Acks(s)) \in Nat /\ IsFiniteSet(Acks(s)) /\ Len(s) + 1 \notin Acks(s)
  BY <1>1, AcksCount DEF Acks
<1>3. CASE e.type = "ack"
  <2>1. Acks(Append(s, e)) = Acks(s) \cup {Len(s) + 1}
    BY <1>1, <1>3 DEF Acks
  <2>2. QED
    BY <1>2, <1>3, <2>1, FS_AddElement
<1>4. CASE e.type # "ack"
  <2>1. Acks(Append(s, e)) = Acks(s)
    BY <1>1, <1>4 DEF Acks
  <2>2. QED
    BY <1>2, <1>4, <2>1
<1>5. QED
  BY <1>3, <1>4

\* Only First, Reply and farewell say anything, and in their place.
LEMMA SpeechStep == IInv /\ [Next]_vars => Speech'
<1> SUFFICES ASSUME IInv, [Next]_vars PROVE Speech'
  OBVIOUS
<1> USE DEF loop, parms, ending, peer, out, seen, asked, vars
<1>1. CASE BeginHandshake
  <2>1. Said' = Said /\ Acks(Said)' = Acks(Said)
    BY <1>1 DEF BeginHandshake, Said, Acks
  <2> HIDE DEF Said, Acks
  <2>2. QED
    BY <1>1, <2>1, Symbols DEF BeginHandshake, IInv, Speech, Owed, Control, Typed, Scalars, Early, Serving, Late
<1>2. CASE Handshake
  <2>1. Said' = Said /\ Acks(Said)' = Acks(Said)
    BY <1>2 DEF Handshake, Said, Acks
  <2> HIDE DEF Said, Acks
  <2>2. QED
    BY <1>2, <2>1, Symbols DEF Handshake, IInv, Speech, Owed, Control, Typed, Scalars, Early, Serving, Late
<1>3. CASE ClearDeadline
  <2>1. Said' = Said /\ Acks(Said)' = Acks(Said)
    BY <1>3 DEF ClearDeadline, Said, Acks
  <2> HIDE DEF Said, Acks
  <2>2. QED
    BY <1>3, <2>1, Symbols DEF ClearDeadline, IInv, Speech, Owed, Control, Typed, Scalars, Early, Serving, Late
<1>4. CASE Discard
  <2>1. Said' = Said /\ Acks(Said)' = Acks(Said)
    BY <1>4 DEF Discard, Said, Acks
  <2> HIDE DEF Said, Acks
  <2>2. QED
    BY <1>4, <2>1, Symbols DEF Discard, IInv, Speech, Owed, Control, Typed, Scalars, Early, Serving, Late
<1>5. CASE First
  <2>1. wire = <<>> /\ queue = <<>>
    <3>1. Len(Said) = 0 /\ Len(Said) = Len(wire) + Len(queue) /\ Len(wire) \in Nat /\ Len(queue) \in Nat
      BY <1>5 DEF First, IInv, Speech, Said, Early, Typed, Queues
    <3>2. Len(wire) = 0 /\ Len(queue) = 0
      BY <3>1
    <3>3. QED
      BY <3>2 DEF IInv, Typed, Queues
  <2>2. Said' = <<Out("settings")>>
    BY <1>5, <2>1 DEF First, Said
  <2>3. Said' # <<>> /\ Len(Said') = 1 /\ Said'[1] = Out("settings")
    BY <2>2
  <2>4. Acks(Said)' = {} /\ Acks(Said) = {}
    BY <2>1, <2>3 DEF Acks, Out, Said
  <2>5. PICK a \in BOOLEAN : a = writeFailed /\ (~a => applied = 0)
    BY <1>5, <2>4, FS_EmptySet DEF First, IInv, Speech, Owed, Typed, Scalars
  <2> HIDE DEF Said, Acks
  <2>6. QED
    BY <1>5, <2>3, <2>4, <2>5, FS_EmptySet DEF First, Out, IInv, Speech, Owed, Early, Serving, Late
<1>6. CASE Arm
  <2>1. Said' = Said /\ Acks(Said)' = Acks(Said)
    BY <1>6 DEF Arm, Said, Acks
  <2> HIDE DEF Said, Acks
  <2>2. QED
    BY <1>6, <2>1, Symbols DEF Arm, IInv, Speech, Owed, Control, Typed, Scalars, Early, Serving, Late, Earlier
<1>7. CASE setReadDeadline
  <2>1. Said' = Said /\ Acks(Said)' = Acks(Said)
    BY <1>7 DEF setReadDeadline, Said, Acks
  <2> HIDE DEF Said, Acks
  <2>2. QED
    BY <1>7, <2>1, Symbols DEF setReadDeadline, IInv, Speech, Owed, Control, Typed, Scalars, Early, Serving, Late
<1>8. CASE ReadFails
  <2>1. Said' = Said /\ Acks(Said)' = Acks(Said)
    BY <1>8 DEF ReadFails, Said, Acks
  <2> HIDE DEF Said, Acks
  <2>2. QED
    BY <1>8, <2>1, Symbols DEF ReadFails, IInv, Speech, Owed, Control, Typed, Scalars, Early, Serving, Late, Reading, Expired, Farewells
<1>9. CASE ReadPreface
  <2>1. Said' = Said /\ Acks(Said)' = Acks(Said)
    BY <1>9 DEF ReadPreface, Said, Acks
  <2> HIDE DEF Said, Acks
  <2>2. QED
    BY <1>9, <2>1, Symbols DEF ReadPreface, IInv, Speech, Owed, Control, Typed, Scalars, Early, Serving, Late, Out
<1>10. CASE ReadFrame
  <2>1. Said' = Said /\ Acks(Said)' = Acks(Said)
    BY <1>10 DEF ReadFrame, Said, Acks
  <2> HIDE DEF Said, Acks
  <2>2. QED
    BY <1>10, <2>1, Symbols DEF ReadFrame, IInv, Speech, Owed, Control, Typed, Scalars, Early, Serving, Late
<1>11. CASE dispatch
  <2>7. Said \in Seq(Spoken)
    BY DEF Said, IInv, Typed, Queues
  <2>1. Said' = Said /\ Acks(Said)' = Acks(Said)
    BY <1>11 DEF dispatch, Said, Acks
  <2> HIDE DEF Said, Acks
  <2>2. held.arg \in Nat /\ lastStreamID \in Nat /\ handled \subseteq Nat /\ applied \in Nat
    BY <1>11, ConnAssumption, Symbols DEF dispatch, IInv, Typed, Scalars, Control
  <2>3. lastStreamID' \in Nat /\ lastStreamID <= lastStreamID' /\ \A id \in handled' : id <= lastStreamID'
    BY <1>11, <2>2 DEF dispatch, handleStreamFrame, handleSettings, IInv, Speech
  <2>4. pc = "dispatch" /\ pc \notin Early \cup Late /\ writeFailed' = writeFailed /\ pc' \notin Early
    BY <1>11 DEF dispatch, Early, Late, Fails, Answers, Absorbs, handleSettings, handleStreamFrame
  <2>5. Owed = 0 /\ applied' = applied + Owed'
    BY <1>11, <2>2, <2>4, Symbols DEF dispatch, Owed, Fails, Answers, Absorbs, handleSettings, handleStreamFrame, Out
  <2>6. Cardinality(Acks(Said)) \in Nat
    BY AcksCount, <2>7
  <2>8. ~writeFailed => Cardinality(Acks(Said)) + Owed' = applied'
    BY <2>2, <2>5, <2>6 DEF IInv, Speech
  <2>9. Said # <<>> /\ \A i \in 1 .. Len(Said) : (Said[i].type = "settings" <=> i = 1) /\ Said[i].type # "goaway"
    BY <2>4 DEF IInv, Speech, Serving
  <2>10. QED
    BY <2>1, <2>3, <2>4, <2>8, <2>9 DEF Speech
<1>12. CASE Panic
  <2>7. Said \in Seq(Spoken)
    BY DEF Said, IInv, Typed, Queues
  <2>1. Said' = Said /\ Acks(Said)' = Acks(Said)
    BY <1>12 DEF Panic, Said, Acks
  <2> HIDE DEF Said, Acks
  <2>2. held.arg \in Nat /\ lastStreamID \in Nat /\ handled \subseteq Nat /\ applied \in Nat
    BY <1>12, ConnAssumption, Symbols DEF Panic, IInv, Typed, Scalars, Control
  <2>3. lastStreamID' \in Nat /\ lastStreamID <= lastStreamID' /\ \A id \in handled' : id <= lastStreamID'
    BY <1>12, <2>2 DEF Panic, handleStreamFrame, handleSettings, IInv, Speech
  <2>4. pc = "dispatch" /\ pc \notin Early \cup Late /\ writeFailed' = writeFailed /\ pc' \notin Early
    BY <1>12 DEF Panic, Early, Late, Fails, Answers, Absorbs, handleSettings, handleStreamFrame
  <2>5. Owed = 0 /\ applied' = applied + Owed'
    BY <1>12, <2>2, <2>4, Symbols DEF Panic, Owed, Fails, Answers, Absorbs, handleSettings, handleStreamFrame, Out
  <2>6. Cardinality(Acks(Said)) \in Nat
    BY AcksCount, <2>7
  <2>8. ~writeFailed => Cardinality(Acks(Said)) + Owed' = applied'
    BY <2>2, <2>5, <2>6 DEF IInv, Speech
  <2>9. Said # <<>> /\ \A i \in 1 .. Len(Said) : (Said[i].type = "settings" <=> i = 1) /\ Said[i].type # "goaway"
    BY <2>4 DEF IInv, Speech, Serving
  <2>10. QED
    BY <2>1, <2>3, <2>4, <2>8, <2>9 DEF Speech
<1>13. CASE Recovered
  <2>1. Said' = Said /\ Acks(Said)' = Acks(Said)
    BY <1>13 DEF Recovered, Said, Acks
  <2> HIDE DEF Said, Acks
  <2>2. QED
    BY <1>13, <2>1, Symbols DEF Recovered, IInv, Speech, Owed, Control, Typed, Scalars, Early, Serving, Late
<1>14. CASE Reply
  <2>1. CASE writer # "runs"
    <3>1. writeFailed /\ Said' = Said /\ Acks(Said)' = Acks(Said)
      BY <1>14, <2>1 DEF Reply, IInv, Writer, Serving, Said, Acks
    <3> HIDE DEF Said, Acks
    <3>2. QED
      BY <1>14, <2>1, <3>1 DEF Reply, IInv, Speech, Serving, Early, Late
  <2>2. CASE writer = "runs"
    <3>1. queue' = Append(queue, reply) /\ wire' = wire /\ reply \in Spoken /\ reply.type # "settings"
          /\ reply.type # "goaway"
      BY <1>14, <2>2 DEF Reply, IInv, Typed, Scalars, Control, Spoken
    <3>2. Said' = Append(Said, reply) /\ Said \in Seq(Spoken)
      BY <3>1, Concats DEF Said, IInv, Typed, Queues
    <3> HIDE DEF Said
    <3>3. /\ Len(Said') = Len(Said) + 1 /\ Len(Said) \in Nat /\ Said'[Len(Said) + 1] = reply
          /\ \A i \in 1 .. Len(Said) : Said'[i] = Said[i]
          /\ Said' # <<>>
      BY <3>2
    <3>4. Said # <<>> /\ Len(Said) # 0
      BY <1>14, <3>2 DEF Reply, IInv, Speech, Serving
    <3>5. ~writeFailed => Cardinality(Acks(Said')) = applied
      <4>1. Cardinality(Acks(Said')) = Cardinality(Acks(Said)) + Owed
        BY <1>14, <3>1, <3>2, AcksAppend DEF Reply, Owed
      <4>2. QED
        BY <4>1 DEF IInv, Speech
    <3>6. \A i \in 1 .. Len(Said) : Said[i].type # "goaway"
      BY <1>14 DEF Reply, IInv, Speech, Late
    <3>7. Acks(Said)' = Acks(Said')
      BY DEF Acks
    <3> HIDE DEF Acks
    <3>8. pc' = "loop" /\ UNCHANGED <<applied, handled, lastStreamID, writeFailed>>
      BY <1>14, <2>2 DEF Reply
    <3>9. \A i \in 1 .. Len(Said') :
              (Said'[i].type = "settings" <=> i = 1) /\ Said'[i].type # "goaway"
      <4>1. \A i \in 1 .. Len(Said) : Said[i].type = "settings" <=> i = 1
        BY DEF IInv, Speech
      <4>2. \A i \in 1 .. Len(Said') : i \in 1 .. Len(Said) \/ i = Len(Said) + 1
        BY <3>3
      <4>3. QED
        BY <3>1, <3>3, <3>4, <3>6, <4>1, <4>2
    <3>10. applied \in Nat /\ \A id \in handled' : id <= lastStreamID'
      BY <3>8 DEF IInv, Typed, Scalars, Speech
    <3>11. Owed' = 0
      BY <3>8 DEF Owed
    <3>12. ~writeFailed' => Cardinality(Acks(Said))' + Owed' = applied'
      BY <3>5, <3>7, <3>8, <3>10, <3>11
    <3>13. QED
      BY <3>3, <3>8, <3>9, <3>10, <3>12 DEF Speech, Early
  <2>3. QED
    BY <2>1, <2>2
<1>15. CASE farewell
  <2>1. CASE writer # "runs"
    <3>1. Said' = Said /\ Acks(Said)' = Acks(Said)
      BY <1>15, <2>1 DEF farewell, Said, Acks
    <3> HIDE DEF Said, Acks
    <3>2. QED
      BY <1>15, <3>1 DEF farewell, IInv, Speech, Owed, Serving, Early, Late
  <2>2. CASE writer = "runs"
    <3> DEFINE bye == [type |-> "goaway", arg |-> lastStreamID]
    <3>1. queue' = Append(queue, bye) /\ wire' = wire /\ bye \in Spoken
          /\ bye.type = "goaway" /\ bye.arg = lastStreamID
      BY <1>15, <2>2 DEF farewell, IInv, Typed, Scalars, Spoken
    <3> HIDE DEF bye
    <3>2. Said' = Append(Said, bye) /\ Said \in Seq(Spoken)
      BY <3>1, Concats DEF Said, IInv, Typed, Queues
    <3> HIDE DEF Said
    <3>3. /\ Len(Said') = Len(Said) + 1 /\ Len(Said) \in Nat /\ Said'[Len(Said) + 1] = bye
          /\ \A i \in 1 .. Len(Said) : Said'[i] = Said[i]
          /\ Said' # <<>>
      BY <3>2
    <3>4. Said # <<>> /\ Len(Said) # 0
      BY <1>15, <3>2 DEF farewell, IInv, Speech
    <3>5. Cardinality(Acks(Said')) = Cardinality(Acks(Said))
      BY <3>1, <3>2, AcksAppend, AcksCount
    <3>6. \A i \in 1 .. Len(Said) : Said[i].type # "goaway" /\ (Said[i].type = "settings" <=> i = 1)
      BY <1>15 DEF farewell, IInv, Speech, Late
    <3>7. Acks(Said)' = Acks(Said')
      BY DEF Acks
    <3> HIDE DEF Acks
    <3>8. pc = "over" /\ pc' = "wait" /\ UNCHANGED <<applied, handled, lastStreamID, writeFailed>>
      BY <1>15 DEF farewell
    <3>9. \A i \in 1 .. Len(Said') :
              /\ Said'[i].type = "settings" <=> i = 1
              /\ Said'[i].type = "goaway" => i = Len(Said') /\ Said'[i].arg = lastStreamID'
      <4>1. \A i \in 1 .. Len(Said') : i \in 1 .. Len(Said) \/ i = Len(Said) + 1
        BY <3>3
      <4>2. QED
        BY <3>1, <3>3, <3>4, <3>6, <3>8, <4>1
    <3>10. ~writeFailed' => Cardinality(Acks(Said))' + Owed' = applied'
      BY <3>5, <3>7, <3>8 DEF Owed, IInv, Speech
    <3>11. \A id \in handled' : id <= lastStreamID'
      BY <3>8 DEF IInv, Speech
    <3>12. QED
      BY <3>3, <3>8, <3>9, <3>10, <3>11 DEF Speech, Early, Late, Serving
  <2>3. QED
    BY <2>1, <2>2
<1>16. CASE LeaveSilently
  <2>1. Said' = Said /\ Acks(Said)' = Acks(Said)
    BY <1>16 DEF LeaveSilently, Said, Acks
  <2> HIDE DEF Said, Acks
  <2>2. QED
    BY <1>16, <2>1, Symbols DEF LeaveSilently, IInv, Speech, Owed, Control, Typed, Scalars, Early, Serving, Late
<1>17. CASE Wait
  <2>1. Said' = Said /\ Acks(Said)' = Acks(Said)
    BY <1>17 DEF Wait, Said, Acks
  <2> HIDE DEF Said, Acks
  <2>2. QED
    BY <1>17, <2>1, Symbols DEF Wait, IInv, Speech, Owed, Control, Typed, Scalars, Early, Serving, Late
<1>18. CASE Drain
  <2>1. Said' = Said /\ Acks(Said)' = Acks(Said)
    BY <1>18 DEF Drain, Said, Acks
  <2> HIDE DEF Said, Acks
  <2>2. QED
    BY <1>18, <2>1, Symbols DEF Drain, IInv, Speech, Owed, Control, Typed, Scalars, Early, Serving, Late
<1>19. CASE Tell
  <2>1. Said' = Said /\ Acks(Said)' = Acks(Said)
    BY <1>19 DEF Tell, Said, Acks
  <2> HIDE DEF Said, Acks
  <2>2. QED
    BY <1>19, <2>1, Symbols DEF Tell, IInv, Speech, Owed, Control, Typed, Scalars, Early, Serving, Late
<1>20. CASE Shutdown
  <2>1. Said' = Said /\ Acks(Said)' = Acks(Said)
    BY <1>20 DEF Shutdown, Said, Acks
  <2> HIDE DEF Said, Acks
  <2>2. QED
    BY <1>20, <2>1, Symbols DEF Shutdown, IInv, Speech, Owed, Control, Typed, Scalars, Early, Serving, Late
<1>21. CASE Close
  <2>1. Said' = Said /\ Acks(Said)' = Acks(Said)
    BY <1>21 DEF Close, Said, Acks
  <2> HIDE DEF Said, Acks
  <2>2. QED
    BY <1>21, <2>1, Symbols DEF Close, IInv, Speech, Owed, Control, Typed, Scalars, Early, Serving, Late
<1>22. CASE WriterStep
  <2>1. Said' = Said
    <3>1. CASE UNCHANGED <<queue, wire>>
      BY <3>1 DEF Said
    <3>2. CASE queue # <<>> /\ wire' = Append(wire, Head(queue)) /\ queue' = Tail(queue)
      <4>1. Head(queue) \in Spoken
        BY <3>2 DEF IInv, Typed, Queues
      <4>2. QED
        BY <3>2, <4>1, Concats DEF Said, IInv, Typed, Queues
    <3>3. QED
      BY <1>22, <3>1, <3>2 DEF WriterStep
  <2>2. Acks(Said)' = Acks(Said)
    BY <2>1 DEF Acks
  <2> HIDE DEF Said, Acks
  <2>3. writeFailed' = writeFailed \/ writeFailed'
    BY <1>22 DEF WriterStep
  <2>4. QED
    BY <1>22, <2>1, <2>2, <2>3 DEF WriterStep, IInv, Speech, Owed
<1>23. CASE PeerSends
  <2>1. Said' = Said /\ Acks(Said)' = Acks(Said)
    BY <1>23 DEF PeerSends, Said, Acks
  <2> HIDE DEF Said, Acks
  <2>2. QED
    BY <1>23, <2>1, Symbols DEF PeerSends, IInv, Speech, Owed, Control, Typed, Scalars, Early, Serving, Late, Send, Out
<1>24. CASE Tick
  <2>1. Said' = Said /\ Acks(Said)' = Acks(Said)
    BY <1>24 DEF Tick, Said, Acks
  <2> HIDE DEF Said, Acks
  <2>2. QED
    BY <1>24, <2>1, Symbols DEF Tick, IInv, Speech, Owed, Control, Typed, Scalars, Early, Serving, Late, Less
<1>25. CASE UNCHANGED vars
  BY <1>25 DEF Said, Acks, IInv, Speech, Owed, Control, Typed, Scalars, Early, Serving, Late
<1>26. QED
  BY <1>1, <1>2, <1>3, <1>4, <1>5, <1>6, <1>7, <1>8, <1>9, <1>10, <1>11, <1>12, <1>13, <1>14, <1>15, <1>16, <1>17, <1>18, <1>19, <1>20, <1>21, <1>22, <1>23, <1>24, <1>25 DEF Next, Reader

\* The writer stops for a reason.
LEMMA WriterKeeps == IInv /\ [Next]_vars => Writer'
<1> SUFFICES ASSUME IInv, [Next]_vars PROVE Writer'
  OBVIOUS
<1> USE DEF loop, parms, ending, peer, out, seen, asked, vars
<1>1. CASE BeginHandshake
  <2>1. Said' = Said
    BY <1>1 DEF BeginHandshake, Said
  <2> HIDE DEF Said
  <2>2. QED
    BY <1>1, <2>1 DEF BeginHandshake, IInv, Writer, Owes, Control, Typed, Scalars, Early, Serving, Late, Farewells
<1>2. CASE Handshake
  <2>1. Said' = Said
    BY <1>2 DEF Handshake, Said
  <2> HIDE DEF Said
  <2>2. QED
    BY <1>2, <2>1 DEF Handshake, IInv, Writer, Owes, Control, Typed, Scalars, Early, Serving, Late, Farewells
<1>3. CASE ClearDeadline
  <2>1. Said' = Said
    BY <1>3 DEF ClearDeadline, Said
  <2> HIDE DEF Said
  <2>2. QED
    BY <1>3, <2>1 DEF ClearDeadline, IInv, Writer, Owes, Control, Typed, Scalars, Early, Serving, Late, Farewells
<1>4. CASE Discard
  <2>1. Said' = Said
    BY <1>4 DEF Discard, Said
  <2> HIDE DEF Said
  <2>2. QED
    BY <1>4, <2>1 DEF Discard, IInv, Writer, Owes, Control, Typed, Scalars, Early, Serving, Late, Farewells
<1>5. CASE First
  BY <1>5 DEF First, IInv, Writer, Owes, Control, Typed, Scalars, Early, Serving, Late, Farewells
<1>6. CASE Arm
  <2>1. Said' = Said
    BY <1>6 DEF Arm, Said
  <2> HIDE DEF Said
  <2>2. QED
    BY <1>6, <2>1 DEF Arm, IInv, Writer, Owes, Control, Typed, Scalars, Early, Serving, Late, Farewells, Earlier
<1>7. CASE setReadDeadline
  <2>1. Said' = Said
    BY <1>7 DEF setReadDeadline, Said
  <2> HIDE DEF Said
  <2>2. QED
    BY <1>7, <2>1 DEF setReadDeadline, IInv, Writer, Owes, Control, Typed, Scalars, Early, Serving, Late, Farewells
<1>8. CASE ReadFails
  <2>1. Said' = Said
    BY <1>8 DEF ReadFails, Said
  <2> HIDE DEF Said
  <2>2. QED
    BY <1>8, <2>1 DEF ReadFails, IInv, Writer, Owes, Control, Typed, Scalars, Early, Serving, Late, Farewells, Reading, Expired, Farewells
<1>9. CASE ReadPreface
  <2>1. Said' = Said
    BY <1>9 DEF ReadPreface, Said
  <2> HIDE DEF Said
  <2>2. QED
    BY <1>9, <2>1 DEF ReadPreface, IInv, Writer, Owes, Control, Typed, Scalars, Early, Serving, Late, Farewells, Out
<1>10. CASE ReadFrame
  <2>1. Said' = Said
    BY <1>10 DEF ReadFrame, Said
  <2> HIDE DEF Said
  <2>2. QED
    BY <1>10, <2>1 DEF ReadFrame, IInv, Writer, Owes, Control, Typed, Scalars, Early, Serving, Late, Farewells
<1>11. CASE dispatch
  <2>1. Said' = Said
    BY <1>11 DEF dispatch, Said
  <2> HIDE DEF Said
  <2>2. QED
    BY <1>11, <2>1 DEF dispatch, IInv, Writer, Owes, Control, Typed, Scalars, Early, Serving, Late, Farewells, handleSettings, handleStreamFrame, Fails, Answers, Absorbs, Applies, Out
<1>12. CASE Panic
  <2>1. Said' = Said
    BY <1>12 DEF Panic, Said
  <2> HIDE DEF Said
  <2>2. QED
    BY <1>12, <2>1 DEF Panic, IInv, Writer, Owes, Control, Typed, Scalars, Early, Serving, Late, Farewells
<1>13. CASE Recovered
  <2>1. Said' = Said
    BY <1>13 DEF Recovered, Said
  <2> HIDE DEF Said
  <2>2. QED
    BY <1>13, <2>1 DEF Recovered, IInv, Writer, Owes, Control, Typed, Scalars, Early, Serving, Late, Farewells
<1>14. CASE Reply
  BY <1>14 DEF Reply, IInv, Writer, Owes, Control, Typed, Scalars, Early, Serving, Late, Farewells
<1>15. CASE farewell
  <2>1. CASE writer # "runs"
    BY <1>15, <2>1 DEF farewell, IInv, Writer, Owes, Late, Early, Serving
  <2>2. CASE writer = "runs"
    <3> DEFINE bye == [type |-> "goaway", arg |-> lastStreamID]
    <3>1. queue' = Append(queue, bye) /\ wire' = wire /\ bye \in Spoken /\ bye.type = "goaway"
      BY <1>15, <2>2 DEF farewell, IInv, Typed, Scalars, Spoken
    <3> HIDE DEF bye
    <3>2. Said' = Append(Said, bye) /\ Said \in Seq(Spoken)
      BY <3>1, Concats DEF Said, IInv, Typed, Queues
    <3> HIDE DEF Said
    <3>3. Said' # <<>> /\ Said'[Len(Said')] = bye
      BY <3>2
    <3>4. pc' = "wait" /\ writer' = "drains" /\ err' = err
      BY <1>15, <2>2 DEF farewell
    <3>5. QED
      BY <3>1, <3>3, <3>4 DEF Writer, Owes, Late, Early, Serving
  <2>3. QED
    BY <2>1, <2>2
<1>16. CASE LeaveSilently
  <2>1. Said' = Said
    BY <1>16 DEF LeaveSilently, Said
  <2> HIDE DEF Said
  <2>2. QED
    BY <1>16, <2>1 DEF LeaveSilently, IInv, Writer, Owes, Control, Typed, Scalars, Early, Serving, Late, Farewells
<1>17. CASE Wait
  <2>1. Said' = Said
    BY <1>17 DEF Wait, Said
  <2> HIDE DEF Said
  <2>2. QED
    BY <1>17, <2>1 DEF Wait, IInv, Writer, Owes, Control, Typed, Scalars, Early, Serving, Late, Farewells
<1>18. CASE Drain
  <2>1. Said' = Said
    BY <1>18 DEF Drain, Said
  <2> HIDE DEF Said
  <2>2. QED
    BY <1>18, <2>1 DEF Drain, IInv, Writer, Owes, Control, Typed, Scalars, Early, Serving, Late, Farewells
<1>19. CASE Tell
  <2>1. Said' = Said
    BY <1>19 DEF Tell, Said
  <2> HIDE DEF Said
  <2>2. QED
    BY <1>19, <2>1 DEF Tell, IInv, Writer, Owes, Control, Typed, Scalars, Early, Serving, Late, Farewells
<1>20. CASE Shutdown
  <2>1. Said' = Said
    BY <1>20 DEF Shutdown, Said
  <2> HIDE DEF Said
  <2>2. QED
    BY <1>20, <2>1 DEF Shutdown, IInv, Writer, Owes, Control, Typed, Scalars, Early, Serving, Late, Farewells
<1>21. CASE Close
  <2>1. Said' = Said
    BY <1>21 DEF Close, Said
  <2> HIDE DEF Said
  <2>2. QED
    BY <1>21, <2>1 DEF Close, IInv, Writer, Owes, Control, Typed, Scalars, Early, Serving, Late, Farewells
<1>22. CASE WriterStep
  <2>1. Said' = Said
    <3>1. CASE UNCHANGED <<queue, wire>>
      BY <3>1 DEF Said
    <3>2. CASE queue # <<>> /\ wire' = Append(wire, Head(queue)) /\ queue' = Tail(queue)
      <4>1. Head(queue) \in Spoken
        BY <3>2 DEF IInv, Typed, Queues
      <4>2. QED
        BY <3>2, <4>1, Concats DEF Said, IInv, Typed, Queues
    <3>3. QED
      BY <1>22, <3>1, <3>2 DEF WriterStep
  <2> HIDE DEF Said
  <2>2. QED
    BY <1>22, <2>1 DEF WriterStep, IInv, Writer, Owes, Early, Serving
<1>23. CASE PeerSends
  <2>1. Said' = Said
    BY <1>23 DEF PeerSends, Said
  <2> HIDE DEF Said
  <2>2. QED
    BY <1>23, <2>1 DEF PeerSends, IInv, Writer, Owes, Control, Typed, Scalars, Early, Serving, Late, Farewells, Send, Out
<1>24. CASE Tick
  <2>1. Said' = Said
    BY <1>24 DEF Tick, Said
  <2> HIDE DEF Said
  <2>2. QED
    BY <1>24, <2>1 DEF Tick, IInv, Writer, Owes, Control, Typed, Scalars, Early, Serving, Late, Farewells, Less
<1>25. CASE UNCHANGED vars
  BY <1>25 DEF IInv, Writer, Owes, Control, Typed, Scalars, Early, Serving, Late, Farewells, Said
<1>26. QED
  BY <1>1, <1>2, <1>3, <1>4, <1>5, <1>6, <1>7, <1>8, <1>9, <1>10, <1>11, <1>12, <1>13, <1>14, <1>15, <1>16, <1>17, <1>18, <1>19, <1>20, <1>21, <1>22, <1>23, <1>24, <1>25 DEF Next, Reader

LEMMA InitHolds == Init => IInv
<1> SUFFICES ASSUME Init PROVE IInv
  OBVIOUS
<1>1. Scalars
  <2>1. pc \in Early
    BY DEF Init, Early
  <2>2. armed \in [kind : Kinds, left : 0 .. Longest] /\ deadlineKind \in Kinds /\ waited \in 0 .. Longest
    BY LongestIs DEF Init, Kinds
  <2>3. ackDue \in Off .. SettingsAck /\ deadline \in Off .. Longest
    BY Symbols, LongestIs, ConnAssumption DEF Init
  <2>4. err \in Errs /\ told \in Errs /\ handled \subseteq Nat /\ applied \in Nat /\ lastStreamID \in Nat
    BY DEF Init, Errs
  <2>5. quit \in BOOLEAN /\ writeFailed \in BOOLEAN
    BY DEF Init
  <2>6. QED
    BY <2>1, <2>2, <2>3, <2>4, <2>5 DEF Init, Scalars
<1>2. Queues
  BY ConnAssumption DEF Init, Queues
<1>3. Control
  BY Symbols DEF Init, Control, Early, Serving
<1>4. Interrupted /\ Clocks
  BY DEF Init, Interrupted, InterruptStands, Clocks, Reading, TimeoutsAreTrue
<1>5. Said = <<>>
  BY DEF Init, Said
<1>6. Acks(Said) = {} /\ Len(Said) = 0
  BY <1>5 DEF Acks
<1>7. Speech
  BY <1>5, <1>6, FS_EmptySet DEF Init, Speech, Owed, Serving
<1>8. Writer
  BY DEF Init, Writer, Owes, Late
<1>9. QED
  BY <1>1, <1>2, <1>3, <1>4, <1>7, <1>8 DEF IInv, Typed

\* The invariants of the run and what they lean on, at every step of the connection.
THEOREM Inductive == Spec => []IInv
<1>1. IInv /\ [Next]_vars => IInv'
  BY ScalarsStep, QueuesStep, ControlStep, InterruptedStep, ClocksStep, SpeechStep, WriterKeeps DEF IInv, Typed
<1>2. QED
  BY <1>1, InitHolds, PTL DEF Spec

\* A shutdown is never slept through, and each timeout was waited out in full (conn.go:698,
\* conn.go:859), for any lengths of the timeouts.
THEOREM DeadlinesAreTrueCorrect == Spec => []DeadlinesAreTrue
<1>1. ASSUME IInv PROVE DeadlinesAreTrue
  <2>1. told \in {"nil", err}
    BY <1>1 DEF IInv, Control
  <2>2. ((pc = "dispatch") = (held # NoFrame)) \/ pc \in {"recovered", "closed"}
    BY <1>1 DEF IInv, Control
  <2>3. (pc = "reply") = (reply # NoFrame)
    BY <1>1 DEF IInv, Control
  <2>4. TypeOK
    BY <1>1, <2>1, <2>2, <2>3 DEF IInv, Typed, Scalars, Queues, TypeOK, Errs
  <2>5. QED
    BY <1>1, <2>4 DEF IInv, Interrupted, Clocks, DeadlinesAreTrue
<1>2. QED
  BY <1>1, Inductive, PTL

\* What is on the wire has been said.
LEMMA WireIsSaid ==
    ASSUME Queues
    PROVE  /\ Len(wire) \in Nat /\ Len(wire) <= Len(Said) /\ Len(Said) \in Nat
           /\ \A i \in 1 .. Len(wire) : wire[i] = Said[i] /\ i \in 1 .. Len(Said)
           /\ queue = <<>> => Said = wire
  BY DEF Queues, Said

\* SETTINGS come first, every SETTINGS frame put into force is acknowledged, and GOAWAY comes
\* last and covers every stream the server acted on (conn.go:338, conn.go:505).
THEOREM SaysWhatItMustCorrect == Spec => []SaysWhatItMust
<1>1. ASSUME IInv PROVE SaysWhatItMust
  <2>1. /\ Len(wire) \in Nat /\ Len(wire) <= Len(Said) /\ Len(Said) \in Nat
        /\ \A i \in 1 .. Len(wire) : wire[i] = Said[i] /\ i \in 1 .. Len(Said)
        /\ queue = <<>> => Said = wire
    BY <1>1, WireIsSaid DEF IInv, Typed
  <2> HIDE DEF Said
  <2>2. GoAwayCovers
    BY <1>1, <2>1 DEF IInv, Speech, GoAwayCovers
  <2>3. SettingsFirst
    <3> DEFINE byes == {i \in 1 .. Len(wire) : wire[i].type = "goaway"}
    <3>1. byes \in SUBSET {Len(Said)}
      BY <1>1, <2>1 DEF IInv, Speech
    <3>2. IsFiniteSet({Len(Said)}) /\ Cardinality({Len(Said)}) = 1
      BY FS_Singleton
    <3>3. Cardinality(byes) <= 1
      BY <3>1, <3>2, FS_Subset
    <3>4. \A i \in 1 .. Len(wire) : wire[i].type = "settings" <=> i = 1
      BY <1>1, <2>1 DEF IInv, Speech
    <3>5. QED
      BY <3>3, <3>4 DEF SettingsFirst
  <2>4. NothingUnsaid
    <3> SUFFICES ASSUME pc = "closed", err \in Farewells \cup {"peerClosed"}, ~writeFailed
                 PROVE  /\ queue = <<>>
                        /\ Cardinality({i \in 1 .. Len(wire) : wire[i].type = "ack"}) = applied
                        /\ err \in Farewells => \E i \in 1 .. Len(wire) : wire[i].type = "goaway"
      BY DEF NothingUnsaid
    <3>1. Owes /\ writer = "gone"
      BY <1>1 DEF Owes, Late, IInv, Control
    <3>2. queue = <<>> /\ Said = wire
      BY <1>1, <2>1, <3>1 DEF IInv, Writer
    <3>3. Cardinality(Acks(wire)) = applied
      <4>1. Owed = 0
        BY DEF Owed
      <4>2. wire \in Seq(Spoken) /\ Cardinality(Acks(wire)) \in Nat
        BY <1>1, AcksCount DEF IInv, Typed, Queues
      <4>3. Cardinality(Acks(wire)) + 0 = applied
        BY <1>1, <3>2, <4>1 DEF IInv, Speech
      <4>4. QED
        BY <4>2, <4>3
    <3>4. ASSUME err \in Farewells PROVE \E i \in 1 .. Len(wire) : wire[i].type = "goaway"
      <4>1. wire # <<>> /\ wire[Len(wire)].type = "goaway"
        BY <1>1, <3>1, <3>2, <3>4 DEF IInv, Writer
      <4>2. Len(wire) \in 1 .. Len(wire)
        BY <1>1, <4>1 DEF IInv, Typed, Queues
      <4>3. QED
        BY <4>1, <4>2
    <3>5. QED
      BY <3>2, <3>3, <3>4 DEF Acks
  <2>5. QED
    BY <2>2, <2>3, <2>4 DEF SaysWhatItMust
<1>2. QED
  BY <1>1, Inductive, PTL

\* Every way out of Serve tells the handler layer the reason, with the writer stopped
\* (conn.go:463).
THEOREM HandlersAreToldCorrect == Spec => []HandlersAreTold
<1>1. IInv => HandlersAreTold
  BY DEF IInv, Control, HandlersAreTold
<1>2. QED
  BY <1>1, Inductive, PTL
=============================================================================
