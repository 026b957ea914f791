------------------------- MODULE FlowSender_proofs -------------------------
(***************************************************************************)
(* Proofs about FlowSender for every set of streams and every window size. *)
(*                                                                         *)
(* The invariants of the runs are not inductive one by one: a stream's     *)
(* ledger starts balanced because nothing was paid or spent on an          *)
(* identifier before it is opened (Fresh), and a writer parks only on an   *)
(* empty window because it asked for at least one octet (Asked).  IInv     *)
(* adds the two facts and takes the invariants together.                   *)
(***************************************************************************)
EXTENDS FlowSender, TLAPS

\* Nothing is paid or spent on a stream before Open.
Fresh == \A id \in Streams \ used : paidOn[id] = 0 /\ spentOn[id] = 0

\* Reserve is never entered with a length of zero.
Asked ==
    \A id \in Streams : pc[id] \in {"running", "woken", "parked"} => want[id] > 0

IInv ==
    /\ TypeOK
    /\ Ledger
    /\ WithinBounds
    /\ NoLostWakeup
    /\ OneReason
    /\ Fresh
    /\ Asked

USE StreamsAssumption, WindowAssumption, InputAssumption, ReasonsAssumption
    DEF NoErr, Gone

\* Broadcast leaves no writer parked.
LEMMA BroadcastLemma ==
    ASSUME TypeOK, Broadcast
    PROVE  /\ pc' \in [Streams -> {"idle", "running", "parked", "woken", "returned"}]
           /\ \A id \in Streams : pc'[id] # "parked"
  BY DEF TypeOK, Broadcast

\* The initial state is well typed.
LEMMA TypeInit == Init => TypeOK
<1> SUFFICES ASSUME Init PROVE TypeOK
  OBVIOUS
<1>1. stream \in [Streams -> [initial : Nat, n : Int]]
  BY DEF Init, NewStreamWindow
<1>2. InitialWindowSize \in Nat
  OBVIOUS
<1>3. QED
  BY <1>1, <1>2 DEF Init, TypeOK

\* Every critical section of the Sender keeps the types.
LEMMA TypeStep == TypeOK /\ [Next]_vars => TypeOK'
<1> SUFFICES ASSUME TypeOK, [Next]_vars PROVE TypeOK'
  OBVIOUS
<1> USE DEF TypeOK
<1>1. ASSUME NEW id \in Streams, Open(id) PROVE TypeOK'
  BY <1>1 DEF Open, NewStreamWindow, writers, history
<1>2. ASSUME NEW id \in Streams, Retire(id) PROVE TypeOK'
  BY <1>2, BroadcastLemma DEF Retire, history
<1>3. ASSUME NEW k \in Increments, CreditConn(k) PROVE TypeOK'
  BY <1>3, BroadcastLemma DEF CreditConn, Receive
<1>4. ASSUME NEW id \in Streams, NEW k \in Increments, CreditStream(id, k)
      PROVE  TypeOK'
  <2>1. stream' \in [Streams -> [initial : Nat, n : Int]]
    BY <1>4 DEF CreditStream
  <2>2. paidOn' \in [Streams -> Nat]
    BY <1>4 DEF CreditStream
  <2>3. QED
    BY <1>4, <2>1, <2>2, BroadcastLemma DEF CreditStream, Receive
<1>5. ASSUME NEW size \in Sizes, SetInitialSize(size) PROVE TypeOK'
  <2>1. \A id \in Streams : Resized(stream[id], size) \in [initial : Nat, n : Int]
    BY DEF Resized, Next_n
  <2>2. stream' \in [Streams -> [initial : Nat, n : Int]]
    BY <1>5, <2>1 DEF SetInitialSize
  <2>3. QED
    BY <1>5, <2>2, BroadcastLemma DEF SetInitialSize, Receive, history
<1>6. ASSUME NEW reason \in Reasons, Close(reason) PROVE TypeOK'
  BY <1>6, BroadcastLemma DEF Close, windows, history
<1>7. ASSUME NEW id \in Streams, NEW w \in Wants, Call(id, w) PROVE TypeOK'
  BY <1>7 DEF Call, windows, history
<1>8. ASSUME NEW id \in Streams, Reserve(id) PROVE TypeOK'
  <2>1. CASE ReserveFail(id)
    BY <2>1 DEF ReserveFail, windows, history
  <2>2. CASE ReserveTake(id)
    <3>1. Grant(id) \in Nat
      BY <2>2 DEF ReserveTake, Grant, Min2
    <3>2. QED
      BY <2>2, <3>1 DEF ReserveTake
  <2>3. CASE ReservePark(id)
    BY <2>3 DEF ReservePark, windows, history
  <2>4. QED
    BY <1>8, <2>1, <2>2, <2>3 DEF Reserve
<1>9. CASE UNCHANGED vars
  BY <1>9 DEF vars, windows, writers, history
<1>10. QED
  BY <1>1, <1>2, <1>3, <1>4, <1>5, <1>6, <1>7, <1>8, <1>9 DEF Next

\* Every field of the Sender, and every ledger, keeps its type.
THEOREM TypeCorrect == Spec => []TypeOK
  BY TypeInit, TypeStep, PTL DEF Spec

-----------------------------------------------------------------------------
(***************************************************************************)
(* The inductive invariant, action by action.                              *)
(***************************************************************************)
\* A new connection satisfies the invariant.
LEMMA InitIInv == Init => IInv
<1> SUFFICES ASSUME Init PROVE IInv
  OBVIOUS
<1>1. TypeOK
  BY TypeInit
<1>2. Ledger
  BY DEF Init, Ledger, ConnLedger, StreamLedger
<1>3. WithinBounds
  BY DEF Init, WithinBounds
<1>4. NoLostWakeup /\ OneReason /\ Fresh /\ Asked
  BY DEF Init, NoLostWakeup, OneReason, Fresh, Asked
<1>5. QED
  BY <1>1, <1>2, <1>3, <1>4 DEF IInv

\* The stream table opens an identifier once, so its ledger starts at zero.
LEMMA OpenIInv ==
    ASSUME IInv, NEW id \in Streams, Open(id), TypeOK'
    PROVE  IInv'
<1> USE DEF IInv, TypeOK, Open, NewStreamWindow, writers, history
<1>1. ConnLedger'
  BY DEF Ledger, ConnLedger
<1>2. StreamLedger'
  <2>1. ASSUME NEW j \in open'
        PROVE  /\ stream'[j].n = stream'[j].initial + paidOn'[j] - spentOn'[j]
               /\ err' = NoErr /\ reader' = "serving" => stream'[j].initial = initial'
    <3>1. CASE j = id
      BY <3>1 DEF Fresh
    <3>2. CASE j # id
      BY <2>1, <3>2 DEF Ledger, StreamLedger
    <3>3. QED
      BY <3>1, <3>2
  <2>2. QED
    BY <2>1 DEF StreamLedger
<1>3. WithinBounds'
  BY DEF WithinBounds
<1>4. NoLostWakeup'
  BY DEF NoLostWakeup
<1>5. OneReason' /\ Fresh' /\ Asked'
  BY DEF OneReason, Fresh, Asked, Broadcast
<1>6. QED
  BY <1>1, <1>2, <1>3, <1>4, <1>5 DEF Ledger

\* Retire wakes every writer, and an open stream keeps its window.
LEMMA RetireIInv ==
    ASSUME IInv, NEW id \in Streams, Retire(id), TypeOK'
    PROVE  IInv'
<1> USE DEF IInv, TypeOK, Retire, history
<1>1. Ledger'
  BY DEF Ledger, ConnLedger, StreamLedger
<1>2. WithinBounds'
  BY DEF WithinBounds
<1>3. NoLostWakeup'
  BY BroadcastLemma DEF NoLostWakeup
<1>4. OneReason' /\ Fresh' /\ Asked'
  BY DEF OneReason, Fresh, Asked, Broadcast
<1>5. QED
  BY <1>1, <1>2, <1>3, <1>4

\* Credit on the connection is paid into its ledger and announced.
LEMMA CreditConnIInv ==
    ASSUME IInv, NEW k \in Increments, CreditConn(k), TypeOK'
    PROVE  IInv'
<1> USE DEF IInv, TypeOK, CreditConn, Receive, Overflows
<1>1. Ledger'
  <2>1. ConnLedger'
    <3>1. \/ conn' = conn /\ paid' = paid
          \/ conn' = conn + k /\ paid' = paid + k
      OBVIOUS
    <3>2. /\ spent' = spent
          /\ k \in Int /\ conn \in Int /\ paid \in Int /\ spent \in Int
          /\ InitialWindowSize \in Int
      OBVIOUS
    <3>3. ConnLedger
      BY DEF Ledger
    <3> HIDE DEF IInv, TypeOK, CreditConn, Receive
    <3>4. QED
      BY <3>1, <3>2, <3>3 DEF ConnLedger
  <2>2. StreamLedger'
    BY DEF Ledger, StreamLedger
  <2>3. QED
    BY <2>1, <2>2 DEF Ledger
<1>2. WithinBounds'
  BY DEF WithinBounds
<1>3. NoLostWakeup'
  BY BroadcastLemma DEF NoLostWakeup
<1>4. OneReason' /\ Fresh'
  BY DEF OneReason, Fresh
<1>5. Asked'
  BY DEF Asked, Broadcast
<1>6. QED
  BY <1>1, <1>2, <1>3, <1>4, <1>5

\* Credit on a stream is paid into that stream's ledger alone.
LEMMA CreditStreamIInv ==
    ASSUME IInv, NEW id \in Streams, NEW k \in Increments, CreditStream(id, k),
           TypeOK'
    PROVE  IInv'
<1> USE DEF IInv, TypeOK, CreditStream, Receive, Overflows
<1>1. CASE err # NoErr \/ id \notin open \/ Overflows(stream[id].n, k)
  BY <1>1 DEF Ledger, ConnLedger, StreamLedger, WithinBounds, NoLostWakeup,
              OneReason, Fresh, Asked
<1>2. CASE ~(err # NoErr \/ id \notin open \/ Overflows(stream[id].n, k))
  <2>1. /\ stream' = [stream EXCEPT ![id].n = @ + k]
        /\ paidOn' = [paidOn EXCEPT ![id] = @ + k]
        /\ Broadcast
    BY <1>2
  <2>2. Ledger'
    BY <2>1 DEF Ledger, ConnLedger, StreamLedger
  <2>3. WithinBounds'
    BY <1>2, <2>1 DEF WithinBounds
  <2>4. NoLostWakeup'
    BY <2>1, BroadcastLemma DEF NoLostWakeup
  <2>5. OneReason' /\ Fresh' /\ Asked'
    BY <1>2, <2>1 DEF OneReason, Fresh, Asked, Broadcast
  <2>6. QED
    BY <2>2, <2>3, <2>4, <2>5
<1>3. QED
  BY <1>1, <1>2

\* A change of the initial size moves both sides of every reached stream's
\* ledger by the same amount; the loop reaches no window it would overflow.
LEMMA SetInitialSizeIInv ==
    ASSUME IInv, NEW size \in Sizes, SetInitialSize(size), TypeOK'
    PROVE  IInv'
<1> USE DEF IInv, TypeOK, SetInitialSize, Receive, history
<1>1. CASE err # NoErr
  BY <1>1 DEF Ledger, ConnLedger, StreamLedger, WithinBounds, NoLostWakeup,
              OneReason, Fresh, Asked
<1>2. CASE err = NoErr
  <2>1. \A j \in Streams :
           /\ j \in Reached(size) =>
                /\ stream'[j].initial = size
                /\ stream'[j].n = stream[j].n + (size - stream[j].initial)
           /\ j \notin Reached(size) => stream'[j] = stream[j]
    BY <1>2 DEF Resized, Next_n
  <2>2. \A j \in Reached(size) :
           stream[j].n + (size - stream[j].initial) <= MaxWindowSize
    BY DEF Reached, TooLarge, Next_n
  <2>3. TooLarge(size) = {} => Reached(size) = open
    BY DEF Reached
  <2>4. ConnLedger'
    BY DEF Ledger, ConnLedger
  <2>5. ASSUME NEW j \in open'
        PROVE  /\ stream'[j].n = stream'[j].initial + paidOn'[j] - spentOn'[j]
               /\ err' = NoErr /\ reader' = "serving" => stream'[j].initial = initial'
    <3>1. stream'[j].n = stream'[j].initial + paidOn'[j] - spentOn'[j]
      BY <2>1 DEF Ledger, StreamLedger
    <3>2. reader' = "serving" => stream'[j].initial = initial'
      BY <1>2, <2>1, <2>3
    <3>3. QED
      BY <3>1, <3>2
  <2>6. Ledger'
    BY <2>4, <2>5 DEF Ledger, StreamLedger
  <2>7. WithinBounds'
    BY <2>1, <2>2 DEF WithinBounds
  <2>8. NoLostWakeup'
    BY <1>2, BroadcastLemma DEF NoLostWakeup
  <2>9. OneReason' /\ Fresh' /\ Asked'
    BY DEF OneReason, Fresh, Asked, Broadcast
  <2>10. QED
    BY <2>6, <2>7, <2>8, <2>9
<1>3. QED
  BY <1>1, <1>2

\* Close wakes every writer and records the first reason.
LEMMA CloseIInv ==
    ASSUME IInv, NEW reason \in Reasons, Close(reason), TypeOK'
    PROVE  IInv'
<1> USE DEF IInv, TypeOK, Close, windows, history
<1>1. Ledger'
  BY DEF Ledger, ConnLedger, StreamLedger
<1>2. WithinBounds'
  BY DEF WithinBounds
<1>3. NoLostWakeup'
  BY BroadcastLemma DEF NoLostWakeup
<1>4. OneReason' /\ Fresh' /\ Asked'
  BY DEF OneReason, Fresh, Asked, Broadcast
<1>5. QED
  BY <1>1, <1>2, <1>3, <1>4

\* A pass of Reserve that returns or parks leaves the windows alone.
LEMMA PassiveIInv ==
    ASSUME IInv, NEW id \in Streams, TypeOK',
           \/ \E w \in Wants : Call(id, w)
           \/ ReserveFail(id)
           \/ ReservePark(id)
    PROVE  IInv'
<1> USE DEF IInv, TypeOK, Call, ReserveFail, ReservePark, windows, history
<1>1. Ledger'
  BY DEF Ledger, ConnLedger, StreamLedger
<1>2. WithinBounds'
  BY DEF WithinBounds
<1>3. NoLostWakeup'
  <2>1. ASSUME NEW j \in Streams, pc'[j] = "parked"
        PROVE  /\ err' = NoErr
               /\ j \in open'
               /\ reader' = "failing" \/ conn' <= 0 \/ stream'[j].n <= 0
    <3>1. CASE pc[j] = "parked"
      BY <3>1 DEF NoLostWakeup
    <3>2. CASE pc[j] # "parked"
      <4>1. j = id /\ ReservePark(id)
        BY <2>1, <3>2
      <4>2. Grant(id) <= 0 /\ want[id] \in Nat
        BY <4>1
      <4>3. want[id] # 0
        BY <4>1 DEF Active, Running, Asked
      <4>4. QED
        BY <4>1, <4>2, <4>3 DEF Grant, Min2, Active
    <3>3. QED
      BY <3>1, <3>2
  <2>2. QED
    BY <2>1 DEF NoLostWakeup
<1>4. OneReason'
  BY DEF OneReason
<1>5. Fresh' /\ Asked'
  BY DEF Fresh, Asked, Active, Running
<1>6. QED
  BY <1>1, <1>2, <1>3, <1>4, <1>5

\* A grant is positive, no more than asked for, and held by both windows.
LEMMA GrantLemma ==
    ASSUME TypeOK, NEW id \in Streams, Grant(id) > 0
    PROVE  /\ Grant(id) \in Nat
           /\ Grant(id) <= want[id] /\ Grant(id) <= conn /\ Grant(id) <= stream[id].n
  BY DEF TypeOK, Grant, Min2

\* The two debits of Reserve move the two ledgers by the same amount.
LEMMA TakeIInv ==
    ASSUME IInv, NEW id \in Streams, ReserveTake(id), TypeOK'
    PROVE  IInv'
<1> USE DEF IInv, TypeOK, ReserveTake
<1> DEFINE g == Grant(id)
<1>1. g \in Nat /\ g <= conn
  BY GrantLemma
<1> HIDE DEF g
<1>2. /\ conn' = conn - g
      /\ stream' = [stream EXCEPT ![id].n = @ - g]
      /\ spent' = spent + g
      /\ spentOn' = [spentOn EXCEPT ![id] = @ + g]
  BY DEF g
<1>3. Ledger'
  BY <1>1, <1>2 DEF Ledger, ConnLedger, StreamLedger
<1>4. WithinBounds'
  BY <1>1, <1>2 DEF WithinBounds
<1>5. NoLostWakeup'
  <2>1. ASSUME NEW j \in Streams, pc'[j] = "parked"
        PROVE  /\ err' = NoErr
               /\ j \in open'
               /\ reader' = "failing" \/ conn' <= 0 \/ stream'[j].n <= 0
    <3>1. j # id /\ pc[j] = "parked"
      BY <2>1
    <3>2. conn' <= conn /\ stream'[j] = stream[j]
      BY <1>1, <1>2, <3>1
    <3>3. QED
      BY <1>1, <1>2, <3>1, <3>2 DEF NoLostWakeup
  <2>2. QED
    BY <2>1 DEF NoLostWakeup
<1>6. OneReason' /\ Fresh' /\ Asked'
  BY <1>2 DEF OneReason, Fresh, Asked, Active
<1>7. QED
  BY <1>3, <1>4, <1>5, <1>6

\* Every step keeps the inductive invariant.
LEMMA StepIInv == IInv /\ [Next]_vars => IInv'
<1> SUFFICES ASSUME IInv, [Next]_vars PROVE IInv'
  OBVIOUS
<1>1. TypeOK'
  BY TypeStep DEF IInv
<1>2. CASE UNCHANGED vars
  BY <1>2 DEF IInv, TypeOK, Ledger, ConnLedger, StreamLedger, WithinBounds,
              NoLostWakeup, OneReason, Fresh, Asked, vars, windows, writers,
              history
<1>3. CASE Next
  BY <1>1, <1>3, OpenIInv, RetireIInv, CreditConnIInv, CreditStreamIInv,
     SetInitialSizeIInv, CloseIInv, PassiveIInv, TakeIInv DEF Next, Reserve
<1>4. QED
  BY <1>2, <1>3

\* The Sender's windows are the peer's: both ledgers balance in every
\* reachable state, however credit, spending and SETTINGS interleave.
THEOREM LedgerCorrect == Spec => []Ledger
<1>1. IInv => Ledger
  BY DEF IInv
<1>2. QED
  BY <1>1, InitIInv, StepIInv, PTL DEF Spec

\* The variables are typed, no window exceeds the maximum, and the
\* connection's is never overdrawn.
THEOREM WindowsAreSoundCorrect == Spec => []WindowsAreSound
<1>1. IInv => WindowsAreSound
  BY DEF IInv, WindowsAreSound
<1>2. QED
  BY <1>1, InitIInv, StepIInv, PTL DEF Spec

\* No writer sleeps through credit, a retirement or the end of the connection.
THEOREM NoLostWakeupCorrect == Spec => []NoLostWakeup
<1>1. IInv => NoLostWakeup
  BY DEF IInv
<1>2. QED
  BY <1>1, InitIInv, StepIInv, PTL DEF Spec

\* Every writer turned away by the end of the connection hears one reason.
THEOREM OneReasonCorrect == Spec => []OneReason
<1>1. IInv => OneReason
  BY DEF IInv
<1>2. QED
  BY <1>1, InitIInv, StepIInv, PTL DEF Spec

\* Only a pass of Reserve that takes credit moves a stream's spending.
LEMMA SpendLemma ==
    ASSUME IInv, [Next]_vars, NEW id \in Streams, spentOn'[id] # spentOn[id]
    PROVE  LET k == spentOn'[id] - spentOn[id] IN
           k > 0 /\ Fits(conn, k) /\ Fits(stream[id].n, k)
<1> USE DEF IInv
<1>1. PICK j \in Streams : ReserveTake(j)
  BY DEF Next, Open, Retire, CreditConn, CreditStream, SetInitialSize, Close,
         Call, Reserve, ReserveFail, ReservePark, vars, history
<1>2. j = id
  BY <1>1 DEF ReserveTake, TypeOK
<1>3. /\ Grant(id) > 0
      /\ spentOn'[id] = spentOn[id] + Grant(id)
  BY <1>1, <1>2 DEF ReserveTake, TypeOK
<1>4. Grant(id) \in Nat /\ Grant(id) <= conn /\ Grant(id) <= stream[id].n
  BY <1>3, GrantLemma
<1>5. spentOn'[id] - spentOn[id] = Grant(id)
  BY <1>3, <1>4 DEF TypeOK
<1>6. QED
  BY <1>3, <1>4, <1>5 DEF Fits

\* Reserve never spends what either window does not hold.
THEOREM SpendCorrect == Spec => SpendsWhatItHas
<1>1. IInv /\ [Next]_vars =>
        [\A id \in Streams : spentOn'[id] # spentOn[id] =>
            LET k == spentOn'[id] - spentOn[id] IN
            /\ k > 0
            /\ Fits(conn, k)
            /\ Fits(stream[id].n, k)]_vars
  BY SpendLemma
<1>2. QED
  BY <1>1, InitIInv, StepIInv, PTL DEF Spec, SpendsWhatItHas
=============================================================================
