------------------------- MODULE Priorities_proofs -------------------------
(***************************************************************************)
(* Proofs about Priorities for any set of odd identifiers, finite or not,  *)
(* any priorities and any limit on the streams.                            *)
(*                                                                         *)
(* That nothing is kept rests on the reader's high-water mark never falling*)
(* behind the table's (Marks): a signal above it is for a stream that has  *)
(* not opened.  That the last signal counts rests on the buffer holding,   *)
(* for every stream that can still open, the last frame the peer sent of it*)
(* and nothing where it sent none (Remembered), which holds until a block  *)
(* spans frames or a PRIORITY frame comes.                                 *)
(***************************************************************************)
EXTENDS Priorities, FiniteSetTheorems, TLAPS

\* The history variables and the flag, which TypeOK leaves out.
Histories ==
    /\ said \in [Ids -> Values \cup {None}]
    /\ discarded \subseteq Ids
    /\ plain \in BOOLEAN

\* Only finitely many streams are live and only finitely many signals are held:
\* nothing is assumed of how many identifiers there are.
Finite == IsFiniteSet(live) /\ IsFiniteSet(Held)

\* The reader's mark is at or above the table's, which is at or above every stream the
\* table holds and is the stream whose block is being put together.
Marks ==
    /\ highestRemote <= lastStreamID
    /\ \A id \in live : id <= highestRemote
    /\ assembling # 0 => assembling = highestRemote

\* Until a block spans frames or a PRIORITY frame comes, the marks are one.
OneMark == plain => lastStreamID = highestRemote /\ assembling = 0

\* What the peer said of a stream that has not opened is in the buffer.
Remembered ==
    plain /\ Up => \A id \in Ids : id > highestRemote => pending[id] = said[id]

IInv ==
    /\ TypeOK /\ Histories /\ Finite
    /\ BufferIsIdle /\ PrioritiesAreOfLiveStreams
    /\ Marks /\ OneMark /\ Remembered /\ LastSignalCounts

(***************************************************************************)
(* Identifiers are positive, and None is no priority.                      *)
(***************************************************************************)
LEMMA IdsPositive == \A id \in Ids : id \in Nat /\ id > 0
  BY PrioritiesAssumption

(***************************************************************************)
(* handleStreamFrame in one formula: a stream that leaves idle takes with  *)
(* it the signals at and below it, its own to the writer when it opened,   *)
(* over the field its request came with.                                   *)
(***************************************************************************)
LEMMA FrameEffect ==
  ASSUME IInv, NEW id \in Ids, NEW open, NEW field, handleStreamFrame(id, open, field)
  PROVE  /\ pending' = [i \in Ids |-> IF id > lastStreamID /\ i <= id THEN None ELSE pending[i]]
         /\ prio' = [i \in Ids |-> IF id > lastStreamID /\ i = id /\ pending[id] # None /\ id \in open
                                   THEN pending[id]
                                   ELSE IF i = id /\ field # None /\ id \in open THEN field
                                   ELSE IF i \in live \ open THEN None ELSE prio[i]]
         /\ said' = [i \in Ids |-> IF i = id /\ field # None /\ id \in open /\ said[id] = None
                                   THEN field ELSE said[i]]
         /\ lastStreamID' = IF id > lastStreamID THEN id ELSE lastStreamID
         /\ live' = open /\ sent' = {}
         /\ UNCHANGED <<connErr, discarded, crowded>>
<1> DEFINE kept == prioritized(id, open, field, Forget(prio, live \ open))
           given(i) == IF i = id /\ field # None /\ id \in open THEN field
                       ELSE IF i \in live \ open THEN None ELSE prio[i]
<1>1. /\ pending \in [Ids -> Values \cup {None}] /\ prio \in [Ids -> Values \cup {None}]
      /\ said \in [Ids -> Values \cup {None}] /\ lastStreamID \in Nat
  BY IdsPositive DEF IInv, TypeOK, Histories
<1>2. kept = [i \in Ids |-> given(i)]
  BY DEF Forget, prioritized
<1>3. /\ dispatched(id, open, field, IF id > lastStreamID THEN leftIdle(id, open, pending, kept)
                                     ELSE <<pending, kept>>)
  BY DEF handleStreamFrame
<1> HIDE DEF kept, given
<1>4. /\ lastStreamID' = IF id > lastStreamID THEN id ELSE lastStreamID
      /\ live' = open /\ sent' = {}
      /\ UNCHANGED <<connErr, discarded, crowded>>
      /\ said' = IF field # None /\ id \in open /\ said[id] = None
                 THEN [said EXCEPT ![id] = field] ELSE said
  BY <1>3 DEF dispatched
<1>5. said' = [i \in Ids |-> IF i = id /\ field # None /\ id \in open /\ said[id] = None
                             THEN field ELSE said[i]]
  BY <1>1, <1>4
<1>6. /\ pending' = [i \in Ids |-> IF id > lastStreamID /\ i <= id THEN None ELSE pending[i]]
      /\ prio' = [i \in Ids |-> IF id > lastStreamID /\ i = id /\ pending[id] # None /\ id \in open
                                THEN pending[id] ELSE given(i)]
  <2>1. CASE id > lastStreamID
    <3>1. pending' = Prune([pending EXCEPT ![id] = None], id)
      BY <1>3, <2>1 DEF dispatched, leftIdle
    <3>2. \A i \in Ids : i <= id <=> (i < id \/ i = id)
      BY IdsPositive
    <3>3. Prune([pending EXCEPT ![id] = None], id)
            = [i \in Ids |-> IF id > lastStreamID /\ i <= id THEN None ELSE pending[i]]
      BY <1>1, <2>1, <3>2 DEF Prune
    <3>4. prio' = IF pending[id] # None /\ id \in open THEN [kept EXCEPT ![id] = pending[id]] ELSE kept
      BY <1>3, <2>1 DEF dispatched, leftIdle
    <3> QED
      BY <1>2, <2>1, <3>1, <3>3, <3>4
  <2>2. CASE ~(id > lastStreamID)
    <3>1. pending' = pending /\ prio' = kept
      BY <1>3, <2>2 DEF dispatched
    <3>2. pending = [i \in Ids |-> pending[i]]
      BY <1>1
    <3> QED
      BY <1>2, <2>2, <3>1, <3>2
  <2> QED
    BY <2>1, <2>2
<1> QED
  BY <1>4, <1>5, <1>6 DEF given

(***************************************************************************)
(* Whatever a frame does to the table, nothing is kept that should not be, *)
(* as long as the reader's mark stays at or above the table's.             *)
(***************************************************************************)
LEMMA FrameKeeps ==
  ASSUME IInv, NEW id \in Ids, NEW open \in SUBSET Ids, IsFiniteSet(open),
         NEW field \in Values \cup {None}, handleStreamFrame(id, open, field),
         highestRemote' \in Ids \cup {0}, assembling' \in Ids \cup {0}, plain' \in BOOLEAN,
         highestRemote' <= lastStreamID', \A i \in open : i <= highestRemote'
  PROVE  TypeOK' /\ Histories' /\ Finite' /\ BufferIsIdle' /\ PrioritiesAreOfLiveStreams'
<1>1. /\ pending \in [Ids -> Values \cup {None}] /\ prio \in [Ids -> Values \cup {None}]
      /\ lastStreamID \in Ids \cup {0} /\ lastStreamID \in Nat
  BY IdsPositive DEF IInv, TypeOK
<1>2. /\ pending' \in [Ids -> Values \cup {None}]
      /\ \A i \in Ids : pending'[i] # None => pending'[i] = pending[i] /\ i > lastStreamID'
  <2>1. \A i \in Ids : pending[i] # None => i > lastStreamID
    BY DEF IInv, BufferIsIdle, Held
  <2> QED
    BY <1>1, <2>1, FrameEffect, IdsPositive
<1>3. prio' \in [Ids -> Values \cup {None}]
  BY <1>1, FrameEffect
<1>4. TypeOK'
  <2>1. /\ lastStreamID' = IF id > lastStreamID THEN id ELSE lastStreamID
        /\ live' = open /\ sent' = {} /\ connErr' = connErr /\ crowded' = crowded
    BY FrameEffect
  <2>2. connErr \in {"nil", "crowded"} /\ crowded \in Nat
    BY DEF IInv, TypeOK
  <2> QED
    BY <1>1, <1>2, <1>3, <2>1, <2>2 DEF TypeOK
<1>5. Histories'
  <2>1. /\ said' = [i \in Ids |-> IF i = id /\ field # None /\ id \in open /\ said[id] = None
                                  THEN field ELSE said[i]]
        /\ discarded' = discarded
    BY FrameEffect
  <2>2. said \in [Ids -> Values \cup {None}] /\ discarded \subseteq Ids
    BY DEF IInv, Histories
  <2> QED
    BY <2>1, <2>2 DEF Histories
<1>6. Held' \subseteq Held
  BY <1>2 DEF Held
<1>7. IsFiniteSet(Held') /\ Cardinality(Held') <= Cardinality(Held)
  BY <1>6, FS_Subset DEF IInv, Finite
<1>8. Finite'
  BY <1>7, FrameEffect DEF Finite
<1>9. BufferIsIdle'
  <2>1. \A i \in Ids : pending'[i] # None => i > highestRemote' /\ i \notin live'
    BY <1>2, <1>4, IdsPositive, FrameEffect DEF TypeOK
  <2>2. Cardinality(Held) \in Nat /\ Cardinality(Held') \in Nat
    BY <1>7, FS_CardinalityType DEF IInv, Finite
  <2>3. Cardinality(Held') <= MaxConcurrent
    BY <1>7, <2>2, PrioritiesAssumption DEF IInv, BufferIsIdle
  <2> QED
    BY <1>2, <2>1, <2>3 DEF BufferIsIdle, Held, Idle
<1>10. PrioritiesAreOfLiveStreams'
  <2>1. \A i \in Ids : prio'[i] # None => i \in open
    BY FrameEffect DEF IInv, PrioritiesAreOfLiveStreams
  <2> QED
    BY <2>1, FrameEffect DEF PrioritiesAreOfLiveStreams
<1> QED
  BY <1>4, <1>5, <1>8, <1>9, <1>10

(***************************************************************************)
(* A frame for a stream that had left idle before gives no stream another  *)
(* priority, and leaves the buffer as it is.                               *)
(***************************************************************************)
LEMMA OldFrameKeepsLast ==
  ASSUME IInv, NEW id \in Ids, NEW open \in SUBSET live,
         handleStreamFrame(id, open, None),
         id <= lastStreamID,
         highestRemote' = highestRemote, assembling' = assembling, plain' = plain
  PROVE  OneMark' /\ Remembered' /\ LastSignalCounts'
<1>1. id \in Nat /\ lastStreamID \in Nat /\ pending \in [Ids -> Values \cup {None}]
  BY IdsPositive DEF IInv, TypeOK
<1>2. ~(id > lastStreamID)
  BY <1>1
<1>3. lastStreamID' = lastStreamID /\ pending' = pending /\ said' = said /\ connErr' = connErr
  <2>1. pending' = [i \in Ids |-> IF id > lastStreamID /\ i <= id THEN None ELSE pending[i]]
    BY FrameEffect
  <2>2. pending' = pending
    BY <1>1, <1>2, <2>1
  <2>3. said' = [i \in Ids |-> said[i]]
    BY FrameEffect
  <2>4. said' = said
    BY <2>3 DEF IInv, Histories
  <2> QED
    BY <1>2, <2>2, <2>4, FrameEffect
<1>4. \A i \in open : prio'[i] = prio[i]
  BY <1>2, FrameEffect DEF IInv, TypeOK
<1>5. OneMark'
  BY <1>3 DEF IInv, OneMark
<1>6. Remembered'
  BY <1>3 DEF IInv, Remembered, Up
<1>7. LastSignalCounts'
  BY <1>3, <1>4, FrameEffect DEF IInv, LastSignalCounts, LastSaid
<1> QED
  BY <1>5, <1>6, <1>7

(***************************************************************************)
(* What the table holds once it has drained its reports.                   *)
(***************************************************************************)
LEMMA DrainedIsLive ==
  ASSUME IInv
  PROVE  /\ Drained \in SUBSET live /\ Drained \in SUBSET Ids /\ IsFiniteSet(Drained)
         /\ \A id \in Ids : /\ Admitted(id) \in SUBSET (live \cup {id})
                            /\ Admitted(id) \in SUBSET Ids /\ IsFiniteSet(Admitted(id))
<1>1. Drained \subseteq live /\ live \subseteq Ids /\ IsFiniteSet(live)
  BY DEF IInv, TypeOK, Finite, Drained
<1>2. IsFiniteSet(Drained)
  BY <1>1, FS_Subset
<1>3. ASSUME NEW id \in Ids
      PROVE  IsFiniteSet(Admitted(id)) /\ Admitted(id) \subseteq live \cup {id}
  BY <1>1, <1>2, FS_AddElement DEF Admitted
<1> QED
  BY <1>1, <1>2, <1>3

LEMMA InitIInv == Init => IInv
<1> SUFFICES ASSUME Init PROVE IInv
  OBVIOUS
<1>1. TypeOK
  BY DEF Init, TypeOK
<1>2. Histories
  BY DEF Init, Histories
<1>3. Held = {}
  BY DEF Init, Held
<1>4. Finite
  BY <1>3, FS_EmptySet DEF Init, Finite
<1>5. BufferIsIdle
  BY <1>3, FS_EmptySet, PrioritiesAssumption DEF BufferIsIdle
<1>6. PrioritiesAreOfLiveStreams
  BY DEF Init, PrioritiesAreOfLiveStreams
<1>7. Marks /\ OneMark
  BY DEF Init, Marks, OneMark
<1>8. Remembered /\ LastSignalCounts
  BY DEF Init, Remembered, LastSignalCounts, LastSaid
<1> QED
  BY <1>1, <1>2, <1>4, <1>5, <1>6, <1>7, <1>8 DEF IInv

(***************************************************************************)
(* A stream opens: in the one frame, its priority becomes what the buffer  *)
(* holds for it, and what its field says when the buffer holds nothing.    *)
(***************************************************************************)
LEMMA HeadersIInv ==
  ASSUME IInv, NEW id \in Ids, NEW endHeaders \in BOOLEAN,
         NEW field \in Values \cup {None}, Headers(id, endHeaders, field)
  PROVE  IInv'
<1> DEFINE open == IF endHeaders THEN Admitted(id) ELSE Drained
<1>1. handleStreamFrame(id, open, field)
  BY DEF Headers
<1>2. open \in SUBSET Ids /\ open \in SUBSET (live \cup {id}) /\ IsFiniteSet(open)
  BY DrainedIsLive
<1> HIDE DEF open
<1>3. /\ id \in Nat /\ lastStreamID \in Nat /\ highestRemote \in Nat
      /\ highestRemote' = id /\ id > highestRemote
  BY IdsPositive DEF IInv, TypeOK, Headers
<1>4. id <= lastStreamID' /\ lastStreamID' \in Nat
  BY <1>1, <1>3, FrameEffect
<1>5. \A i \in open : i <= id
  BY <1>2, <1>3, IdsPositive DEF IInv, Marks, TypeOK
<1>6. assembling' \in Ids \cup {0} /\ plain' \in BOOLEAN /\ (assembling' # 0 => assembling' = id)
  BY DEF Headers, IInv, Histories
<1>7. TypeOK' /\ Histories' /\ Finite' /\ BufferIsIdle' /\ PrioritiesAreOfLiveStreams'
  BY <1>1, <1>2, <1>3, <1>4, <1>5, <1>6, FrameKeeps
<1>8. live' = open /\ connErr' = connErr /\ \A i \in Ids : i # id => said'[i] = said[i]
  BY <1>1, FrameEffect
<1>9. Marks'
  BY <1>3, <1>4, <1>5, <1>6, <1>8 DEF Marks
<1>10. plain' => /\ plain /\ endHeaders /\ assembling' = 0
                 /\ lastStreamID = highestRemote /\ id > lastStreamID
  BY <1>3 DEF Headers, IInv, OneMark
<1>11. OneMark'
  BY <1>1, <1>3, <1>10, FrameEffect DEF OneMark
<1>12. Remembered'
  <2> SUFFICES ASSUME plain', Up', NEW i \in Ids, i > highestRemote'
               PROVE  pending'[i] = said'[i]
    BY DEF Remembered
  <2>1. i \in Nat /\ i > highestRemote /\ ~(i <= id) /\ i # id
    BY <1>3, IdsPositive
  <2>2. pending[i] = said[i]
    BY <1>8, <1>10, <2>1 DEF IInv, Remembered, Up
  <2>3. pending' = [j \in Ids |-> IF id > lastStreamID /\ j <= id THEN None ELSE pending[j]]
    BY <1>1, FrameEffect
  <2>4. pending'[i] = pending[i]
    BY <2>1, <2>3
  <2> QED
    BY <1>8, <2>1, <2>2, <2>4
<1>13. LastSignalCounts'
  <2> SUFFICES ASSUME plain', NEW i \in open
               PROVE  prio'[i] = said'[i]
    BY <1>8 DEF LastSignalCounts, LastSaid
  <2>1. i \in Ids
    BY <1>2
  <2>2. CASE i = id
    <3>1. pending[id] = said[id]
      BY <1>3, <1>10, <2>2 DEF IInv, Remembered, Headers
    <3>2. id \notin live
      BY <1>3 DEF IInv, Marks
    <3>3. prio[id] = None
      BY <3>2 DEF IInv, PrioritiesAreOfLiveStreams
    <3>4. said'[id] = IF field # None /\ said[id] = None THEN field ELSE said[id]
      BY <1>1, <2>2, FrameEffect
    <3>5. prio'[id] = IF pending[id] # None THEN pending[id]
                      ELSE IF field # None THEN field ELSE None
      BY <1>1, <1>10, <2>2, <3>3, FrameEffect
    <3> QED
      BY <2>2, <3>1, <3>4, <3>5
  <2>3. CASE i # id
    <3>1. i \in live
      BY <1>2, <2>3
    <3>2. prio[i] = said[i]
      BY <1>10, <3>1 DEF IInv, LastSignalCounts, LastSaid
    <3>3. prio'[i] = prio[i]
      BY <1>1, <2>1, <2>3, <3>1, FrameEffect
    <3> QED
      BY <1>8, <2>1, <2>3, <3>2, <3>3
  <2> QED
    BY <2>2, <2>3
<1> QED
  BY <1>7, <1>9, <1>11, <1>12, <1>13 DEF IInv

(***************************************************************************)
(* The last frame of a block: its stream left idle with the first one.     *)
(***************************************************************************)
LEMMA ContinuationIInv ==
  ASSUME IInv, NEW field \in Values \cup {None}, Continuation(field)
  PROVE  IInv'
<1> DEFINE open == Admitted(assembling)
<1>1. /\ assembling \in Ids /\ assembling = highestRemote /\ assembling <= lastStreamID
      /\ ~plain
  BY DEF Continuation, IInv, TypeOK, Marks, OneMark
<1>2. handleStreamFrame(assembling, open, field)
  BY DEF Continuation
<1>3. open \in SUBSET Ids /\ open \in SUBSET (live \cup {assembling}) /\ IsFiniteSet(open)
  BY <1>1, DrainedIsLive
<1> HIDE DEF open
<1>4. /\ highestRemote' = highestRemote /\ plain' = plain /\ assembling' = 0
      /\ highestRemote \in Ids \cup {0}
  BY DEF Continuation, IInv, TypeOK
<1>5. lastStreamID' = lastStreamID /\ live' = open
  <2>1. lastStreamID \in Nat /\ assembling \in Nat
    BY <1>1, IdsPositive DEF IInv, TypeOK
  <2> QED
    BY <1>1, <1>2, <2>1, FrameEffect
<1>6. \A i \in open : i <= highestRemote
  BY <1>1, <1>3, IdsPositive DEF IInv, Marks
<1>7. TypeOK' /\ Histories' /\ Finite' /\ BufferIsIdle' /\ PrioritiesAreOfLiveStreams'
  BY <1>1, <1>2, <1>3, <1>4, <1>5, <1>6, FrameKeeps DEF IInv, Histories
<1>8. Marks'
  BY <1>1, <1>4, <1>5, <1>6 DEF Marks
<1>9. OneMark' /\ Remembered' /\ LastSignalCounts'
  BY <1>1, <1>4 DEF OneMark, Remembered, LastSignalCounts
<1> QED
  BY <1>7, <1>8, <1>9 DEF IInv

(***************************************************************************)
(* A PRIORITY frame may move the reader's mark past the table's.           *)
(***************************************************************************)
LEMMA PriorityFrameIInv ==
  ASSUME IInv, NEW id \in Ids, PriorityFrame(id)
  PROVE  IInv'
<1>1. /\ handleStreamFrame(id, Drained, None) /\ ~plain' /\ plain' \in BOOLEAN
      /\ highestRemote' = highestRemote /\ assembling' = assembling
  BY DEF PriorityFrame
<1>2. id \in Nat /\ lastStreamID \in Nat /\ highestRemote \in Nat /\ highestRemote <= lastStreamID
  BY IdsPositive DEF IInv, TypeOK, Marks
<1>3. highestRemote <= lastStreamID' /\ live' = Drained
  BY <1>1, <1>2, FrameEffect
<1>4. \A i \in Drained : i <= highestRemote
  BY DrainedIsLive DEF IInv, Marks
<1>5. highestRemote \in Ids \cup {0} /\ assembling \in Ids \cup {0}
  BY DEF IInv, TypeOK
<1>6. TypeOK' /\ Histories' /\ Finite' /\ BufferIsIdle' /\ PrioritiesAreOfLiveStreams'
  BY <1>1, <1>3, <1>4, <1>5, DrainedIsLive, FrameKeeps
<1>7. Marks'
  BY <1>1, <1>3, <1>4 DEF IInv, Marks
<1>8. OneMark' /\ Remembered' /\ LastSignalCounts'
  BY <1>1 DEF OneMark, Remembered, LastSignalCounts
<1> QED
  BY <1>6, <1>7, <1>8 DEF IInv

(***************************************************************************)
(* A stream is cut off.                                                    *)
(***************************************************************************)
LEMMA RstStreamIInv ==
  ASSUME IInv, NEW id \in Ids, RstStream(id)
  PROVE  IInv'
<1> DEFINE open == Drained \ {id}
<1>1. /\ handleStreamFrame(id, open, None) /\ plain' = plain /\ id <= highestRemote
      /\ highestRemote' = highestRemote /\ assembling' = assembling
  BY DEF RstStream
<1>2. open \in SUBSET live /\ open \in SUBSET Ids /\ IsFiniteSet(open)
  BY DrainedIsLive, FS_RemoveElement
<1> HIDE DEF open
<1>3. /\ id \in Nat /\ lastStreamID \in Nat /\ highestRemote \in Nat
      /\ highestRemote <= lastStreamID /\ id <= lastStreamID
  BY <1>1, IdsPositive DEF IInv, TypeOK, Marks
<1>4. lastStreamID' = lastStreamID /\ live' = open
  BY <1>1, <1>3, FrameEffect
<1>5. \A i \in open : i <= highestRemote
  BY <1>2 DEF IInv, Marks
<1>6. highestRemote \in Ids \cup {0} /\ assembling \in Ids \cup {0} /\ plain \in BOOLEAN
  BY DEF IInv, TypeOK, Histories
<1>7. TypeOK' /\ Histories' /\ Finite' /\ BufferIsIdle' /\ PrioritiesAreOfLiveStreams'
  BY <1>1, <1>2, <1>3, <1>4, <1>5, <1>6, FrameKeeps
<1>8. Marks'
  BY <1>1, <1>3, <1>4, <1>5 DEF IInv, Marks
<1>9. OneMark' /\ Remembered' /\ LastSignalCounts'
  BY <1>1, <1>2, <1>3, OldFrameKeepsLast
<1> QED
  BY <1>7, <1>8, <1>9 DEF IInv

(***************************************************************************)
(* A handler's report only waits for the next stream frame.                *)
(***************************************************************************)
LEMMA ReportSendEndIInv ==
  ASSUME IInv, NEW id \in Ids, ReportSendEnd(id)
  PROVE  IInv'
<1>1. /\ sent' = sent \cup {id} /\ id \in live
      /\ UNCHANGED <<lastStreamID, pending, prio, said, discarded, crowded, plain, live,
                     highestRemote, assembling, connErr>>
  BY DEF ReportSendEnd, signals
<1>2. TypeOK' /\ Histories'
  BY <1>1 DEF IInv, TypeOK, Histories
<1>3. Finite' /\ BufferIsIdle' /\ PrioritiesAreOfLiveStreams'
  BY <1>1 DEF IInv, Finite, BufferIsIdle, PrioritiesAreOfLiveStreams, Held, Idle
<1>4. Marks' /\ OneMark' /\ Remembered' /\ LastSignalCounts'
  BY <1>1 DEF IInv, Marks, OneMark, Remembered, Up, LastSignalCounts, LastSaid
<1> QED
  BY <1>2, <1>3, <1>4 DEF IInv

(***************************************************************************)
(* A signal goes to a live stream's priority, to the buffer, or nowhere,   *)
(* and the buffer takes a new one only below the limit.                    *)
(***************************************************************************)
LEMMA PriorityUpdateIInv ==
  ASSUME IInv, NEW id \in Ids, NEW p \in Values, handlePriorityUpdate(id, p)
  PROVE  IInv'
<1>1. /\ pending \in [Ids -> Values \cup {None}] /\ prio \in [Ids -> Values \cup {None}]
      /\ said \in [Ids -> Values \cup {None}] /\ p # None
      /\ id \in Nat /\ lastStreamID \in Nat /\ highestRemote \in Nat
  BY IdsPositive, PrioritiesAssumption DEF IInv, TypeOK, Histories
<1>2. /\ Up /\ UNCHANGED <<lastStreamID, live, highestRemote, assembling, sent, plain>>
      /\ said' = [said EXCEPT ![id] = IF id \in live \/ Idle(id) THEN p ELSE @]
  BY DEF handlePriorityUpdate, table
<1>3. said' \in [Ids -> Values \cup {None}]
  BY <1>1, <1>2
<1>4. Marks' /\ OneMark'
  BY <1>2 DEF IInv, Marks, OneMark
<1>5. Cardinality(Held) \in Nat /\ Cardinality(live) \in Nat /\ Cardinality(Drained) \in Nat
  BY DrainedIsLive, FS_CardinalityType DEF IInv, Finite
<1>6. CASE id \in live
  <2>1. /\ prio' = [prio EXCEPT ![id] = p]
        /\ UNCHANGED <<pending, connErr, discarded, crowded>>
    BY <1>6 DEF handlePriorityUpdate
  <2>2. TypeOK' /\ Histories'
    BY <1>1, <1>2, <1>3, <2>1 DEF IInv, TypeOK, Histories
  <2>3. Finite' /\ BufferIsIdle'
    BY <1>2, <2>1 DEF IInv, Finite, BufferIsIdle, Held, Idle
  <2>4. PrioritiesAreOfLiveStreams'
    BY <1>1, <1>2, <1>6, <2>1 DEF IInv, PrioritiesAreOfLiveStreams
  <2>5. \A i \in Ids : i > highestRemote => said'[i] = said[i]
    BY <1>1, <1>2, <1>6 DEF IInv, Marks
  <2>6. Remembered'
    BY <1>2, <2>1, <2>5 DEF IInv, Remembered, Up
  <2>7. LastSignalCounts'
    BY <1>1, <1>2, <1>6, <2>1 DEF IInv, TypeOK, LastSignalCounts, LastSaid
  <2> QED
    BY <1>4, <2>2, <2>3, <2>4, <2>6, <2>7 DEF IInv
<1>7. ASSUME id \notin live, prio' = prio
      PROVE  PrioritiesAreOfLiveStreams' /\ LastSignalCounts'
  <2>1. \A i \in live : said'[i] = said[i]
    BY <1>1, <1>2, <1>7 DEF IInv, TypeOK
  <2>2. PrioritiesAreOfLiveStreams'
    BY <1>2, <1>7 DEF IInv, PrioritiesAreOfLiveStreams
  <2>3. LastSignalCounts'
    BY <1>2, <1>7, <2>1 DEF IInv, LastSignalCounts, LastSaid
  <2> QED
    BY <2>2, <2>3
<1>8. ASSUME pending' = pending
      PROVE  Finite' /\ BufferIsIdle'
  BY <1>2, <1>8 DEF IInv, Finite, BufferIsIdle, Held, Idle
<1>9. CASE id \notin live /\ id <= lastStreamID
  <2>1. /\ discarded' = IF Idle(id) THEN discarded \cup {id} ELSE discarded
        /\ UNCHANGED <<pending, prio, connErr, crowded>>
    BY <1>9 DEF handlePriorityUpdate
  <2>2. TypeOK' /\ Histories'
    BY <1>2, <1>3, <2>1 DEF IInv, TypeOK, Histories
  <2>3. Remembered'
    <3> SUFFICES ASSUME plain, NEW i \in Ids, i > highestRemote, Up
                 PROVE  pending[i] = said'[i]
      BY <1>2, <2>1 DEF Remembered, Up
    <3>1. i # id
      BY <1>1, <1>9 DEF IInv, OneMark
    <3> QED
      BY <1>1, <1>2, <3>1 DEF IInv, Remembered
  <2> QED
    BY <1>4, <1>7, <1>8, <1>9, <2>1, <2>2, <2>3 DEF IInv
<1>10. CASE id \notin live /\ id > lastStreamID /\ overLimit(id)
  <2>1. /\ connErr' = "crowded" /\ crowded' = Cardinality(Held) + Cardinality(Drained)
        /\ UNCHANGED <<pending, prio, discarded>>
    BY <1>1, <1>10 DEF handlePriorityUpdate
  <2>2. TypeOK' /\ Histories'
    BY <1>2, <1>3, <1>5, <2>1 DEF IInv, TypeOK, Histories
  <2>3. Remembered'
    BY <2>1 DEF Remembered, Up
  <2> QED
    BY <1>4, <1>7, <1>8, <1>10, <2>1, <2>2, <2>3 DEF IInv
<1>11. CASE id \notin live /\ id > lastStreamID /\ ~overLimit(id)
  <2>1. /\ pending' = [pending EXCEPT ![id] = p]
        /\ UNCHANGED <<prio, connErr, discarded, crowded>>
    BY <1>1, <1>11 DEF handlePriorityUpdate
  <2>2. TypeOK' /\ Histories'
    BY <1>1, <1>2, <1>3, <2>1 DEF IInv, TypeOK, Histories
  <2>3. Held' = Held \cup {id}
    BY <1>1, <2>1 DEF Held
  <2>4. /\ IsFiniteSet(Held')
        /\ Cardinality(Held') = IF id \in Held THEN Cardinality(Held) ELSE Cardinality(Held) + 1
    BY <2>3, FS_AddElement DEF IInv, Finite
  <2>5. Cardinality(Held') <= MaxConcurrent
    BY <1>5, <1>11, <2>4, PrioritiesAssumption DEF IInv, BufferIsIdle, overLimit
  <2>6. id > highestRemote
    BY <1>1, <1>11 DEF IInv, Marks
  <2>7. \A i \in Held' : i \notin live /\ i > highestRemote /\ i > lastStreamID
    BY <1>11, <2>3, <2>6 DEF IInv, BufferIsIdle, Idle
  <2>8. Finite' /\ BufferIsIdle'
    BY <1>2, <2>4, <2>5, <2>7 DEF IInv, Finite, BufferIsIdle, Idle
  <2>9. said' = [said EXCEPT ![id] = p]
    BY <1>2, <1>11, <2>6 DEF Idle
  <2>10. Remembered'
    BY <1>1, <1>2, <2>1, <2>9 DEF IInv, Remembered, Up
  <2> QED
    BY <1>4, <1>7, <1>11, <2>1, <2>2, <2>8, <2>10 DEF IInv
<1> QED
  BY <1>1, <1>6, <1>9, <1>10, <1>11

(***************************************************************************)
(* Every step of Priorities preserves IInv.                                *)
(***************************************************************************)
LEMMA StepIInv == IInv /\ [Next]_vars => IInv'
<1> SUFFICES ASSUME IInv, [Next]_vars PROVE IInv'
  OBVIOUS
<1>1. ASSUME UNCHANGED vars PROVE IInv'
  BY <1>1 DEF vars, signals, table, IInv, TypeOK, Histories, Finite, BufferIsIdle,
       PrioritiesAreOfLiveStreams, Marks, OneMark, Remembered, Up, LastSignalCounts,
       LastSaid, Held, Idle
<1>2. ASSUME NEW id \in Ids,
             \/ \E endHeaders \in BOOLEAN, field \in Values \cup {None} : Headers(id, endHeaders, field)
             \/ PriorityFrame(id)
             \/ RstStream(id)
             \/ ReportSendEnd(id)
             \/ \E p \in Values : handlePriorityUpdate(id, p)
      PROVE  IInv'
  BY <1>2, HeadersIInv, PriorityFrameIInv, RstStreamIInv, ReportSendEndIInv, PriorityUpdateIInv
<1> QED
  BY <1>1, <1>2, ContinuationIInv DEF Next

(***************************************************************************)
(* The inductive invariant holds throughout.                               *)
(***************************************************************************)
THEOREM Inductive == Spec => []IInv
  BY InitIInv, StepIInv, PTL DEF Spec

(***************************************************************************)
(* No signal is kept that can no longer be used, in the buffer or in the   *)
(* writer, and the buffer never holds more than the streams the peer may   *)
(* have (pending.go:117, conn.go:1239).                                    *)
(***************************************************************************)
THEOREM NothingIsKeptCorrect == Spec => []NothingIsKept
<1>1. IInv => NothingIsKept
  BY DEF IInv, NothingIsKept
<1> QED
  BY <1>1, Inductive, PTL

(***************************************************************************)
(* A live stream is scheduled by its last PRIORITY_UPDATE, and without one *)
(* by its request's Priority field, as long as blocks take one frame and no*)
(* PRIORITY frame comes (conn.go:1234, exchange.go:264-279).               *)
(***************************************************************************)
THEOREM LastSignalCountsCorrect == Spec => []LastSignalCounts
<1>1. IInv => LastSignalCounts
  BY DEF IInv
<1> QED
  BY <1>1, Inductive, PTL
=============================================================================
