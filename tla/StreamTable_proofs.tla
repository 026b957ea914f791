------------------------ MODULE StreamTable_proofs -------------------------
(***************************************************************************)
(* Proofs about StreamTable for any identifiers, any number of streams and *)
(* any declared lengths.                                                   *)
(*                                                                         *)
(* The invariants of the run do not stand by themselves.  That the table is*)
(* bounded needs the slot of a request whose header block is still arriving*)
(* to be kept for it (SlotKept): admit counts the streams at the first     *)
(* HEADERS and the stream enters the table at the last CONTINUATION.  That *)
(* a parked handler can be released needs every request that left the      *)
(* arriving map to have a body that ended or failed (Settled).  That a     *)
(* block is decoded needs the connection to be up (Up) exactly while no    *)
(* error is recorded.  IInv takes them together.                           *)
(*                                                                         *)
(* The lemmas follow the code: the table's moves, the bodies and their     *)
(* wake-ups, the exchange layer's promises, a header block, and then one   *)
(* lemma per action.                                                       *)
(*                                                                         *)
(* The second part is about the bucket that limits resets: the table takes *)
(* a refill to be possible at any time, and this is what a call of the     *)
(* limiter does, for every burst, rate and time.                           *)
(***************************************************************************)
EXTENDS StreamTable, Bucket, FiniteSetTheorems, TLAPS

\* The connection is up exactly while the reader reads or dispatches.
Up == reader \in {"reading", "dispatching"} <=> connErr = "nil"

\* A request that is not arriving has a body that ended or failed.
Settled ==
    \A id \in Ids : handler[id] # "none" /\ id \notin arriving => body[id].failed \/ body[id].ended

\* The slot of a request under assembly is kept for it.
SlotKept ==
    assembling.id # 0 /\ ~assembling.trailers =>
        /\ streams[assembling.id] = "none"
        /\ assembling.verdict = "ok" => Cardinality(Live) < MaxConcurrent

\* The table is finite, whatever Ids is, and within what was advertised.
Bounded == IsFiniteSet(Live) /\ Cardinality(Live) <= MaxConcurrent

\* The decoder has seen every block but the one that broke it.
Decoded == IF connErr = "compression" THEN decoded = blocks - 1 ELSE decoded = blocks

Core == Bounded /\ MapsInStep /\ ArrivingIsOpen /\ Settled /\ NoStrandedHandler
Assembly == SlotKept /\ TrailersHaveTheirStream

IInv == TypeOK /\ Up /\ Core /\ Assembly /\ Decoded

\* The types of what a header block or a body frame may change.
Typed ==
    /\ streams \in [Ids -> States]
    /\ assembling \in [id : Ids \cup {0}, trailers : BOOLEAN, endStream : BOOLEAN,
                       verdict : Verdicts]
    /\ sent \subseteq Ids /\ windowed \subseteq Ids /\ prio \subseteq Ids /\ arriving \subseteq Ids
    /\ tokens \in 0 .. ResetBurst
    /\ declared \in [Ids -> Nat \cup {NoContentLength}]
    /\ received \in [Ids -> Nat]
    /\ body \in [Ids -> [chunks : Nat, ended : BOOLEAN, failed : BOOLEAN]]
    /\ handler \in [Ids -> {"none", "running", "parked", "woken", "ended", "returned"}]
    /\ reader \in {"reading", "dispatching", "stopped", "closed"}
    /\ connErr \in {"nil", "protocol", "compression", "calm", "notArriving", "ended"}
    /\ rst \subseteq Ids /\ answered \subseteq Ids
    /\ refused \subseteq [id : Ids, room : BOOLEAN]
    /\ blocks \in Nat /\ decoded \in Nat

\* The types of the rest.
TypedRest ==
    /\ highestRemote \in Nat /\ frames \in 0 .. MaxFrames
    /\ peerDoneWith \subseteq Ids /\ room \in BOOLEAN

LEMMA TypesSplit == TypeOK <=> Typed /\ TypedRest
  BY DEF TypeOK, Typed, TypedRest

LEMMA InitHolds == Init => IInv
<1> SUFFICES ASSUME Init PROVE IInv
  OBVIOUS
<1>1. TypeOK
  BY BoundsAssumption DEF Init, TypeOK, States, LiveStates, Verdicts, NoBlock, EmptyBody, NoContentLength
<1>2. Live = {}
  BY DEF Init, Live
<1>3. Bounded
  BY <1>2, FS_EmptySet, BoundsAssumption DEF Bounded
<1>4. Core
  BY <1>2, <1>3 DEF Init, Core, MapsInStep, ArrivingIsOpen, Settled, NoStrandedHandler
<1>5. Up /\ Decoded /\ Assembly
  BY DEF Init, Up, Decoded, Assembly, SlotKept, TrailersHaveTheirStream, NoBlock
<1>6. QED
  BY <1>1, <1>4, <1>5 DEF IInv

\* What becomes of a stream that Move puts into state s.
Left(s) == IF s = "closed" THEN "none" ELSE s

LEMMA MoveKeeps ==
    ASSUME Typed, Bounded, MapsInStep, NEW S \in SUBSET Live,
           NEW next \in [LiveStates -> LiveStates \cup {"closed"}], Move(S, next)
    PROVE  /\ streams' \in [Ids -> States] /\ windowed' \subseteq Ids /\ prio' \subseteq Ids
           /\ Bounded' /\ MapsInStep'
           /\ Live' \subseteq Live /\ Cardinality(Live') <= Cardinality(Live)
           /\ \A id \in Ids : streams'[id] = IF id \in S THEN Left(next[streams[id]]) ELSE streams[id]
<1> DEFINE gone == {id \in S : next[streams[id]] = "closed"}
<1>0. \A id \in Live : id \in Ids /\ streams[id] \in LiveStates
  BY DEF Live, Typed, States
<1>1. \A id \in Ids : streams'[id] = IF id \in S THEN Left(next[streams[id]]) ELSE streams[id]
  BY <1>0 DEF Move, Left
<1>2. \A id \in S : next[streams[id]] \in LiveStates \cup {"closed"}
  BY <1>0
<1>3. streams' \in [Ids -> States]
  BY <1>0, <1>2 DEF Move, Typed, States
<1>4. Live' = Live \ gone
  BY <1>0, <1>1, <1>2 DEF Live, Left, LiveStates
<1>5. windowed' = windowed \ gone /\ prio' = prio \ gone
  BY DEF Move
<1>6. MapsInStep' /\ windowed' \subseteq Ids /\ prio' \subseteq Ids
  BY <1>4, <1>5 DEF MapsInStep, Typed
<1>7. Live' \subseteq Live
  BY <1>4
<1>8. IsFiniteSet(Live') /\ Cardinality(Live') <= Cardinality(Live)
  BY <1>7, FS_Subset DEF Bounded
<1>9. Cardinality(Live) \in Nat /\ Cardinality(Live') \in Nat
  BY <1>8, FS_CardinalityType DEF Bounded
<1>10. Bounded'
  BY <1>8, <1>9, BoundsAssumption DEF Bounded
<1>11. QED
  BY <1>1, <1>3, <1>6, <1>7, <1>8, <1>10

\* A request that was admitted enters the table: there is room for it.
LEMMA EntersLive ==
    ASSUME Typed, Bounded, MapsInStep, NEW id \in Ids, streams[id] = "none",
           Cardinality(Live) < MaxConcurrent, NEW s \in LiveStates,
           streams' = [streams EXCEPT ![id] = s], windowed' = windowed \cup {id},
           prio' \in {prio, prio \cup {id}}
    PROVE  /\ streams' \in [Ids -> States] /\ windowed' \subseteq Ids /\ prio' \subseteq Ids
           /\ Bounded' /\ MapsInStep'
<1>1. streams' \in [Ids -> States]
  BY DEF Typed, States
<1>2. Live' = Live \cup {id} /\ id \notin Live
  BY DEF Live, LiveStates, Typed
<1>3. IsFiniteSet(Live') /\ Cardinality(Live') = Cardinality(Live) + 1
  BY <1>2, FS_AddElement DEF Bounded
<1>4. Cardinality(Live) \in Nat
  BY FS_CardinalityType DEF Bounded
<1>5. Bounded'
  BY <1>3, <1>4, BoundsAssumption DEF Bounded
<1>6. MapsInStep' /\ windowed' \subseteq Ids /\ prio' \subseteq Ids
  BY <1>2 DEF MapsInStep, Typed
<1>7. QED
  BY <1>1, <1>5, <1>6

\* Wake touches one handler, and only a parked one.
LEMMA WakeKeeps ==
    ASSUME Typed, NEW id \in Ids, handler' = Wake(id)
    PROVE  /\ handler' \in [Ids -> {"none", "running", "parked", "woken", "ended", "returned"}]
           /\ \A i \in Ids : handler'[i] = IF i = id /\ handler[i] = "parked" THEN "woken" ELSE handler[i]
  BY DEF Typed, Wake

Flow == [chunks : Nat, ended : BOOLEAN, failed : BOOLEAN]

\* What a body is after its end, or its failure, is noted.
LEMMA Marked ==
    ASSUME NEW b \in [Ids -> Flow], NEW id \in Ids
    PROVE  /\ /\ [b EXCEPT ![id].failed = TRUE] \in [Ids -> Flow]
              /\ [b EXCEPT ![id].failed = TRUE][id].failed
              /\ \A i \in Ids : i # id => [b EXCEPT ![id].failed = TRUE][i] = b[i]
           /\ /\ [b EXCEPT ![id].ended = TRUE] \in [Ids -> Flow]
              /\ [b EXCEPT ![id].ended = TRUE][id].ended
              /\ \A i \in Ids : i # id => [b EXCEPT ![id].ended = TRUE][i] = b[i]
<1>1. b[id] \in Flow
  OBVIOUS
<1>2. /\ [b[id] EXCEPT !.failed = TRUE] \in Flow /\ [b[id] EXCEPT !.failed = TRUE].failed
      /\ [b[id] EXCEPT !.ended = TRUE] \in Flow /\ [b[id] EXCEPT !.ended = TRUE].ended
  BY <1>1 DEF Flow
<1>3. /\ [b EXCEPT ![id].failed = TRUE] = [b EXCEPT ![id] = [b[id] EXCEPT !.failed = TRUE]]
      /\ [b EXCEPT ![id].ended = TRUE] = [b EXCEPT ![id] = [b[id] EXCEPT !.ended = TRUE]]
  OBVIOUS
<1>4. ASSUME NEW v \in Flow
      PROVE  /\ [b EXCEPT ![id] = v] \in [Ids -> Flow] /\ [b EXCEPT ![id] = v][id] = v
             /\ \A i \in Ids : i # id => [b EXCEPT ![id] = v][i] = b[i]
  OBVIOUS
<1> QED
  BY <1>2, <1>3, <1>4, Zenon

LEMMA BodyFailKeeps ==
    ASSUME Typed, NEW id \in Ids, BodyFail(id)
    PROVE  /\ body' \in [Ids -> [chunks : Nat, ended : BOOLEAN, failed : BOOLEAN]]
           /\ handler' \in [Ids -> {"none", "running", "parked", "woken", "ended", "returned"}]
           /\ \A i \in Ids : i # id => body'[i] = body[i]
           /\ body'[id].failed
           /\ \A i \in Ids : handler'[i] = IF i = id /\ handler[i] = "parked" THEN "woken" ELSE handler[i]
<1>1. body \in [Ids -> Flow] /\ body' = [body EXCEPT ![id].failed = TRUE] /\ handler' = Wake(id)
  BY DEF Typed, BodyFail, Flow
<1>2. body' \in [Ids -> Flow] /\ body'[id].failed /\ \A i \in Ids : i # id => body'[i] = body[i]
  BY <1>1, Marked, Zenon
<1> QED
  BY <1>1, <1>2, WakeKeeps DEF Flow

LEMMA BodyEndKeeps ==
    ASSUME Typed, NEW id \in Ids, BodyEnd(id)
    PROVE  /\ body' \in [Ids -> [chunks : Nat, ended : BOOLEAN, failed : BOOLEAN]]
           /\ handler' \in [Ids -> {"none", "running", "parked", "woken", "ended", "returned"}]
           /\ \A i \in Ids : i # id => body'[i] = body[i]
           /\ body'[id].ended
           /\ \A i \in Ids : handler'[i] = IF i = id /\ handler[i] = "parked" THEN "woken" ELSE handler[i]
<1>1. body \in [Ids -> Flow] /\ body' = [body EXCEPT ![id].ended = TRUE] /\ handler' = Wake(id)
  BY DEF Typed, BodyEnd, Flow
<1>2. body' \in [Ids -> Flow] /\ body'[id].ended /\ \A i \in Ids : i # id => body'[i] = body[i]
  BY <1>1, Marked, Zenon
<1> QED
  BY <1>1, <1>2, WakeKeeps DEF Flow

\* What the exchange layer promises of the requests, and what the table promises.
Exchange == ArrivingIsOpen /\ Settled /\ NoStrandedHandler
TableHolds == Bounded /\ MapsInStep

LEMMA CoreSplits == Core <=> TableHolds /\ Exchange
  BY DEF Core, TableHolds, Exchange

\* A stream whose peer may still send.
Receiving(id) == streams[id] \notin {"none", "halfClosedRemote"}

LEMMA ArrivingMeans ==
    ASSUME arriving \subseteq Ids
    PROVE  ArrivingIsOpen <=> \A id \in arriving : Receiving(id) /\ handler[id] # "none"
  BY DEF ArrivingIsOpen, Receiving, Live, peerDone

LEMMA ArrivingMeansNext ==
    ASSUME arriving' \subseteq Ids, \A id \in arriving' : Receiving(id)' /\ handler'[id] # "none"
    PROVE  ArrivingIsOpen'
  BY DEF ArrivingIsOpen, Receiving, Live, peerDone

\* The exchange layer keeps its promises when it forgets a request whose body is settled.
LEMMA Forgets ==
    ASSUME Typed, Exchange, NEW id \in Ids, arriving' = arriving \ {id},
           body'[id].failed \/ body'[id].ended,
           \A i \in Ids : i # id => body'[i] = body[i],
           \A i \in Ids : handler'[i] = IF i = id /\ handler[i] = "parked" THEN "woken" ELSE handler[i],
           \A i \in arriving \ {id} : Receiving(i)'
    PROVE  Exchange'
<1>0. arriving \subseteq Ids
  BY DEF Typed
<1>1. \A i \in arriving : handler[i] # "none"
  BY <1>0, ArrivingMeans DEF Exchange
<1>2. ArrivingIsOpen'
  BY <1>0, <1>1, ArrivingMeansNext
<1>3. Settled'
  BY <1>0 DEF Exchange, Settled
<1>4. NoStrandedHandler'
  BY <1>0 DEF Exchange, NoStrandedHandler
<1>5. QED
  BY <1>2, <1>3, <1>4 DEF Exchange

\* So it does when nothing of it changes.
LEMMA Stays ==
    ASSUME Typed, Exchange, UNCHANGED <<arriving, body, handler>>,
           \A i \in arriving : Receiving(i)'
    PROVE  Exchange'
<1>0. arriving \subseteq Ids
  BY DEF Typed
<1>1. \A i \in arriving : handler[i] # "none"
  BY <1>0, ArrivingMeans DEF Exchange
<1>2. ArrivingIsOpen'
  BY <1>0, <1>1, ArrivingMeansNext
<1>3. Settled' /\ NoStrandedHandler'
  BY DEF Exchange, Settled, NoStrandedHandler
<1>4. QED
  BY <1>2, <1>3 DEF Exchange

LEMMA recvEndType ==
    /\ recvEnd \in [LiveStates -> LiveStates \cup {"closed"}]
    /\ SendEnd \in [LiveStates -> LiveStates \cup {"closed"}]
    /\ Closed \in [LiveStates -> LiveStates \cup {"closed"}]
  BY DEF recvEnd, SendEnd, Closed, LiveStates

\* What the frame actions leave: the connection up, or down with a reason.
Result == (reader = "reading" /\ connErr = "nil")
          \/ (reader = "stopped" /\ connErr \in {"protocol", "compression", "calm", "notArriving", "ended"})

LEMMA TrailersKeeps ==
    ASSUME Typed, TableHolds, Exchange, connErr = "nil", NEW id \in Ids, NEW flaw,
           Receiving(id), Trailers(id, flaw)
    PROVE  /\ streams' \in [Ids -> States] /\ windowed' \subseteq Ids /\ prio' \subseteq Ids
           /\ arriving' \subseteq Ids /\ rst' \subseteq Ids
           /\ body' \in [Ids -> [chunks : Nat, ended : BOOLEAN, failed : BOOLEAN]]
           /\ handler' \in [Ids -> {"none", "running", "parked", "woken", "ended", "returned"}]
           /\ declared' = declared /\ received' = received
           /\ TableHolds' /\ Exchange' /\ Result'
           /\ connErr' \in {"nil", "notArriving"}
<1>0. {id} \in SUBSET Live /\ Move({id}, recvEnd)
  BY DEF Live, Receiving, Trailers
<1>1. /\ streams' \in [Ids -> States] /\ windowed' \subseteq Ids /\ prio' \subseteq Ids /\ TableHolds'
      /\ \A i \in Ids : i # id => streams'[i] = streams[i]
  <2>1. MapsInStep /\ Bounded
    BY DEF TableHolds
  <2> HIDE DEF Move
  <2>2. QED
    BY <1>0, <2>1, MoveKeeps, recvEndType DEF TableHolds
<1>2. \A i \in arriving : Receiving(i) /\ i \in Ids
  BY ArrivingMeans DEF Exchange, Typed
<1>3. \A i \in arriving \ {id} : Receiving(i)'
  BY <1>1, <1>2 DEF Receiving
<1>4. CASE id \notin arriving
  <2>1. UNCHANGED <<arriving, body, handler, rst, declared, received>> /\ Result'
        /\ connErr' = "notArriving"
    BY <1>4 DEF Trailers, ConnError, Result
  <2>2. Exchange'
    BY <1>3, <1>4, <2>1, Stays
  <2>3. QED
    BY <1>1, <2>1, <2>2 DEF Typed
<1>5. CASE id \in arriving /\ Malformed(id)
  <2>1. arriving' = arriving \ {id} /\ Result' /\ BodyFail(id) /\ rst' = rst \cup {id}
        /\ UNCHANGED <<declared, received>> /\ connErr' = "nil"
    BY <1>5 DEF Trailers, Malformed, StreamError, Return, Result
  <2>2. Exchange'
    BY <1>3, <2>1, BodyFailKeeps, Forgets
  <2>3. QED
    BY <1>1, <2>1, <2>2, BodyFailKeeps DEF Typed
<1>6. CASE id \in arriving /\ BodyEnd(id) /\ arriving' = arriving \ {id} /\ Return /\ rst' = rst
  <2>1. Result' /\ connErr' = "nil" /\ UNCHANGED <<declared, received>>
    BY <1>6 DEF Trailers, Return, Result
  <2>2. Exchange'
    BY <1>3, <1>6, BodyEndKeeps, Forgets
  <2>3. QED
    BY <1>1, <1>6, <2>1, <2>2, BodyEndKeeps DEF Typed
<1>7. QED
  BY <1>4, <1>5, <1>6 DEF Trailers

LEMMA RequestKeeps ==
    ASSUME Typed, TableHolds, Exchange, connErr = "nil", NEW id \in Ids, NEW endStream \in BOOLEAN,
           NEW length \in Lengths, NEW flaw,
           streams[id] = "none", Cardinality(Live) < MaxConcurrent,
           Request(id, endStream, length, flaw)
    PROVE  /\ streams' \in [Ids -> States] /\ windowed' \subseteq Ids /\ prio' \subseteq Ids
           /\ arriving' \subseteq Ids /\ rst' \subseteq Ids
           /\ body' \in [Ids -> [chunks : Nat, ended : BOOLEAN, failed : BOOLEAN]]
           /\ handler' \in [Ids -> {"none", "running", "parked", "woken", "ended", "returned"}]
           /\ declared' \in [Ids -> Nat \cup {NoContentLength}]
           /\ received' = received
           /\ TableHolds' /\ Exchange' /\ Result' /\ connErr' = "nil"
<1>1. PICK s \in LiveStates : /\ s = IF endStream THEN "halfClosedRemote" ELSE "open"
                              /\ streams' = [streams EXCEPT ![id] = s]
  BY DEF Request, recvEnd, LiveStates
<1>2. /\ streams' \in [Ids -> States] /\ windowed' \subseteq Ids /\ prio' \subseteq Ids /\ TableHolds'
  <2>1. prio' \in {prio, prio \cup {id}} /\ windowed' = windowed \cup {id}
    BY DEF Request
  <2> QED
    BY <1>1, <2>1, EntersLive DEF TableHolds
<1>3. arriving \subseteq Ids /\ id \notin arriving
      /\ \A i \in arriving : Receiving(i) /\ handler[i] # "none"
  BY ArrivingMeans DEF Exchange, Typed, Receiving
<1>4. \A i \in arriving : Receiving(i)'
  BY <1>1, <1>3 DEF Receiving, Typed
<1>5. CASE flaw = "malformed"
  <2>1. Result' /\ connErr' = "nil" /\ rst' = rst \cup {id} /\ UNCHANGED <<requests, body, handler>>
    BY <1>5 DEF Request, StreamError, Return, Result
  <2>2. Exchange'
    BY <1>4, <2>1, Stays DEF requests
  <2>3. QED
    BY <1>2, <2>1, <2>2 DEF Typed, requests
<1>6. CASE flaw # "malformed"
  <2>1. Result' /\ connErr' = "nil" /\ rst' = rst /\ handler' = [handler EXCEPT ![id] = "running"]
        /\ received' = received
    BY <1>6 DEF Request, Return, Result, requests
  <2>2. handler' \in [Ids -> {"none", "running", "parked", "woken", "ended", "returned"}]
        /\ handler'[id] = "running" /\ \A i \in Ids : i # id => handler'[i] = handler[i]
    BY <2>1 DEF Typed
  <2>3. CASE endStream
    <3>1. body' = [body EXCEPT ![id].ended = TRUE] /\ arriving' = arriving /\ declared' = declared
      BY <1>6, <2>3 DEF Request, requests
    <3>2. body' \in [Ids -> [chunks : Nat, ended : BOOLEAN, failed : BOOLEAN]]
          /\ body'[id].ended /\ \A i \in Ids : i # id => body'[i] = body[i]
      <4>1. body \in [Ids -> Flow]
        BY DEF Typed, Flow
      <4>2. body' \in [Ids -> Flow] /\ body'[id].ended /\ \A i \in Ids : i # id => body'[i] = body[i]
        BY <3>1, <4>1, Marked, Zenon
      <4> QED
        BY <4>2 DEF Flow
    <3>3. ArrivingIsOpen'
      BY <1>3, <1>4, <2>2, <3>1, ArrivingMeansNext
    <3>4. Settled' /\ NoStrandedHandler'
      BY <2>2, <3>1, <3>2 DEF Exchange, Settled, NoStrandedHandler
    <3>5. QED
      BY <1>2, <1>3, <2>1, <2>2, <3>1, <3>2, <3>3, <3>4 DEF Exchange, Typed
  <2>4. CASE ~endStream
    <3>1. body' = body /\ arriving' = arriving \cup {id}
          /\ declared' = [declared EXCEPT ![id] = length]
      BY <1>6, <2>4 DEF Request
    <3>2. Receiving(id)'
      BY <1>1, <2>4 DEF Receiving, Typed
    <3>3. ArrivingIsOpen'
      BY <1>3, <1>4, <2>2, <3>1, <3>2, ArrivingMeansNext
    <3>4. Settled' /\ NoStrandedHandler'
      BY <2>2, <3>1 DEF Exchange, Settled, NoStrandedHandler
    <3>5. declared' \in [Ids -> Nat \cup {NoContentLength}]
      BY <3>1, BoundsAssumption DEF Typed
    <3>6. QED
      BY <1>2, <1>3, <2>1, <2>2, <3>1, <3>3, <3>4, <3>5 DEF Exchange, Typed
  <2>5. QED
    BY <2>3, <2>4
<1>7. QED
  BY <1>5, <1>6

Block == [id : Ids, trailers : BOOLEAN, endStream : BOOLEAN, verdict : Verdicts]

\* What was promised to a block b with its first frame.
Promised(b) ==
    IF b.trailers
    THEN b.verdict = "ok" => Receiving(b.id)
    ELSE /\ streams[b.id] = "none"
         /\ b.verdict = "ok" => Cardinality(Live) < MaxConcurrent

LEMMA PromisedIsAssembly ==
    ASSUME Typed
    PROVE  Assembly <=> (assembling.id # 0 => Promised(assembling))
<1>1. assembling.id # 0 => (Receiving(assembling.id) <=> streams[assembling.id] \in {"open", "halfClosedLocal"})
  BY DEF Typed, Receiving, States, LiveStates
<1>2. assembling.trailers \in BOOLEAN
  BY DEF Typed
<1>3. QED
  BY <1>1, <1>2 DEF Assembly, SlotKept, TrailersHaveTheirStream, Promised

LEMMA ResultIsUp == Result => Up
  BY DEF Result, Up

\* Everything of IInv but the types of what a block does not touch.
Sound == Typed /\ TableHolds /\ Exchange /\ Up /\ Decoded /\ Assembly

LEMMA SoundIsIInv == IInv <=> Sound /\ TypedRest
  BY TypesSplit, CoreSplits DEF IInv, Sound

LEMMA NoBlockType ==
    /\ NoBlock \in [id : Ids \cup {0}, trailers : BOOLEAN, endStream : BOOLEAN, verdict : Verdicts]
    /\ NoBlock.id = 0
  BY DEF NoBlock, Verdicts

LEMMA completeBlockKeeps ==
    ASSUME Sound, connErr = "nil", room \in BOOLEAN, NEW b \in Block, Promised(b),
           NEW length \in Lengths, NEW flaw, completeBlock(b, length, flaw)
    PROVE  Sound'
<1>0. Typed /\ TableHolds /\ Exchange /\ decoded = blocks
  BY DEF Sound, Decoded
<1>1. assembling' = NoBlock /\ blocks' = blocks + 1 /\ UNCHANGED <<sent, tokens, answered>>
  BY DEF completeBlock
<1>2. Assembly'
  BY <1>1, NoBlockType DEF Assembly, SlotKept, TrailersHaveTheirStream
<1>3. b.id \in Ids /\ b.endStream \in BOOLEAN /\ b.trailers \in BOOLEAN
  BY DEF Block
<1>u. ASSUME UNCHANGED <<streams, windowed, prio, requests, body, handler>>
      PROVE  TableHolds' /\ Exchange'
  <2>1. TableHolds'
    BY <1>0, <1>u DEF TableHolds, Bounded, MapsInStep, Live
  <2>2. Exchange'
    BY <1>0, <1>u DEF Exchange, ArrivingIsOpen, Settled, NoStrandedHandler, Live, peerDone, requests
  <2>3. QED
    BY <2>1, <2>2
<1>4. CASE flaw = "undecodable"
  <2>1. /\ reader' = "stopped" /\ connErr' = "compression"
        /\ UNCHANGED <<streams, windowed, prio, requests, body, handler, rst, refused, decoded>>
    BY <1>4 DEF completeBlock, ConnError
  <2>2. Up' /\ Decoded'
    BY <1>0, <1>1, <2>1 DEF Up, Decoded, Typed
  <2>3. Typed'
    BY <1>0, <1>1, <2>1, NoBlockType DEF Typed, requests
  <2>4. QED
    BY <1>2, <1>u, <2>1, <2>2, <2>3 DEF Sound
<1>5. CASE flaw # "undecodable"
  <2>1. decoded' = decoded + 1
        /\ refused' = IF b.verdict = "refused" THEN refused \cup {[id |-> b.id, room |-> room]}
                      ELSE refused
    BY <1>5 DEF completeBlock
  <2>2. /\ blocks' \in Nat /\ decoded' \in Nat
        /\ connErr' # "compression" => Decoded'
    BY <1>0, <1>1, <2>1 DEF Typed, Decoded
  <2>3. refused' \subseteq [id : Ids, room : BOOLEAN]
    BY <1>0, <1>3, <2>1 DEF Typed
  <2>4. CASE b.verdict # "ok"
    <3>1. /\ reader' = "reading" /\ connErr' = "nil" /\ rst' = rst \cup {b.id}
          /\ UNCHANGED <<streams, windowed, prio, requests, body, handler>>
      BY <1>5, <2>4 DEF completeBlock, StreamError, Return
    <3>2. Typed'
      BY <1>0, <1>1, <1>3, <2>2, <2>3, <3>1, NoBlockType DEF Typed, requests
    <3>3. Up' /\ Decoded'
      BY <2>2, <3>1 DEF Up
    <3>4. QED
      BY <1>2, <1>u, <3>1, <3>2, <3>3 DEF Sound
  <2>5. CASE b.verdict = "ok" /\ b.trailers
    <3>1. Trailers(b.id, flaw) /\ Receiving(b.id)
      BY <1>5, <2>5 DEF completeBlock, Promised
    <3>2. /\ streams' \in [Ids -> States] /\ windowed' \subseteq Ids /\ prio' \subseteq Ids
          /\ arriving' \subseteq Ids /\ rst' \subseteq Ids
          /\ body' \in [Ids -> [chunks : Nat, ended : BOOLEAN, failed : BOOLEAN]]
          /\ handler' \in [Ids -> {"none", "running", "parked", "woken", "ended", "returned"}]
          /\ declared' = declared /\ received' = received
          /\ TableHolds' /\ Exchange' /\ Result'
          /\ connErr' \in {"nil", "notArriving"}
      BY <1>0, <1>3, <3>1, TrailersKeeps
    <3>3. Typed'
      BY <1>0, <1>1, <2>2, <2>3, <3>2, NoBlockType DEF Typed, Result
    <3>4. Up' /\ Decoded'
      BY <2>2, <3>2 DEF Up, Result
    <3>5. QED
      BY <1>2, <3>2, <3>3, <3>4 DEF Sound
  <2>6. CASE b.verdict = "ok" /\ ~b.trailers
    <3>1. Request(b.id, b.endStream, length, flaw) /\ streams[b.id] = "none"
          /\ Cardinality(Live) < MaxConcurrent
      BY <1>5, <2>6 DEF completeBlock, Promised
    <3>2. /\ streams' \in [Ids -> States] /\ windowed' \subseteq Ids /\ prio' \subseteq Ids
          /\ arriving' \subseteq Ids /\ rst' \subseteq Ids
          /\ body' \in [Ids -> [chunks : Nat, ended : BOOLEAN, failed : BOOLEAN]]
          /\ handler' \in [Ids -> {"none", "running", "parked", "woken", "ended", "returned"}]
          /\ declared' \in [Ids -> Nat \cup {NoContentLength}]
          /\ received' = received
          /\ TableHolds' /\ Exchange' /\ Result' /\ connErr' = "nil"
      BY <1>0, <1>3, <3>1, RequestKeeps
    <3>3. Typed'
      BY <1>0, <1>1, <2>2, <2>3, <3>2, NoBlockType DEF Typed, Result
    <3>4. Up' /\ Decoded'
      BY <2>2, <3>2 DEF Up, Result
    <3>5. QED
      BY <1>2, <3>2, <3>3, <3>4 DEF Sound
  <2>7. QED
    BY <2>4, <2>5, <2>6, <1>3
<1>6. QED
  BY <1>4, <1>5

LEMMA extendKeeps ==
    ASSUME Sound, connErr = "nil", room \in BOOLEAN, NEW b \in Block, Promised(b),
           NEW endHeaders, NEW length \in Lengths, NEW flaw, extend(b, endHeaders, length, flaw)
    PROVE  Sound'
<1>1. CASE endHeaders
  BY <1>1, completeBlockKeeps DEF extend
<1>2. CASE ~endHeaders
  <2>1. /\ assembling' = b /\ reader' = "reading" /\ connErr' = connErr
        /\ UNCHANGED <<streams, windowed, prio, sent, tokens, requests, body, handler,
                       rst, answered, refused, blocks, decoded>>
    BY <1>2 DEF extend, Return
  <2>2. Typed'
    BY <2>1 DEF Sound, Typed, Block, requests
  <2>3. Promised(b)'
    BY <2>1 DEF Promised, Receiving, Live
  <2>4. Assembly'
    <3>1. b.id \in Ids /\ b.trailers \in BOOLEAN /\ streams'[b.id] \in States
      BY <2>2 DEF Block, Typed
    <3>2. SlotKept'
      BY <2>1, <2>3, <3>1 DEF SlotKept, Promised
    <3>3. TrailersHaveTheirStream'
      BY <2>1, <2>3, <3>1 DEF TrailersHaveTheirStream, Promised, Receiving, States, LiveStates
    <3>4. QED
      BY <3>2, <3>3 DEF Assembly
  <2>5. Up' /\ Decoded'
    BY <2>1 DEF Sound, Up, Decoded
  <2>6. TableHolds' /\ Exchange'
    BY <2>1 DEF Sound, TableHolds, Bounded, MapsInStep, Live, Exchange, ArrivingIsOpen, Settled,
                NoStrandedHandler, peerDone, requests
  <2>7. QED
    BY <2>2, <2>4, <2>5, <2>6 DEF Sound
<1>3. QED
  BY <1>1, <1>2

LEMMA DeliverKeeps ==
    ASSUME Typed, Exchange, connErr = "nil", NEW id \in Ids, NEW octets \in 0 .. 1,
           NEW endStream \in BOOLEAN, Deliver(id, octets, endStream),
           \A i \in Ids : streams'[i] = streams[i] \/ (i = id /\ endStream)
    PROVE  /\ arriving' \subseteq Ids /\ rst' \subseteq Ids
           /\ body' \in [Ids -> [chunks : Nat, ended : BOOLEAN, failed : BOOLEAN]]
           /\ handler' \in [Ids -> {"none", "running", "parked", "woken", "ended", "returned"}]
           /\ declared' = declared /\ received' \in [Ids -> Nat]
           /\ Exchange' /\ Result' /\ connErr' \in {"nil", "notArriving"}
<1>1. \A i \in arriving : Receiving(i) /\ i \in Ids /\ handler[i] # "none"
  BY ArrivingMeans DEF Exchange, Typed
<1>2. \A i \in arriving \ {id} : Receiving(i)'
  BY <1>1 DEF Receiving
<1>3. CASE id \notin arriving
  <2>1. UNCHANGED <<arriving, body, handler, rst, declared, received>> /\ Result'
        /\ connErr' = "notArriving"
    BY <1>3 DEF Deliver, ConnError, Result, requests
  <2>2. Exchange'
    BY <1>2, <1>3, <2>1, Stays
  <2>3. QED
    BY <2>1, <2>2 DEF Typed
<1>4. CASE id \in arriving
  <2> DEFINE total == received[id] + octets
             bounded == declared[id] # NoContentLength
             short == bounded /\ endStream /\ total # declared[id]
  <2>1. received' = [received EXCEPT ![id] = total] /\ declared' = declared
    BY <1>4 DEF Deliver
  <2>2. received' \in [Ids -> Nat]
    BY <2>1 DEF Typed
  <2>3. CASE bounded /\ total > declared[id]
    <3>1. Malformed(id)
      BY <1>4, <2>3 DEF Deliver
    <3>2. arriving' = arriving \ {id} /\ Result' /\ BodyFail(id) /\ rst' = rst \cup {id}
          /\ connErr' = "nil"
      BY <3>1 DEF Malformed, StreamError, Return, Result
    <3>3. Exchange'
      BY <1>2, <3>2, BodyFailKeeps, Forgets
    <3>4. QED
      BY <2>1, <2>2, <3>2, <3>3, BodyFailKeeps DEF Typed
  <2>4. CASE ~(bounded /\ total > declared[id])
    <3>1. /\ body' = [body EXCEPT ![id] = [chunks |-> @.chunks + octets,
                                          ended |-> endStream /\ ~short,
                                          failed |-> @.failed \/ short]]
          /\ handler' = Wake(id)
          /\ arriving' = IF endStream THEN arriving \ {id} ELSE arriving
          /\ IF short THEN StreamError(id) ELSE Return /\ UNCHANGED rst
      BY <1>4, <2>4 DEF Deliver
    <3>2. rst' \subseteq Ids /\ Result' /\ connErr' = "nil"
      BY <3>1 DEF StreamError, Return, Result, Typed
    <3> DEFINE b == [chunks |-> body[id].chunks + octets, ended |-> endStream /\ ~short,
                     failed |-> body[id].failed \/ short]
    <3>b. b.chunks \in Nat /\ b.ended \in BOOLEAN /\ b.failed \in BOOLEAN
          /\ b.ended = (endStream /\ ~short) /\ b.failed = (body[id].failed \/ short)
      <4>1. body[id].chunks \in Nat /\ body[id].failed \in BOOLEAN
        BY DEF Typed
      <4>2. short \in BOOLEAN
        OBVIOUS
      <4> HIDE DEF short
      <4>3. b.chunks \in Nat
        BY <4>1
      <4>4. b.ended \in BOOLEAN /\ b.failed \in BOOLEAN
        BY <4>1, <4>2, Zenon
      <4>5. QED
        BY <4>3, <4>4
    <3>c. b \in [chunks : Nat, ended : BOOLEAN, failed : BOOLEAN]
      BY <3>b
    <3>3. body' = [body EXCEPT ![id] = b]
      BY <3>1
    <3>d. endStream => b.failed \/ b.ended
      BY <3>b
    <3> HIDE DEF b
    <3>4. /\ body' \in [Ids -> [chunks : Nat, ended : BOOLEAN, failed : BOOLEAN]]
          /\ body'[id] = b /\ \A i \in Ids : i # id => body'[i] = body[i]
      BY <3>3, <3>c DEF Typed
    <3>5. CASE endStream
      <4>1. Exchange'
        BY <1>2, <3>1, <3>4, <3>5, <3>d, WakeKeeps, Forgets
      <4>2. QED
        BY <2>1, <2>2, <3>1, <3>2, <3>4, <3>5, <4>1, WakeKeeps DEF Typed
    <3>6. CASE ~endStream
      <4>1. arriving' = arriving /\ \A i \in arriving' : Receiving(i)'
        BY <1>1, <3>1, <3>6 DEF Receiving
      <4>2. /\ handler' \in [Ids -> {"none", "running", "parked", "woken", "ended", "returned"}]
            /\ \A i \in Ids : handler'[i] = IF i = id /\ handler[i] = "parked" THEN "woken" ELSE handler[i]
        BY <3>1, WakeKeeps
      <4>3. arriving' \subseteq Ids /\ \A i \in arriving' : handler'[i] # "none"
        BY <1>1, <4>1, <4>2
      <4>4. ArrivingIsOpen'
        BY <4>1, <4>3, ArrivingMeansNext
      <4>5. Settled' /\ NoStrandedHandler'
        BY <1>4, <3>4, <4>1, <4>2 DEF Exchange, Settled, NoStrandedHandler
      <4>6. QED
        BY <2>1, <2>2, <3>2, <3>4, <4>2, <4>3, <4>4, <4>5 DEF Exchange
    <3>7. QED
      BY <3>5, <3>6
  <2>5. QED
    BY <2>3, <2>4
<1>5. QED
  BY <1>3, <1>4

\* The steps of the reader.
LEMMA HandleFrameKeeps == ASSUME Sound, TypedRest, HandleFrame PROVE Sound' /\ TypedRest'
<1>0. Typed /\ TableHolds /\ Exchange /\ connErr = "nil"
  BY DEF Sound, HandleFrame, Up
<1>1. /\ frames < MaxFrames /\ frames' = frames + 1 /\ reader' = "dispatching" /\ sent' = {}
      /\ Move(sent \cap Live, SendEnd)
      /\ room' = (rst = {} /\ Cardinality(PeerCounts) < MaxConcurrent)
      /\ UNCHANGED <<highestRemote, assembling, tokens, requests, body, handler, connErr, history>>
  BY DEF HandleFrame
<1>2. TypedRest'
  <2>1. frames' \in 0 .. MaxFrames
    BY <1>1, BoundsAssumption DEF TypedRest
  <2>2. room' \in BOOLEAN
    BY <1>1
  <2>3. QED
    BY <1>1, <2>1, <2>2 DEF TypedRest, history
<1>3. /\ streams' \in [Ids -> States] /\ windowed' \subseteq Ids /\ prio' \subseteq Ids
      /\ TableHolds' /\ Cardinality(Live') <= Cardinality(Live)
      /\ \A id \in Ids : streams'[id] = IF id \in sent \cap Live THEN Left(SendEnd[streams[id]]) ELSE streams[id]
  <2>1. sent \cap Live \in SUBSET Live
    OBVIOUS
  <2> HIDE DEF Move
  <2>2. QED
    BY <1>0, <1>1, <2>1, MoveKeeps, recvEndType DEF TableHolds
<1>4. \A id \in Ids : /\ Receiving(id) => Receiving(id)'
                      /\ streams[id] = "none" => streams'[id] = "none"
  BY <1>0, <1>3 DEF Receiving, Live, SendEnd, Left, Typed, States, LiveStates
<1>5. Typed'
  BY <1>0, <1>1, <1>3 DEF Typed, requests, history
<1>6. Exchange'
  BY <1>0, <1>1, <1>4, Stays, ArrivingMeans DEF Exchange, requests, Typed
<1>7. Up' /\ Decoded'
  BY <1>0, <1>1 DEF Sound, Up, Decoded, history
<1>8. Assembly'
  <2>1. assembling' = assembling /\ assembling.id \in Ids \cup {0}
    BY <1>0, <1>1 DEF Typed
  <2>2. Cardinality(Live) \in Nat /\ Cardinality(Live') \in Nat
    BY <1>0, <1>3, FS_CardinalityType DEF TableHolds, Bounded
  <2>3. SlotKept'
    <3>1. SlotKept
      BY DEF Sound, Assembly
    <3>2. Cardinality(Live) < MaxConcurrent => Cardinality(Live') < MaxConcurrent
      BY <1>3, <2>2, BoundsAssumption
    <3>3. assembling.id # 0 /\ ~assembling.trailers =>
              /\ streams'[assembling.id] = "none"
              /\ assembling.verdict = "ok" => Cardinality(Live') < MaxConcurrent
      BY <1>4, <2>1, <3>1, <3>2 DEF SlotKept
    <3>4. QED
      BY <2>1, <3>3 DEF SlotKept
  <2>4. TrailersHaveTheirStream'
    <3>1. TrailersHaveTheirStream
      BY DEF Sound, Assembly
    <3>2. \A id \in Ids : Receiving(id)' => streams'[id] \in {"open", "halfClosedLocal"}
      BY <1>3 DEF Receiving, States, LiveStates
    <3>3. QED
      BY <1>4, <2>1, <3>1, <3>2 DEF TrailersHaveTheirStream, Receiving
  <2>5. QED
    BY <2>3, <2>4 DEF Assembly
<1>9. QED
  BY <1>2, <1>3, <1>5, <1>6, <1>7, <1>8 DEF Sound

LEMMA HeadersKeeps ==
    ASSUME Sound, TypedRest, NEW id \in Ids, NEW endStream \in BOOLEAN, NEW endHeaders \in BOOLEAN,
           NEW length \in Lengths, NEW flaw, Headers(id, endStream, endHeaders, length, flaw)
    PROVE  Sound' /\ TypedRest'
<1>0. Typed /\ TableHolds /\ Exchange /\ connErr = "nil" /\ room \in BOOLEAN /\ assembling.id = 0
  BY DEF Sound, TypedRest, Headers, BetweenBlocks, Dispatching, Up
<1>1. TypedRest'
  BY IdsAssumption DEF Headers, TypedRest, table
<1>2. CASE streams[id] # "none"
  <2> DEFINE b == [id |-> id, trailers |-> TRUE, endStream |-> endStream,
                   verdict |-> trailersVerdict(id, endStream)]
  <2>1. extend(b, endHeaders, length, flaw)
    BY <1>2 DEF Headers
  <2>2. b \in Block
    BY DEF Block, trailersVerdict, Verdicts
  <2>3. Promised(b)
    BY <1>2 DEF Promised, trailersVerdict, peerDone, Receiving
  <2> HIDE DEF b
  <2>4. QED
    BY <1>0, <1>1, <2>1, <2>2, <2>3, extendKeeps
<1>3. CASE streams[id] = "none" /\ ~Unused(id)
  <2>1. /\ reader' = "stopped" /\ connErr' = "protocol"
        /\ UNCHANGED <<table, sent, tokens, requests, body, handler, rst, answered, refused, blocks, decoded>>
    BY <1>3 DEF Headers, ConnError
  <2>2. Typed'
    BY <1>0, <2>1 DEF Typed, requests, table
  <2>3. TableHolds' /\ Exchange'
    BY <1>0, <2>1 DEF TableHolds, Bounded, MapsInStep, Live, Exchange, ArrivingIsOpen, Settled,
                      NoStrandedHandler, peerDone, requests, table
  <2>4. Up' /\ Decoded' /\ Assembly'
    BY <1>0, <2>1 DEF Sound, Up, Decoded, Assembly, SlotKept, TrailersHaveTheirStream, table
  <2>5. QED
    BY <1>1, <2>2, <2>3, <2>4 DEF Sound
<1>4. CASE streams[id] = "none" /\ Unused(id)
  <2> DEFINE b == [id |-> id, trailers |-> FALSE, endStream |-> endStream,
                   verdict |-> admit(id, flaw)]
  <2>1. extend(b, endHeaders, length, flaw)
    BY <1>4 DEF Headers
  <2>2. b \in Block
    BY DEF Block, admit, Verdicts
  <2>3. Cardinality(Live) \in Nat
    BY <1>0, FS_CardinalityType DEF TableHolds, Bounded
  <2>4. b.verdict = "ok" => Cardinality(Live) < MaxConcurrent
    BY <2>3, BoundsAssumption DEF admit
  <2>5. Promised(b)
    BY <1>4, <2>4 DEF Promised
  <2> HIDE DEF b
  <2>6. QED
    BY <1>0, <1>1, <2>1, <2>2, <2>5, extendKeeps
<1>5. QED
  BY <1>2, <1>3, <1>4

LEMMA ContinuationKeeps ==
    ASSUME Sound, TypedRest, NEW endHeaders \in BOOLEAN, NEW length \in Lengths, NEW flaw,
           Continuation(endHeaders, length, flaw)
    PROVE  Sound' /\ TypedRest'
<1>1. Typed /\ connErr = "nil" /\ room \in BOOLEAN /\ assembling.id # 0
      /\ extend(assembling, endHeaders, length, flaw)
  BY DEF Sound, TypedRest, Continuation, Dispatching, Up
<1>2. assembling \in Block
  BY <1>1 DEF Typed, Block
<1>3. Promised(assembling)
  BY <1>1, PromisedIsAssembly DEF Sound
<1>4. TypedRest'
  BY DEF Continuation, TypedRest
<1>5. QED
  BY <1>1, <1>2, <1>3, <1>4, extendKeeps

LEMMA DataKeeps ==
    ASSUME Sound, TypedRest, NEW id \in Ids, NEW octets \in 0 .. 1, NEW endStream \in BOOLEAN, NEW verdict,
           Data(id, octets, endStream, verdict)
    PROVE  Sound' /\ TypedRest'
<1>0. Typed /\ TableHolds /\ Exchange /\ connErr = "nil" /\ assembling.id = 0 /\ decoded = blocks
  BY DEF Sound, Data, BetweenBlocks, Dispatching, Up, Decoded
<1>1. UNCHANGED <<highestRemote, assembling, sent, tokens, frames, room, answered, refused, blocks, decoded>>
  BY DEF Data
<1>2. TypedRest'
  BY <1>1 DEF Data, TypedRest
<1>3. Assembly'
  BY <1>0, <1>1 DEF Assembly, SlotKept, TrailersHaveTheirStream
<1>d. connErr' # "compression" => Decoded'
  BY <1>0, <1>1 DEF Decoded
<1>4. CASE /\ Result' /\ connErr' \in {"nil", "protocol"} /\ rst' \in {rst, rst \cup {id}}
           /\ UNCHANGED <<streams, windowed, prio, requests, body, handler>>
  <2>1. Typed'
    BY <1>0, <1>1, <1>4 DEF Typed, requests, Result
  <2>2. TableHolds' /\ Exchange'
    BY <1>0, <1>4 DEF TableHolds, Bounded, MapsInStep, Live, Exchange, ArrivingIsOpen, Settled,
                NoStrandedHandler, peerDone, requests
  <2>3. QED
    BY <1>2, <1>3, <1>4, <1>d, <2>1, <2>2, ResultIsUp DEF Sound, Result, Up
<1>5. CASE /\ StateOf(id) # "closed" /\ StateOf(id) # "idle" /\ ~peerDone(id)
           /\ IF endStream THEN Move({id}, recvEnd) ELSE UNCHANGED <<streams, windowed, prio>>
           /\ Deliver(id, octets, endStream)
  <2>1. streams[id] # "none"
    BY <1>5 DEF StateOf
  <2>2. /\ streams' \in [Ids -> States] /\ windowed' \subseteq Ids /\ prio' \subseteq Ids /\ TableHolds'
        /\ \A i \in Ids : streams'[i] = streams[i] \/ (i = id /\ endStream)
    <3>1. CASE endStream
      <4>1. {id} \in SUBSET Live /\ Move({id}, recvEnd)
        BY <1>5, <2>1, <3>1 DEF Live
      <4> HIDE DEF Move
      <4>2. QED
        BY <1>0, <3>1, <4>1, MoveKeeps, recvEndType DEF TableHolds
    <3>2. CASE ~endStream
      BY <1>0, <1>5, <3>2 DEF TableHolds, Bounded, MapsInStep, Live, Typed
    <3>3. QED
      BY <3>1, <3>2
  <2>3. /\ arriving' \subseteq Ids /\ rst' \subseteq Ids
        /\ body' \in [Ids -> [chunks : Nat, ended : BOOLEAN, failed : BOOLEAN]]
        /\ handler' \in [Ids -> {"none", "running", "parked", "woken", "ended", "returned"}]
        /\ declared' = declared /\ received' \in [Ids -> Nat]
        /\ Exchange' /\ Result' /\ connErr' \in {"nil", "notArriving"}
    BY <1>0, <1>5, <2>2, DeliverKeeps
  <2>4. Typed'
    BY <1>0, <1>1, <2>2, <2>3 DEF Typed, Result
  <2>5. QED
    BY <1>2, <1>3, <1>d, <2>2, <2>3, <2>4, ResultIsUp DEF Sound, Result, Up
<1>6. QED
  BY <1>0, <1>4, <1>5 DEF Data, ConnError, StreamError, Return, Result

LEMMA RstStreamKeeps ==
    ASSUME Sound, TypedRest, NEW id \in Ids, RstStream(id)
    PROVE  Sound' /\ TypedRest'
<1>0. Typed /\ TableHolds /\ Exchange /\ connErr = "nil" /\ assembling.id = 0 /\ decoded = blocks
  BY DEF Sound, RstStream, BetweenBlocks, Dispatching, Up, Decoded
<1>1. UNCHANGED <<highestRemote, assembling, sent, declared, received, frames, room, rst,
                  answered, refused, blocks, decoded>>
  BY DEF RstStream
<1>2. TypedRest'
  BY <1>1 DEF RstStream, TypedRest
<1>3. Assembly'
  BY <1>0, <1>1 DEF Assembly, SlotKept, TrailersHaveTheirStream
<1>4. CASE /\ reader' = "stopped" /\ connErr' \in {"protocol", "calm"}
           /\ UNCHANGED <<streams, windowed, prio, tokens, arriving, body, handler>>
  <2>1. Typed'
    BY <1>0, <1>1, <1>4 DEF Typed
  <2>2. TableHolds' /\ Exchange'
    BY <1>0, <1>4 DEF TableHolds, Bounded, MapsInStep, Live, Exchange, ArrivingIsOpen, Settled,
                      NoStrandedHandler, peerDone
  <2>3. Up' /\ Decoded'
    BY <1>0, <1>1, <1>4 DEF Up, Decoded
  <2>4. QED
    BY <1>2, <1>3, <2>1, <2>2, <2>3 DEF Sound
<1>5. CASE Allow /\ tokens' = tokens - 1 /\ Return
           /\ (IF streams[id] = "none" THEN UNCHANGED <<streams, windowed, prio>> ELSE Move({id}, Closed))
           /\ (IF streams[id] = "none" THEN UNCHANGED <<body, handler, arriving>> ELSE Canceled(id))
  <2>1. tokens' \in 0 .. ResetBurst /\ Result' /\ connErr' = "nil" /\ reader' = "reading"
    BY <1>0, <1>5, BoundsAssumption DEF Allow, Return, Result, Typed
  <2>2. \A i \in arriving : Receiving(i) /\ i \in Ids /\ handler[i] # "none"
    BY <1>0, ArrivingMeans DEF Exchange, Typed
  <2>3. CASE streams[id] = "none"
    <3>1. UNCHANGED <<streams, windowed, prio, body, handler, arriving>>
      BY <1>5, <2>3
    <3>2. Typed'
      BY <1>0, <1>1, <2>1, <3>1 DEF Typed
    <3>3. TableHolds' /\ Exchange'
      BY <1>0, <3>1 DEF TableHolds, Bounded, MapsInStep, Live, Exchange, ArrivingIsOpen, Settled,
                        NoStrandedHandler, peerDone
    <3>4. QED
      BY <1>0, <1>1, <1>2, <1>3, <2>1, <3>2, <3>3, ResultIsUp DEF Sound, Decoded, Up
  <2>4. CASE streams[id] # "none"
    <3>1. Move({id}, Closed) /\ {id} \in SUBSET Live /\ Canceled(id)
      BY <1>5, <2>4 DEF Live
    <3>2. /\ streams' \in [Ids -> States] /\ windowed' \subseteq Ids /\ prio' \subseteq Ids /\ TableHolds'
          /\ \A i \in Ids : i # id => streams'[i] = streams[i]
      <4> HIDE DEF Move
      <4>1. QED
        BY <1>0, <3>1, MoveKeeps, recvEndType DEF TableHolds
    <3>3. \A i \in arriving \ {id} : Receiving(i)'
      BY <2>2, <3>2 DEF Receiving
    <3>4. /\ arriving' \subseteq Ids
          /\ body' \in [Ids -> [chunks : Nat, ended : BOOLEAN, failed : BOOLEAN]]
          /\ handler' \in [Ids -> {"none", "running", "parked", "woken", "ended", "returned"}]
          /\ Exchange'
      <4>1. CASE id \in arriving
        <5>1. BodyFail(id) /\ arriving' = arriving \ {id}
          BY <3>1, <4>1 DEF Canceled
        <5>2. QED
          BY <1>0, <3>3, <5>1, BodyFailKeeps, Forgets DEF Typed
      <4>2. CASE id \notin arriving
        <5>1. UNCHANGED <<body, handler, arriving>>
          BY <3>1, <4>2 DEF Canceled
        <5>2. QED
          BY <1>0, <3>3, <4>2, <5>1, Stays DEF Typed
      <4>3. QED
        BY <4>1, <4>2
    <3>5. Typed'
      BY <1>0, <1>1, <2>1, <3>2, <3>4 DEF Typed
    <3>6. QED
      BY <1>0, <1>1, <1>2, <1>3, <2>1, <3>2, <3>4, <3>5, ResultIsUp DEF Sound, Decoded, Up
  <2>5. QED
    BY <2>3, <2>4
<1>6. QED
  BY <1>4, <1>5 DEF RstStream, ConnError

\* The frames that change no stream.
LEMMA LeavesKeeps ==
    ASSUME Sound, TypedRest, reader = "dispatching", Leaves, UNCHANGED <<sent, frames, room, answered>>,
           NEW id \in Ids, rst' \in {rst, rst \cup {id}}, Result', connErr' \in {"nil", "protocol"}
    PROVE  Sound' /\ TypedRest'
<1>0. Typed /\ TableHolds /\ Exchange /\ connErr = "nil" /\ decoded = blocks
  BY DEF Sound, Up, Decoded
<1>1. Typed' /\ TypedRest'
  BY <1>0 DEF Leaves, Typed, TypedRest, table, requests, Result
<1>2. TableHolds' /\ Exchange'
  BY <1>0 DEF Leaves, TableHolds, Bounded, MapsInStep, Live, Exchange, ArrivingIsOpen, Settled,
              NoStrandedHandler, peerDone, requests, table
<1>3. Up' /\ Decoded' /\ Assembly'
  BY <1>0 DEF Sound, Leaves, Up, Result, Decoded, Assembly, SlotKept, TrailersHaveTheirStream, Live, table
<1>4. QED
  BY <1>1, <1>2, <1>3 DEF Sound

LEMMA WindowUpdateKeeps ==
    ASSUME Sound, TypedRest, NEW id \in Ids, NEW overflow \in BOOLEAN,
           WindowUpdate(id, overflow) \/ Priority(id)
    PROVE  Sound' /\ TypedRest'
<1>1. /\ reader = "dispatching" /\ connErr = "nil" /\ Leaves /\ UNCHANGED <<sent, frames, room, answered>>
  BY DEF Sound, Up, WindowUpdate, Priority, BetweenBlocks, Dispatching
<1>2. rst' \in {rst, rst \cup {id}} /\ Result' /\ connErr' \in {"nil", "protocol"}
  BY <1>1 DEF WindowUpdate, Priority, ConnError, StreamError, Return, Result
<1>3. QED
  BY <1>1, <1>2, LeavesKeeps

LEMMA PrioritizeKeeps ==
    ASSUME Sound, TypedRest, NEW id \in Ids, Prioritize(id)
    PROVE  Sound' /\ TypedRest'
<1>0. Typed /\ TableHolds /\ Exchange
  BY DEF Sound
<1>1. Typed' /\ TypedRest'
  BY <1>0, BoundsAssumption DEF Prioritize, Typed, TypedRest, requests, history
<1>2. TableHolds' /\ Exchange'
  BY <1>0 DEF Prioritize, TableHolds, Bounded, MapsInStep, Live, Exchange, ArrivingIsOpen, Settled,
              NoStrandedHandler, peerDone, requests
<1>3. Up' /\ Decoded' /\ Assembly'
  BY <1>0 DEF Sound, Prioritize, Up, Decoded, Assembly, SlotKept, TrailersHaveTheirStream, history
<1>4. QED
  BY <1>1, <1>2, <1>3 DEF Sound

LEMMA EndConnectionKeeps ==
    ASSUME Sound, TypedRest, EndConnection \/ Refill
    PROVE  Sound' /\ TypedRest'
<1>0. Typed /\ TableHolds /\ Exchange
  BY DEF Sound
<1>1. Typed' /\ TypedRest'
  BY <1>0, BoundsAssumption DEF EndConnection, ConnError, Refill, Typed, TypedRest, table, requests, history
<1>2. TableHolds' /\ Exchange'
  BY <1>0 DEF EndConnection, Refill, TableHolds, Bounded, MapsInStep, Live, Exchange, ArrivingIsOpen,
              Settled, NoStrandedHandler, peerDone, requests, table
<1>3. Up' /\ Decoded'
  BY <1>0 DEF Sound, EndConnection, ConnError, Refill, Up, Decoded, history
<1>4. Assembly'
  BY <1>0 DEF Sound, EndConnection, Refill, Assembly, SlotKept, TrailersHaveTheirStream, Live, table
<1>5. QED
  BY <1>1, <1>2, <1>3, <1>4 DEF Sound

LEMMA CloseKeeps ==
    ASSUME Sound, TypedRest, Close
    PROVE  Sound' /\ TypedRest'
<1>0. Typed /\ TableHolds /\ Exchange
  BY DEF Sound
<1>1. /\ reader = "stopped" /\ reader' = "closed" /\ arriving' = {}
      /\ UNCHANGED <<table, sent, tokens, declared, received, connErr, frames, room, history>>
  BY DEF Close
<1>2. /\ body' \in [Ids -> [chunks : Nat, ended : BOOLEAN, failed : BOOLEAN]]
      /\ \A id \in Ids : /\ id \in arriving => body'[id].failed
                         /\ id \notin arriving => body'[id] = body[id]
  BY <1>0 DEF Close, Typed
<1>3. /\ handler' \in [Ids -> {"none", "running", "parked", "woken", "ended", "returned"}]
      /\ \A id \in Ids : /\ handler'[id] = "none" <=> handler[id] = "none"
                         /\ handler'[id] = "parked" => handler[id] = "parked" /\ id \notin arriving
  BY <1>0 DEF Close, Typed
<1>4. Typed' /\ TypedRest'
  BY <1>0, <1>1, <1>2, <1>3 DEF Typed, TypedRest, table, history
<1>5. TableHolds'
  BY <1>0, <1>1 DEF TableHolds, Bounded, MapsInStep, Live, table
<1>6. Exchange'
  BY <1>0, <1>1, <1>2, <1>3 DEF Exchange, ArrivingIsOpen, Settled, NoStrandedHandler
<1>7. Up' /\ Decoded' /\ Assembly'
  BY <1>0, <1>1 DEF Sound, Up, Decoded, Assembly, SlotKept, TrailersHaveTheirStream, Live, table, history
<1>8. QED
  BY <1>4, <1>5, <1>6, <1>7 DEF Sound

\* The steps of a handler.
LEMMA HandlerKeeps ==
    ASSUME Sound, TypedRest, NEW id \in Ids, Handler(id)
    PROVE  Sound' /\ TypedRest'
<1>0. Typed /\ TableHolds /\ Exchange
  BY DEF Sound
<1>1. UNCHANGED <<table, tokens, requests, reader, connErr, frames, room, rst, peerDoneWith, refused,
                  blocks, decoded>>
  BY DEF Handler, Read, EndResponse, ReportSendEnd, HandlerUnchanged
<1>2. TableHolds' /\ Up' /\ Decoded' /\ Assembly'
  BY <1>0, <1>1 DEF Sound, TableHolds, Bounded, MapsInStep, Up, Decoded, Assembly, SlotKept,
                    TrailersHaveTheirStream, Live, table
<1>3. TypedRest'
  BY <1>1 DEF TypedRest, table
<1>4. PICK h \in {"running", "parked", "woken", "ended", "returned"} :
          handler' = [handler EXCEPT ![id] = h] /\ handler[id] # "none"
  BY DEF Handler, Read, EndResponse, ReportSendEnd, Running
<1>5. /\ handler' \in [Ids -> {"none", "running", "parked", "woken", "ended", "returned"}]
      /\ handler'[id] = h /\ \A i \in Ids : i # id => handler'[i] = handler[i]
  BY <1>0, <1>4 DEF Typed
<1>6. /\ body' \in [Ids -> [chunks : Nat, ended : BOOLEAN, failed : BOOLEAN]]
      /\ \A i \in Ids : body'[i].failed = body[i].failed /\ body'[i].ended = body[i].ended
      /\ \A i \in Ids : i # id => body'[i] = body[i]
  <2>1. CASE body' = body
    BY <1>0, <2>1 DEF Typed
  <2>2. CASE body[id].chunks > 0 /\ body' = [body EXCEPT ![id].chunks = @ - 1]
    BY <1>0, <2>2 DEF Typed
  <2>3. QED
    BY <2>1, <2>2 DEF Handler, Read, EndResponse, ReportSendEnd
<1>7. sent' \subseteq Ids /\ answered' \subseteq Ids
  BY <1>0 DEF Typed, Handler, Read, EndResponse, ReportSendEnd
<1>8. Typed'
  BY <1>0, <1>1, <1>5, <1>6, <1>7 DEF Typed, table, requests
<1>9. ArrivingIsOpen'
  BY <1>0, <1>1, <1>4, <1>5 DEF Exchange, ArrivingIsOpen, Live, peerDone, table, requests, Typed
<1>10. Settled'
  BY <1>0, <1>1, <1>4, <1>5, <1>6 DEF Exchange, Settled, requests
<1>11. h = "parked" => body' = body /\ body[id] = EmptyBody /\ id \in arriving
  <2> SUFFICES ASSUME h = "parked" PROVE body' = body /\ body[id] = EmptyBody /\ id \in arriving
    OBVIOUS
  <2>1. handler'[id] = "parked"
    BY <1>5
  <2>2. body' = body /\ ~body[id].failed /\ ~(body[id].chunks > 0)
        /\ ~(body[id].chunks = 0 /\ body[id].ended)
    BY <1>0, <2>1 DEF Handler, Read, EndResponse, ReportSendEnd, Typed
  <2>3. body[id] \in [chunks : Nat, ended : BOOLEAN, failed : BOOLEAN]
    BY <1>0 DEF Typed
  <2>4. body[id].chunks = 0 /\ body[id].ended = FALSE /\ body[id].failed = FALSE
    BY <2>2, <2>3
  <2>5. body[id] = EmptyBody
    BY <2>3, <2>4 DEF EmptyBody
  <2>6. id \in arriving
    BY <1>0, <1>4, <2>4 DEF Exchange, Settled
  <2>7. QED
    BY <2>2, <2>5, <2>6
<1>12. NoStrandedHandler'
  BY <1>0, <1>1, <1>5, <1>6, <1>11 DEF Exchange, NoStrandedHandler, requests
<1>13. QED
  BY <1>2, <1>3, <1>8, <1>9, <1>10, <1>12 DEF Sound, Exchange

LEMMA NextKeeps == IInv /\ [Next]_vars => IInv'
<1> SUFFICES ASSUME Sound, TypedRest, [Next]_vars PROVE Sound' /\ TypedRest'
  BY DEF Sound, Typed, TypedRest, IInv, TypeOK, Core, TableHolds, Exchange
<1>1. CASE HandleFrame
  BY <1>1, HandleFrameKeeps
<1>2. ASSUME NEW id \in Ids, NEW endStream \in BOOLEAN, NEW endHeaders \in BOOLEAN, NEW length \in Lengths,
             NEW flaw \in FrameFlaws \cup {"none"}, Headers(id, endStream, endHeaders, length, flaw)
      PROVE  Sound' /\ TypedRest'
  BY <1>2, HeadersKeeps
<1>3. ASSUME NEW endHeaders \in BOOLEAN, NEW length \in Lengths, NEW flaw \in FrameFlaws \cup {"none"},
             Continuation(endHeaders, length, flaw)
      PROVE  Sound' /\ TypedRest'
  BY <1>3, ContinuationKeeps
<1>4. ASSUME NEW id \in Ids, NEW octets \in 0 .. 1, NEW endStream \in BOOLEAN, NEW verdict \in WindowVerdicts,
             Data(id, octets, endStream, verdict)
      PROVE  Sound' /\ TypedRest'
  BY <1>4, DataKeeps
<1>5. ASSUME NEW id \in Ids, RstStream(id) PROVE Sound' /\ TypedRest'
  BY <1>5, RstStreamKeeps
<1>6. ASSUME NEW id \in Ids, NEW overflow \in BOOLEAN, WindowUpdate(id, overflow) \/ Priority(id)
      PROVE  Sound' /\ TypedRest'
  BY <1>6, WindowUpdateKeeps
<1>7. CASE Dispatch
  BY <1>2, <1>3, <1>4, <1>5, <1>6, <1>7 DEF Dispatch
<1>8. CASE EndConnection \/ Refill
  BY <1>8, EndConnectionKeeps
<1>9. CASE Close
  BY <1>9, CloseKeeps
<1>10. ASSUME NEW id \in Ids, Prioritize(id) \/ Handler(id) PROVE Sound' /\ TypedRest'
  BY <1>10, PrioritizeKeeps, HandlerKeeps
<1>11. CASE UNCHANGED vars
  <2>1. Typed' /\ TypedRest'
    BY <1>11 DEF Sound, Typed, TypedRest, vars, table, requests, history
  <2>2. TableHolds' /\ Exchange'
    BY <1>11 DEF Sound, vars, TableHolds, Bounded, MapsInStep, Live, Exchange, ArrivingIsOpen, Settled,
                 NoStrandedHandler, peerDone, requests, table
  <2>3. Up' /\ Decoded' /\ Assembly'
    BY <1>11 DEF Sound, vars, Up, Decoded, Assembly, SlotKept, TrailersHaveTheirStream, Live, table, history
  <2>4. QED
    BY <2>1, <2>2, <2>3 DEF Sound
<1>12. QED
  BY <1>1, <1>7, <1>8, <1>9, <1>10, <1>11 DEF Next

\* The inductive invariant holds at every step of the connection.
THEOREM Inductive == Spec => []IInv
  BY InitHolds, NextKeeps, PTL DEF Spec

\* The table is typed, never holds more streams than it advertised, and its owners - the
\* Sender's windows, the writer's priorities, the arriving map - agree with it (table.go:837,
\* table.go:1158): for any Ids and any MaxConcurrent.
THEOREM TableIsSoundCorrect == Spec => []TableIsSound
<1>1. IInv => TableIsSound
  BY DEF IInv, Core, Bounded, TableIsSound, ConcurrencyBound, OwnersAgree
<1>2. QED
  BY <1>1, Inductive, PTL

\* A handler parked in Body.Read is one the reader can still release (exchange.go:395).
THEOREM NoStrandedHandlerCorrect == Spec => []NoStrandedHandler
<1>1. IInv => NoStrandedHandler
  BY DEF IInv, Core
<1>2. QED
  BY <1>1, Inductive, PTL

\* A block under assembly keeps its stream, and every block that completes is decoded
\* (table.go:274, table.go:945).
THEOREM BlocksAreHonouredCorrect == Spec => []BlocksAreHonoured
<1>1. IInv => BlocksAreHonoured
  BY DEF IInv, Assembly, Decoded, BlocksAreHonoured, EveryBlockDecoded
<1>2. QED
  BY <1>1, Inductive, PTL

\* A step that brings back none of the streams S that have gone.
StayGone(S) == \A id \in S : streams[id] = "none" => streams'[id] = "none"

LEMMA MoveBringsNoneBack ==
    ASSUME NEW S \in SUBSET Live, NEW next, Move(S, next)
    PROVE  StayGone(Ids)
  BY DEF Move, StayGone, Live

LEMMA extendBringsNoneBack ==
    ASSUME Typed, NEW b \in Block, NEW endHeaders, NEW length, NEW flaw, Promised(b),
           extend(b, endHeaders, length, flaw)
    PROVE  StayGone(Ids \ {b.id})
<1>1. CASE UNCHANGED streams
  BY <1>1 DEF StayGone
<1>2. CASE b.verdict = "ok" /\ b.trailers /\ Trailers(b.id, flaw)
  <2>1. {b.id} \in SUBSET Live /\ Move({b.id}, recvEnd)
    BY <1>2 DEF Block, Promised, Receiving, Live, Trailers
  <2> HIDE DEF Move
  <2>2. StayGone(Ids)
    BY <2>1, MoveBringsNoneBack
  <2>3. QED
    BY <2>2 DEF StayGone
<1>3. CASE Request(b.id, b.endStream, length, flaw)
  BY <1>3 DEF Request, StayGone, Typed, Block
<1>4. QED
  BY <1>1, <1>2, <1>3 DEF extend, completeBlock

\* Only a request enters the table, under an identifier above every one used or under the
\* one whose block is being assembled.
LEMMA StaysClosed ==
    IInv /\ [Next]_vars => \A id \in Ids : StateOf(id) = "closed" /\ id # assembling.id
                                           => StateOf(id)' = "closed"
<1> SUFFICES ASSUME IInv, [Next]_vars
             PROVE  \A id \in Ids : StateOf(id) = "closed" /\ id # assembling.id
                                    => StateOf(id)' = "closed"
  OBVIOUS
<1> SUFFICES /\ highestRemote' \in Nat /\ highestRemote <= highestRemote'
             /\ \A id \in Ids : streams[id] = "none" /\ id <= highestRemote /\ id # assembling.id
                                => streams'[id] = "none"
  <2>1. \A id \in Ids : streams[id] # "closed" /\ id \in Nat
    BY IdsAssumption DEF IInv, TypeOK, States, LiveStates
  <2>2. highestRemote \in Nat
    BY DEF IInv, TypeOK
  <2>3. QED
    BY <2>1, <2>2 DEF StateOf
<1>0. Sound /\ TypedRest /\ Typed /\ highestRemote \in Nat
  BY SoundIsIInv DEF Sound, TypedRest
<1>a. ASSUME StayGone(Ids), highestRemote' = highestRemote
      PROVE  /\ highestRemote' \in Nat /\ highestRemote <= highestRemote'
             /\ \A id \in Ids : streams[id] = "none" /\ id <= highestRemote /\ id # assembling.id
                                => streams'[id] = "none"
  BY <1>0, <1>a DEF StayGone
<1>b. ASSUME UNCHANGED <<streams, highestRemote>>
      PROVE  StayGone(Ids) /\ highestRemote' = highestRemote
  BY <1>b DEF StayGone
<1>1. CASE HandleFrame
  <2>1. sent \cap Live \in SUBSET Live /\ Move(sent \cap Live, SendEnd) /\ highestRemote' = highestRemote
    BY <1>1 DEF HandleFrame
  <2> HIDE DEF Move
  <2>2. QED
    BY <1>a, <2>1, MoveBringsNoneBack
<1>2. ASSUME NEW i \in Ids, NEW endStream \in BOOLEAN, NEW endHeaders \in BOOLEAN, NEW length \in Lengths,
             NEW flaw, Headers(i, endStream, endHeaders, length, flaw)
      PROVE  /\ highestRemote' \in Nat /\ highestRemote <= highestRemote'
             /\ \A id \in Ids : streams[id] = "none" /\ id <= highestRemote /\ id # assembling.id
                                => streams'[id] = "none"
  <2>1. CASE streams[i] # "none"
    <3> DEFINE b == [id |-> i, trailers |-> TRUE, endStream |-> endStream,
                     verdict |-> trailersVerdict(i, endStream)]
    <3>1. extend(b, endHeaders, length, flaw) /\ highestRemote' = highestRemote
      BY <1>2, <2>1 DEF Headers
    <3>2. b \in Block /\ Promised(b) /\ b.id = i
      BY <2>1 DEF Block, trailersVerdict, Verdicts, Promised, peerDone, Receiving
    <3> HIDE DEF b
    <3>3. StayGone(Ids)
      BY <1>0, <2>1, <3>1, <3>2, extendBringsNoneBack DEF StayGone
    <3>4. QED
      BY <1>a, <3>1, <3>3
  <2>2. CASE streams[i] = "none" /\ ~Unused(i)
    BY <1>2, <1>a, <1>b, <2>2 DEF Headers, table
  <2>3. CASE streams[i] = "none" /\ Unused(i)
    <3> DEFINE b == [id |-> i, trailers |-> FALSE, endStream |-> endStream, verdict |-> admit(i, flaw)]
    <3>1. extend(b, endHeaders, length, flaw) /\ highestRemote' = i /\ i > highestRemote /\ i \in Nat
      BY <1>2, <2>3, IdsAssumption DEF Headers, Unused
    <3>2. Cardinality(Live) \in Nat
      BY <1>0, FS_CardinalityType DEF Sound, TableHolds, Bounded
    <3>3. b \in Block /\ b.id = i
      BY DEF Block, admit, Verdicts
    <3>4. b.verdict = "ok" => Cardinality(Live) < MaxConcurrent
      BY <3>2, BoundsAssumption DEF admit
    <3>5. Promised(b)
      BY <2>3, <3>3, <3>4 DEF Promised
    <3> HIDE DEF b
    <3>6. StayGone(Ids \ {i})
      BY <1>0, <3>1, <3>3, <3>5, extendBringsNoneBack
    <3>7. QED
      BY <1>0, <3>1, <3>6 DEF StayGone
  <2>4. QED
    BY <2>1, <2>2, <2>3
<1>3. ASSUME NEW endHeaders \in BOOLEAN, NEW length \in Lengths, NEW flaw,
             Continuation(endHeaders, length, flaw)
      PROVE  /\ highestRemote' \in Nat /\ highestRemote <= highestRemote'
             /\ \A id \in Ids : streams[id] = "none" /\ id <= highestRemote /\ id # assembling.id
                                => streams'[id] = "none"
  <2>1. assembling \in Block /\ extend(assembling, endHeaders, length, flaw) /\ highestRemote' = highestRemote
    BY <1>0, <1>3 DEF Continuation, Typed, Block
  <2>2. Promised(assembling)
    BY <1>0, <1>3, PromisedIsAssembly DEF Continuation, Sound
  <2>3. StayGone(Ids \ {assembling.id})
    BY <1>0, <2>1, <2>2, extendBringsNoneBack
  <2>4. QED
    BY <1>0, <2>1, <2>3 DEF StayGone
<1>4. ASSUME NEW i \in Ids, NEW octets \in 0 .. 1, NEW endStream \in BOOLEAN, NEW verdict \in WindowVerdicts,
             Data(i, octets, endStream, verdict)
      PROVE  StayGone(Ids) /\ highestRemote' = highestRemote
  <2>1. CASE UNCHANGED streams
    BY <1>4, <1>b, <2>1 DEF Data
  <2>2. CASE StateOf(i) \notin {"closed", "idle"} /\ Move({i}, recvEnd)
    <3>1. {i} \in SUBSET Live
      BY <2>2 DEF StateOf, Live
    <3>2. highestRemote' = highestRemote
      BY <1>4 DEF Data
    <3> HIDE DEF Move
    <3>3. QED
      BY <2>2, <3>1, <3>2, MoveBringsNoneBack
  <2>3. QED
    BY <1>4, <2>1, <2>2 DEF Data
<1>5. ASSUME NEW i \in Ids, RstStream(i)
      PROVE  StayGone(Ids) /\ highestRemote' = highestRemote
  <2>1. CASE UNCHANGED streams
    BY <1>5, <1>b, <2>1 DEF RstStream
  <2>2. CASE streams[i] # "none" /\ Move({i}, Closed)
    <3>1. {i} \in SUBSET Live
      BY <2>2 DEF Live
    <3>2. highestRemote' = highestRemote
      BY <1>5 DEF RstStream
    <3> HIDE DEF Move
    <3>3. QED
      BY <2>2, <3>1, <3>2, MoveBringsNoneBack
  <2>3. QED
    BY <1>5, <2>1, <2>2 DEF RstStream
<1>6. ASSUME NEW i \in Ids, NEW overflow, WindowUpdate(i, overflow) \/ Priority(i) \/ Prioritize(i) \/ Handler(i)
      PROVE  UNCHANGED <<streams, highestRemote>>
  BY <1>6 DEF WindowUpdate, Priority, Leaves, Prioritize, Handler, Read, EndResponse, ReportSendEnd,
              HandlerUnchanged, table
<1>7. CASE EndConnection \/ Refill \/ Close \/ UNCHANGED vars
  <2>1. UNCHANGED <<streams, highestRemote>>
    BY <1>7 DEF EndConnection, Refill, Close, vars, table
  <2>2. QED
    BY <1>a, <1>b, <2>1
<1>8. CASE Dispatch
  <2>1. CASE \E i \in Ids, endStream, endHeaders \in BOOLEAN, length \in Lengths,
                flaw \in FrameFlaws \cup {"none"} : Headers(i, endStream, endHeaders, length, flaw)
    BY <1>2, <2>1
  <2>2. CASE \E endHeaders \in BOOLEAN, length \in Lengths, flaw \in FrameFlaws \cup {"none"} :
                Continuation(endHeaders, length, flaw)
    BY <1>3, <2>2
  <2>3. CASE \E i \in Ids, octets \in 0 .. 1, endStream \in BOOLEAN, verdict \in WindowVerdicts :
                Data(i, octets, endStream, verdict)
    BY <1>4, <1>a, <2>3
  <2>4. CASE \E i \in Ids : RstStream(i)
    BY <1>5, <1>a, <2>4
  <2>5. CASE \E i \in Ids : Priority(i) \/ \E overflow \in BOOLEAN : WindowUpdate(i, overflow)
    BY <1>6, <1>a, <1>b, <2>5
  <2>6. QED
    BY <1>8, <2>1, <2>2, <2>3, <2>4, <2>5 DEF Dispatch
<1>9. ASSUME NEW i \in Ids, Prioritize(i) \/ Handler(i)
      PROVE  StayGone(Ids) /\ highestRemote' = highestRemote
  BY <1>6, <1>b, <1>9
<1>10. CASE \E i \in Ids : Prioritize(i) \/ Handler(i)
  BY <1>9, <1>a, <1>10
<1>11. QED
  BY <1>1, <1>7, <1>8, <1>10 DEF Next

\* No step brings a closed stream back (RFC 9113 5.1.1, openStream at table.go:803).
THEOREM ClosedForGoodCorrect == Spec => ClosedForGood
<1>1. IInv /\ [Next]_vars => [\A id \in Ids : StateOf(id) = "closed" /\ id # assembling.id
                                              => StateOf(id)' = "closed"]_vars
  BY StaysClosed
<1>2. QED
  BY <1>1, Inductive, PTL DEF Spec, ClosedForGood

-----------------------------------------------------------------------------
\* A bucket by itself.
VARIABLES
    bucket,
    made,      \* when it was made
    latest,    \* the latest time at which it was asked
    allowed    \* calls that it allowed

limitVars == <<bucket, made, latest, allowed>>

\* A bucket of any burst and rate.
LimitInit ==
    \E burst, rate, now \in Int :
        /\ bucket = NewBucket(burst, rate, now)
        /\ made = now /\ latest = now
        /\ allowed = 0

\* It is asked at any time, before the latest one too.
LimitAllow ==
    \E now \in Int :
        LET a == AllowAt(bucket, now) IN
        /\ bucket' = a.bucket
        /\ allowed' = IF a.ok THEN allowed + 1 ELSE allowed
        /\ latest' = IF now > latest THEN now ELSE latest
        /\ UNCHANGED made

LimitSpec == LimitInit /\ [][LimitAllow]_limitVars

\* A burst and then a rate: a call for every whole interval, and the burst.
Rate == (allowed - bucket.burst) * bucket.interval <= latest - made

-----------------------------------------------------------------------------
\* What NewBucket makes and every call keeps: see BucketIsKept.
SoundBucket(b) ==
    /\ b \in [burst : Nat \ {0}, tokens : Nat, last : Int, interval : Nat \ {0}]
    /\ b.tokens <= b.burst

\* The time a bucket has: its tokens in time, and what has not earned one yet.
Level(b, now) == b.tokens * b.interval + (now - b.last)

\* Division by an interval: the whole intervals in some time.
LEMMA WholeIntervals ==
    ASSUME NEW d \in Int, NEW n \in Nat \ {0}
    PROVE  /\ d \div n \in Int
           /\ (d \div n) * n <= d
           /\ d < (d \div n) * n + n
  BY Z3

\* Steps of one interval keep the order.
LEMMA Monotone ==
    ASSUME NEW a \in Int, NEW b \in Int, NEW n \in Nat \ {0}
    PROVE  /\ a * n \in Int /\ (a <= b => a * n <= b * n)
           /\ (a + b) * n = a * n + b * n
  BY Z3

\* NewBucket returns a sound bucket whatever it is asked for, rates that are too fast for
\* the unit and ones that are no rate included (bucket.go:55).
THEOREM NewBucketIsSound ==
    ASSUME NEW burst \in Int, NEW rate \in Int, NEW now \in Int
    PROVE  SoundBucket(NewBucket(burst, rate, now))
<1>1. AtLeastOne(burst) \in Nat \ {0} /\ AtLeastOne(rate) \in Nat \ {0}
  BY DEF AtLeastOne
<1>2. Second \div AtLeastOne(rate) \in Int
  BY <1>1, BucketAssumption, WholeIntervals
<1>3. AtLeastOne(Second \div AtLeastOne(rate)) \in Nat \ {0}
  BY <1>2 DEF AtLeastOne
<1> QED BY <1>1, <1>3 DEF NewBucket, SoundBucket

\* A refill keeps the bucket sound and makes no time: at any time from its own on the
\* bucket has no more than it had, and all of it unless it was full (bucket.go:118).
LEMMA RefillMakesNoTime ==
    ASSUME NEW b, SoundBucket(b), NEW now \in Int, NEW t \in Int, now <= t, b.last <= t
    PROVE  LET r == refill(b, now) IN
           /\ SoundBucket(r) /\ r.interval = b.interval /\ r.burst = b.burst
           /\ r.last <= t
           /\ Level(r, t) <= Level(b, t)
           /\ Level(b, now) < b.burst * b.interval => Level(r, t) = Level(b, t)
<1> DEFINE d == Sub(now, b.last)
           earned == d \div b.interval
           r == refill(b, now)
<1>1. /\ b.burst \in Nat \ {0} /\ b.tokens \in Nat /\ b.last \in Int /\ b.interval \in Nat \ {0}
      /\ b.tokens <= b.burst
      /\ b = [burst |-> b.burst, tokens |-> b.tokens, last |-> b.last, interval |-> b.interval]
  BY DEF SoundBucket
<1>2. d \in Int /\ d <= now - b.last
  BY <1>1, BucketAssumption DEF Sub
<1>3. earned \in Int /\ earned * b.interval <= d
  BY <1>1, <1>2, WholeIntervals
<1> HIDE DEF d
<1>4. CASE earned <= 0
  <2>1. r = b
    BY <1>4 DEF refill, d
  <2>2. Level(b, t) \in Int
    BY <1>1, Monotone DEF Level
  <2> QED BY <2>1, <2>2, <1>1
<1>5. CASE earned > 0 /\ earned >= b.burst - b.tokens
  <2>1. r = Filled(b, now)
    BY <1>5, <1>1, <1>3 DEF refill, d
  <2>2. r = [burst |-> b.burst, tokens |-> b.burst, last |-> now, interval |-> b.interval]
    BY <2>1, <1>1 DEF Filled
  <2>3. (b.burst - b.tokens) * b.interval <= earned * b.interval
    BY <1>1, <1>3, <1>5, Monotone
  <2>4. b.burst * b.interval = (b.burst - b.tokens) * b.interval + b.tokens * b.interval
    BY <1>1, Z3
  <2>5. b.burst * b.interval \in Int /\ b.tokens * b.interval \in Int
        /\ (b.burst - b.tokens) * b.interval \in Int /\ earned * b.interval \in Int
    BY <1>1, <1>3, Monotone
  <2>6. b.burst * b.interval <= b.tokens * b.interval + (now - b.last)
    BY <1>1, <1>2, <1>3, <2>3, <2>4, <2>5
  <2>7. SoundBucket(r)
    BY <2>2, <1>1 DEF SoundBucket
  <2> HIDE DEF r
  <2>8. Level(r, t) = b.burst * b.interval + (t - now)
    BY <2>2 DEF Level
  <2> QED BY <1>1, <2>2, <2>5, <2>6, <2>7, <2>8 DEF r, Level
<1>6. CASE earned > 0 /\ earned < b.burst - b.tokens
  <2>1. r = Credited(b, earned)
    BY <1>6, <1>1, <1>3 DEF refill, d
  <2>2. r = [burst |-> b.burst, tokens |-> b.tokens + earned,
             last |-> b.last + earned * b.interval, interval |-> b.interval]
    BY <2>1, <1>1 DEF Credited
  <2>3. /\ earned * b.interval \in Int /\ b.tokens * b.interval \in Int
        /\ (b.tokens + earned) * b.interval = b.tokens * b.interval + earned * b.interval
    BY <1>1, <1>3, Monotone
  <2>4. SoundBucket(r)
    BY <2>2, <1>1, <1>3, <1>6, <2>3 DEF SoundBucket
  <2> HIDE DEF r
  <2>5. Level(r, t) = Level(b, t)
    BY <2>2, <2>3, <1>1 DEF Level
  <2>6. r.last <= t
    BY <2>2, <2>3, <1>1, <1>2, <1>3
  <2>7. Level(b, t) \in Int
    BY <1>1, <2>3 DEF Level
  <2> QED BY <2>2, <2>4, <2>5, <2>6, <2>7 DEF r
<1> QED BY <1>1, <1>3, <1>4, <1>5, <1>6

\* A call allows exactly when the bucket has an interval's worth of time, and pays it: to a
\* caller whose clock runs forward (bucket.go:89).
THEOREM AllowIsExact ==
    ASSUME NEW b, SoundBucket(b), NEW now \in Int, b.last <= now, now - b.last <= MaxDuration
    PROVE  AllowAt(b, now).ok <=> Level(b, now) >= b.interval
<1>1. /\ b.burst \in Nat \ {0} /\ b.tokens \in Nat /\ b.last \in Int /\ b.interval \in Nat \ {0}
      /\ b.tokens <= b.burst
  BY DEF SoundBucket
<1> DEFINE d == now - b.last
           earned == d \div b.interval
<1>2. d \in Int /\ Sub(now, b.last) = d
  BY <1>1, BucketAssumption DEF Sub
<1>3. earned \in Int /\ earned * b.interval <= d /\ d < earned * b.interval + b.interval
  BY <1>1, <1>2, WholeIntervals
<1>4. b.tokens * b.interval \in Int /\ (b.tokens >= 1 => b.tokens * b.interval >= b.interval)
      /\ (b.tokens = 0 => b.tokens * b.interval = 0)
  BY <1>1, Z3
<1>5. earned >= 1 <=> d >= b.interval
  <2>1. earned <= 0 => earned * b.interval <= 0
    BY <1>1, <1>3, Z3
  <2>2. earned >= 1 => earned * b.interval >= b.interval
    BY <1>1, <1>3, Z3
  <2> QED BY <1>1, <1>3, <2>1, <2>2, Monotone
<1>6. Level(b, now) >= b.interval <=> b.tokens >= 1 \/ earned >= 1
  BY <1>1, <1>4, <1>5 DEF Level
<1>7. refill(b, now).tokens > 0 <=> b.tokens >= 1 \/ earned >= 1
  <2> HIDE DEF d
  <2>1. CASE earned <= 0
    <3>1. refill(b, now) = b
      BY <2>1, <1>2 DEF refill
    <3> QED BY <2>1, <3>1, <1>1, <1>3
  <2>2. CASE earned > 0 /\ earned >= b.burst - b.tokens
    <3>1. refill(b, now) = Filled(b, now)
      BY <2>2, <1>1, <1>2, <1>3 DEF refill
    <3>2. Filled(b, now).tokens = b.burst
      BY <1>1 DEF Filled, SoundBucket
    <3> QED BY <2>2, <3>1, <3>2, <1>1, <1>3
  <2>3. CASE earned > 0 /\ earned < b.burst - b.tokens
    <3>1. refill(b, now) = Credited(b, earned)
      BY <2>3, <1>1, <1>2, <1>3 DEF refill
    <3>2. Credited(b, earned).tokens = b.tokens + earned
      BY <1>1 DEF Credited, SoundBucket
    <3> QED BY <2>3, <3>1, <3>2, <1>1, <1>3
  <2> QED BY <2>1, <2>2, <2>3, <1>1, <1>3
<1> QED BY <1>6, <1>7 DEF AllowAt

-----------------------------------------------------------------------------
\* A call keeps the bucket sound and pays for what it allows with an interval.
LEMMA AllowPays ==
    ASSUME NEW b, SoundBucket(b), NEW now \in Int, NEW t \in Int, now <= t, b.last <= t
    PROVE  LET a == AllowAt(b, now) IN
           /\ SoundBucket(a.bucket) /\ a.bucket.interval = b.interval /\ a.bucket.burst = b.burst
           /\ a.bucket.last <= t
           /\ Level(a.bucket, t) + (IF a.ok THEN b.interval ELSE 0) <= Level(b, t)
<1> DEFINE r == refill(b, now)
           a == AllowAt(b, now)
<1>1. /\ SoundBucket(r) /\ r.interval = b.interval /\ r.burst = b.burst /\ r.last <= t
      /\ Level(r, t) <= Level(b, t)
  BY RefillMakesNoTime
<1>2. a = [ok |-> r.tokens > 0,
           bucket |-> IF r.tokens > 0 THEN [r EXCEPT !.tokens = @ - 1] ELSE r]
  BY DEF AllowAt
<1> HIDE DEF a, r
<1>3. /\ r.burst \in Nat \ {0} /\ r.tokens \in Nat /\ r.last \in Int /\ r.interval \in Nat \ {0}
      /\ r.tokens <= r.burst
      /\ r = [burst |-> r.burst, tokens |-> r.tokens, last |-> r.last, interval |-> r.interval]
  BY <1>1 DEF SoundBucket
<1>4. Level(b, t) \in Int /\ Level(r, t) \in Int
  <2>1. b.tokens \in Int /\ b.last \in Int /\ b.interval \in Nat \ {0}
    BY DEF SoundBucket
  <2>2. b.tokens * b.interval \in Int /\ r.tokens * r.interval \in Int
    BY <1>3, <2>1, Z3
  <2> QED BY <1>3, <2>1, <2>2 DEF Level
<1>5. /\ SoundBucket(a.bucket) /\ a.bucket.interval = b.interval /\ a.bucket.burst = b.burst
      /\ a.bucket.last <= t
      /\ Level(a.bucket, t) + (IF a.ok THEN b.interval ELSE 0) <= Level(b, t)
  <2>1. CASE r.tokens > 0
    <3>1. a.bucket = [burst |-> r.burst, tokens |-> r.tokens - 1, last |-> r.last,
                       interval |-> r.interval]
      BY <1>2, <1>3, <2>1
    <3>2. (r.tokens - 1) * r.interval + r.interval = r.tokens * r.interval
          /\ (r.tokens - 1) * r.interval \in Int /\ r.tokens * r.interval \in Int
      BY <1>3, Z3
    <3>3. Level(a.bucket, t) + r.interval = Level(r, t) /\ Level(a.bucket, t) \in Int
      BY <1>3, <3>1, <3>2 DEF Level
    <3>4. SoundBucket(a.bucket)
      BY <1>3, <2>1, <3>1 DEF SoundBucket
    <3> QED BY <1>1, <1>3, <1>4, <3>1, <3>3, <3>4, Z3
  <2>2. CASE ~(r.tokens > 0)
    <3>1. a.bucket = r
      BY <1>2, <2>2
    <3>2. a.ok = (r.tokens > 0)
      BY <1>2
    <3>3. ~a.ok
      BY <2>2, <3>2
    <3> QED BY <1>1, <1>3, <1>4, <3>1, <3>3
  <2> QED BY <2>1, <2>2
<1> QED BY <1>5 DEF a

\* What the bucket has and what it paid out is no more than it was made with and the time
\* since.
Paid == allowed * bucket.interval + Level(bucket, latest)
            <= bucket.burst * bucket.interval + (latest - made)

LimitIInv ==
    /\ SoundBucket(bucket) /\ made \in Int /\ latest \in Int /\ allowed \in Nat
    /\ bucket.last <= latest
    /\ Paid

LEMMA LimitInitHolds == LimitInit => LimitIInv
<1> SUFFICES ASSUME LimitInit PROVE LimitIInv
  OBVIOUS
<1>1. PICK burst, rate, now \in Int :
        /\ bucket = NewBucket(burst, rate, now)
        /\ made = now /\ latest = now /\ allowed = 0
  BY DEF LimitInit
<1>2. SoundBucket(bucket) /\ bucket.last = now /\ bucket.tokens = bucket.burst
  BY <1>1, NewBucketIsSound DEF NewBucket
<1>3. bucket.burst * bucket.interval \in Int /\ 0 * bucket.interval = 0
  BY <1>2, Monotone, Z3 DEF SoundBucket
<1>4. Paid
  BY <1>1, <1>2, <1>3 DEF Paid, Level, SoundBucket
<1> QED BY <1>1, <1>2, <1>4 DEF LimitIInv

LEMMA LimitKeeps == LimitIInv /\ LimitAllow => LimitIInv'
<1> SUFFICES ASSUME LimitIInv, LimitAllow PROVE LimitIInv'
  OBVIOUS
<1>1. PICK now \in Int :
        /\ bucket' = AllowAt(bucket, now).bucket
        /\ allowed' = IF AllowAt(bucket, now).ok THEN allowed + 1 ELSE allowed
        /\ latest' = IF now > latest THEN now ELSE latest
        /\ made' = made
  BY DEF LimitAllow
<1>2. /\ SoundBucket(bucket) /\ made \in Int /\ latest \in Int /\ allowed \in Nat
      /\ bucket.last <= latest /\ Paid
  BY DEF LimitIInv
<1>3. /\ bucket.burst \in Nat \ {0} /\ bucket.tokens \in Nat /\ bucket.last \in Int
      /\ bucket.interval \in Nat \ {0}
  BY <1>2 DEF SoundBucket
<1>4. latest' \in Int /\ now <= latest' /\ latest <= latest' /\ bucket.last <= latest'
  BY <1>1, <1>2, <1>3
<1>5. /\ SoundBucket(bucket') /\ bucket'.interval = bucket.interval /\ bucket'.burst = bucket.burst
      /\ bucket'.last <= latest'
      /\ Level(bucket', latest') + (IF AllowAt(bucket, now).ok THEN bucket.interval ELSE 0)
            <= Level(bucket, latest')
  BY <1>1, <1>2, <1>4, AllowPays
<1>6. allowed' \in Nat
      /\ allowed' * bucket.interval
            = allowed * bucket.interval + (IF AllowAt(bucket, now).ok THEN bucket.interval ELSE 0)
  <2>1. (allowed + 1) * bucket.interval = allowed * bucket.interval + bucket.interval
        /\ allowed * bucket.interval \in Int
    BY <1>2, <1>3, Z3
  <2> QED BY <1>1, <1>2, <1>3, <1>5, <2>1
<1>7. Level(bucket, latest') = Level(bucket, latest) + (latest' - latest)
      /\ Level(bucket, latest) \in Int
  BY <1>2, <1>3, <1>4, Monotone DEF Level
<1>8. Level(bucket', latest') \in Int
  BY <1>4, <1>5, Monotone DEF Level, SoundBucket
<1>9. bucket.burst * bucket.interval \in Int /\ allowed * bucket.interval \in Int
  BY <1>2, <1>3, Monotone
<1>10. allowed' * bucket'.interval + Level(bucket', latest')
         <= bucket'.burst * bucket'.interval + (latest' - made')
  <2>1. allowed * bucket.interval + Level(bucket, latest)
          <= bucket.burst * bucket.interval + (latest - made)
    BY <1>2 DEF Paid
  <2> DEFINE price == IF AllowAt(bucket, now).ok THEN bucket.interval ELSE 0
  <2>2. price \in Int
    BY <1>3, <1>5
  <2> HIDE DEF price
  <2>3. Level(bucket', latest') + price <= Level(bucket, latest) + (latest' - latest)
    BY <1>5, <1>7 DEF price
  <2>4. allowed' * bucket.interval = allowed * bucket.interval + price
    BY <1>6 DEF price
  <2>5. allowed * bucket.interval + price + Level(bucket', latest')
          <= bucket.burst * bucket.interval + (latest' - made)
    BY <2>1, <2>2, <2>3, <1>2, <1>4, <1>7, <1>8, <1>9
  <2> QED BY <2>4, <2>5, <1>1, <1>5
<1> QED BY <1>1, <1>2, <1>4, <1>5, <1>6, <1>10 DEF LimitIInv, Paid

\* The bucket allows its burst and then its rate: however often it is asked and whatever its
\* clock does, no more calls in all than the burst and one for every whole interval since it
\* was made (bucket.go:5; the run checks it as the first part of RateIsHeld).
THEOREM RateCorrect == LimitSpec => []Rate
<1>1. LimitIInv => Rate
  <2> SUFFICES ASSUME LimitIInv PROVE Rate
    OBVIOUS
  <2>1. /\ bucket.burst \in Nat \ {0} /\ bucket.tokens \in Nat /\ bucket.last \in Int
        /\ bucket.interval \in Nat \ {0} /\ allowed \in Nat /\ latest \in Int /\ made \in Int
        /\ bucket.last <= latest /\ Paid
    BY DEF LimitIInv, SoundBucket
  <2>2. /\ bucket.tokens * bucket.interval \in Nat
        /\ bucket.burst * bucket.interval \in Int /\ allowed * bucket.interval \in Int
        /\ (allowed - bucket.burst) * bucket.interval
              = allowed * bucket.interval - bucket.burst * bucket.interval
    BY <2>1, Z3
  <2>3. Level(bucket, latest) >= 0 /\ Level(bucket, latest) \in Int
    BY <2>1, <2>2 DEF Level
  <2> QED BY <2>1, <2>2, <2>3 DEF Paid, Rate
<1>2. LimitIInv /\ [LimitAllow]_limitVars => LimitIInv'
  <2>1. LimitIInv /\ UNCHANGED limitVars => LimitIInv'
    BY DEF LimitIInv, Paid, Level, SoundBucket, limitVars
  <2> QED BY <2>1, LimitKeeps
<1> QED BY <1>1, <1>2, LimitInitHolds, PTL DEF LimitSpec
=============================================================================
