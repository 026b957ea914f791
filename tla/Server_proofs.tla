--------------------------- MODULE Server_proofs ---------------------------
(***************************************************************************)
(* Proofs about the accept layer (Server), for any sets of listeners and   *)
(* connections, finite or not, and any bound on the connections; and, in   *)
(* the second half, about the file handler the server serves (Static), for *)
(* any sets of clients and file names, any sizes and any length of the     *)
(* window.  The two specifications share no variable.                      *)
(*                                                                         *)
(* The accept layer.  The invariants of the runs lean on each other and on *)
(* more: the slots are exact because a connection is in one pair of hands  *)
(* (Hands); a count that has been seen at zero stays there because a wait  *)
(* begins only once the server is closed, after which nothing is counted   *)
(* (Stopped); a nil is true because the count is read and the cut is       *)
(* announced in that order (Cuts).  IInv takes them together.              *)
(*                                                                         *)
(* The file handler.  What a cached tag says is true because of a chain of *)
(* facts about one request, which StaticIInv takes together: the handle's  *)
(* stat is at most MaxPause old when the cache is asked (StatOf); a version*)
(* is only looked for when it is at least Window old by then, so that      *)
(* whatever has been written since the stat has a later stamp and another  *)
(* version (Fresh, LookupOf); and the octets hashed are those of one       *)
(* content for as long as that content is in place (TagSoFar).             *)
(*                                                                         *)
(* What a client is told is true because of what is cached and of its own  *)
(* copy: TruthIInv follows each request from its handle to its answer      *)
(* (Told), and adds to StaticIInv that requests with the same name and the *)
(* same version hold one content (Alike), that an entry that such a        *)
(* request would take is the tag of that content (EntriesFit), and that a  *)
(* whole copy is what its tag says (Copies).  The spans of an answer and   *)
(* the octets they name come from folds over sequences of any length,      *)
(* reasoned about by induction over the naturals (Induct).                 *)
(***************************************************************************)
EXTENDS Server, Static, FiniteSetTheorems, SequenceTheorems, WellFoundedInduction, TLAPS

\* The accept loops that hold a slot and no connection yet.
Accepting == {l \in Listeners : loop[l] = "accept"}
\* The connections that hold a slot.
Busy == {c \in Conns : conn[c] \notin {"none", "released"}}

\* The type of every variable.
Types ==
    /\ loop \in [Listeners -> {"serve", "acquire", "select", "accept", "pause", "track", "leave", "ended"}]
    /\ hand \in [Listeners -> Conns \cup {NoConn}]
    /\ conn \in [Conns -> {"none", "accepted", "tracked", "untracked", "served", "deleted", "done", "released"}]
    /\ slots \in Int /\ connWG \in Int
    /\ quit \in BOOLEAN /\ closed \in BOOLEAN /\ zeroSeen \in BOOLEAN
    /\ open \subseteq Listeners /\ listeners \subseteq Listeners
    /\ at \in [Stoppers -> {"idle", "stop", "closeListeners", "liveConns", "shutdownConns", "await",
                            "liveConns2", "closeConns", "await2", "returned"}]
    /\ todo \in [Stoppers -> SUBSET (Conns \cup Listeners)]
    /\ forced \in [Stoppers -> Nat]
    /\ result \in [Stoppers -> {"none", "nil", "midFlight", "stuck"}]

\* A connection in an accept loop's hands is in no other's, and has not started.
Hands ==
    /\ \A l \in Listeners : loop[l] = "track" <=> hand[l] # NoConn
    /\ \A l \in Listeners : hand[l] # NoConn => conn[hand[l]] = "accepted"
    /\ \A l, m \in Listeners : hand[l] = hand[m] /\ hand[l] # NoConn => l = m

\* The set under mu holds the connections between track and finish's first half.
SetIsExact == conns = {c \in Conns : conn[c] \in {"tracked", "served"}}

\* Only finitely much happens in finitely many steps: nothing is assumed of how many
\* connections there may be.
Finite == IsFiniteSet(Accepting) /\ IsFiniteSet(Busy)

\* The count is of the connections between track and finish's second half.
Counted == connWG = Cardinality(Tracked)

\* A stop that is past its critical section has closed the server.
Stopped ==
    /\ \A p \in Stoppers : at[p] \notin {"idle", "stop"} => closed
    /\ \A p \in Stoppers : at[p] # "idle" => quit
    /\ closed => quit
    /\ zeroSeen => closed
    /\ zeroSeen => connWG = 0

\* Whom the copy of the set misses was asked when it was served.
Reached ==
    /\ \A c \in Conns : conn[c] = "untracked" => c \in asked
    /\ at["Shutdown"] = "shutdownConns" =>
         \A c \in Conns : Serving(c) => c \in asked \cup todo["Shutdown"]

\* What Shutdown cuts it counts first, and it does not call it nil.
Cuts ==
    /\ \A p \in Stoppers : result[p] # "none" => at[p] = "returned"
    /\ \A p \in Stoppers : at[p] = "closeConns" /\ todo[p] # {} => forced[p] > 0
    /\ result["Shutdown"] = "nil" => zeroSeen
    /\ at["Close"] = "idle" /\ cutShort # {} =>
         /\ at["Shutdown"] \in {"closeConns", "await2", "returned"}
         /\ forced["Shutdown"] > 0
         /\ result["Shutdown"] # "nil"

\* The inductive invariant.
IInv ==
    /\ Types /\ Hands /\ SetIsExact
    /\ Finite /\ Counted /\ SlotsAreExact
    /\ NoListenerLeaks
    /\ Stopped
    /\ Reached /\ NobodyIsOverlooked
    /\ Cuts

USE ServerAssumption

\* A new server satisfies the invariant.
LEMMA InitIInv == Init => IInv
<1> SUFFICES ASSUME Init PROVE IInv
  OBVIOUS
<1>1. Types
  <2>1. /\ loop \in [Listeners -> {"serve"}] /\ hand \in [Listeners -> {NoConn}]
        /\ conn \in [Conns -> {"none"}]
    BY DEF Init
  <2>2. /\ at \in [Stoppers -> {"idle"}] /\ todo \in [Stoppers -> {{}}]
        /\ forced \in [Stoppers -> {0}] /\ result \in [Stoppers -> {"none"}]
    BY DEF Init
  <2>3. todo \in [Stoppers -> SUBSET (Conns \cup Listeners)]
    BY <2>2
  <2>4. quit \in BOOLEAN /\ closed \in BOOLEAN /\ zeroSeen \in BOOLEAN
    BY DEF Init
  <2>5. slots \in Int /\ connWG \in Int /\ open \subseteq Listeners /\ listeners \subseteq Listeners
    BY DEF Init
  <2>6. QED
    BY <2>1, <2>2, <2>3, <2>4, <2>5 DEF Types
<1>2. Hands /\ SetIsExact /\ NoListenerLeaks /\ Stopped /\ Reached /\ NobodyIsOverlooked /\ Cuts
  BY DEF Init, Hands, SetIsExact, NoListenerLeaks, Stopped, Reached, NobodyIsOverlooked, Cuts, Stoppers,
         Serving, NoConn
<1>3. Accepting = {} /\ Busy = {} /\ Tracked = {}
  BY DEF Init, Accepting, Busy, Tracked
<1>4. Finite /\ Counted /\ SlotsAreExact
  BY <1>3, FS_EmptySet DEF Init, Finite, Counted, SlotsAreExact, Accepting, Busy
<1>5. QED
  BY <1>1, <1>2, <1>4 DEF IInv

-----------------------------------------------------------------------------
\* Every step keeps the types.
LEMMA TypesStep == IInv /\ [Next]_vars => Types'
<1> SUFFICES ASSUME IInv, [Next]_vars PROVE Types'
  OBVIOUS
<1> USE DEF Types, GoTo, Moves, Returns, accepting, stopping
<1>0. Types
  BY DEF IInv
<1>1. ASSUME NEW l \in Listeners, addListener(l) PROVE Types'
  BY <1>0, <1>1 DEF addListener
<1>2. ASSUME NEW l \in Listeners, acquire(l) PROVE Types'
  BY <1>0, <1>2 DEF acquire
<1>3. ASSUME NEW l \in Listeners, AcceptFails(l) PROVE Types'
  BY <1>0, <1>3 DEF AcceptFails
<1>4. ASSUME NEW l \in Listeners, pause(l) PROVE Types'
  BY <1>0, <1>4 DEF pause
<1>5. ASSUME NEW l \in Listeners, serveConn(l) PROVE Types'
  <2>1. hand[l] \in Conns
    BY <1>0, <1>5 DEF IInv, Hands, serveConn
  <2>2. QED
    BY <1>0, <1>5, <2>1 DEF serveConn
<1>6. ASSUME NEW l \in Listeners, removeListener(l) PROVE Types'
  BY <1>0, <1>6 DEF removeListener
<1>7. ASSUME NEW l \in Listeners, NEW c \in Conns, Accept(l, c) PROVE Types'
  BY <1>0, <1>7 DEF Accept
<1>8. ASSUME NEW c \in Conns, Ends(c) PROVE Types'
  BY <1>0, <1>8 DEF Ends
<1>9. ASSUME NEW c \in Conns, finish(c) PROVE Types'
  BY <1>0, <1>9 DEF finish
<1>10. ASSUME NEW c \in Conns, release(c) PROVE Types'
  BY <1>0, <1>10 DEF release
<1>11. ASSUME NEW p \in Stoppers, stop(p) PROVE Types'
  BY <1>0, <1>11 DEF stop
<1>12. ASSUME NEW p \in Stoppers, closeListeners(p) PROVE Types'
  BY <1>0, <1>12 DEF closeListeners
<1>13. ASSUME NEW p \in Stoppers, liveConns(p) PROVE Types'
  <2>1. conns \subseteq Conns /\ Cardinality(conns) \in Nat
    <3>1. conns \in SUBSET Busy
      BY DEF IInv, SetIsExact, Busy
    <3>2. QED
      BY <3>1, FS_Subset, FS_CardinalityType DEF IInv, Finite, Busy
  <2>2. QED
    BY <1>0, <1>13, <2>1 DEF liveConns
<1>14. ASSUME NEW p \in Stoppers, shutdownConns(p) PROVE Types'
  BY <1>0, <1>14 DEF shutdownConns
<1>15. ASSUME NEW p \in Stoppers, closeConns(p) PROVE Types'
  BY <1>0, <1>15 DEF closeConns
<1>16. ASSUME NEW p \in Stoppers, awaitConns(p) PROVE Types'
  BY <1>0, <1>16 DEF awaitConns
<1>17. ASSUME NEW p \in Stoppers, awaitCut(p) PROVE Types'
  BY <1>0, <1>17 DEF awaitCut
<1>18. CASE UNCHANGED vars
  BY <1>0, <1>18 DEF vars
<1>19. QED
  BY <1>1, <1>2, <1>3, <1>4, <1>5, <1>6, <1>7, <1>8, <1>9, <1>10, <1>11, <1>12, <1>13, <1>14, <1>15,
     <1>16, <1>17, <1>18 DEF Next, Loop, Stop

\* A connection goes from Accept to serveConn in one loop's hands, and from track to
\* finish in the set.
LEMMA HandsStep == IInv /\ [Next]_vars => Hands' /\ SetIsExact'
<1> SUFFICES ASSUME IInv, [Next]_vars PROVE Hands' /\ SetIsExact'
  OBVIOUS
<1> USE DEF Types, Hands, SetIsExact, GoTo, accepting
<1>0. Types /\ Hands /\ SetIsExact
  BY DEF IInv
<1>1. ASSUME NEW l \in Listeners, addListener(l) PROVE Hands' /\ SetIsExact'
  BY <1>0, <1>1 DEF addListener
<1>2. ASSUME NEW l \in Listeners, acquire(l) PROVE Hands' /\ SetIsExact'
  BY <1>0, <1>2 DEF acquire
<1>3. ASSUME NEW l \in Listeners, AcceptFails(l) PROVE Hands' /\ SetIsExact'
  BY <1>0, <1>3 DEF AcceptFails
<1>4. ASSUME NEW l \in Listeners, pause(l) PROVE Hands' /\ SetIsExact'
  BY <1>0, <1>4 DEF pause
<1>5. ASSUME NEW l \in Listeners, serveConn(l) PROVE Hands' /\ SetIsExact'
  BY <1>0, <1>5 DEF serveConn
<1>6. ASSUME NEW l \in Listeners, removeListener(l) PROVE Hands' /\ SetIsExact'
  BY <1>0, <1>6 DEF removeListener
<1>7. ASSUME NEW l \in Listeners, NEW c \in Conns, Accept(l, c) PROVE Hands' /\ SetIsExact'
  BY <1>0, <1>7 DEF Accept
<1>8. ASSUME NEW c \in Conns, Ends(c) PROVE Hands' /\ SetIsExact'
  BY <1>0, <1>8 DEF Ends, Serving
<1>9. ASSUME NEW c \in Conns, finish(c) PROVE Hands' /\ SetIsExact'
  BY <1>0, <1>9 DEF finish
<1>10. ASSUME NEW c \in Conns, release(c) PROVE Hands' /\ SetIsExact'
  BY <1>0, <1>10 DEF release
<1>11. ASSUME NEW p \in Stoppers, stop(p) PROVE Hands' /\ SetIsExact'
  BY <1>0, <1>11 DEF stop
<1>12. ASSUME NEW p \in Stoppers, closeListeners(p) PROVE Hands' /\ SetIsExact'
  BY <1>0, <1>12 DEF closeListeners
<1>13. ASSUME NEW p \in Stoppers, liveConns(p) PROVE Hands' /\ SetIsExact'
  BY <1>0, <1>13 DEF liveConns
<1>14. ASSUME NEW p \in Stoppers, shutdownConns(p) PROVE Hands' /\ SetIsExact'
  BY <1>0, <1>14 DEF shutdownConns
<1>15. ASSUME NEW p \in Stoppers, closeConns(p) PROVE Hands' /\ SetIsExact'
  BY <1>0, <1>15 DEF closeConns
<1>16. ASSUME NEW p \in Stoppers, awaitConns(p) PROVE Hands' /\ SetIsExact'
  BY <1>0, <1>16 DEF awaitConns
<1>17. ASSUME NEW p \in Stoppers, awaitCut(p) PROVE Hands' /\ SetIsExact'
  BY <1>0, <1>17 DEF awaitCut
<1>18. CASE UNCHANGED vars
  BY <1>0, <1>18 DEF vars
<1>19. QED
  BY <1>1, <1>2, <1>3, <1>4, <1>5, <1>6, <1>7, <1>8, <1>9, <1>10, <1>11, <1>12, <1>13, <1>14, <1>15,
     <1>16, <1>17, <1>18 DEF Next, Loop, Stop

\* What is said with cardinalities.
Counts == Finite /\ Counted /\ SlotsAreExact

\* SlotsAreExact in terms of the two sets.
LEMMA SlotsByName ==
    SlotsAreExact <=> /\ slots = Cardinality(Accepting) + Cardinality(Busy)
                      /\ slots <= MaxConns
  BY DEF SlotsAreExact, Accepting, Busy

\* A step that leaves the three sets alone.
LEMMA CountsFrame ==
    ASSUME IInv, Accepting' = Accepting, Busy' = Busy, Tracked' = Tracked,
           slots' = slots, connWG' = connWG
    PROVE  Counts'
<1>1. Finite' /\ Counted'
  BY DEF IInv, Finite, Counted
<1>2. SlotsAreExact'
  BY SlotsByName DEF IInv, SlotsAreExact, Accepting, Busy
<1>3. QED
  BY <1>1, <1>2 DEF Counts

\* A slot is taken with the loop's turn, passes to the connection, and is released
\* once; the count is raised under mu and lowered at the end.
LEMMA CountsStep == IInv /\ [Next]_vars => Counts'
<1> SUFFICES ASSUME IInv, [Next]_vars PROVE Counts'
  OBVIOUS
<1> USE DEF GoTo, Moves, Returns, accepting, stopping
<1>0. /\ Types /\ Hands /\ SetIsExact /\ Finite /\ Counted
      /\ slots = Cardinality(Accepting) + Cardinality(Busy) /\ slots <= MaxConns
      /\ Cardinality(Accepting) \in Nat /\ Cardinality(Busy) \in Nat
  BY SlotsByName, FS_CardinalityType DEF IInv, Finite
<1>a. IsFiniteSet(Tracked) /\ Cardinality(Tracked) \in Nat
  <2>1. Tracked \in SUBSET Busy
    BY DEF Tracked, Busy
  <2>2. QED
    BY <1>0, <2>1, FS_Subset, FS_CardinalityType DEF Finite
<1>1. ASSUME NEW l \in Listeners, addListener(l) PROVE Counts'
  <2>1. Busy' = Busy /\ Tracked' = Tracked /\ connWG' = connWG /\ slots' = slots
    BY <1>1 DEF addListener, Busy, Tracked
  <2>2. Accepting' = Accepting
    BY <1>0, <1>1 DEF addListener, Accepting, Types
  <2>3. QED
    BY <2>1, <2>2, CountsFrame
<1>2. ASSUME NEW l \in Listeners, acquire(l) PROVE Counts'
  <2>1. Busy' = Busy /\ Tracked' = Tracked /\ connWG' = connWG
    BY <1>2 DEF acquire, Busy, Tracked
  <2>2. CASE loop[l] = "select" /\ slots < MaxConns /\ slots' = slots + 1 /\ GoTo(l, "accept")
    <3>1. Accepting' = Accepting \cup {l} /\ l \notin Accepting
      BY <1>0, <2>2 DEF Accepting, Types
    <3>2. Cardinality(Accepting') = Cardinality(Accepting) + 1 /\ IsFiniteSet(Accepting')
      BY <1>0, <3>1, FS_AddElement DEF Finite
    <3>3. slots' = Cardinality(Accepting') + Cardinality(Busy') /\ slots' <= MaxConns
      BY <1>0, <2>1, <2>2, <3>2 DEF Types
    <3>4. SlotsAreExact'
      BY <3>3 DEF SlotsAreExact, Accepting, Busy
    <3>5. QED
      BY <1>0, <2>1, <3>2, <3>4 DEF Counts, Finite, Counted
  <2>3. CASE slots' = slots /\ loop[l] \in {"acquire", "select"}
             /\ (GoTo(l, "leave") \/ GoTo(l, "select"))
    <3>1. Accepting' = Accepting
      BY <1>0, <2>3 DEF Accepting, Types
    <3>2. QED
      BY <2>1, <2>3, <3>1, CountsFrame
  <2>4. QED
    BY <1>2, <2>2, <2>3 DEF acquire
<1>3. ASSUME NEW l \in Listeners, AcceptFails(l) PROVE Counts'
  <2>1. Busy' = Busy /\ Tracked' = Tracked /\ connWG' = connWG
    BY <1>3 DEF AcceptFails, Busy, Tracked
  <2>2. Accepting' = Accepting \ {l} /\ l \in Accepting
    BY <1>0, <1>3 DEF AcceptFails, Accepting, Types
  <2>3. Cardinality(Accepting') = Cardinality(Accepting) - 1 /\ IsFiniteSet(Accepting')
    BY <1>0, <2>2, FS_RemoveElement DEF Finite
  <2>4. slots' = Cardinality(Accepting') + Cardinality(Busy') /\ slots' <= MaxConns
    BY <1>0, <1>3, <2>1, <2>3 DEF AcceptFails, Types
  <2>5. SlotsAreExact'
    BY <2>4 DEF SlotsAreExact, Accepting, Busy
  <2>6. QED
    BY <1>0, <2>1, <2>3, <2>5 DEF Counts, Finite, Counted
<1>4. ASSUME NEW l \in Listeners, pause(l) PROVE Counts'
  <2>1. Busy' = Busy /\ Tracked' = Tracked /\ connWG' = connWG /\ slots' = slots
    BY <1>4 DEF pause, Busy, Tracked
  <2>2. Accepting' = Accepting
    BY <1>0, <1>4 DEF pause, Accepting, Types
  <2>3. QED
    BY <2>1, <2>2, CountsFrame
<1>5. ASSUME NEW l \in Listeners, serveConn(l) PROVE Counts'
  <2> DEFINE c == hand[l]
  <2>1. c \in Conns /\ conn[c] = "accepted"
    BY <1>0, <1>5 DEF serveConn, Types, Hands
  <2>2. /\ conn' = [conn EXCEPT ![c] = IF closed THEN "untracked" ELSE "tracked"]
        /\ slots' = slots
        /\ connWG' = IF closed THEN connWG ELSE connWG + 1
        /\ loop[l] = "track" /\ loop' = [loop EXCEPT ![l] = "acquire"]
    BY <1>5 DEF serveConn
  <2> HIDE DEF c
  <2>3. Accepting' = Accepting
    BY <1>0, <2>2 DEF Accepting, Types
  <2>4. Busy' = Busy
    BY <1>0, <2>1, <2>2 DEF Busy, Types
  <2>5. CASE closed
    <3>1. Tracked' = Tracked
      BY <1>0, <2>1, <2>2, <2>5 DEF Tracked, Types
    <3>2. QED
      BY <2>2, <2>3, <2>4, <2>5, <3>1, CountsFrame
  <2>6. CASE ~closed
    <3>1. Tracked' = Tracked \cup {c} /\ c \notin Tracked
      BY <1>0, <2>1, <2>2, <2>6 DEF Tracked, Types
    <3>2. Cardinality(Tracked') = Cardinality(Tracked) + 1
      BY <1>a, <3>1, FS_AddElement
    <3>3. Counted'
      BY <1>0, <2>2, <2>6, <3>2 DEF Counted
    <3>4. SlotsAreExact'
      BY <1>0, <2>2, <2>3, <2>4 DEF SlotsAreExact, Accepting, Busy
    <3>5. QED
      BY <1>0, <2>3, <2>4, <3>3, <3>4 DEF Counts, Finite
  <2>7. QED
    BY <2>5, <2>6
<1>6. ASSUME NEW l \in Listeners, removeListener(l) PROVE Counts'
  <2>1. Busy' = Busy /\ Tracked' = Tracked /\ connWG' = connWG /\ slots' = slots
    BY <1>6 DEF removeListener, Busy, Tracked
  <2>2. Accepting' = Accepting
    BY <1>0, <1>6 DEF removeListener, Accepting, Types
  <2>3. QED
    BY <2>1, <2>2, CountsFrame
<1>7. ASSUME NEW l \in Listeners, NEW c \in Conns, Accept(l, c) PROVE Counts'
  <2>1. Accepting' = Accepting \ {l} /\ l \in Accepting
    BY <1>0, <1>7 DEF Accept, Accepting, Types
  <2>2. Busy' = Busy \cup {c} /\ c \notin Busy
    BY <1>0, <1>7 DEF Accept, Busy, Types
  <2>3. Tracked' = Tracked
    BY <1>0, <1>7 DEF Accept, Tracked, Types
  <2>4. Cardinality(Accepting') = Cardinality(Accepting) - 1 /\ IsFiniteSet(Accepting')
    BY <1>0, <2>1, FS_RemoveElement DEF Finite
  <2>5. Cardinality(Busy') = Cardinality(Busy) + 1 /\ IsFiniteSet(Busy')
    BY <1>0, <2>2, FS_AddElement DEF Finite
  <2>6. slots' = slots /\ connWG' = connWG
    BY <1>7 DEF Accept
  <2>7. slots' = Cardinality(Accepting') + Cardinality(Busy') /\ slots' <= MaxConns
    BY <1>0, <2>4, <2>5, <2>6 DEF Types
  <2>8. SlotsAreExact'
    BY <2>7 DEF SlotsAreExact, Accepting, Busy
  <2>9. QED
    BY <1>0, <2>3, <2>4, <2>5, <2>6, <2>8 DEF Counts, Finite, Counted
<1>8. ASSUME NEW c \in Conns, Ends(c) PROVE Counts'
  <2>1. Accepting' = Accepting /\ connWG' = connWG /\ slots' = slots
    BY <1>8 DEF Ends, Accepting
  <2>2. Busy' = Busy /\ Tracked' = Tracked
    BY <1>0, <1>8 DEF Ends, Serving, Busy, Tracked, Types
  <2>3. QED
    BY <2>1, <2>2, CountsFrame
<1>9. ASSUME NEW c \in Conns, finish(c) PROVE Counts'
  <2>1. Accepting' = Accepting /\ slots' = slots
    BY <1>9 DEF finish, Accepting
  <2>2. Busy' = Busy
    BY <1>0, <1>9 DEF finish, Busy, Types
  <2>3. CASE conn[c] = "served" /\ conn' = [conn EXCEPT ![c] = "deleted"] /\ connWG' = connWG
    <3>1. Tracked' = Tracked
      BY <1>0, <2>3 DEF Tracked, Types
    <3>2. QED
      BY <2>1, <2>2, <2>3, <3>1, CountsFrame
  <2>4. CASE conn[c] = "deleted" /\ conn' = [conn EXCEPT ![c] = "done"] /\ connWG' = connWG - 1
    <3>1. Tracked' = Tracked \ {c} /\ c \in Tracked
      BY <1>0, <2>4 DEF Tracked, Types
    <3>2. Cardinality(Tracked') = Cardinality(Tracked) - 1
      BY <1>a, <3>1, FS_RemoveElement
    <3>3. Counted'
      BY <1>0, <2>4, <3>2 DEF Counted
    <3>4. SlotsAreExact'
      BY <1>0, <2>1, <2>2 DEF SlotsAreExact, Accepting, Busy
    <3>5. QED
      BY <1>0, <2>1, <2>2, <3>3, <3>4 DEF Counts, Finite
  <2>5. QED
    BY <1>9, <2>3, <2>4 DEF finish
<1>10. ASSUME NEW c \in Conns, release(c) PROVE Counts'
  <2>1. Accepting' = Accepting /\ connWG' = connWG
    BY <1>10 DEF release, Accepting
  <2>2. Busy' = Busy \ {c} /\ c \in Busy
    BY <1>0, <1>10 DEF release, Busy, Types
  <2>3. Tracked' = Tracked
    BY <1>0, <1>10 DEF release, Tracked, Types
  <2>4. Cardinality(Busy') = Cardinality(Busy) - 1 /\ IsFiniteSet(Busy')
    BY <1>0, <2>2, FS_RemoveElement DEF Finite
  <2>5. slots' = Cardinality(Accepting') + Cardinality(Busy') /\ slots' <= MaxConns
    BY <1>0, <1>10, <2>1, <2>4 DEF release, Types
  <2>6. SlotsAreExact'
    BY <2>5 DEF SlotsAreExact, Accepting, Busy
  <2>7. QED
    BY <1>0, <2>1, <2>3, <2>4, <2>6 DEF Counts, Finite, Counted
<1>11. ASSUME NEW p \in Stoppers, stop(p) PROVE Counts'
  <2>1. /\ Accepting' = Accepting /\ Busy' = Busy /\ Tracked' = Tracked
        /\ connWG' = connWG /\ slots' = slots
    BY <1>11 DEF stop, Accepting, Busy, Tracked
  <2>2. QED
    BY <2>1, CountsFrame
<1>12. ASSUME NEW p \in Stoppers, closeListeners(p) PROVE Counts'
  <2>1. /\ Accepting' = Accepting /\ Busy' = Busy /\ Tracked' = Tracked
        /\ connWG' = connWG /\ slots' = slots
    BY <1>12 DEF closeListeners, Accepting, Busy, Tracked
  <2>2. QED
    BY <2>1, CountsFrame
<1>13. ASSUME NEW p \in Stoppers, liveConns(p) PROVE Counts'
  <2>1. /\ Accepting' = Accepting /\ Busy' = Busy /\ Tracked' = Tracked
        /\ connWG' = connWG /\ slots' = slots
    BY <1>13 DEF liveConns, Accepting, Busy, Tracked
  <2>2. QED
    BY <2>1, CountsFrame
<1>14. ASSUME NEW p \in Stoppers, shutdownConns(p) PROVE Counts'
  <2>1. /\ Accepting' = Accepting /\ Busy' = Busy /\ Tracked' = Tracked
        /\ connWG' = connWG /\ slots' = slots
    BY <1>14 DEF shutdownConns, Accepting, Busy, Tracked
  <2>2. QED
    BY <2>1, CountsFrame
<1>15. ASSUME NEW p \in Stoppers, closeConns(p) PROVE Counts'
  <2>1. /\ Accepting' = Accepting /\ Busy' = Busy /\ Tracked' = Tracked
        /\ connWG' = connWG /\ slots' = slots
    BY <1>15 DEF closeConns, Accepting, Busy, Tracked
  <2>2. QED
    BY <2>1, CountsFrame
<1>16. ASSUME NEW p \in Stoppers, awaitConns(p) PROVE Counts'
  <2>1. /\ Accepting' = Accepting /\ Busy' = Busy /\ Tracked' = Tracked
        /\ connWG' = connWG /\ slots' = slots
    BY <1>16 DEF awaitConns, Accepting, Busy, Tracked
  <2>2. QED
    BY <2>1, CountsFrame
<1>17. ASSUME NEW p \in Stoppers, awaitCut(p) PROVE Counts'
  <2>1. /\ Accepting' = Accepting /\ Busy' = Busy /\ Tracked' = Tracked
        /\ connWG' = connWG /\ slots' = slots
    BY <1>17 DEF awaitCut, Accepting, Busy, Tracked
  <2>2. QED
    BY <2>1, CountsFrame
<1>18. CASE UNCHANGED vars
  <2>1. /\ Accepting' = Accepting /\ Busy' = Busy /\ Tracked' = Tracked
        /\ connWG' = connWG /\ slots' = slots
    BY <1>18 DEF vars, Accepting, Busy, Tracked
  <2>2. QED
    BY <2>1, CountsFrame
<1>19. QED
  BY <1>1, <1>2, <1>3, <1>4, <1>5, <1>6, <1>7, <1>8, <1>9, <1>10, <1>11, <1>12, <1>13, <1>14, <1>15,
     <1>16, <1>17, <1>18 DEF Next, Loop, Stop

\* A count of zero means that nobody is tracked.
LEMMA ZeroMeansNobody == IInv /\ connWG = 0 => Tracked = {}
<1> SUFFICES ASSUME IInv, connWG = 0 PROVE Tracked = {}
  OBVIOUS
<1>1. Tracked \in SUBSET Busy
  BY DEF Tracked, Busy
<1>2. IsFiniteSet(Tracked)
  BY <1>1, FS_Subset DEF IInv, Finite
<1>3. QED
  BY <1>2, FS_EmptySet DEF IInv, Counted

\* A loop that ends has closed its socket.
LEMMA ListenersStep == IInv /\ [Next]_vars => NoListenerLeaks'
<1> SUFFICES ASSUME IInv, [Next]_vars PROVE NoListenerLeaks'
  OBVIOUS
<1> USE DEF Types, NoListenerLeaks, GoTo, accepting
<1>0. Types /\ NoListenerLeaks
  BY DEF IInv
<1>1. ASSUME NEW l \in Listeners, addListener(l) PROVE NoListenerLeaks'
  BY <1>0, <1>1 DEF addListener
<1>2. ASSUME NEW l \in Listeners, acquire(l) PROVE NoListenerLeaks'
  BY <1>0, <1>2 DEF acquire
<1>3. ASSUME NEW l \in Listeners, AcceptFails(l) PROVE NoListenerLeaks'
  BY <1>0, <1>3 DEF AcceptFails
<1>4. ASSUME NEW l \in Listeners, pause(l) PROVE NoListenerLeaks'
  BY <1>0, <1>4 DEF pause
<1>5. ASSUME NEW l \in Listeners, serveConn(l) PROVE NoListenerLeaks'
  BY <1>0, <1>5 DEF serveConn
<1>6. ASSUME NEW l \in Listeners, removeListener(l) PROVE NoListenerLeaks'
  BY <1>0, <1>6 DEF removeListener
<1>7. ASSUME NEW l \in Listeners, NEW c \in Conns, Accept(l, c) PROVE NoListenerLeaks'
  BY <1>0, <1>7 DEF Accept
<1>8. ASSUME NEW c \in Conns, Ends(c) PROVE NoListenerLeaks'
  BY <1>0, <1>8 DEF Ends
<1>9. ASSUME NEW c \in Conns, finish(c) PROVE NoListenerLeaks'
  BY <1>0, <1>9 DEF finish
<1>10. ASSUME NEW c \in Conns, release(c) PROVE NoListenerLeaks'
  BY <1>0, <1>10 DEF release
<1>11. ASSUME NEW p \in Stoppers, stop(p) PROVE NoListenerLeaks'
  BY <1>0, <1>11 DEF stop
<1>12. ASSUME NEW p \in Stoppers, closeListeners(p) PROVE NoListenerLeaks'
  BY <1>0, <1>12 DEF closeListeners
<1>13. ASSUME NEW p \in Stoppers, liveConns(p) PROVE NoListenerLeaks'
  BY <1>0, <1>13 DEF liveConns
<1>14. ASSUME NEW p \in Stoppers, shutdownConns(p) PROVE NoListenerLeaks'
  BY <1>0, <1>14 DEF shutdownConns
<1>15. ASSUME NEW p \in Stoppers, closeConns(p) PROVE NoListenerLeaks'
  BY <1>0, <1>15 DEF closeConns
<1>16. ASSUME NEW p \in Stoppers, awaitConns(p) PROVE NoListenerLeaks'
  BY <1>0, <1>16 DEF awaitConns
<1>17. ASSUME NEW p \in Stoppers, awaitCut(p) PROVE NoListenerLeaks'
  BY <1>0, <1>17 DEF awaitCut
<1>18. CASE UNCHANGED vars
  BY <1>0, <1>18 DEF vars
<1>19. QED
  BY <1>1, <1>2, <1>3, <1>4, <1>5, <1>6, <1>7, <1>8, <1>9, <1>10, <1>11, <1>12, <1>13, <1>14, <1>15,
     <1>16, <1>17, <1>18 DEF Next, Loop, Stop

\* The order of a stop: quit, closed, everything else.
LEMMA StoppedStep == IInv /\ [Next]_vars => Stopped'
<1> SUFFICES ASSUME IInv, [Next]_vars PROVE Stopped'
  OBVIOUS
<1> USE DEF Types, Stopped, Moves, Returns, accepting, stopping
<1>0. Types /\ Stopped
  BY DEF IInv
<1>a. zeroSeen => Tracked = {}
  BY <1>0, ZeroMeansNobody
<1>1. ASSUME NEW l \in Listeners, addListener(l) PROVE Stopped'
  BY <1>0, <1>1 DEF addListener
<1>2. ASSUME NEW l \in Listeners, acquire(l) PROVE Stopped'
  BY <1>0, <1>2 DEF acquire
<1>3. ASSUME NEW l \in Listeners, AcceptFails(l) PROVE Stopped'
  BY <1>0, <1>3 DEF AcceptFails
<1>4. ASSUME NEW l \in Listeners, pause(l) PROVE Stopped'
  BY <1>0, <1>4 DEF pause
<1>5. ASSUME NEW l \in Listeners, serveConn(l) PROVE Stopped'
  BY <1>0, <1>5 DEF serveConn
<1>6. ASSUME NEW l \in Listeners, removeListener(l) PROVE Stopped'
  BY <1>0, <1>6 DEF removeListener
<1>7. ASSUME NEW l \in Listeners, NEW c \in Conns, Accept(l, c) PROVE Stopped'
  BY <1>0, <1>7 DEF Accept
<1>8. ASSUME NEW c \in Conns, Ends(c) PROVE Stopped'
  BY <1>0, <1>8 DEF Ends
<1>9. ASSUME NEW c \in Conns, finish(c) PROVE Stopped'
  <2>1. ~zeroSeen \/ connWG' = connWG
    BY <1>a, <1>9 DEF finish, Tracked
  <2>2. QED
    BY <1>0, <1>9, <2>1 DEF finish
<1>10. ASSUME NEW c \in Conns, release(c) PROVE Stopped'
  BY <1>0, <1>10 DEF release
<1>11. ASSUME NEW p \in Stoppers, stop(p) PROVE Stopped'
  BY <1>0, <1>11 DEF stop
<1>12. ASSUME NEW p \in Stoppers, closeListeners(p) PROVE Stopped'
  BY <1>0, <1>12 DEF closeListeners
<1>13. ASSUME NEW p \in Stoppers, liveConns(p) PROVE Stopped'
  BY <1>0, <1>13 DEF liveConns
<1>14. ASSUME NEW p \in Stoppers, shutdownConns(p) PROVE Stopped'
  BY <1>0, <1>14 DEF shutdownConns
<1>15. ASSUME NEW p \in Stoppers, closeConns(p) PROVE Stopped'
  BY <1>0, <1>15 DEF closeConns
<1>16. ASSUME NEW p \in Stoppers, awaitConns(p) PROVE Stopped'
  BY <1>0, <1>16 DEF awaitConns
<1>17. ASSUME NEW p \in Stoppers, awaitCut(p) PROVE Stopped'
  BY <1>0, <1>17 DEF awaitCut
<1>18. CASE UNCHANGED vars
  BY <1>0, <1>18 DEF vars
<1>19. QED
  BY <1>1, <1>2, <1>3, <1>4, <1>5, <1>6, <1>7, <1>8, <1>9, <1>10, <1>11, <1>12, <1>13, <1>14, <1>15,
     <1>16, <1>17, <1>18 DEF Next, Loop, Stop

\* Whoever is served once Shutdown has copied the set is in the copy or was asked.
LEMMA ReachedStep == IInv /\ [Next]_vars => Reached' /\ NobodyIsOverlooked'
<1> SUFFICES ASSUME IInv, [Next]_vars PROVE Reached' /\ NobodyIsOverlooked'
  OBVIOUS
<1> USE DEF Types, Hands, SetIsExact, Stopped, Reached, NobodyIsOverlooked, Serving, Stoppers, Moves, Returns, accepting, stopping
<1>0. Types /\ Hands /\ SetIsExact /\ Stopped /\ Reached /\ NobodyIsOverlooked
  BY DEF IInv
<1>1. ASSUME NEW l \in Listeners, addListener(l) PROVE Reached' /\ NobodyIsOverlooked'
  BY <1>0, <1>1 DEF addListener
<1>2. ASSUME NEW l \in Listeners, acquire(l) PROVE Reached' /\ NobodyIsOverlooked'
  BY <1>0, <1>2 DEF acquire
<1>3. ASSUME NEW l \in Listeners, AcceptFails(l) PROVE Reached' /\ NobodyIsOverlooked'
  BY <1>0, <1>3 DEF AcceptFails
<1>4. ASSUME NEW l \in Listeners, pause(l) PROVE Reached' /\ NobodyIsOverlooked'
  BY <1>0, <1>4 DEF pause
<1>5. ASSUME NEW l \in Listeners, serveConn(l) PROVE Reached' /\ NobodyIsOverlooked'
  BY <1>0, <1>5 DEF serveConn
<1>6. ASSUME NEW l \in Listeners, removeListener(l) PROVE Reached' /\ NobodyIsOverlooked'
  BY <1>0, <1>6 DEF removeListener
<1>7. ASSUME NEW l \in Listeners, NEW c \in Conns, Accept(l, c) PROVE Reached' /\ NobodyIsOverlooked'
  BY <1>0, <1>7 DEF Accept
<1>8. ASSUME NEW c \in Conns, Ends(c) PROVE Reached' /\ NobodyIsOverlooked'
  BY <1>0, <1>8 DEF Ends
<1>9. ASSUME NEW c \in Conns, finish(c) PROVE Reached' /\ NobodyIsOverlooked'
  BY <1>0, <1>9 DEF finish
<1>10. ASSUME NEW c \in Conns, release(c) PROVE Reached' /\ NobodyIsOverlooked'
  BY <1>0, <1>10 DEF release
<1>11. ASSUME NEW p \in Stoppers, stop(p) PROVE Reached' /\ NobodyIsOverlooked'
  BY <1>0, <1>11 DEF stop
<1>12. ASSUME NEW p \in Stoppers, closeListeners(p) PROVE Reached' /\ NobodyIsOverlooked'
  BY <1>0, <1>12 DEF closeListeners
<1>13. ASSUME NEW p \in Stoppers, liveConns(p) PROVE Reached' /\ NobodyIsOverlooked'
  BY <1>0, <1>13 DEF liveConns
<1>14. ASSUME NEW p \in Stoppers, shutdownConns(p) PROVE Reached' /\ NobodyIsOverlooked'
  BY <1>0, <1>14 DEF shutdownConns
<1>15. ASSUME NEW p \in Stoppers, closeConns(p) PROVE Reached' /\ NobodyIsOverlooked'
  BY <1>0, <1>15 DEF closeConns
<1>16. ASSUME NEW p \in Stoppers, awaitConns(p) PROVE Reached' /\ NobodyIsOverlooked'
  BY <1>0, <1>16 DEF awaitConns
<1>17. ASSUME NEW p \in Stoppers, awaitCut(p) PROVE Reached' /\ NobodyIsOverlooked'
  BY <1>0, <1>17 DEF awaitCut
<1>18. CASE UNCHANGED vars
  BY <1>0, <1>18 DEF vars
<1>19. QED
  BY <1>1, <1>2, <1>3, <1>4, <1>5, <1>6, <1>7, <1>8, <1>9, <1>10, <1>11, <1>12, <1>13, <1>14, <1>15,
     <1>16, <1>17, <1>18 DEF Next, Loop, Stop

\* Shutdown counts the connections before it cuts the first.
LEMMA CutsStep == IInv /\ [Next]_vars => Cuts'
<1> SUFFICES ASSUME IInv, [Next]_vars PROVE Cuts'
  OBVIOUS
<1> USE DEF Types, Cuts, Stoppers, Moves, Returns, accepting, stopping
<1>0. Types /\ Cuts
  BY DEF IInv
<1>1. ASSUME NEW l \in Listeners, addListener(l) PROVE Cuts'
  BY <1>0, <1>1 DEF addListener
<1>2. ASSUME NEW l \in Listeners, acquire(l) PROVE Cuts'
  BY <1>0, <1>2 DEF acquire
<1>3. ASSUME NEW l \in Listeners, AcceptFails(l) PROVE Cuts'
  BY <1>0, <1>3 DEF AcceptFails
<1>4. ASSUME NEW l \in Listeners, pause(l) PROVE Cuts'
  BY <1>0, <1>4 DEF pause
<1>5. ASSUME NEW l \in Listeners, serveConn(l) PROVE Cuts'
  BY <1>0, <1>5 DEF serveConn
<1>6. ASSUME NEW l \in Listeners, removeListener(l) PROVE Cuts'
  BY <1>0, <1>6 DEF removeListener
<1>7. ASSUME NEW l \in Listeners, NEW c \in Conns, Accept(l, c) PROVE Cuts'
  BY <1>0, <1>7 DEF Accept
<1>8. ASSUME NEW c \in Conns, Ends(c) PROVE Cuts'
  BY <1>0, <1>8 DEF Ends
<1>9. ASSUME NEW c \in Conns, finish(c) PROVE Cuts'
  BY <1>0, <1>9 DEF finish
<1>10. ASSUME NEW c \in Conns, release(c) PROVE Cuts'
  BY <1>0, <1>10 DEF release
<1>11. ASSUME NEW p \in Stoppers, stop(p) PROVE Cuts'
  BY <1>0, <1>11 DEF stop
<1>12. ASSUME NEW p \in Stoppers, closeListeners(p) PROVE Cuts'
  BY <1>0, <1>12 DEF closeListeners
<1>13. ASSUME NEW p \in Stoppers, liveConns(p) PROVE Cuts'
  <2>1. conns # {} => Cardinality(conns) > 0
    <3>1. conns \in SUBSET Busy
      BY DEF IInv, SetIsExact, Busy
    <3>2. IsFiniteSet(conns)
      BY <3>1, FS_Subset DEF IInv, Finite
    <3>3. Cardinality(conns) \in Nat /\ (Cardinality(conns) = 0 <=> conns = {})
      BY <3>2, FS_EmptySet, FS_CardinalityType
    <3>4. QED
      BY <3>3
  <2>2. QED
    BY <1>0, <1>13, <2>1 DEF liveConns
<1>14. ASSUME NEW p \in Stoppers, shutdownConns(p) PROVE Cuts'
  BY <1>0, <1>14 DEF shutdownConns
<1>15. ASSUME NEW p \in Stoppers, closeConns(p) PROVE Cuts'
  BY <1>0, <1>15 DEF closeConns
<1>16. ASSUME NEW p \in Stoppers, awaitConns(p) PROVE Cuts'
  BY <1>0, <1>16 DEF awaitConns
<1>17. ASSUME NEW p \in Stoppers, awaitCut(p) PROVE Cuts'
  BY <1>0, <1>17 DEF awaitCut
<1>18. CASE UNCHANGED vars
  BY <1>0, <1>18 DEF vars
<1>19. QED
  BY <1>1, <1>2, <1>3, <1>4, <1>5, <1>6, <1>7, <1>8, <1>9, <1>10, <1>11, <1>12, <1>13, <1>14, <1>15,
     <1>16, <1>17, <1>18 DEF Next, Loop, Stop

\* Every step keeps the invariant.
LEMMA StepIInv == IInv /\ [Next]_vars => IInv'
  BY TypesStep, HandsStep, CountsStep, ListenersStep, StoppedStep, ReachedStep, CutsStep
     DEF IInv, Counts

\* The invariant holds in every behaviour of the accept layer.
LEMMA Inductive == Spec => []IInv
  BY InitIInv, StepIInv, PTL DEF Spec

-----------------------------------------------------------------------------
(***************************************************************************)
(* Every slot and every socket an accept loop takes is given back on every *)
(* path: acquireSlot, releaseSlot, track, finish and removeListener, for   *)
(* any number of listeners and connections.                                *)
(***************************************************************************)
THEOREM NothingLeaksCorrect == Spec => []NothingLeaks
<1>1. IInv => NothingLeaks
  <2> SUFFICES ASSUME IInv PROVE NothingLeaks
    OBVIOUS
  <2>1. conns \subseteq Tracked
    BY DEF IInv, SetIsExact, Tracked
  <2>2. TypeOK
    BY <2>1 DEF IInv, Types, Hands, Counted, Stopped, TypeOK
  <2>3. QED
    BY <2>2 DEF IInv, NothingLeaks
<1>2. QED
  BY <1>1, Inductive, PTL

(***************************************************************************)
(* No Add follows a Wait that has returned, and from the moment Shutdown   *)
(* waits every connection being served has been asked to stop (track,      *)
(* serveConn, shutdownConns).                                              *)
(***************************************************************************)
THEOREM StopSeesEveryConnCorrect == Spec => []StopSeesEveryConn
<1>1. IInv => StopSeesEveryConn
  BY DEF IInv, Stopped, StopSeesEveryConn, NoAddAfterZero
<1>2. QED
  BY <1>1, Inductive, PTL

(***************************************************************************)
(* A nil from Shutdown is true: none of the connections it tracked is still*)
(* served, and without a Close none was cut off (awaitConns, closeConns).  *)
(***************************************************************************)
THEOREM NilIsTrueCorrect == Spec => []NilIsTrue
<1>1. IInv => NilIsTrue
  <2> SUFFICES ASSUME IInv, result["Shutdown"] = "nil" PROVE NilIsTrue
    BY DEF NilIsTrue
  <2>1. Tracked = {}
    BY ZeroMeansNobody DEF IInv, Stopped, Cuts
  <2>2. \A c \in Conns : conn[c] # "tracked"
    BY <2>1 DEF Tracked
  <2>3. at["Close"] = "idle" => cutShort = {}
    BY DEF IInv, Cuts
  <2>4. QED
    BY <2>2, <2>3 DEF NilIsTrue
<1>2. QED
  BY <1>1, Inductive, PTL

\* Once the server has stopped, its count and its set only fall.
OnlyFalls == closed => connWG' <= connWG /\ conns' \subseteq conns

(***************************************************************************)
(* WaitGroup.Add is never called once a stop has been through its critical *)
(* section, whoever accepts meanwhile (track under mu, server.go:99).      *)
(***************************************************************************)
THEOREM OnlyFallsCorrect == Spec => [][OnlyFalls]_vars
<1>1. IInv /\ [Next]_vars => [OnlyFalls]_vars
  <2> SUFFICES ASSUME Types, [Next]_vars, closed
               PROVE  connWG' <= connWG /\ conns' \subseteq conns
    BY DEF IInv, OnlyFalls
  <2> USE DEF Types
  <2>1. ASSUME NEW l \in Listeners, addListener(l) PROVE connWG' <= connWG /\ conns' \subseteq conns
    BY <2>1 DEF addListener
  <2>2. ASSUME NEW l \in Listeners, acquire(l) PROVE connWG' <= connWG /\ conns' \subseteq conns
    BY <2>2 DEF acquire
  <2>3. ASSUME NEW l \in Listeners, AcceptFails(l) PROVE connWG' <= connWG /\ conns' \subseteq conns
    BY <2>3 DEF AcceptFails
  <2>4. ASSUME NEW l \in Listeners, pause(l) PROVE connWG' <= connWG /\ conns' \subseteq conns
    BY <2>4 DEF pause
  <2>5. ASSUME NEW l \in Listeners, serveConn(l) PROVE connWG' <= connWG /\ conns' \subseteq conns
    BY <2>5 DEF serveConn
  <2>6. ASSUME NEW l \in Listeners, removeListener(l) PROVE connWG' <= connWG /\ conns' \subseteq conns
    BY <2>6 DEF removeListener
  <2>7. ASSUME NEW l \in Listeners, NEW c \in Conns, Accept(l, c)
       PROVE  connWG' <= connWG /\ conns' \subseteq conns
    BY <2>7 DEF Accept
  <2>8. ASSUME NEW c \in Conns, Ends(c) PROVE connWG' <= connWG /\ conns' \subseteq conns
    BY <2>8 DEF Ends
  <2>9. ASSUME NEW c \in Conns, finish(c) PROVE connWG' <= connWG /\ conns' \subseteq conns
    BY <2>9 DEF finish
  <2>10. ASSUME NEW c \in Conns, release(c) PROVE connWG' <= connWG /\ conns' \subseteq conns
    BY <2>10 DEF release
  <2>11. ASSUME NEW p \in Stoppers, Stop(p) PROVE connWG' <= connWG /\ conns' \subseteq conns
    <3>1. connWG' = connWG /\ conns' = conns
      BY <2>11 DEF Stop, stop, closeListeners, liveConns, shutdownConns, closeConns, awaitConns, awaitCut
    <3>2. QED
      BY <3>1
  <2>12. CASE UNCHANGED vars
    BY <2>12 DEF vars
  <2>13. QED
    BY <2>1, <2>2, <2>3, <2>4, <2>5, <2>6, <2>7, <2>8, <2>9, <2>10, <2>11, <2>12 DEF Next, Loop
<1>2. QED
  BY <1>1, Inductive, PTL DEF Spec
-----------------------------------------------------------------------------
\* The file handler.

File == [content : Nat, size : Nat, mtime : Nat]
Version == [size : Nat, mtime : Nat]
Octet == Nat \X Nat

\* The types of what the file system and the cache hold.
StaticTypes ==
    /\ clock \in Nat /\ contents \in Nat
    /\ inodes \in Seq(File)
    /\ \A i \in 1 .. Len(inodes) : inodes[i].content <= contents /\ inodes[i].mtime <= clock
    /\ link \in [FileNames -> 1 .. Len(inodes)]
    /\ DOMAIN entries = FileNames
    /\ DOMAIN serving = Clients /\ \A c \in Clients : DOMAIN serving[c] = DOMAIN Idle
    /\ \A k \in calls : k.by \in Clients

\* What a handle held at its stat it holds still, and its name too, but for what was
\* written since.
Fresh(s, since) ==
    /\ s.name \in FileNames /\ s.inode \in 1 .. Len(inodes)
    /\ s.version \in Version /\ s.content \in 0 .. contents
    /\ link[s.name] = s.inode \/ inodes[link[s.name]].mtime >= since
    /\ \/ versionOf(inodes[s.inode]) = s.version /\ inodes[s.inode].content = s.content
       \/ inodes[s.inode].mtime >= since /\ inodes[s.inode].content # s.content

\* The stat of a handle is not long ago.
StatOf(s) == s.phase = "opened" =>
    /\ s.opened \in 0 .. clock /\ clock <= s.opened + MaxPause
    /\ Fresh(s, s.opened) /\ s.version.mtime <= s.opened /\ s.call = "none"

\* The octets hashed so far are the content's, if that is still there.
TagSoFar(s) ==
    /\ s.tag \in Seq(Octet)
    /\ inodes[s.inode].content = s.content =>
        /\ Len(s.tag) <= s.version.size
        /\ \A i \in 1 .. Len(s.tag) : s.tag[i] = <<s.content, i>>

\* A version that is looked for in the cache was settled: what was written since has
\* another one.
LookupOf(c, s) ==
    /\ s.phase \in {"waiting", "hashing"} /\ s.call # "none" =>
        Fresh(s, s.version.mtime + 1) /\ s.version.mtime + Window <= clock
    /\ s.phase = "hashing" => s.call \in {"none", c} /\ (s.call = c => TagSoFar(s))

Requested == \A c \in Clients : StatOf(serving[c]) /\ LookupOf(c, serving[c])

\* And so was one that is in it.
Entries ==
    \A n \in FileNames : entries[n].tag # NoTag =>
        entries[n].version \in Version /\ entries[n].version.mtime + Window <= clock

StaticIInv == StaticTypes /\ Requested /\ Entries /\ CacheIsTrue
-----------------------------------------------------------------------------
LEMMA ServingShape == DOMAIN Idle = {"phase", "request", "name", "inode", "version", "opened", "mod", "call",
                                     "tag", "status", "spans", "body", "content", "whole", "cut"}
  BY DEF Idle

\* What a request that is answered, or about to be, looks like.
Answering(s) == DOMAIN s = DOMAIN Idle /\ s.phase \in {"done", "sending"} /\ s.call = "none"

LEMMA FinishIs ==
    ASSUME NEW s, DOMAIN s = DOMAIN Idle, s.call = "none", NEW status
    PROVE  Answering(Finish(s, status))
  BY ServingShape DEF Answering, Finish, Answered

LEMMA JudgedIs ==
    ASSUME NEW t, DOMAIN t = DOMAIN Idle, NEW tag
    PROVE  Answering(Judged(t, tag))
<1> DEFINE s == [t EXCEPT !.tag = tag, !.call = "none"]
           Sent(status, spans) == [s EXCEPT !.phase = "sending", !.status = status, !.spans = spans]
           verdict == evaluate(s.request, s.tag, s.mod)
           ranges == rangesOf(s)
           bodyless == s.request.method = "HEAD" \/ s.version.size = 0
           r == Judged(t, tag)
<1>1. DOMAIN s = DOMAIN Idle /\ s.call = "none"
  BY ServingShape
<1>2. (\E status : r = Finish(s, status)) \/ (\E status, spans : r = Sent(status, spans))
  <2>1. CASE verdict = "notModified"
    <3>1. r = Finish(s, 304)
      BY <2>1 DEF Judged
    <3> QED
      BY <3>1
  <2>2. CASE verdict = "failed"
    <3>1. r = Finish(s, 412)
      BY <2>2 DEF Judged
    <3> QED
      BY <3>1
  <2>3. CASE verdict = "send" /\ ranges.verdict = "notSatisfiable"
    <3>1. r = Finish(s, 416)
      BY <2>3 DEF Judged
    <3> QED
      BY <3>1
  <2>4. CASE verdict = "send" /\ ranges.verdict = "partial"
    <3>1. r = Sent(206, ranges.spans)
      BY <2>4 DEF Judged
    <3> QED
      BY <3>1
  <2>5. CASE /\ verdict \notin {"notModified", "failed"}
             /\ ~(verdict = "send" /\ ranges.verdict \in {"notSatisfiable", "partial"})
    <3>1. r = IF bodyless THEN Finish(s, 200) ELSE Sent(200, <<[first |-> 0, last |-> s.version.size - 1]>>)
      BY <2>5 DEF Judged
    <3> QED
      BY <3>1
  <2> QED
    BY <2>1, <2>2, <2>3, <2>4, <2>5
<1>3. ASSUME NEW status, NEW spans PROVE Answering(Sent(status, spans))
  BY <1>1, ServingShape DEF Answering
<1>4. ASSUME NEW status PROVE Answering(Finish(s, status))
  BY <1>1, FinishIs
<1> HIDE DEF r, Sent, s
<1>5. Answering(r)
  BY <1>2, <1>3, <1>4
<1> QED
  BY <1>5 DEF r

-----------------------------------------------------------------------------
\* A content of its own is written to one inode, a new one or not: what names link to it,
\* or not.
WritesTo(i) ==
    /\ inodes' \in Seq(File) /\ Len(inodes) <= Len(inodes') /\ i \in 1 .. Len(inodes')
    /\ \A j \in 1 .. Len(inodes') : IF j = i THEN inodes'[j].content = contents + 1 /\ inodes'[j].mtime = clock
                                    ELSE j <= Len(inodes) /\ inodes'[j] = inodes[j]
    /\ link' \in [FileNames -> 1 .. Len(inodes')] /\ \A n \in FileNames : link'[n] \in {link[n], i}
    /\ contents' = contents + 1 /\ UNCHANGED <<clock, serving, entries, calls>>

LEMMA WrittenIs ==
    ASSUME StaticTypes, NEW size \in Sizes
    PROVE  /\ Written(size) \in File
           /\ Written(size).content = contents + 1 /\ Written(size).mtime = clock
  BY StaticAssumption DEF StaticTypes, Written, File

LEMMA RewriteWrites ==
    ASSUME StaticTypes, NEW n \in FileNames, NEW size \in Sizes, Rewrite(n, size)
    PROVE  WritesTo(link[n])
<1> DEFINE i == link[n]
           w == Written(size)
<1>1. i \in 1 .. Len(inodes) /\ inodes \in Seq(File) /\ Len(inodes) \in Nat
  BY LenProperties DEF StaticTypes
<1>2. w \in File /\ w.content = contents + 1 /\ w.mtime = clock
  BY WrittenIs
<1>3. inodes' = [inodes EXCEPT ![i] = w] /\ contents' = contents + 1
      /\ UNCHANGED <<clock, link, entries, calls, serving>>
  BY DEF Rewrite
<1> HIDE DEF i, w
<1>4. /\ inodes' \in Seq(File) /\ Len(inodes') = Len(inodes)
      /\ \A j \in 1 .. Len(inodes) : inodes'[j] = IF j = i THEN w ELSE inodes[j]
  BY <1>1, <1>2, <1>3, ExceptSeq
<1>5. link' \in [FileNames -> 1 .. Len(inodes')] /\ \A m \in FileNames : link'[m] \in {link[m], i}
  BY <1>3, <1>4 DEF StaticTypes
<1>6. WritesTo(i)
  BY <1>1, <1>2, <1>3, <1>4, <1>5 DEF WritesTo
<1> QED
  BY <1>6 DEF i

LEMMA ReplaceWrites ==
    ASSUME StaticTypes, NEW n \in FileNames, NEW size \in Sizes, Replace(n, size)
    PROVE  WritesTo(Len(inodes) + 1)
<1> DEFINE l == Len(inodes)
           w == Written(size)
<1>1. inodes \in Seq(File) /\ l \in Nat
  BY LenProperties DEF StaticTypes
<1>2. w \in File /\ w.content = contents + 1 /\ w.mtime = clock
  BY WrittenIs
<1>3. inodes' = Append(inodes, w) /\ contents' = contents + 1 /\ link' = [link EXCEPT ![n] = l + 1]
      /\ UNCHANGED <<clock, entries, calls, serving>>
  BY DEF Replace
<1> HIDE DEF w
<1>4. /\ inodes' \in Seq(File) /\ Len(inodes') = l + 1 /\ inodes'[l + 1] = w
      /\ \A j \in 1 .. l : inodes'[j] = inodes[j]
  BY <1>1, <1>2, <1>3, AppendProperties
<1>5. link \in [FileNames -> 1 .. l]
  BY DEF StaticTypes
<1> HIDE DEF l
<1>6. 1 .. l \subseteq 1 .. l + 1 /\ l + 1 \in 1 .. l + 1 /\ l <= l + 1
      /\ \A j \in 1 .. l + 1 : j # l + 1 => j \in 1 .. l
  BY <1>1
<1>7. link' \in [FileNames -> 1 .. l + 1] /\ \A m \in FileNames : link'[m] \in {link[m], l + 1}
  BY <1>3, <1>5, <1>6
<1>8. \A j \in 1 .. l + 1 : IF j = l + 1 THEN inodes'[j].content = contents + 1 /\ inodes'[j].mtime = clock
                            ELSE j <= l /\ inodes'[j] = inodes[j]
  BY <1>1, <1>2, <1>4, <1>6
<1> QED
  BY <1>3, <1>4, <1>6, <1>7, <1>8 DEF WritesTo, l

\* What is fresh stays so when something is written now.
LEMMA FreshWritten ==
    ASSUME StaticTypes, NEW i, WritesTo(i), NEW s, NEW since \in Nat, since <= clock, Fresh(s, since)
    PROVE  Fresh(s, since)'
<1>1. /\ s.name \in FileNames /\ s.inode \in 1 .. Len(inodes) /\ s.version \in Version
      /\ s.content \in 0 .. contents
      /\ link[s.name] = s.inode \/ inodes[link[s.name]].mtime >= since
      /\ \/ versionOf(inodes[s.inode]) = s.version /\ inodes[s.inode].content = s.content
         \/ inodes[s.inode].mtime >= since /\ inodes[s.inode].content # s.content
  BY DEF Fresh
<1>2. Len(inodes) \in Nat /\ Len(inodes') \in Nat /\ Len(inodes) <= Len(inodes') /\ contents \in Nat /\ clock \in Nat
  BY LenProperties DEF WritesTo, StaticTypes
<1>3. s.inode \in 1 .. Len(inodes') /\ s.content \in 0 .. contents'
  BY <1>1, <1>2 DEF WritesTo
<1>4. \A j \in 1 .. Len(inodes') : (j = i => inodes'[j].content = contents + 1 /\ inodes'[j].mtime = clock)
                                   /\ (j # i => inodes'[j] = inodes[j])
  BY DEF WritesTo
<1>5. \/ versionOf(inodes'[s.inode]) = s.version /\ inodes'[s.inode].content = s.content
      \/ inodes'[s.inode].mtime >= since /\ inodes'[s.inode].content # s.content
  <2>1. CASE s.inode = i
    BY <1>1, <1>2, <1>3, <1>4, <2>1
  <2>2. CASE s.inode # i
    BY <1>1, <1>3, <1>4, <2>2
  <2> QED
    BY <2>1, <2>2
<1>6. link'[s.name] = s.inode \/ inodes'[link'[s.name]].mtime >= since
  <2>1. link'[s.name] \in {link[s.name], i} /\ link'[s.name] \in 1 .. Len(inodes')
    BY <1>1 DEF WritesTo
  <2>2. CASE link'[s.name] = i
    BY <1>2, <1>4, <2>1, <2>2
  <2>3. CASE link'[s.name] # i
    BY <1>1, <1>4, <2>1, <2>3
  <2> QED
    BY <2>2, <2>3
<1> QED
  BY <1>1, <1>3, <1>5, <1>6 DEF Fresh

\* A content that is a request's is not written again.
LEMMA TagWritten ==
    ASSUME StaticTypes, NEW i, WritesTo(i), NEW s, NEW since, Fresh(s, since), TagSoFar(s)
    PROVE  TagSoFar(s)'
<1>1. Len(inodes) \in Nat /\ Len(inodes') \in Nat /\ Len(inodes) <= Len(inodes') /\ contents \in Nat
  BY LenProperties DEF WritesTo, StaticTypes
<1>2. s.inode \in 1 .. Len(inodes) /\ s.content \in 0 .. contents
  BY DEF Fresh
<1>3. inodes'[s.inode].content \in {inodes[s.inode].content, contents + 1}
  BY <1>1, <1>2 DEF WritesTo
<1>4. inodes'[s.inode].content = s.content => inodes[s.inode].content = s.content
  BY <1>1, <1>2, <1>3
<1> QED
  BY <1>4 DEF TagSoFar

LEMMA StatWritten ==
    ASSUME StaticTypes, NEW i, WritesTo(i), NEW s, StatOf(s)
    PROVE  StatOf(s)'
<1> SUFFICES ASSUME s.phase = "opened" PROVE StatOf(s)'
  BY DEF StatOf
<1>1. /\ s.opened \in 0 .. clock /\ clock <= s.opened + MaxPause
      /\ Fresh(s, s.opened) /\ s.version.mtime <= s.opened
  BY DEF StatOf
<1>2. s.opened \in Nat /\ s.opened <= clock /\ clock' = clock
  BY <1>1 DEF StaticTypes, WritesTo
<1>3. Fresh(s, s.opened)'
  <2> DEFINE since == s.opened
  <2>1. since \in Nat /\ since <= clock /\ Fresh(s, since)
    BY <1>1, <1>2
  <2> HIDE DEF since
  <2>2. Fresh(s, since)'
    BY <2>1, FreshWritten
  <2> QED
    BY <2>2 DEF since
<1> QED
  BY <1>1, <1>2, <1>3 DEF StatOf

LEMMA LookupWritten ==
    ASSUME StaticTypes, MaxPause < Window, NEW i, WritesTo(i), NEW c \in Clients, NEW s, LookupOf(c, s)
    PROVE  LookupOf(c, s)'
<1> DEFINE since == s.version.mtime + 1
<1>1. clock' = clock /\ clock \in Nat /\ Window \in Nat /\ Window >= 1
  BY StaticAssumption DEF WritesTo, StaticTypes
<1>2. ASSUME s.phase \in {"waiting", "hashing"}, s.call # "none"
      PROVE  Fresh(s, since) /\ Fresh(s, since)' /\ s.version.mtime + Window <= clock'
  <2>1. Fresh(s, since) /\ s.version.mtime + Window <= clock
    BY <1>2 DEF LookupOf
  <2>2. s.version.mtime \in Nat
    BY <2>1 DEF Fresh, Version
  <2>3. since \in Nat /\ since <= clock
    BY <1>1, <2>1, <2>2
  <2> HIDE DEF since
  <2> QED
    BY <1>1, <2>1, <2>3, FreshWritten
<1>3. ASSUME s.phase = "hashing", s.call = c PROVE TagSoFar(s)'
  <2>1. c # "none"
    BY StaticAssumption
  <2>2. Fresh(s, since) /\ TagSoFar(s)
    BY <1>2, <1>3, <2>1 DEF LookupOf
  <2> HIDE DEF since
  <2> QED
    BY <2>2, TagWritten
<1> QED
  BY <1>2, <1>3 DEF LookupOf

LEMMA WriteTypes ==
    ASSUME StaticTypes, NEW i, WritesTo(i)
    PROVE  StaticTypes'
<1>1. Len(inodes) \in Nat /\ Len(inodes') \in Nat /\ contents \in Nat /\ clock \in Nat /\ clock' = clock
      /\ contents' = contents + 1 /\ inodes' \in Seq(File)
  BY LenProperties DEF WritesTo, StaticTypes
<1>2. \A j \in 1 .. Len(inodes) : inodes[j].content \in Nat /\ inodes[j].content <= contents /\ inodes[j].mtime <= clock
  <2>1. \A j \in 1 .. Len(inodes) : inodes[j] \in File
    BY ElementOfSeq DEF StaticTypes
  <2> QED
    BY <2>1 DEF StaticTypes, File
<1>3. ASSUME NEW j \in 1 .. Len(inodes') PROVE inodes'[j].content <= contents + 1 /\ inodes'[j].mtime <= clock
  <2>1. CASE j = i
    BY <1>1, <2>1 DEF WritesTo
  <2>2. CASE j # i
    <3>1. j \in 1 .. Len(inodes) /\ inodes'[j] = inodes[j]
      BY <1>1, <2>2 DEF WritesTo
    <3> QED
      BY <1>1, <1>2, <3>1
  <2> QED
    BY <2>1, <2>2
<1> QED
  BY <1>1, <1>3 DEF StaticTypes, WritesTo

LEMMA WriteEntries ==
    ASSUME StaticTypes, MaxPause < Window, Entries, CacheIsTrue, NEW i, WritesTo(i)
    PROVE  Entries' /\ CacheIsTrue'
<1>1. clock \in Nat /\ Window \in Nat /\ Window >= 1
  BY StaticAssumption DEF StaticTypes
<1>2. UNCHANGED <<clock, serving, entries, calls>>
  BY DEF WritesTo
<1>3. Entries'
  BY <1>2 DEF Entries
<1>4. EntriesAreTrue'
  <2> SUFFICES ASSUME NEW n \in FileNames, entries[n].tag # NoTag,
                      entries[n].version = versionOf(inodes'[link'[n]])
               PROVE  entries[n].tag = Octets(inodes'[link'[n]].content, 0, inodes'[link'[n]].size - 1)
    BY <1>2 DEF EntriesAreTrue, versionOf
  <2>1. entries[n].version.mtime \in Nat /\ entries[n].version.mtime + Window <= clock
    BY DEF Entries, Version
  <2>2. inodes'[link'[n]].mtime # clock
    BY <1>1, <2>1 DEF versionOf
  <2>3. link'[n] = link[n] /\ inodes'[link'[n]] = inodes[link[n]]
    BY <2>2 DEF WritesTo
  <2> QED
    BY <2>3 DEF CacheIsTrue, EntriesAreTrue
<1>5. CacheFits' /\ CallsAreLed' /\ WaitersHaveCalls'
  BY <1>2 DEF CacheIsTrue, CacheFits, CallsAreLed, WaitersHaveCalls
<1> QED
  BY <1>3, <1>4, <1>5 DEF CacheIsTrue

LEMMA WriteKeeps ==
    ASSUME StaticIInv, MaxPause < Window, NEW i, WritesTo(i)
    PROVE  StaticIInv'
<1>1. StaticTypes /\ Requested /\ Entries /\ CacheIsTrue /\ serving' = serving
  BY DEF StaticIInv, WritesTo
<1>2. ASSUME NEW c \in Clients PROVE (StatOf(serving[c]) /\ LookupOf(c, serving[c]))'
  <2>1. PICK s : s = serving[c]
    OBVIOUS
  <2>2. StatOf(s) /\ LookupOf(c, s)
    BY <1>1, <2>1 DEF Requested
  <2>3. StatOf(s)' /\ LookupOf(c, s)'
    BY <1>1, <2>2, StatWritten, LookupWritten
  <2> QED
    BY <1>1, <2>1, <2>3 DEF StatOf, LookupOf, Fresh, TagSoFar
<1>3. Requested'
  BY <1>2 DEF Requested
<1> QED
  BY <1>1, <1>3, WriteTypes, WriteEntries DEF StaticIInv

\* The clock moves on: what was settled stays so, and the guard keeps the stats recent.
LEMMA TickKeeps ==
    ASSUME StaticIInv, Tick
    PROVE  StaticIInv'
<1>1. clock' = clock + 1 /\ clock \in Nat /\ Window \in Nat /\ MaxPause \in Nat
      /\ UNCHANGED <<contents, inodes, link, entries, calls, serving>>
  BY StaticAssumption DEF Tick, StaticIInv, StaticTypes
<1>2. StaticTypes'
  <2>1. \A i \in 1 .. Len(inodes) : inodes[i] \in File
    BY ElementOfSeq DEF StaticIInv, StaticTypes
  <2>2. \A i \in 1 .. Len(inodes) : inodes[i].mtime <= clock + 1
    BY <1>1, <2>1 DEF StaticIInv, StaticTypes, File
  <2> QED
    BY <1>1, <2>2 DEF StaticIInv, StaticTypes
<1>3. Entries'
  BY <1>1 DEF StaticIInv, Entries, Version
<1>4. CacheIsTrue'
  BY <1>1 DEF StaticIInv, CacheIsTrue, EntriesAreTrue, CacheFits, CallsAreLed, WaitersHaveCalls
<1>5. ASSUME NEW c \in Clients PROVE (StatOf(serving[c]) /\ LookupOf(c, serving[c]))'
  <2> DEFINE s == serving[c]
  <2>1. StatOf(s) /\ LookupOf(c, s)
    BY DEF StaticIInv, Requested
  <2>2. s.phase = "opened" => clock - s.opened < MaxPause
    BY DEF Tick
  <2>3. StatOf(s)'
    <3> SUFFICES ASSUME s.phase = "opened" PROVE StatOf(s)'
      BY <1>1 DEF StatOf
    <3>1. s.opened \in Nat /\ s.opened <= clock
      BY <1>1, <2>1 DEF StatOf
    <3>2. s.opened \in 0 .. clock + 1 /\ clock + 1 <= s.opened + MaxPause
      BY <1>1, <2>2, <3>1
    <3> QED
      BY <1>1, <2>1, <3>2 DEF StatOf, Fresh
  <2>4. LookupOf(c, s)'
    <3> SUFFICES ASSUME s.phase \in {"waiting", "hashing"}, s.call # "none", s.version.mtime + Window <= clock,
                        s.version.mtime \in Nat
                 PROVE  s.version.mtime + Window <= clock + 1
      BY <1>1, <2>1 DEF LookupOf, Fresh, TagSoFar, Version
    <3> QED
      BY <1>1
  <2> QED
    BY <2>3, <2>4
<1>6. Requested'
  BY <1>5 DEF Requested
<1> QED
  BY <1>2, <1>3, <1>4, <1>6 DEF StaticIInv

-----------------------------------------------------------------------------
\* A step of a request, and of those that wait for it, leaves the file system alone.
FilesStand == UNCHANGED <<clock, contents, inodes, link>>

LEMMA ServingTypes ==
    ASSUME StaticTypes, FilesStand, DOMAIN serving' = Clients, \A c \in Clients : DOMAIN serving'[c] = DOMAIN Idle,
           DOMAIN entries' = FileNames, \A k \in calls' : k.by \in Clients
    PROVE  StaticTypes'
  BY DEF StaticTypes, FilesStand

\* Requests that have moved are as the file system allows now, the others as before.
LEMMA ServingRequests ==
    ASSUME Requested, FilesStand,
           \A c \in Clients : \/ serving'[c] = serving[c]
                              \/ StatOf(serving'[c]) /\ LookupOf(c, serving'[c])
    PROVE  Requested'
<1>1. ASSUME NEW c \in Clients PROVE (StatOf(serving[c]) /\ LookupOf(c, serving[c]))'
  <2>1. PICK s : s = serving'[c]
    OBVIOUS
  <2>2. StatOf(s) /\ LookupOf(c, s)
    BY <2>1 DEF Requested
  <2> QED
    BY <2>1, <2>2 DEF StatOf, LookupOf, Fresh, TagSoFar, FilesStand
<1> QED
  BY <1>1 DEF Requested

\* A request that waits has a call to wait for.
Awaits(t) == t.phase = "waiting" => \E k \in calls : k.by = t.call /\ k.key = keyOf(t.name, t.version)

\* Who runs a hash runs it still; who waits now waited before, or has a call to wait for.
Agrees(s, t) == t.phase = s.phase /\ t.call = s.call /\ t.name = s.name /\ t.version = s.version

LEMMA ServingCalls ==
    ASSUME StaticTypes, CallsAreLed, WaitersHaveCalls, calls' = calls,
           \A c \in Clients : \/ Agrees(serving[c], serving'[c])
                              \/ serving[c].phase # "hashing" /\ Awaits(serving'[c])
    PROVE  CallsAreLed' /\ WaitersHaveCalls'
<1>1. ASSUME NEW k \in calls
      PROVE  /\ serving'[k.by].phase = "hashing" /\ serving'[k.by].call = k.by
             /\ k.key = keyOf(serving'[k.by].name, serving'[k.by].version)
  <2>1. k.by \in Clients /\ serving[k.by].phase = "hashing" /\ serving[k.by].call = k.by
        /\ k.key = keyOf(serving[k.by].name, serving[k.by].version)
    BY DEF StaticTypes, CallsAreLed
  <2>2. Agrees(serving[k.by], serving'[k.by])
    BY <2>1
  <2> QED
    BY <2>1, <2>2 DEF Agrees
<1>2. CallsAreLed'
  BY <1>1 DEF CallsAreLed, keyOf
<1>3. ASSUME NEW c \in Clients, serving'[c].phase = "waiting"
      PROVE  \E k \in calls : /\ k.by = serving'[c].call
                              /\ k.key = keyOf(serving'[c].name, serving'[c].version)
  <2>1. CASE Agrees(serving[c], serving'[c])
    <3>1. serving[c].phase = "waiting"
      BY <1>3, <2>1 DEF Agrees
    <3> QED
      BY <2>1, <3>1 DEF Agrees, WaitersHaveCalls
  <2>2. CASE Awaits(serving'[c])
    BY <1>3, <2>2 DEF Awaits
  <2> QED
    BY <2>1, <2>2
<1>4. WaitersHaveCalls'
  BY <1>3 DEF WaitersHaveCalls, keyOf
<1> QED
  BY <1>2, <1>4

\* One request moves, and the cache is not written.
LEMMA OneMoves ==
    ASSUME StaticIInv, FilesStand, entries' = entries, calls' = calls, NEW c \in Clients, NEW t,
           serving' = [serving EXCEPT ![c] = t], DOMAIN t = DOMAIN Idle, StatOf(t), LookupOf(c, t),
           Agrees(serving[c], t) \/ (serving[c].phase # "hashing" /\ Awaits(t))
    PROVE  StaticIInv'
<1>1. StaticTypes /\ Requested /\ Entries /\ CacheIsTrue /\ DOMAIN serving = Clients
      /\ \A d \in Clients : DOMAIN serving[d] = DOMAIN Idle
  BY DEF StaticIInv, StaticTypes
<1>2. \A d \in Clients : serving'[d] = IF d = c THEN t ELSE serving[d]
  BY <1>1
<1>3. StaticTypes'
  <2>1. DOMAIN serving' = Clients /\ \A d \in Clients : DOMAIN serving'[d] = DOMAIN Idle
    BY <1>1, <1>2
  <2>2. DOMAIN entries' = FileNames /\ \A k \in calls' : k.by \in Clients
    BY <1>1 DEF StaticTypes
  <2> QED
    BY <1>1, <2>1, <2>2, ServingTypes
<1>4. Requested'
  <2>1. \A d \in Clients : serving'[d] = serving[d] \/ (StatOf(serving'[d]) /\ LookupOf(d, serving'[d]))
    BY <1>2
  <2> QED
    BY <1>1, <2>1, ServingRequests
<1>5. CallsAreLed' /\ WaitersHaveCalls'
  <2>1. \A d \in Clients : \/ Agrees(serving[d], serving'[d])
                           \/ serving[d].phase # "hashing" /\ Awaits(serving'[d])
    BY <1>2 DEF Agrees
  <2> QED
    BY <1>1, <2>1, ServingCalls DEF CacheIsTrue
<1>6. Entries' /\ EntriesAreTrue' /\ CacheFits'
  BY <1>1 DEF FilesStand, Entries, EntriesAreTrue, CacheFits, CacheIsTrue
<1> QED
  BY <1>3, <1>4, <1>5, <1>6 DEF StaticIInv, CacheIsTrue

-----------------------------------------------------------------------------
(* One lemma per action of a request. *)

LEMMA AnsweringMoves ==
    ASSUME NEW c, NEW t, Answering(t)
    PROVE  StatOf(t) /\ LookupOf(c, t) /\ Awaits(t)
  BY DEF Answering, StatOf, LookupOf, Awaits

LEMMA OpenKeeps ==
    ASSUME StaticIInv, NEW c \in Clients, NEW r, Open(c, r)
    PROVE  StaticIInv'
<1> DEFINE name == FileOf(r)
           file == inodes[link[name]]
           opened == [Idle EXCEPT !.request = r, !.phase = "opened", !.name = name, !.inode = link[name],
                                  !.version = versionOf(file), !.opened = clock, !.content = file.content]
           t == IF ~Serves(r) THEN Answered(Idle, Refusal(r)) ELSE opened
<1>1. serving[c].phase # "hashing" /\ serving' = [serving EXCEPT ![c] = t]
      /\ FilesStand /\ entries' = entries /\ calls' = calls
  BY DEF Open, FilesStand
<1>2. CASE ~Serves(r)
  <2>1. Answering(t)
    BY <1>2, ServingShape DEF Answering, Answered, Idle
  <2> HIDE DEF t
  <2>2. StatOf(t) /\ LookupOf(c, t) /\ Awaits(t) /\ DOMAIN t = DOMAIN Idle
    BY <2>1, AnsweringMoves DEF Answering
  <2> QED
    BY <1>1, <2>2, OneMoves
<1>3. CASE Serves(r)
  <2>1. name \in FileNames /\ clock \in Nat /\ MaxPause \in Nat
    BY <1>3, StaticAssumption DEF Serves, StaticIInv, StaticTypes
  <2>2. link[name] \in 1 .. Len(inodes) /\ file \in File /\ file.content <= contents /\ file.mtime <= clock
    <3>1. link[name] \in 1 .. Len(inodes) /\ inodes \in Seq(File)
      BY <2>1 DEF StaticIInv, StaticTypes
    <3> QED
      BY <3>1, ElementOfSeq DEF StaticIInv, StaticTypes
  <2>3. t = opened
    BY <1>3
  <2>4. /\ t.phase = "opened" /\ t.name = name /\ t.inode = link[name] /\ t.version = versionOf(file)
        /\ t.opened = clock /\ t.content = file.content /\ t.call = "none" /\ DOMAIN t = DOMAIN Idle
    <3>1. Idle.call = "none"
      BY DEF Idle
    <3> HIDE DEF t, name, file
    <3> QED
      BY <2>3, <3>1, ServingShape
  <2> HIDE DEF t, opened
  <2>5. versionOf(file) \in Version /\ versionOf(file).mtime = file.mtime /\ file.content \in 0 .. contents
    BY <2>2 DEF File, Version, versionOf, StaticIInv, StaticTypes
  <2>6. Fresh(t, clock)
    BY <2>1, <2>2, <2>4, <2>5 DEF Fresh
  <2>7. StatOf(t)
    <3>1. clock \in 0 .. clock /\ clock <= clock + MaxPause
      BY <2>1
    <3> QED
      BY <2>2, <2>4, <2>5, <2>6, <3>1 DEF StatOf
  <2>8. LookupOf(c, t) /\ Awaits(t)
    BY <2>4 DEF LookupOf, Awaits
  <2> HIDE DEF name, file
  <2> QED
    BY <1>1, <2>4, <2>7, <2>8, OneMoves
<1> QED
  BY <1>2, <1>3

LEMMA HashOctetKeeps ==
    ASSUME StaticIInv, NEW c \in Clients, HashOctet(c)
    PROVE  StaticIInv'
<1> DEFINE s == serving[c]
           octet == <<inodes[s.inode].content, Len(s.tag) + 1>>
           t == [s EXCEPT !.tag = Append(s.tag, octet)]
<1>1. /\ s.phase = "hashing" /\ ~AtEnd(s) /\ DOMAIN s = DOMAIN Idle /\ StatOf(s) /\ LookupOf(c, s)
      /\ FilesStand /\ entries' = entries /\ calls' = calls
  BY DEF HashOctet, StaticIInv, StaticTypes, Requested, FilesStand
<1>2. serving' = [serving EXCEPT ![c] = t]
  BY <1>1, ServingShape DEF HashOctet, StaticIInv, StaticTypes
<1>3. /\ DOMAIN t = DOMAIN Idle /\ Agrees(s, t) /\ t.tag = Append(s.tag, octet)
      /\ t.inode = s.inode /\ t.content = s.content
  BY <1>1, ServingShape DEF Agrees
<1>4. StatOf(t)
  BY <1>1, <1>3 DEF StatOf, Agrees
<1>5. ASSUME s.call = c PROVE TagSoFar(t)
  <2>1. c # "none"
    BY StaticAssumption
  <2>2. Fresh(s, s.version.mtime + 1) /\ TagSoFar(s)
    BY <1>1, <1>5, <2>1 DEF LookupOf
  <2>3. s.tag \in Seq(Octet) /\ s.inode \in 1 .. Len(inodes) /\ inodes[s.inode] \in File /\ s.version \in Version
    <3>1. s.inode \in 1 .. Len(inodes) /\ inodes \in Seq(File)
      BY <2>2 DEF Fresh, StaticIInv, StaticTypes
    <3> QED
      BY <2>2, <3>1, ElementOfSeq DEF Fresh, TagSoFar
  <2> DEFINE l == Len(s.tag)
  <2>4. l \in Nat
    BY <2>3, LenProperties
  <2>5. octet \in Octet
    BY <2>3, <2>4 DEF File, Octet
  <2>6. /\ t.tag \in Seq(Octet) /\ Len(t.tag) = l + 1 /\ t.tag[l + 1] = octet
        /\ \A i \in 1 .. l : t.tag[i] = s.tag[i]
    BY <1>3, <2>3, <2>5, AppendProperties
  <2>7. ~(l >= s.version.size)
    BY <1>1 DEF AtEnd
  <2>8. ASSUME inodes[s.inode].content = s.content
        PROVE  l + 1 <= s.version.size /\ \A i \in 1 .. l + 1 : t.tag[i] = <<s.content, i>>
    <3>1. l + 1 <= s.version.size
      BY <2>3, <2>4, <2>7 DEF Version
    <3>2. \A i \in 1 .. l : s.tag[i] = <<s.content, i>>
      BY <2>2, <2>8 DEF TagSoFar
    <3>3. octet = <<s.content, l + 1>>
      BY <2>8
    <3> HIDE DEF l, octet, s, t
    <3>4. ASSUME NEW i \in 1 .. l + 1 PROVE t.tag[i] = <<s.content, i>>
      <4>1. CASE i = l + 1
        BY <2>6, <3>3, <4>1
      <4>2. CASE i # l + 1
        <5>1. i \in 1 .. l
          BY <2>4, <4>2
        <5> QED
          BY <2>6, <3>2, <5>1
      <4> QED
        BY <4>1, <4>2
    <3> QED
      BY <3>1, <3>4
  <2>9. t.version = s.version
    BY <1>3 DEF Agrees
  <2> HIDE DEF l, octet, s, t
  <2> QED
    BY <1>3, <2>6, <2>8, <2>9 DEF TagSoFar
<1>6. LookupOf(c, t)
  <2> HIDE DEF t, octet, s
  <2>1. t.phase = s.phase /\ t.call = s.call /\ t.name = s.name /\ t.version = s.version
    BY <1>3 DEF Agrees
  <2>2. ASSUME NEW since, Fresh(s, since) PROVE Fresh(t, since)
    BY <1>3, <2>1, <2>2 DEF Fresh
  <2> QED
    BY <1>1, <1>5, <2>1, <2>2 DEF LookupOf
<1> HIDE DEF t, octet
<1> QED
  BY <1>1, <1>2, <1>3, <1>4, <1>6, OneMoves

LEMMA SendKeeps ==
    ASSUME StaticIInv, NEW c \in Clients, SendOctet(c) \/ SendFails(c) \/ SendEnd(c)
    PROVE  StaticIInv'
<1> DEFINE s == serving[c]
<1>1. s.phase = "sending" /\ DOMAIN s = DOMAIN Idle /\ FilesStand /\ entries' = entries /\ calls' = calls
  BY DEF SendOctet, SendFails, SendEnd, StaticIInv, StaticTypes, FilesStand
<1>2. ASSUME NEW t, DOMAIN t = DOMAIN Idle, t.phase \in {"sending", "done"}, serving' = [serving EXCEPT ![c] = t]
      PROVE  StaticIInv'
  <2>1. StatOf(t) /\ LookupOf(c, t) /\ Awaits(t)
    BY <1>2 DEF StatOf, LookupOf, Awaits
  <2> QED
    BY <1>1, <1>2, <2>1, OneMoves
<1>3. CASE SendEnd(c)
  <2> DEFINE t == Finish(s, s.status)
  <2>1. serving' = [serving EXCEPT ![c] = t]
    BY <1>3 DEF SendEnd
  <2>2. DOMAIN t = DOMAIN Idle /\ t.phase = "done"
    BY <1>1, ServingShape DEF Finish, Answered
  <2> HIDE DEF t
  <2> QED
    BY <1>2, <2>1, <2>2
<1>4. CASE SendOctet(c)
  <2> DEFINE span == s.spans[1]
             rest == IF span.first = span.last THEN Tail(s.spans)
                     ELSE <<[span EXCEPT !.first = @ + 1]>> \o Tail(s.spans)
             t == IF span.first >= inodes[s.inode].size THEN [s EXCEPT !.spans = Tail(@)]
                  ELSE [s EXCEPT !.spans = rest,
                                 !.body = Append(@, <<inodes[s.inode].content, span.first + 1>>)]
  <2>1. serving' = [serving EXCEPT ![c] = t]
    BY <1>4 DEF SendOctet
  <2>2. DOMAIN t = DOMAIN Idle /\ t.phase = "sending"
    <3> HIDE DEF span, rest
    <3> QED
      BY <1>1, ServingShape
  <2> HIDE DEF t
  <2> QED
    BY <1>2, <2>1, <2>2
<1>5. CASE SendFails(c)
  <2> DEFINE t == [s EXCEPT !.spans = <<>>, !.cut = TRUE]
  <2>1. serving' = [serving EXCEPT ![c] = t]
    BY <1>1, <1>5, ServingShape DEF SendFails, StaticIInv, StaticTypes
  <2>2. DOMAIN t = DOMAIN Idle /\ t.phase = "sending"
    BY <1>1, ServingShape
  <2> HIDE DEF t
  <2> QED
    BY <1>2, <2>1, <2>2
<1> QED
  BY <1>3, <1>4, <1>5

LEMMA LookKeeps ==
    ASSUME StaticIInv, MaxPause < Window, NEW c \in Clients, Look(c)
    PROVE  StaticIInv'
<1> DEFINE s == [serving[c] EXCEPT !.opened = 0, !.mod = modTime(serving[c].version.mtime, clock)]
           key == keyOf(s.name, s.version)
           e == entries[s.name]
           hashing == [s EXCEPT !.phase = "hashing", !.tag = <<>>]
           waiting(k) == [s EXCEPT !.phase = "waiting", !.call = k.by]
           leading == [s EXCEPT !.phase = "hashing", !.call = c, !.tag = <<>>]
<1>1. /\ serving[c].phase = "opened" /\ FilesStand /\ entries' = entries
      /\ StatOf(serving[c]) /\ DOMAIN serving[c] = DOMAIN Idle
  <2>1. StatOf(serving[c]) /\ DOMAIN serving[c] = DOMAIN Idle
    BY DEF StaticIInv, StaticTypes, Requested
  <2>2. s.phase = serving[c].phase
    BY <2>1, ServingShape
  <2>3. s.phase = "opened" /\ UNCHANGED <<clock, contents, inodes, link, entries>>
    BY DEF Look
  <2> QED
    BY <2>1, <2>2, <2>3 DEF FilesStand
<1>2. /\ DOMAIN s = DOMAIN Idle /\ s.name = serving[c].name /\ s.version = serving[c].version
      /\ s.inode = serving[c].inode /\ s.content = serving[c].content /\ s.call = serving[c].call
  BY <1>1, ServingShape
<1>3. \/ serving' = [serving EXCEPT ![c] = hashing] /\ calls' = calls
      \/ serving' = [serving EXCEPT ![c] = Judged(s, e.tag)] /\ calls' = calls
      \/ /\ settled(s.version, clock) /\ calls' = calls
         /\ \E k \in calls : k.key = key /\ serving' = [serving EXCEPT ![c] = waiting(k)]
      \/ /\ settled(s.version, clock) /\ calls' = calls \cup {[key |-> key, by |-> c]}
         /\ \A k \in calls : k.key # key
         /\ serving' = [serving EXCEPT ![c] = leading]
  BY DEF Look
<1>4. /\ serving[c].opened \in Nat /\ clock \in Nat /\ clock <= serving[c].opened + MaxPause
      /\ Fresh(serving[c], serving[c].opened) /\ s.call = "none"
      /\ s.version \in Version /\ MaxPause \in Nat /\ Window \in Nat
  BY <1>1, <1>2, StaticAssumption DEF StatOf, Fresh, StaticIInv, StaticTypes
<1>5. ASSUME settled(s.version, clock) PROVE s.version.mtime + Window <= clock /\ Fresh(s, s.version.mtime + 1)
  <2>1. s.version.mtime \in Nat
    BY <1>4 DEF Version
  <2>2. clock - s.version.mtime >= Window
    BY <1>5 DEF settled
  <2>3. s.version.mtime + Window <= clock /\ s.version.mtime + 1 <= serving[c].opened
    BY <1>4, <2>1, <2>2
  <2>4. inodes[link[s.name]].mtime \in Nat /\ inodes[s.inode].mtime \in Nat
    <3>1. link[s.name] \in 1 .. Len(inodes) /\ s.inode \in 1 .. Len(inodes) /\ inodes \in Seq(File)
      BY <1>2, <1>4 DEF Fresh, StaticIInv, StaticTypes
    <3>2. inodes[link[s.name]] \in File /\ inodes[s.inode] \in File
      BY <3>1, ElementOfSeq
    <3> QED
      BY <3>2 DEF File
  <2>5. Fresh(s, s.version.mtime + 1)
    <3> DEFINE since == serving[c].opened
    <3> HIDE DEF s, since
    <3>1. /\ s.name \in FileNames /\ s.inode \in 1 .. Len(inodes) /\ s.content \in 0 .. contents
          /\ link[s.name] = s.inode \/ inodes[link[s.name]].mtime >= since
          /\ \/ versionOf(inodes[s.inode]) = s.version /\ inodes[s.inode].content = s.content
             \/ inodes[s.inode].mtime >= since /\ inodes[s.inode].content # s.content
      BY <1>2, <1>4 DEF Fresh, since
    <3>2. \A m \in Nat : m >= since => m >= s.version.mtime + 1
      BY <1>4, <2>1, <2>3 DEF since
    <3> QED
      BY <1>4, <2>4, <3>1, <3>2 DEF Fresh
  <2> QED
    BY <2>3, <2>5
<1>6. CASE serving' = [serving EXCEPT ![c] = hashing] /\ calls' = calls
  <2> DEFINE t == hashing
  <2>1. DOMAIN t = DOMAIN Idle /\ t.phase = "hashing" /\ t.call = "none"
    BY <1>2, <1>4, ServingShape
  <2> HIDE DEF t, s
  <2>2. StatOf(t) /\ LookupOf(c, t) /\ Awaits(t)
    <3>1. c # "none"
      BY StaticAssumption
    <3> QED
      BY <2>1, <3>1 DEF StatOf, LookupOf, Awaits
  <2>3. serving' = [serving EXCEPT ![c] = t]
    BY <1>6 DEF t
  <2> QED
    BY <1>1, <1>6, <2>1, <2>2, <2>3, OneMoves
<1>7. CASE serving' = [serving EXCEPT ![c] = Judged(s, e.tag)] /\ calls' = calls
  <2> DEFINE t == Judged(s, e.tag)
  <2>1. Answering(t)
    BY <1>2, JudgedIs
  <2> HIDE DEF t, s
  <2>2. StatOf(t) /\ LookupOf(c, t) /\ Awaits(t) /\ DOMAIN t = DOMAIN Idle
    BY <2>1, AnsweringMoves DEF Answering
  <2>3. serving' = [serving EXCEPT ![c] = t]
    BY <1>7 DEF t
  <2> QED
    BY <1>1, <1>7, <2>2, <2>3, OneMoves
<1>8. ASSUME settled(s.version, clock), calls' = calls, NEW k \in calls, k.key = key,
             serving' = [serving EXCEPT ![c] = waiting(k)]
      PROVE  StaticIInv'
  <2> DEFINE t == waiting(k)
  <2>1. /\ DOMAIN t = DOMAIN Idle /\ t.phase = "waiting" /\ t.call = k.by
        /\ t.name = s.name /\ t.version = s.version /\ t.inode = s.inode /\ t.content = s.content
    BY <1>2, ServingShape
  <2>2. s.version.mtime + Window <= clock /\ Fresh(s, s.version.mtime + 1)
    BY <1>5, <1>8
  <2> HIDE DEF t, s
  <2>3. StatOf(t) /\ LookupOf(c, t)
    BY <2>1, <2>2 DEF StatOf, LookupOf, Fresh
  <2>4. Awaits(t)
    BY <1>8, <2>1 DEF Awaits
  <2>5. serving' = [serving EXCEPT ![c] = t]
    BY <1>8 DEF t
  <2> QED
    BY <1>1, <1>8, <2>1, <2>3, <2>4, <2>5, OneMoves
<1>9. CASE /\ settled(s.version, clock) /\ calls' = calls \cup {[key |-> key, by |-> c]}
           /\ \A k \in calls : k.key # key
           /\ serving' = [serving EXCEPT ![c] = leading]
  <2> DEFINE t == leading
             new == [key |-> key, by |-> c]
  <2>1. /\ DOMAIN t = DOMAIN Idle /\ t.phase = "hashing" /\ t.call = c /\ t.tag = <<>>
        /\ t.name = s.name /\ t.version = s.version /\ t.inode = s.inode /\ t.content = s.content
    BY <1>2, ServingShape
  <2>2. s.version.mtime + Window <= clock /\ Fresh(s, s.version.mtime + 1)
    BY <1>5, <1>9
  <2>3. serving' = [serving EXCEPT ![c] = t] /\ calls' = calls \cup {new} /\ new.key = key /\ new.by = c
        /\ \A k \in calls : k.key # key
    BY <1>9
  <2> HIDE DEF t, s, new
  <2>4. TagSoFar(t)
    <3>1. <<>> \in Seq(Octet) /\ Len(<<>>) = 0
      BY EmptySeq
    <3> QED
      BY <1>4, <2>1, <3>1 DEF TagSoFar, Version
  <2>5. StatOf(t) /\ LookupOf(c, t)
    BY <2>1, <2>2, <2>4 DEF StatOf, LookupOf, Fresh
  <2>6. /\ DOMAIN serving = Clients /\ \A d \in Clients : serving'[d] = IF d = c THEN t ELSE serving[d]
    BY <2>3 DEF StaticIInv, StaticTypes
  <2>7. StaticTypes'
    <3>1. DOMAIN serving' = Clients /\ \A d \in Clients : DOMAIN serving'[d] = DOMAIN Idle
      BY <2>1, <2>3, <2>6 DEF StaticIInv, StaticTypes
    <3>2. DOMAIN entries' = FileNames /\ \A k \in calls' : k.by \in Clients
      BY <1>1, <2>3 DEF StaticIInv, StaticTypes
    <3> QED
      BY <1>1, <3>1, <3>2, ServingTypes DEF StaticIInv
  <2>8. Requested'
    <3>1. \A d \in Clients : serving'[d] = serving[d] \/ (StatOf(serving'[d]) /\ LookupOf(d, serving'[d]))
      BY <2>5, <2>6
    <3> QED
      BY <1>1, <3>1, ServingRequests DEF StaticIInv
  <2>9. ASSUME NEW k \in calls
        PROVE  /\ k.by # c /\ serving'[k.by] = serving[k.by] /\ k.key # key
               /\ serving[k.by].phase = "hashing" /\ serving[k.by].call = k.by
               /\ k.key = keyOf(serving[k.by].name, serving[k.by].version)
               /\ \A l \in calls : k.key = l.key => k = l
    <3>1. k.by \in Clients /\ serving[k.by].phase = "hashing"
      BY DEF StaticIInv, StaticTypes, CacheIsTrue, CallsAreLed
    <3>2. k.by # c
      BY <1>1, <3>1
    <3> QED
      BY <2>3, <2>6, <3>1, <3>2 DEF StaticIInv, CacheIsTrue, CallsAreLed
  <2>10. CallsAreLed'
    <3> SUFFICES ASSUME NEW k \in calls'
                 PROVE  /\ serving'[k.by].phase = "hashing" /\ serving'[k.by].call = k.by
                        /\ k.key = keyOf(serving'[k.by].name, serving'[k.by].version)
                        /\ \A l \in calls' : k.key = l.key => k = l
      BY DEF CallsAreLed, keyOf
    <3>1. CASE k \in calls
      <4>1. \A l \in calls' : k.key = l.key => k = l
        BY <2>3, <2>9, <3>1
      <4> QED
        BY <2>9, <3>1, <4>1
    <3>2. CASE k = new
      <4>1. \A l \in calls' : k.key = l.key => k = l
        BY <2>3, <3>2
      <4> QED
        BY <2>1, <2>3, <2>6, <3>2, <4>1 DEF key
    <3> QED
      BY <2>3, <3>1, <3>2
  <2>11. WaitersHaveCalls'
    <3> SUFFICES ASSUME NEW d \in Clients, serving'[d].phase = "waiting"
                 PROVE  \E k \in calls' : /\ k.by = serving'[d].call
                                          /\ k.key = keyOf(serving'[d].name, serving'[d].version)
      BY DEF WaitersHaveCalls, keyOf
    <3>1. serving'[d] = serving[d]
      BY <2>1, <2>6
    <3> QED
      BY <2>3, <3>1 DEF StaticIInv, CacheIsTrue, WaitersHaveCalls
  <2>12. Entries' /\ EntriesAreTrue' /\ CacheFits'
    BY <1>1 DEF FilesStand, Entries, EntriesAreTrue, CacheFits, CacheIsTrue, StaticIInv
  <2> QED
    BY <2>7, <2>8, <2>10, <2>11, <2>12 DEF StaticIInv, CacheIsTrue
<1> HIDE DEF s, key, hashing, leading, waiting, e
<1> QED
  BY <1>3, <1>6, <1>7, <1>8, <1>9

\* What is stored is the new entry, in the place of one that was there if the cache is full.
LEMMA StoredIs ==
    ASSUME DOMAIN entries = FileNames, CacheFits, NEW name \in FileNames, NEW e, e.tag # NoTag,
           entries' \in Stored(name, e)
    PROVE  /\ DOMAIN entries' = FileNames /\ CacheFits'
           /\ \A n \in FileNames : \/ entries'[n] \in {entries[n], NoEntry}
                                   \/ n = name /\ entries'[n] = e
<1> DEFINE held == {n \in FileNames : entries[n].tag # NoTag}
           held2 == {n \in FileNames : entries'[n].tag # NoTag}
<1>1. IsFiniteSet(held) /\ Cardinality(held) \in Nat /\ Cardinality(held) <= limit /\ limit \in Nat
  BY StaticAssumption, FS_Subset, FS_CardinalityType DEF CacheFits
<1>2. NoEntry.tag = NoTag
  BY DEF NoEntry
<1>3. \/ limit = 0 /\ entries' = entries
      \/ name \in held /\ entries' = [entries EXCEPT ![name] = e]
      \/ Cardinality(held) < limit /\ entries' = [entries EXCEPT ![name] = e]
      \/ /\ name \notin held
         /\ \E n \in held : entries' = [entries EXCEPT ![n] = NoEntry, ![name] = e]
  BY DEF Stored
<1>4. CASE entries' = entries
  BY <1>4 DEF CacheFits
<1>5. CASE /\ entries' = [entries EXCEPT ![name] = e]
           /\ name \in held \/ Cardinality(held) < limit
  <2>1. DOMAIN entries' = FileNames /\ \A n \in FileNames : entries'[n] = IF n = name THEN e ELSE entries[n]
    BY <1>5
  <2>2. held2 = held \cup {name}
    BY <2>1
  <2> HIDE DEF held, held2
  <2>3. Cardinality(held \cup {name}) = IF name \in held THEN Cardinality(held) ELSE Cardinality(held) + 1
    BY <1>1, FS_AddElement, Zenon
  <2>4. Cardinality(held2) <= limit
    BY <1>1, <1>5, <2>2, <2>3
  <2> QED
    BY <2>1, <2>4 DEF CacheFits, held2
<1>6. ASSUME name \notin held, NEW n \in held, entries' = [entries EXCEPT ![n] = NoEntry, ![name] = e]
      PROVE  /\ DOMAIN entries' = FileNames /\ CacheFits'
             /\ \A m \in FileNames : entries'[m] \in {entries[m], NoEntry} \/ (m = name /\ entries'[m] = e)
  <2>1. /\ DOMAIN entries' = FileNames
        /\ \A m \in FileNames : entries'[m] = IF m = name THEN e ELSE IF m = n THEN NoEntry ELSE entries[m]
    BY <1>6
  <2>2. held2 = (held \ {n}) \cup {name} /\ n \in held /\ name \notin held \ {n}
    BY <1>2, <1>6, <2>1
  <2> HIDE DEF held, held2
  <2>3. IsFiniteSet(held \ {n}) /\ Cardinality(held \ {n}) = Cardinality(held) - 1
    BY <1>1, <2>2, FS_RemoveElement
  <2>4. Cardinality(held2) = Cardinality(held \ {n}) + 1
    BY <2>2, <2>3, FS_AddElement
  <2>5. Cardinality(held2) <= limit
    BY <1>1, <2>3, <2>4
  <2> QED
    BY <2>1, <2>5 DEF CacheFits, held2
<1> HIDE DEF held
<1> QED
  BY <1>3, <1>4, <1>5, <1>6

\* The tag of a hash that has come to its end is that of what the file holds, if the file
\* has that version still.
LEMMA WholeTag ==
    ASSUME StaticTypes, NEW s, Fresh(s, s.version.mtime + 1), TagSoFar(s), AtEnd(s),
           s.version = versionOf(inodes[link[s.name]])
    PROVE  s.tag = Octets(inodes[link[s.name]].content, 0, inodes[link[s.name]].size - 1)
<1> DEFINE f == inodes[link[s.name]]
           g == inodes[s.inode]
<1>1. f \in File /\ g \in File
  <2>1. link[s.name] \in 1 .. Len(inodes) /\ s.inode \in 1 .. Len(inodes) /\ inodes \in Seq(File)
    BY DEF Fresh, StaticTypes
  <2> QED
    BY <2>1, ElementOfSeq
<1>2. s.version.mtime = f.mtime /\ s.version.size = f.size
  BY DEF versionOf
<1>3. link[s.name] = s.inode
  BY <1>1, <1>2 DEF Fresh, File
<1>4. g.content = s.content
  BY <1>1, <1>2, <1>3 DEF Fresh, File
<1>5. /\ s.tag \in Seq(Octet) /\ Len(s.tag) \in Nat /\ Len(s.tag) <= f.size /\ Len(s.tag) >= f.size
      /\ \A i \in 1 .. Len(s.tag) : s.tag[i] = <<f.content, i>>
  BY <1>1, <1>2, <1>3, <1>4, LenProperties DEF TagSoFar, AtEnd, File
<1>6. f.size \in Nat /\ Len(s.tag) = f.size
  BY <1>1, <1>5 DEF File
<1>7. s.tag = [i \in 1 .. f.size |-> <<f.content, i>>]
  <2>1. DOMAIN s.tag = 1 .. f.size /\ s.tag = [i \in DOMAIN s.tag |-> s.tag[i]]
    BY <1>5, <1>6, LenProperties
  <2> HIDE DEF f
  <2> QED
    BY <1>5, <1>6, <2>1
<1>8. Octets(f.content, 0, f.size - 1) = [i \in 1 .. f.size |-> <<f.content, i>>]
  <2> HIDE DEF f
  <2>1. f.size - 1 - 0 + 1 = f.size /\ \A i \in 1 .. f.size : 0 + i = i
    BY <1>6
  <2> QED
    BY <2>1 DEF Octets
<1> QED
  BY <1>7, <1>8

LEMMA HashEndsKeeps ==
    ASSUME StaticIInv, MaxPause < Window, NEW c \in Clients, NEW tag, serving[c].phase = "hashing",
           tag = NoTag \/ (tag = serving[c].tag /\ AtEnd(serving[c])), HashEnds(c, tag)
    PROVE  StaticIInv'
<1> DEFINE s == serving[c]
           Resumes(d) == d = c \/ (serving[d].phase = "waiting" /\ serving[d].call = c)
<1>1. /\ FilesStand /\ calls' = {k \in calls : k.by # c}
      /\ serving' = [d \in Clients |-> IF Resumes(d) THEN Judged(serving[d], tag) ELSE serving[d]]
  BY DEF HashEnds, FilesStand
<1>2. /\ StaticTypes /\ Requested /\ Entries /\ CacheIsTrue /\ c # "none"
      /\ \A d \in Clients : DOMAIN serving[d] = DOMAIN Idle
  BY StaticAssumption DEF StaticIInv, StaticTypes
<1>3. \A d \in Clients : IF Resumes(d) THEN Answering(serving'[d]) ELSE serving'[d] = serving[d]
  BY <1>1, <1>2, JudgedIs
<1>4. \/ entries' = entries
      \/ /\ s.call = c /\ tag # NoTag
         /\ entries' \in Stored(s.name, [version |-> s.version, tag |-> tag])
  BY DEF HashEnds
<1>5. ASSUME s.call = c
      PROVE  Fresh(s, s.version.mtime + 1) /\ s.version.mtime + Window <= clock /\ TagSoFar(s)
  BY <1>2, <1>5 DEF Requested, LookupOf
<1> HIDE DEF Resumes
<1>6. DOMAIN entries' = FileNames /\ CacheFits' /\ Entries' /\ EntriesAreTrue'
  <2>1. CASE entries' = entries
    BY <1>1, <1>2, <2>1 DEF StaticTypes, FilesStand, Entries, EntriesAreTrue, CacheFits, CacheIsTrue
  <2>2. CASE /\ s.call = c /\ tag # NoTag
             /\ entries' \in Stored(s.name, [version |-> s.version, tag |-> tag])
    <3> DEFINE e == [version |-> s.version, tag |-> tag]
    <3>1. /\ s.name \in FileNames /\ s.version \in Version /\ s.version.mtime + Window <= clock
          /\ Fresh(s, s.version.mtime + 1) /\ TagSoFar(s)
          /\ tag = s.tag /\ AtEnd(s) /\ e.version = s.version /\ e.tag = tag
      BY <1>5, <2>2 DEF Fresh
    <3>2. s.version = versionOf(inodes[link[s.name]])
            => tag = Octets(inodes[link[s.name]].content, 0, inodes[link[s.name]].size - 1)
      BY <1>2, <3>1, WholeTag
    <3> HIDE DEF e
    <3>3. /\ DOMAIN entries' = FileNames /\ CacheFits'
          /\ \A n \in FileNames : entries'[n] \in {entries[n], NoEntry} \/ (n = s.name /\ entries'[n] = e)
      <4>1. DOMAIN entries = FileNames /\ CacheFits /\ entries' \in Stored(s.name, e) /\ e.tag # NoTag
        BY <1>2, <2>2, <3>1 DEF StaticTypes, CacheIsTrue, e
      <4> HIDE DEF s
      <4> QED
        BY <3>1, <4>1, StoredIs
    <3>4. NoEntry.tag = NoTag
      BY DEF NoEntry
    <3>5. Entries'
      <4> SUFFICES ASSUME NEW n \in FileNames, entries'[n].tag # NoTag
                   PROVE  entries'[n].version \in Version /\ entries'[n].version.mtime + Window <= clock
        BY <1>1 DEF Entries, FilesStand
      <4>1. entries'[n] = entries[n] \/ entries'[n] = e
        BY <3>3, <3>4
      <4> QED
        BY <1>2, <3>1, <4>1 DEF Entries
    <3>6. EntriesAreTrue'
      <4> SUFFICES ASSUME NEW n \in FileNames, entries'[n].tag # NoTag,
                          entries'[n].version = versionOf(inodes[link[n]])
                   PROVE  entries'[n].tag = Octets(inodes[link[n]].content, 0, inodes[link[n]].size - 1)
        BY <1>1 DEF EntriesAreTrue, FilesStand, versionOf
      <4>1. entries'[n] = entries[n] \/ (n = s.name /\ entries'[n] = e)
        BY <3>3, <3>4
      <4> QED
        BY <1>2, <3>1, <3>2, <4>1 DEF CacheIsTrue, EntriesAreTrue
    <3> QED
      BY <3>3, <3>5, <3>6
  <2> QED
    BY <1>4, <2>1, <2>2
<1>7. StaticTypes'
  <2>1. DOMAIN serving' = Clients /\ \A d \in Clients : DOMAIN serving'[d] = DOMAIN Idle
    <3>1. DOMAIN serving' = Clients
      BY <1>1
    <3> QED
      BY <1>2, <1>3, <3>1 DEF Answering
  <2>2. \A k \in calls' : k.by \in Clients
    BY <1>1, <1>2 DEF StaticTypes
  <2> QED
    BY <1>1, <1>2, <1>6, <2>1, <2>2, ServingTypes
<1>8. Requested'
  <2>1. \A d \in Clients : serving'[d] = serving[d] \/ (StatOf(serving'[d]) /\ LookupOf(d, serving'[d]))
    BY <1>3, AnsweringMoves
  <2> QED
    BY <1>1, <1>2, <2>1, ServingRequests
<1>9. CallsAreLed'
  <2> SUFFICES ASSUME NEW k \in calls'
               PROVE  /\ serving'[k.by].phase = "hashing" /\ serving'[k.by].call = k.by
                      /\ k.key = keyOf(serving'[k.by].name, serving'[k.by].version)
                      /\ \A l \in calls' : k.key = l.key => k = l
    BY DEF CallsAreLed, keyOf
  <2>1. k \in calls /\ k.by # c /\ k.by \in Clients
    BY <1>1, <1>2 DEF StaticTypes
  <2>2. serving[k.by].phase = "hashing"
    BY <1>2, <2>1 DEF CacheIsTrue, CallsAreLed
  <2>3. serving'[k.by] = serving[k.by]
    BY <1>3, <2>1, <2>2 DEF Resumes
  <2> QED
    BY <1>1, <1>2, <2>1, <2>3 DEF CacheIsTrue, CallsAreLed
<1>10. WaitersHaveCalls'
  <2> SUFFICES ASSUME NEW d \in Clients, serving'[d].phase = "waiting"
               PROVE  \E k \in calls' : /\ k.by = serving'[d].call
                                        /\ k.key = keyOf(serving'[d].name, serving'[d].version)
    BY DEF WaitersHaveCalls, keyOf
  <2>1. ~Resumes(d) /\ serving'[d] = serving[d]
    BY <1>3 DEF Answering
  <2>2. serving[d].phase = "waiting" /\ serving[d].call # c
    BY <2>1 DEF Resumes
  <2>3. PICK k \in calls : k.by = serving[d].call /\ k.key = keyOf(serving[d].name, serving[d].version)
    BY <1>2, <2>2 DEF CacheIsTrue, WaitersHaveCalls
  <2> QED
    BY <1>1, <2>1, <2>2, <2>3
<1> QED
  BY <1>6, <1>7, <1>8, <1>9, <1>10 DEF StaticIInv, CacheIsTrue

-----------------------------------------------------------------------------
\* Finitely many names can have an inode each.
LEMMA LinksExist == \E f \in [FileNames -> 1 .. Cardinality(FileNames)] : IsInjective(f)
<1> DEFINE n == Cardinality(FileNames)
<1>1. ExistsBijection(1 .. n, FileNames)
  BY StaticAssumption, FS_CardinalityType
<1>2. PICK g \in [1 .. n -> FileNames] : \A x \in FileNames : \E i \in 1 .. n : g[i] = x
  BY <1>1 DEF ExistsBijection, Bijection, Surjection
<1> DEFINE f == [x \in FileNames |-> CHOOSE i \in 1 .. n : g[i] = x]
<1>3. \A x \in FileNames : f[x] \in 1 .. n /\ g[f[x]] = x
  BY <1>2
<1>4. f \in [FileNames -> 1 .. n]
  BY <1>3
<1>5. IsInjective(f)
  <2> SUFFICES ASSUME NEW a \in FileNames, NEW b \in FileNames, f[a] = f[b] PROVE a = b
    BY <1>4 DEF IsInjective
  <2> QED
    BY <1>3
<1> QED
  BY <1>4, <1>5

LEMMA StaticStarts == StaticInit => StaticIInv
<1> SUFFICES ASSUME StaticInit PROVE StaticIInv
  OBVIOUS
<1> DEFINE n == Cardinality(FileNames)
<1>1. n \in Nat
  BY StaticAssumption, FS_CardinalityType
<1>2. MaxSize \in Nat
  BY StaticAssumption DEF MaxSize
<1>3. link \in [FileNames -> 1 .. n]
  BY LinksExist DEF StaticInit
<1>4. /\ clock = 0 /\ contents = n /\ calls = {}
      /\ inodes = [i \in 1 .. n |-> [content |-> i, size |-> MaxSize, mtime |-> 0]]
      /\ entries = [m \in FileNames |-> NoEntry] /\ serving = [c \in Clients |-> Idle]
  BY DEF StaticInit
<1> HIDE DEF n
<1>5. /\ inodes \in Seq(File) /\ Len(inodes) = n
      /\ \A i \in 1 .. Len(inodes) : inodes[i].content <= contents /\ inodes[i].mtime <= clock
  <2>1. inodes \in [1 .. n -> File]
    BY <1>1, <1>2, <1>4 DEF File
  <2>2. inodes \in Seq(File) /\ Len(inodes) = n
    BY <1>1, <2>1
  <2> QED
    BY <1>1, <1>4, <2>2
<1>6. \A c \in Clients : serving[c] = Idle /\ Idle.phase = "idle"
  BY <1>4 DEF Idle
<1>7. StaticTypes
  BY <1>1, <1>3, <1>4, <1>5, <1>6 DEF StaticTypes
<1>8. Requested
  BY <1>6 DEF Requested, StatOf, LookupOf
<1>9. \A m \in FileNames : entries[m].tag = NoTag
  BY <1>4 DEF NoEntry
<1>10. Entries /\ EntriesAreTrue
  BY <1>9 DEF Entries, EntriesAreTrue
<1>11. CacheFits
  <2>1. {m \in FileNames : entries[m].tag # NoTag} = {}
    BY <1>9
  <2>2. Cardinality({}) = 0 /\ limit \in Nat
    BY StaticAssumption, FS_EmptySet
  <2> QED
    BY <2>1, <2>2 DEF CacheFits
<1>12. CallsAreLed /\ WaitersHaveCalls
  BY <1>4, <1>6 DEF CallsAreLed, WaitersHaveCalls
<1> QED
  BY <1>7, <1>8, <1>10, <1>11, <1>12 DEF StaticIInv, CacheIsTrue

LEMMA StaticSteps == MaxPause < Window /\ StaticIInv /\ [StaticNext]_staticVars => StaticIInv'
<1> SUFFICES ASSUME MaxPause < Window, StaticIInv, [StaticNext]_staticVars PROVE StaticIInv'
  OBVIOUS
<1>1. CASE Tick
  BY <1>1, TickKeeps
<1>2. ASSUME NEW n \in FileNames, NEW size \in Sizes, Rewrite(n, size) \/ Replace(n, size) PROVE StaticIInv'
  <2>1. StaticTypes
    BY DEF StaticIInv
  <2>2. \E i : WritesTo(i)
    BY <1>2, <2>1, RewriteWrites, ReplaceWrites
  <2> QED
    BY <2>2, WriteKeeps
<1>3. ASSUME NEW c \in Clients, NEW r \in Requests(c), Open(c, r) PROVE StaticIInv'
  BY <1>3, OpenKeeps
<1>4. ASSUME NEW c \in Clients, Look(c) PROVE StaticIInv'
  BY <1>4, LookKeeps
<1>5. ASSUME NEW c \in Clients, HashOctet(c) PROVE StaticIInv'
  BY <1>5, HashOctetKeeps
<1>6. ASSUME NEW c \in Clients, HashDone(c) \/ HashFails(c) PROVE StaticIInv'
  <2>1. CASE HashDone(c)
    BY <2>1, HashEndsKeeps DEF HashDone
  <2>2. CASE HashFails(c)
    BY <2>2, HashEndsKeeps DEF HashFails
  <2> QED
    BY <1>6, <2>1, <2>2
<1>7. ASSUME NEW c \in Clients, SendOctet(c) \/ SendFails(c) \/ SendEnd(c) PROVE StaticIInv'
  BY <1>7, SendKeeps
<1>8. CASE UNCHANGED staticVars
  BY <1>8 DEF staticVars, StaticIInv, StaticTypes, Requested, StatOf, LookupOf, Fresh, TagSoFar, Entries,
              CacheIsTrue, EntriesAreTrue, CacheFits, CallsAreLed, WaitersHaveCalls
<1> QED
  BY <1>1, <1>2, <1>3, <1>4, <1>5, <1>6, <1>7, <1>8 DEF StaticNext

(***************************************************************************)
(* The tag cache is true, of any number of clients, names, sizes and ticks,*)
(* as long as a request does not pause between the stat of its handle and  *)
(* the reading of the clock for as long as the settle window               *)
(* (etag.go, settled and get).                                             *)
(***************************************************************************)
THEOREM CacheIsTrueCorrect ==
    ASSUME MaxPause < Window
    PROVE  StaticSpec => []CacheIsTrue
<1>1. StaticInit => StaticIInv
  BY StaticStarts
<1>2. StaticIInv /\ [StaticNext]_staticVars => StaticIInv'
  BY StaticSteps
<1>3. StaticIInv => CacheIsTrue
  BY DEF StaticIInv
<1> QED
  BY <1>1, <1>2, <1>3, PTL DEF StaticSpec

-----------------------------------------------------------------------------
\* A set of naturals that has nought, and with every natural the next one, has them all.
LEMMA Induct ==
    ASSUME NEW G, 0 \in G, \A n \in Nat : n \in G => n + 1 \in G
    PROVE  \A n \in Nat : n \in G
<1> DEFINE Wrong == {n \in Nat : n \notin G}
<1>1. ASSUME Wrong # {} PROVE FALSE
  <2>1. PICK n \in Wrong : \A k \in Wrong : ~(<<k, n>> \in OpToRel(<, Nat))
    BY <1>1, NatLessThanWellFounded, WFMin, Zenon
  <2>2. n \in Nat /\ n \notin G /\ \A k \in Wrong : ~(k < n)
    BY <2>1 DEF OpToRel
  <2>3. n - 1 \in Nat /\ (n - 1) + 1 = n /\ n - 1 < n
    BY <2>2
  <2>4. n - 1 \in G
    BY <2>2, <2>3
  <2> QED BY <2>2, <2>3, <2>4
<1> QED BY <1>1

-----------------------------------------------------------------------------
\* FlattenSeq puts its first sequence before what it makes of the others.

\* The recursive function behind it, up to the n-th sequence.
Flattens(f, q, n) == f = [i \in 1 .. n |-> IF i = 1 THEN q[i] ELSE f[i - 1] \o q[i]]

\* There is such a function for every number of sequences.
LEMMA FlattenExists == ASSUME NEW q PROVE \A n \in Nat : \E f : Flattens(f, q, n)
<1> DEFINE G == {n \in Nat : \E f : Flattens(f, q, n)}
<1>1. 0 \in G
  <2> DEFINE f == [i \in 1 .. 0 |-> q[i]]
  <2>1. Flattens(f, q, 0)
    BY DEF Flattens
  <2> QED BY <2>1
<1>2. ASSUME NEW n \in Nat, n \in G PROVE n + 1 \in G
  <2>1. PICK f : Flattens(f, q, n)
    BY <1>2
  <2> DEFINE g == [i \in 1 .. n + 1 |-> IF i = 1 THEN q[i] ELSE f[i - 1] \o q[i]]
  <2>2. ASSUME NEW i \in 1 .. n PROVE g[i] = f[i]
    <3>1. g[i] = IF i = 1 THEN q[i] ELSE f[i - 1] \o q[i]
      OBVIOUS
    <3>2. f[i] = IF i = 1 THEN q[i] ELSE f[i - 1] \o q[i]
      BY <2>1 DEF Flattens
    <3> QED BY <3>1, <3>2, Zenon
  <2>3. ASSUME NEW i \in 1 .. n + 1 PROVE i = 1 \/ g[i - 1] = f[i - 1]
    <3>1. i = 1 \/ i - 1 \in 1 .. n
      OBVIOUS
    <3> QED BY <2>2, <3>1
  <2>4. ASSUME NEW i \in 1 .. n + 1 PROVE g[i] = IF i = 1 THEN q[i] ELSE g[i - 1] \o q[i]
    <3>1. g[i] = IF i = 1 THEN q[i] ELSE f[i - 1] \o q[i]
      OBVIOUS
    <3> HIDE DEF g
    <3> QED BY <2>3, <3>1
  <2>5. Flattens(g, q, n + 1)
    <3>1. g = [i \in 1 .. n + 1 |-> g[i]]
      OBVIOUS
    <3> HIDE DEF g
    <3> QED BY <2>4, <3>1, Zenon DEF Flattens
  <2> QED BY <2>5
<1> HIDE DEF G
<1>3. \A n \in Nat : n \in G
  BY <1>1, <1>2, Induct
<1> QED BY <1>3 DEF G

\* FlattenSeq is its last value.
LEMMA FlattenIs ==
    ASSUME NEW X, NEW q \in Seq(Seq(X)), q # <<>>
    PROVE  \E f : Flattens(f, q, Len(q)) /\ FlattenSeq(q) = f[Len(q)]
<1> DEFINE f == CHOOSE f : Flattens(f, q, Len(q))
<1>1. Len(q) \in Nat /\ Len(q) # 0
  BY LenProperties, EmptySeq
<1>2. Flattens(f, q, Len(q))
  BY <1>1, FlattenExists, Zenon
<1>3. FlattenSeq(q) = f[Len(q)]
  BY <1>1 DEF FlattenSeq, Flattens
<1> QED BY <1>2, <1>3

\* All its values are sequences over the same set.
LEMMA FlattenTyped ==
    ASSUME NEW X, NEW q \in Seq(Seq(X)), NEW f, Flattens(f, q, Len(q))
    PROVE  \A i \in 1 .. Len(q) : f[i] \in Seq(X)
<1> DEFINE G == {n \in Nat : n \in 1 .. Len(q) => f[n] \in Seq(X)}
<1>1. Len(q) \in Nat /\ \A i \in 1 .. Len(q) : q[i] \in Seq(X)
  BY LenProperties, ElementOfSeq
<1>2. \A i \in 1 .. Len(q) : f[i] = IF i = 1 THEN q[i] ELSE f[i - 1] \o q[i]
  BY DEF Flattens
<1>3. 0 \in G
  OBVIOUS
<1>4. ASSUME NEW n \in Nat, n \in G PROVE n + 1 \in G
  <2> SUFFICES ASSUME n + 1 \in 1 .. Len(q) PROVE f[n + 1] \in Seq(X)
    OBVIOUS
  <2>1. CASE n = 0
    BY <1>1, <1>2, <2>1
  <2>2. CASE n # 0
    <3>1. n \in 1 .. Len(q) /\ (n + 1) - 1 = n /\ n + 1 # 1
      BY <1>1, <2>2
    <3>2. f[n] \in Seq(X) /\ f[n + 1] = f[n] \o q[n + 1] /\ q[n + 1] \in Seq(X)
      BY <1>1, <1>2, <1>4, <3>1
    <3> QED BY <3>2, ConcatProperties
  <2> QED BY <2>1, <2>2
<1> HIDE DEF G
<1>5. \A n \in Nat : n \in G
  BY <1>3, <1>4, Induct
<1> QED BY <1>1, <1>5 DEF G

\* The first sequence, and the others flattened.
LEMMA FlattenHead ==
    ASSUME NEW X, NEW q \in Seq(Seq(X)), q # <<>>
    PROVE  /\ FlattenSeq(q) \in Seq(X) /\ FlattenSeq(Tail(q)) \in Seq(X)
           /\ FlattenSeq(q) = Head(q) \o FlattenSeq(Tail(q))
<1> DEFINE n == Len(q)
           t == Tail(q)
<1>1. n \in Nat /\ n >= 1 /\ \A i \in 1 .. n : q[i] \in Seq(X)
  BY LenProperties, ElementOfSeq, EmptySeq
<1>2. t \in Seq(Seq(X)) /\ Len(t) = n - 1 /\ Head(q) = q[1] /\ \A i \in 1 .. n - 1 : t[i] = q[i + 1]
  BY HeadTailProperties
<1>3. PICK f : Flattens(f, q, n) /\ FlattenSeq(q) = f[n]
  BY FlattenIs
<1>4. /\ \A i \in 1 .. n : f[i] \in Seq(X)
      /\ \A i \in 1 .. n : f[i] = IF i = 1 THEN q[i] ELSE f[i - 1] \o q[i]
  BY <1>3, FlattenTyped DEF Flattens
<1> HIDE DEF n, t
<1>5. CASE n = 1
  <2>1. t = <<>> /\ FlattenSeq(t) = <<>> /\ <<>> \in Seq(X)
    BY <1>2, <1>5, EmptySeq DEF FlattenSeq
  <2>2. FlattenSeq(q) = q[1] /\ q[1] \in Seq(X)
    BY <1>1, <1>3, <1>4, <1>5
  <2>3. q[1] \o <<>> = q[1]
    BY <2>2, ConcatEmptySeq
  <2> QED BY <1>2, <2>1, <2>2, <2>3 DEF t
<1>6. CASE n # 1
  <2>1. t # <<>> /\ n - 1 \in Nat /\ n - 1 >= 1
    BY <1>1, <1>2, <1>6, EmptySeq
  <2>2. PICK g : Flattens(g, t, n - 1) /\ FlattenSeq(t) = g[n - 1]
    BY <1>2, <2>1, FlattenIs
  <2>3. /\ \A i \in 1 .. n - 1 : g[i] \in Seq(X)
        /\ \A i \in 1 .. n - 1 : g[i] = IF i = 1 THEN t[i] ELSE g[i - 1] \o t[i]
    BY <1>2, <2>2, FlattenTyped DEF Flattens
  <2> DEFINE G == {i \in Nat : i \in 1 .. n - 1 => f[i + 1] = q[1] \o g[i]}
  <2>4. 0 \in G
    OBVIOUS
  <2>5. ASSUME NEW i \in Nat, i \in G PROVE i + 1 \in G
    <3> SUFFICES ASSUME i + 1 \in 1 .. n - 1 PROVE f[(i + 1) + 1] = q[1] \o g[i + 1]
      <4>1. i + 1 \in Nat
        OBVIOUS
      <4> QED BY <4>1, Zenon
    <3>1. /\ i + 2 \in 1 .. n /\ i + 1 \in 1 .. n /\ (i + 2) - 1 = i + 1 /\ i + 2 # 1 /\ 1 \in 1 .. n
          /\ (i + 1) + 1 = i + 2
      BY <1>1
    <3>2. f[i + 2] = f[i + 1] \o q[i + 2] /\ t[i + 1] = q[i + 2]
      BY <1>2, <1>4, <3>1
    <3> DEFINE a == q[1]
               b == g[i]
               d == q[i + 2]
    <3>3. CASE i = 0
      <4>1. f[i + 1] = q[1] /\ g[i + 1] = t[i + 1]
        BY <1>4, <2>3, <3>1, <3>3
      <4> QED BY <3>1, <3>2, <4>1
    <3>4. CASE i # 0
      <4>1. i \in 1 .. n - 1 /\ (i + 1) - 1 = i /\ i + 1 # 1
        BY <1>1, <3>4
      <4>2. f[i + 1] = q[1] \o g[i]
        BY <2>5, <4>1
      <4>3. g[i + 1] = g[i] \o t[i + 1]
        BY <2>3, <4>1
      <4>4. a \in Seq(X) /\ b \in Seq(X) /\ d \in Seq(X)
        BY <1>1, <2>3, <3>1, <4>1
      <4> HIDE DEF a, b, d
      <4>5. (a \o b) \o d = a \o (b \o d)
        BY <4>4, ConcatAssociative
      <4> QED BY <3>1, <3>2, <4>2, <4>3, <4>5 DEF a, b, d
    <3> QED BY <3>3, <3>4
  <2> HIDE DEF G
  <2>6. \A i \in Nat : i \in G
    BY <2>4, <2>5, Induct
  <2>7. n - 1 \in 1 .. n - 1 /\ n \in 1 .. n /\ (n - 1) + 1 = n
    BY <1>1, <2>1
  <2>8. f[n] = q[1] \o g[n - 1]
    <3>1. n - 1 \in G
      BY <2>1, <2>6
    <3>2. f[(n - 1) + 1] = q[1] \o g[n - 1]
      BY <2>7, <3>1, Zenon DEF G
    <3> QED BY <2>7, <3>2
  <2> QED BY <1>2, <1>3, <1>4, <2>2, <2>3, <2>7, <2>8 DEF t
<1> QED BY <1>5, <1>6

-----------------------------------------------------------------------------
\* A range-set is read specifier by specifier, and names spans of the representation.
SpanIn(size) == {p \in [first : 0 .. size - 1, last : 0 .. size - 1] : p.first <= p.last}
Parsed(size) == [ok : BOOLEAN, specs : Nat, spans : Seq(SpanIn(size))]

NothingRead == [ok |-> TRUE, specs |-> 0, spans |-> <<>>]

\* The recursive function behind parseRangeSet, of the first n specifiers.
Reads(h, set, size, n) ==
    h = [S \in SUBSET (1 .. n) |->
            IF S = {} THEN NothingRead ELSE parseNext(h[S \ {Max(S)}], set[Max(S)], size)]

\* The greatest of a set up to n that n is in.
LEMMA GreatestIs == ASSUME NEW n \in Nat, NEW S \in SUBSET (1 .. n), n \in S PROVE Max(S) = n
<1>1. n \in S /\ \A y \in S : n >= y
  OBVIOUS
<1>2. Max(S) \in S /\ \A y \in S : Max(S) >= y
  BY <1>1 DEF Max
<1>3. Max(S) \in 1 .. n /\ Max(S) >= n
  BY <1>2
<1> QED BY <1>3

\* There is such a function for every number of specifiers.
LEMMA ReadsExist == ASSUME NEW set, NEW size PROVE \A n \in Nat : \E h : Reads(h, set, size, n)
<1> DEFINE G == {n \in Nat : \E h : Reads(h, set, size, n)}
<1>1. 0 \in G
  <2> DEFINE h == [S \in SUBSET (1 .. 0) |-> NothingRead]
  <2>1. h = [S \in SUBSET (1 .. 0) |->
                IF S = {} THEN NothingRead ELSE parseNext(h[S \ {Max(S)}], set[Max(S)], size)]
    <3>1. \A S \in SUBSET (1 .. 0) : S = {}
      OBVIOUS
    <3> QED BY <3>1
  <2> QED BY <2>1, Zenon DEF Reads
<1>2. ASSUME NEW n \in Nat, n \in G PROVE n + 1 \in G
  <2>1. PICK h : Reads(h, set, size, n)
    BY <1>2
  <2> DEFINE g == [S \in SUBSET (1 .. n + 1) |->
                      IF n + 1 \in S THEN parseNext(h[S \ {n + 1}], set[n + 1], size) ELSE h[S]]
             Step(f, S) == IF S = {} THEN NothingRead ELSE parseNext(f[S \ {Max(S)}], set[Max(S)], size)
  <2>2. \A S \in SUBSET (1 .. n) : h[S] = Step(h, S)
    BY <2>1 DEF Reads
  <2>3. n + 1 \in Nat /\ \A i \in 1 .. n + 1 : i = n + 1 \/ i \in 1 .. n
    OBVIOUS
  <2>4. \A i \in 1 .. n : i \in 1 .. n + 1 /\ i # n + 1
    OBVIOUS
  <2>5. \A S \in SUBSET (1 .. n) : S \in SUBSET (1 .. n + 1) /\ n + 1 \notin S /\ g[S] = h[S]
    BY <2>4
  <2>6. ASSUME NEW S \in SUBSET (1 .. n + 1) PROVE g[S] = Step(g, S)
    <3>1. CASE n + 1 \in S
      <4>1. Max(S) = n + 1
        BY <2>3, <3>1, GreatestIs
      <4>2. S \ {n + 1} \in SUBSET (1 .. n)
        BY <2>3
      <4>3. g[S] = parseNext(h[S \ {n + 1}], set[n + 1], size)
        BY <3>1
      <4>4. g[S \ {n + 1}] = h[S \ {n + 1}]
        BY <2>5, <4>2
      <4> HIDE DEF g
      <4> QED BY <3>1, <4>1, <4>3, <4>4
    <3>2. CASE n + 1 \notin S
      <4>1. S \in SUBSET (1 .. n) /\ S \ {Max(S)} \in SUBSET (1 .. n)
        BY <2>3, <3>2
      <4>2. g[S] = h[S] /\ g[S \ {Max(S)}] = h[S \ {Max(S)}]
        BY <2>5, <4>1
      <4> HIDE DEF g
      <4> QED BY <2>2, <4>1, <4>2
    <3> QED BY <3>1, <3>2
  <2>7. g = [S \in SUBSET (1 .. n + 1) |-> g[S]]
    OBVIOUS
  <2> HIDE DEF g
  <2>8. g = [S \in SUBSET (1 .. n + 1) |-> Step(g, S)]
    BY <2>6, <2>7, Zenon
  <2>9. Reads(g, set, size, n + 1)
    BY <2>8 DEF Reads
  <2> QED BY <2>3, <2>9
<1> HIDE DEF G
<1>3. \A n \in Nat : n \in G
  BY <1>1, <1>2, Induct
<1> QED BY <1>3 DEF G

\* One specifier names nothing, or a span of the representation (parseRangeSpec in ranges.go).
LEMMA SpecIs ==
    ASSUME NEW size \in Nat, size # 0, NEW spec \in Specifiers, spec.kind # "empty"
    PROVE  LET p == parseRangeSpec(spec, size) IN
           p.ok \in BOOLEAN /\ (p.ok /\ p.satisfiable => [first |-> p.first, last |-> p.last] \in SpanIn(size))
<1> DEFINE first == parsePos(spec.first)
           last == IF spec.kind = "from" THEN MaxInt64 ELSE parsePos(spec.last)
           p == parseRangeSpec(spec, size)
<1>1. first \in Nat /\ last \in Nat
  BY RangesAssumption DEF parsePos, Least, Specifiers
<1>2. \/ p = Unsatisfiable \/ p = NotASpec
      \/ first # 0 /\ p = Span(IF first >= size THEN 0 ELSE size - first, size - 1)
      \/ last >= first /\ first < size /\ p = Span(first, Least(last, size - 1))
  <2> HIDE DEF first, last
  <2>1. spec.kind \in {"bad", "from", "pair", "suffix"}
    BY DEF Specifiers
  <2>2. CASE spec.kind = "suffix"
    BY <2>2 DEF parseRangeSpec, first
  <2>3. CASE spec.kind = "bad"
    BY <2>3 DEF parseRangeSpec
  <2>4. CASE spec.kind \in {"from", "pair"}
    <3>1. p = IF last < first THEN NotASpec ELSE IF first >= size THEN Unsatisfiable
              ELSE Span(first, Least(last, size - 1))
      BY <2>4 DEF parseRangeSpec, first, last
    <3> HIDE DEF p
    <3> QED BY <1>1, <3>1
  <2> QED BY <2>1, <2>2, <2>3, <2>4
<1> HIDE DEF first, last, p
<1>3. ASSUME NEW a \in 0 .. size - 1, NEW b \in 0 .. size - 1, a <= b, p = Span(a, b)
      PROVE  p.ok \in BOOLEAN /\ [first |-> p.first, last |-> p.last] \in SpanIn(size)
  BY <1>3 DEF Span, SpanIn
<1>4. CASE p = Unsatisfiable \/ p = NotASpec
  <2>1. /\ NotASpec.ok \in BOOLEAN /\ ~NotASpec.satisfiable
        /\ Unsatisfiable.ok \in BOOLEAN /\ ~Unsatisfiable.satisfiable
    BY DEF Unsatisfiable, NotASpec
  <2>2. p.ok \in BOOLEAN /\ ~p.satisfiable
    BY <1>4, <2>1, Zenon
  <2> QED BY <2>2 DEF p
<1>5. CASE first # 0 /\ p = Span(IF first >= size THEN 0 ELSE size - first, size - 1)
  <2> DEFINE a == IF first >= size THEN 0 ELSE size - first
  <2>1. a \in 0 .. size - 1 /\ size - 1 \in 0 .. size - 1 /\ a <= size - 1
    BY <1>1, <1>5
  <2>2. p = Span(a, size - 1)
    BY <1>5
  <2> HIDE DEF a
  <2> QED BY <1>3, <2>1, <2>2 DEF p
<1>6. CASE last >= first /\ first < size /\ p = Span(first, Least(last, size - 1))
  <2> DEFINE b == Least(last, size - 1)
  <2>1. first \in 0 .. size - 1 /\ b \in 0 .. size - 1 /\ first <= b
    BY <1>1, <1>6 DEF Least
  <2>2. p = Span(first, b)
    BY <1>6
  <2> HIDE DEF b
  <2> QED BY <1>3, <2>1, <2>2 DEF p
<1> QED BY <1>2, <1>4, <1>5, <1>6

\* Reading one more specifier keeps the spans inside the representation.
LEMMA NextIs ==
    ASSUME NEW size \in Nat, size # 0, NEW spec \in Specifiers, NEW s \in Parsed(size)
    PROVE  parseNext(s, spec, size) \in Parsed(size)
<1> DEFINE p == parseRangeSpec(spec, size)
           span == [first |-> p.first, last |-> p.last]
<1>1. s.ok \in BOOLEAN /\ s.specs \in Nat /\ s.specs + 1 \in Nat /\ s.spans \in Seq(SpanIn(size))
      /\ <<>> \in Seq(SpanIn(size))
  BY EmptySeq DEF Parsed
<1>2. spec.kind # "empty" => p.ok \in BOOLEAN /\ (p.ok /\ p.satisfiable => span \in SpanIn(size))
  BY SpecIs
<1>3. parseNext(s, spec, size) =
        IF spec.kind = "empty" \/ ~s.ok \/ s.specs > maxRanges THEN s
        ELSE IF s.specs = maxRanges THEN [s EXCEPT !.specs = s.specs + 1, !.spans = <<>>]
        ELSE [ok |-> p.ok, specs |-> s.specs + 1,
              spans |-> IF ~p.ok THEN <<>> ELSE IF p.satisfiable THEN Append(s.spans, span) ELSE s.spans]
  BY DEF parseNext
<1>4. span \in SpanIn(size) => Append(s.spans, span) \in Seq(SpanIn(size))
  BY <1>1, AppendProperties
<1>5. [s EXCEPT !.specs = s.specs + 1, !.spans = <<>>] \in Parsed(size)
  BY <1>1 DEF Parsed
<1> HIDE DEF p, span
<1>6. spec.kind # "empty" =>
        [ok |-> p.ok, specs |-> s.specs + 1,
         spans |-> IF ~p.ok THEN <<>> ELSE IF p.satisfiable THEN Append(s.spans, span) ELSE s.spans] \in Parsed(size)
  BY <1>1, <1>2, <1>4 DEF Parsed
<1> QED BY <1>3, <1>5, <1>6

\* So do all of them: induction on the number of specifiers read.
LEMMA ParsedIs ==
    ASSUME NEW size \in Nat, size # 0, NEW set \in Seq(Specifiers)
    PROVE  parseRangeSet(set, size) \in Parsed(size)
<1> DEFINE n == Len(set)
           h == CHOOSE h : Reads(h, set, size, n)
<1>1. n \in Nat /\ DOMAIN set = 1 .. n /\ \A i \in 1 .. n : set[i] \in Specifiers
  BY LenProperties, ElementOfSeq
<1>2. parseRangeSet(set, size) = h[1 .. n]
  BY <1>1, Zenon DEF parseRangeSet, FoldLeft, MapThenFoldSet, Reads, NothingRead
<1>3. Reads(h, set, size, n)
  BY <1>1, ReadsExist, Zenon
<1> HIDE DEF h, n
<1>4. \A S \in SUBSET (1 .. n) :
        h[S] = IF S = {} THEN NothingRead ELSE parseNext(h[S \ {Max(S)}], set[Max(S)], size)
  BY <1>3 DEF Reads
<1> DEFINE G == {i \in Nat : i <= n => h[1 .. i] \in Parsed(size)}
<1>5. 0 \in G
  <2>1. 1 .. 0 = {} /\ {} \in SUBSET (1 .. n)
    OBVIOUS
  <2>2. h[{}] = NothingRead
    BY <1>4, <2>1
  <2>3. NothingRead \in Parsed(size)
    BY EmptySeq DEF NothingRead, Parsed
  <2> QED BY <2>1, <2>2, <2>3
<1>6. ASSUME NEW i \in Nat, i \in G PROVE i + 1 \in G
  <2>1. i + 1 \in Nat
    OBVIOUS
  <2> SUFFICES ASSUME i + 1 <= n PROVE h[1 .. i + 1] \in Parsed(size)
    BY <2>1, Zenon
  <2>2. /\ 1 .. i + 1 \in SUBSET (1 .. n) /\ 1 .. i + 1 # {} /\ (1 .. i + 1) \ {i + 1} = 1 .. i
        /\ i + 1 \in 1 .. i + 1 /\ i + 1 \in 1 .. n /\ i <= n
    <3>1. i + 1 \in 1 .. i + 1 /\ i + 1 \in 1 .. n /\ i <= n
      BY <1>1
    <3>2. 1 .. i + 1 \in SUBSET (1 .. n)
      BY <1>1
    <3>3. (1 .. i + 1) \ {i + 1} = 1 .. i
      OBVIOUS
    <3> QED BY <3>1, <3>2, <3>3
  <2>3. Max(1 .. i + 1) = i + 1
    BY <2>1, <2>2, GreatestIs
  <2>4. h[1 .. i + 1] = parseNext(h[1 .. i], set[i + 1], size)
    BY <1>4, <2>2, <2>3
  <2>5. h[1 .. i] \in Parsed(size)
    BY <1>6, <2>2
  <2>6. set[i + 1] \in Specifiers
    BY <1>1, <2>2
  <2> HIDE DEF G
  <2> QED BY <2>4, <2>5, <2>6, NextIs
<1> HIDE DEF G
<1>7. \A i \in Nat : i \in G
  BY <1>5, <1>6, Induct
<1> QED BY <1>1, <1>2, <1>7 DEF G

\* The spans of a range-set that is answered with a 206 are of the representation.
LEMMA VerdictIs ==
    ASSUME NEW size \in Nat, size # 0, NEW set \in Seq(Specifiers), rangeVerdict(set, size).verdict = "partial"
    PROVE  rangeVerdict(set, size).spans \in Seq(SpanIn(size))
<1> DEFINE p == parseRangeSet(set, size)
<1>1. p.spans \in Seq(SpanIn(size)) /\ p.ok \in BOOLEAN
  BY ParsedIs DEF Parsed
<1>2. rangeVerdict(set, size).spans \in {<<>>, p.spans}
  <2> HIDE DEF p
  <2>1. CASE ~p.ok \/ p.specs = 0
    BY <2>1 DEF rangeVerdict, p
  <2>2. CASE p.ok /\ p.specs # 0 /\ (p.specs > maxRanges \/ p.spans = <<>>)
    BY <2>2 DEF rangeVerdict, p
  <2>3. CASE p.ok /\ p.specs # 0 /\ ~(p.specs > maxRanges \/ p.spans = <<>>)
    <3>1. rangeVerdict(set, size) = IF Total(p.spans) > size THEN [verdict |-> "ignore", spans |-> <<>>]
                                   ELSE [verdict |-> "partial", spans |-> p.spans]
      BY <2>3, Zenon DEF rangeVerdict, p
    <3> QED BY <3>1
  <2> QED BY <1>1, <2>1, <2>2, <2>3
<1>3. <<>> \in Seq(SpanIn(size))
  BY EmptySeq
<1> QED BY <1>1, <1>2, <1>3

-----------------------------------------------------------------------------
(***************************************************************************)
(* What the clients are told.  Each request is followed from its handle to *)
(* its answer.  Stands says that nobody has rewritten what the handle held *)
(* at open; all that is claimed of a request is claimed while it stands.   *)
(***************************************************************************)
Stands(s) == inodes[s.inode].content = s.content
All(s) == Octets(s.content, 0, s.version.size - 1)
Pieces(s, spans) == FlattenSeq([i \in DOMAIN spans |-> Octets(s.content, spans[i].first, spans[i].last)])
Asked(s) == rangeVerdict(s.request.range[1], s.version.size).spans

\* The handle of a request, and the version it was opened at.
HandleOf(s) == s.phase \in {"opened", "waiting", "hashing", "sending"} =>
    /\ s.inode \in 1 .. Len(inodes) /\ s.content \in 0 .. contents /\ s.version \in Version
    /\ Stands(s) => versionOf(inodes[s.inode]) = s.version

\* Until it is judged a request is one that its client may make now: the copy it is about
\* is still the client's.
RequestOf(c, s) == s.phase \in {"opened", "waiting", "hashing"} =>
    s.request \in Requests(c) /\ s.request.method \in {"GET", "HEAD"} /\ s.body = <<>> /\ ~s.cut

HashOf(s) == s.phase = "hashing" => TagSoFar(s)

\* The tag of an answer, if no read has failed (f is the number that have).
TagTrue(s, f) == s.tag \in {NoTag, All(s)} /\ (f = 0 => s.tag = All(s))

\* What the client is to be sent.
Answer(s) == IF s.status = 200 THEN All(s) ELSE Pieces(s, Asked(s))

\* What has been sent and what is still to send make the answer; or a read has failed, nothing
\* more is sent, and a part of the answer is missing.
SendingOf(c, s, f) == s.phase = "sending" =>
    /\ s.status \in {200, 206} /\ s.spans \in Seq(SpanIn(s.version.size)) /\ s.body \in Seq(Octet)
    /\ s.status = 200 => s.request.method # "HEAD"
    /\ s.cut => s.spans = <<>>
    /\ Stands(s) =>
        /\ TagTrue(s, f)
        /\ IF s.cut THEN Carries(s, Answer(s)) ELSE s.body \o Pieces(s, s.spans) = Answer(s)
        /\ s.status = 206 => copy[c].tag = All(s)

\* An answer is what ClientsKeepTheTruth says.
DoneOf(c, s, f) == s.phase = "done" /\ s.whole =>
    /\ TagTrue(s, f)
    /\ s.status = 200 => Carries(s, IF s.request.method = "HEAD" THEN <<>> ELSE All(s))
    /\ s.status = 304 => copy[c].tag = All(s) /\ (copy[c].whole => copy[c].body = All(s))
    /\ s.status = 412 => s.tag = NoTag \/ copy[c].tag # All(s)
    /\ s.status = 206 => copy[c].tag = All(s) /\ Carries(s, Pieces(s, Asked(s)))

Truth(c, s, f) == HandleOf(s) /\ RequestOf(c, s) /\ HashOf(s) /\ SendingOf(c, s, f) /\ DoneOf(c, s, f)
Told == faults \in Nat /\ DOMAIN copy = Clients /\ \A c \in Clients : Truth(c, serving[c], faults)

\* A request whose version is older than its stat, or was when it was looked for:
Older(s) ==
    \/ s.phase = "opened" /\ s.version.mtime < s.opened
    \/ s.phase \in {"waiting", "hashing"} /\ s.call # "none"

\* two of these for one name and one version have one content,
SameFile(s, t) ==
    Older(s) /\ Older(t) /\ s.name = t.name /\ s.version = t.version => s.inode = t.inode /\ s.content = t.content
Alike == \A c, d \in Clients : SameFile(serving[c], serving[d])

\* and an entry that one of these would take is the tag of its content.
EntryOf(s) ==
    Older(s) /\ Stands(s) /\ entries[s.name].tag # NoTag /\ entries[s.name].version = s.version
        => entries[s.name].tag = All(s)
EntriesFit == \A c \in Clients : EntryOf(serving[c])

\* A copy that is known to be whole is what its tag says.
CopyOf(k) == k.tag # NoTag /\ k.whole => k.body = k.tag
Copies == \A c \in Clients : CopyOf(copy[c])

TruthIInv == Told /\ Alike /\ EntriesFit /\ Copies

-----------------------------------------------------------------------------
\* What a request may ask for: its preconditions and its range are about the client's copy.
Mine(c) == <<Member(copy[c].tag, FALSE)>>

\* A request has at most one precondition or one range, and it is about that copy.
LEMMA RequestIs ==
    ASSUME NEW c, NEW r \in Requests(c)
    PROVE  /\ r.ifUnmodifiedSince = <<>> /\ r.ifModifiedSince = <<>>
           /\ r.ifMatch = <<>> \/ r.ifMatch = <<TagList(Mine(c))>>
           /\ r.ifNoneMatch = <<>> \/ r.ifNoneMatch = <<TagList(Mine(c))>>
           /\ r.range = <<>> \/ \E set \in RangeSets : r.range = <<set>> /\ r.ifRange = Mine(c)
<1> DEFINE k == copy[c]
           About == Ask("GET", k.target)
<1>1. \/ \E m, t : r = Ask(m, t)
      \/ r = [About EXCEPT !.ifNoneMatch = <<TagList(Mine(c))>>]
      \/ r = [About EXCEPT !.ifMatch = <<TagList(Mine(c))>>]
      \/ \E set \in RangeSets : r = [About EXCEPT !.ifRange = Mine(c), !.range = <<set>>]
  BY DEF Requests, Mine
<1>2. ASSUME NEW m, NEW t
      PROVE  LET a == Ask(m, t) IN
             /\ a.ifUnmodifiedSince = <<>> /\ a.ifModifiedSince = <<>> /\ a.ifMatch = <<>>
             /\ a.ifNoneMatch = <<>> /\ a.range = <<>>
             /\ {"ifMatch", "ifNoneMatch", "ifRange", "range"} \subseteq DOMAIN a
  BY DEF Ask
<1>3. CASE \E m, t : r = Ask(m, t)
  BY <1>2, <1>3
<1>4. CASE r = [About EXCEPT !.ifNoneMatch = <<TagList(Mine(c))>>]
  <2> DEFINE v == <<TagList(Mine(c))>>
  <2> HIDE DEF v
  <2> QED BY <1>2, <1>4 DEF v
<1>5. CASE r = [About EXCEPT !.ifMatch = <<TagList(Mine(c))>>]
  <2> DEFINE v == <<TagList(Mine(c))>>
  <2> HIDE DEF v
  <2> QED BY <1>2, <1>5 DEF v
<1>6. ASSUME NEW set \in RangeSets, r = [About EXCEPT !.ifRange = Mine(c), !.range = <<set>>]
      PROVE  /\ r.ifUnmodifiedSince = <<>> /\ r.ifModifiedSince = <<>> /\ r.ifMatch = <<>>
             /\ r.ifNoneMatch = <<>> /\ r.range = <<set>> /\ r.ifRange = Mine(c)
  <2> DEFINE v == Mine(c)
             w == <<set>>
  <2> HIDE DEF v, w
  <2> QED BY <1>2, <1>6 DEF v, w
<1> HIDE DEF About
<1> QED BY <1>1, <1>3, <1>4, <1>5, <1>6

\* A precondition on a tag speaks of the client's copy.
LEMMA EvaluateIs ==
    ASSUME NEW c, NEW r \in Requests(c), NEW tag, NEW mod
    PROVE  /\ evaluate(r, tag, mod) \in {"send", "failed", "notModified"}
           /\ evaluate(r, tag, mod) = "notModified" => tag # NoTag /\ copy[c].tag = tag
           /\ evaluate(r, tag, mod) = "failed" => tag = NoTag \/ copy[c].tag # tag
<1> DEFINE k == copy[c].tag
           list == TagList(Mine(c))
<1>1. /\ r.ifUnmodifiedSince = <<>> /\ r.ifModifiedSince = <<>>
      /\ r.ifMatch = <<>> \/ r.ifMatch = <<list>>
      /\ r.ifNoneMatch = <<>> \/ r.ifNoneMatch = <<list>>
  BY RequestIs
<1>2. /\ ~list.any /\ DOMAIN list.members = {1} /\ list.members[1].opaque = k
      /\ list.members[1].ok = TRUE /\ list.members[1].weak = FALSE
  BY DEF TagList, Mine, Member
<1> HIDE DEF k, list
<1>3. ASSUME NEW weakOK \in BOOLEAN PROVE matches(list, tag, weakOK) <=> tag # NoTag /\ k = tag
  BY <1>2 DEF matches
<1>4. ~failsUnmodified(r, mod) /\ ~notModifiedSince(r, mod)
  BY <1>1 DEF failsUnmodified, notModifiedSince, condDate
<1>5. noneMatches(r, tag) => tag # NoTag /\ k = tag
  <2>1. matches(list, tag, TRUE) <=> tag # NoTag /\ k = tag
    BY <1>3
  <2>2. r.ifNoneMatch = <<list>> => r.ifNoneMatch[1] = list
    OBVIOUS
  <2>3. r.ifNoneMatch = <<>> => Len(r.ifNoneMatch) # 1
    OBVIOUS
  <2> QED BY <1>1, <1>2, <2>1, <2>2, <2>3, Zenon DEF noneMatches, matchesWeak
<1>6. failsMatch(r, tag) => tag = NoTag \/ k # tag
  <2>1. matches(list, tag, FALSE) <=> tag # NoTag /\ k = tag
    BY <1>3
  <2>2. r.ifMatch = <<list>> => r.ifMatch[1] = list /\ ~(Len(r.ifMatch) > 1)
    OBVIOUS
  <2> QED BY <1>1, <1>2, <2>1, <2>2, Zenon DEF failsMatch, matchesStrong
<1> QED BY <1>4, <1>5, <1>6 DEF evaluate, k

-----------------------------------------------------------------------------
\* Octets and pieces of a content.

\* The ends of a span.
LEMMA SpansAre == ASSUME NEW size \in Nat, NEW p \in SpanIn(size)
                  PROVE  /\ p.first \in Nat /\ p.last \in Nat /\ p.first <= p.last /\ p.last < size
                         /\ size # 0
  BY DEF SpanIn

\* Octets are octets.
LEMMA OctetsTyped == ASSUME NEW content \in Nat, NEW from \in Nat, NEW to \in Int, to >= from - 1
                     PROVE  Octets(content, from, to) \in Seq(Octet)
<1>1. to - from + 1 \in Nat
  OBVIOUS
<1>2. \A i \in 1 .. to - from + 1 : <<content, from + i>> \in Octet
  BY DEF Octet
<1> QED BY <1>1, <1>2 DEF Octets

\* An empty content has no octets.
LEMMA OctetsNone == ASSUME NEW content PROVE Octets(content, 0, -1) = <<>>
<1>1. -1 - 0 + 1 = 0
  OBVIOUS
<1> QED BY <1>1 DEF Octets

\* The first octet, and the others.
LEMMA OctetsHead ==
    ASSUME NEW content \in Nat, NEW from \in Nat, NEW to \in Nat, from <= to
    PROVE  Octets(content, from, to) = <<<<content, from + 1>>>> \o Octets(content, from + 1, to)
<1> DEFINE a == Octets(content, from, to)
           h == <<<<content, from + 1>>>>
           b == Octets(content, from + 1, to)
           n == to - from
<1>1. n \in Nat /\ to - from + 1 = n + 1 /\ to - (from + 1) + 1 = n
  OBVIOUS
<1>2. a = [i \in 1 .. n + 1 |-> <<content, from + i>>] /\ b = [i \in 1 .. n |-> <<content, (from + 1) + i>>]
  BY <1>1, Zenon DEF Octets
<1>3. h \in Seq(Octet) /\ Len(h) = 1 /\ h[1] = <<content, from + 1>>
  BY DEF Octet
<1>4. a \in Seq(Octet) /\ b \in Seq(Octet)
  BY OctetsTyped
<1>5. Len(a) = n + 1 /\ Len(b) = n
  BY <1>1, <1>2
<1> HIDE DEF a, b, h, n
<1>6. /\ h \o b \in Seq(Octet) /\ Len(h \o b) = 1 + n
      /\ \A i \in 1 .. 1 + n : (h \o b)[i] = IF i <= 1 THEN h[i] ELSE b[i - 1]
  <2>1. /\ h \o b \in Seq(Octet) /\ Len(h \o b) = Len(h) + Len(b)
        /\ \A i \in 1 .. Len(h) + Len(b) : (h \o b)[i] = IF i <= Len(h) THEN h[i] ELSE b[i - Len(h)]
    BY <1>3, <1>4, ConcatProperties
  <2> QED BY <1>3, <1>5, <2>1
<1>7. ASSUME NEW i \in 1 .. n + 1 PROVE a[i] = (h \o b)[i]
  <2>1. a[i] = <<content, from + i>>
    BY <1>2
  <2>2. CASE i = 1
    BY <1>1, <1>3, <1>6, <2>1, <2>2
  <2>3. CASE i # 1
    <3>1. i - 1 \in 1 .. n /\ (from + 1) + (i - 1) = from + i /\ i \in 1 .. 1 + n /\ ~(i <= 1)
      BY <1>1, <2>3
    <3>2. b[i - 1] = <<content, (from + 1) + (i - 1)>>
      BY <1>2, <3>1
    <3> QED BY <1>6, <2>1, <3>1, <3>2
  <2> QED BY <2>2, <2>3
<1>8. Len(h \o b) = n + 1
  BY <1>1, <1>6
<1>9. a = h \o b
  BY <1>4, <1>5, <1>6, <1>7, <1>8, SeqEqual
<1> QED BY <1>9 DEF a, b, h

\* The pieces of spans: those of the first one, and of the others.
LEMMA PiecesHead ==
    ASSUME NEW s, s.content \in Nat, NEW size \in Nat, NEW q \in Seq(SpanIn(size)), q # <<>>
    PROVE  /\ Pieces(s, q) = Octets(s.content, q[1].first, q[1].last) \o Pieces(s, Tail(q))
           /\ Octets(s.content, q[1].first, q[1].last) \in Seq(Octet) /\ Pieces(s, Tail(q)) \in Seq(Octet)
           /\ Tail(q) \in Seq(SpanIn(size)) /\ q[1] \in SpanIn(size)
<1> DEFINE O(p) == Octets(s.content, p.first, p.last)
           w == [i \in DOMAIN q |-> O(q[i])]
           n == Len(q)
           t == Tail(q)
<1>1. n \in Nat /\ n >= 1 /\ DOMAIN q = 1 .. n /\ \A i \in 1 .. n : q[i] \in SpanIn(size)
  BY LenProperties, ElementOfSeq, EmptySeq
<1>2. t \in Seq(SpanIn(size)) /\ Len(t) = n - 1 /\ DOMAIN t = 1 .. n - 1 /\ \A i \in 1 .. n - 1 : t[i] = q[i + 1]
  BY HeadTailProperties, LenProperties
<1>3. ASSUME NEW p \in SpanIn(size) PROVE O(p) \in Seq(Octet)
  <2>1. p.first \in Nat /\ p.last \in Int /\ p.last >= p.first - 1
    BY SpansAre
  <2> QED BY <2>1, OctetsTyped
<1> HIDE DEF O, n, t
<1>4. w \in Seq(Seq(Octet)) /\ Len(w) = n /\ w # <<>> /\ \A i \in 1 .. n : w[i] = O(q[i])
  <2>1. w \in [1 .. n -> Seq(Octet)]
    BY <1>1, <1>3
  <2>2. w \in Seq(Seq(Octet)) /\ Len(w) = n
    BY <1>1, <2>1
  <2> QED BY <1>1, <2>2, EmptySeq
<1> HIDE DEF w
<1>5. /\ FlattenSeq(w) = Head(w) \o FlattenSeq(Tail(w)) /\ FlattenSeq(Tail(w)) \in Seq(Octet)
  BY <1>4, FlattenHead
<1>6. /\ Head(w) = O(q[1]) /\ Tail(w) \in Seq(Seq(Octet)) /\ Len(Tail(w)) = n - 1
      /\ \A i \in 1 .. n - 1 : Tail(w)[i] = w[i + 1]
  BY <1>1, <1>4, HeadTailProperties
<1>7. Tail(w) = [i \in DOMAIN t |-> O(t[i])]
  <2>1. DOMAIN Tail(w) = 1 .. n - 1 /\ Tail(w) = [i \in DOMAIN Tail(w) |-> Tail(w)[i]]
    BY <1>6, LenProperties
  <2>2. ASSUME NEW i \in 1 .. n - 1 PROVE Tail(w)[i] = O(t[i])
    <3>1. i + 1 \in 1 .. n
      BY <1>1
    <3> QED BY <1>2, <1>4, <1>6, <3>1
  <2> QED BY <1>2, <2>1, <2>2
<1>8. Pieces(s, q) = FlattenSeq(w) /\ Pieces(s, t) = FlattenSeq(Tail(w))
  BY <1>7 DEF Pieces, w, O
<1>9. q[1] \in SpanIn(size)
  BY <1>1
<1> QED BY <1>2, <1>3, <1>5, <1>6, <1>8, <1>9 DEF O, t

\* No spans, no pieces.
LEMMA PiecesNone == ASSUME NEW s PROVE Pieces(s, <<>>) = <<>>
<1>1. [i \in DOMAIN <<>> |-> Octets(s.content, <<>>[i].first, <<>>[i].last)] = <<>>
  OBVIOUS
<1> QED BY <1>1, EmptySeq DEF Pieces, FlattenSeq

\* Three runs of octets, one after the other.
LEMMA OctetsAssociate ==
    ASSUME NEW x \in Seq(Octet), NEW y \in Seq(Octet), NEW z \in Seq(Octet)
    PROVE  (x \o y) \o z = x \o (y \o z)
  BY ConcatAssociative

\* One octet of the first span is taken from the pieces.
LEMMA PiecesOctet ==
    ASSUME NEW s, s.content \in Nat, NEW size \in Nat, NEW q \in Seq(SpanIn(size)), q # <<>>
    PROVE  LET span == q[1]
               rest == IF span.first = span.last THEN Tail(q)
                       ELSE <<[span EXCEPT !.first = span.first + 1]>> \o Tail(q) IN
           /\ rest \in Seq(SpanIn(size)) /\ Pieces(s, rest) \in Seq(Octet)
           /\ Pieces(s, q) = <<<<s.content, span.first + 1>>>> \o Pieces(s, rest)
<1> DEFINE span == q[1]
           short == [span EXCEPT !.first = span.first + 1]
           t == Tail(q)
           rest == IF span.first = span.last THEN t ELSE <<short>> \o t
           h == <<<<s.content, span.first + 1>>>>
           a == Octets(s.content, span.first, span.last)
           b == Octets(s.content, span.first + 1, span.last)
           d == Pieces(s, t)
<1>1. /\ Pieces(s, q) = a \o d /\ a \in Seq(Octet) /\ d \in Seq(Octet)
      /\ t \in Seq(SpanIn(size)) /\ span \in SpanIn(size)
  BY PiecesHead
<1>2. span.first \in Nat /\ span.last \in Nat /\ span.first <= span.last /\ span.last < size
  BY <1>1, SpansAre
<1>3. a = h \o b
  BY <1>2, OctetsHead
<1>4. b \in Seq(Octet) /\ h \in Seq(Octet)
  <2>1. span.last >= (span.first + 1) - 1 /\ span.first + 1 \in Nat
    BY <1>2
  <2>2. <<s.content, span.first + 1>> \in Octet
    BY <2>1 DEF Octet
  <2>3. h \in Seq(Octet)
    <3> DEFINE o == <<s.content, span.first + 1>>
    <3> HIDE DEF o
    <3>1. <<o>> \in Seq(Octet)
      BY <2>2 DEF o
    <3> QED BY <3>1 DEF o
  <2>4. b \in Seq(Octet)
    <3> DEFINE from == span.first + 1
               to == span.last
    <3>1. from \in Nat /\ to \in Int /\ to >= from - 1
      BY <1>2, <2>1
    <3> HIDE DEF from, to
    <3>2. Octets(s.content, from, to) \in Seq(Octet)
      BY <3>1, OctetsTyped
    <3> QED BY <3>2 DEF from, to
  <2> QED BY <2>3, <2>4
<1>5. a \o d = h \o (b \o d)
  <2>1. a = h \o b /\ h \in Seq(Octet) /\ b \in Seq(Octet) /\ d \in Seq(Octet)
    BY <1>1, <1>3, <1>4
  <2> HIDE DEF a, b, d, h, span, short, t, rest
  <2>2. (h \o b) \o d = h \o (b \o d)
    BY <2>1, OctetsAssociate
  <2> QED BY <2>1, <2>2, Zenon
<1>6. CASE span.first = span.last
  <2>1. rest = t
    BY <1>6
  <2>2. b = <<>>
    <3>1. span.last - (span.first + 1) + 1 = 0
      BY <1>2, <1>6
    <3> QED BY <3>1 DEF Octets
  <2>3. b \o d = d
    <3> HIDE DEF b, d
    <3> QED BY <1>1, <2>2, ConcatEmptySeq
  <2> HIDE DEF a, b, h
  <2> QED BY <1>1, <1>5, <2>1, <2>3 DEF h
<1>7. CASE span.first # span.last
  <2>1. short \in SpanIn(size) /\ short.first = span.first + 1 /\ short.last = span.last
    <3>1. span.first + 1 \in 0 .. size - 1 /\ span.last \in 0 .. size - 1 /\ span.first + 1 <= span.last
      BY <1>2, <1>7
    <3>2. span = [first |-> span.first, last |-> span.last]
      BY <1>1 DEF SpanIn
    <3>3. short = [first |-> span.first + 1, last |-> span.last]
      BY <3>2
    <3> HIDE DEF short, span
    <3> QED BY <3>1, <3>3 DEF SpanIn
  <2> DEFINE r == <<short>> \o t
  <2>2. r \in Seq(SpanIn(size)) /\ r # <<>> /\ r[1] = short /\ Tail(r) = t
    <3> HIDE DEF short, t
    <3>1. <<short>> \in Seq(SpanIn(size)) /\ Len(<<short>>) = 1 /\ <<short>>[1] = short
      BY <2>1
    <3>2. /\ r \in Seq(SpanIn(size)) /\ Len(r) = 1 + Len(t) /\ Len(t) \in Nat
          /\ \A i \in 1 .. 1 + Len(t) : r[i] = IF i <= 1 THEN <<short>>[i] ELSE t[i - 1]
      BY <1>1, <3>1, ConcatProperties, LenProperties
    <3> HIDE DEF r
    <3>3. r # <<>> /\ r[1] = short
      BY <3>1, <3>2, EmptySeq
    <3>4. Tail(r) \in Seq(SpanIn(size)) /\ Len(Tail(r)) = Len(t) /\ \A i \in 1 .. Len(t) : Tail(r)[i] = t[i]
      <4>1. /\ Tail(r) \in Seq(SpanIn(size)) /\ Len(Tail(r)) = Len(r) - 1
            /\ \A i \in 1 .. Len(Tail(r)) : Tail(r)[i] = r[i + 1]
        BY <3>2, <3>3, HeadTailProperties
      <4>2. Len(Tail(r)) = Len(t)
        BY <3>2, <4>1
      <4>3. ASSUME NEW i \in 1 .. Len(t) PROVE Tail(r)[i] = t[i]
        <5>1. i + 1 \in 1 .. 1 + Len(t) /\ ~(i + 1 <= 1) /\ (i + 1) - 1 = i
          BY <3>2
        <5> QED BY <3>2, <4>1, <4>2, <5>1
      <4> QED BY <4>1, <4>2, <4>3
    <3>5. Tail(r) = t
      BY <1>1, <3>4, SeqEqual
    <3> QED BY <3>2, <3>3, <3>5
  <2> HIDE DEF short, t, r
  <2>3. Pieces(s, r) = Octets(s.content, short.first, short.last) \o Pieces(s, t)
    BY <2>2, PiecesHead
  <2>4. Pieces(s, r) = b \o d
    BY <2>1, <2>3
  <2>5. b \o d \in Seq(Octet)
    <3> HIDE DEF b, d
    <3> QED BY <1>1, <1>4, ConcatProperties
  <2>6. rest = r
    BY <1>7 DEF r
  <2> HIDE DEF rest, a, b, d, h
  <2>7. rest \in Seq(SpanIn(size)) /\ Pieces(s, rest) \in Seq(Octet) /\ Pieces(s, q) = h \o Pieces(s, rest)
    BY <1>1, <1>5, <2>2, <2>4, <2>5, <2>6
  <2> QED BY <2>7 DEF rest, t, short, h
<1> QED BY <1>6, <1>7

\* The pieces are octets.
LEMMA PiecesTyped ==
    ASSUME NEW s, s.content \in Nat, NEW size \in Nat, NEW q \in Seq(SpanIn(size))
    PROVE  Pieces(s, q) \in Seq(Octet)
<1>1. CASE q = <<>>
  <2>1. <<>> \in Seq(Octet)
    BY EmptySeq
  <2> QED BY <1>1, <2>1, PiecesNone
<1>2. CASE q # <<>>
  <2> DEFINE a == Octets(s.content, q[1].first, q[1].last)
             b == Pieces(s, Tail(q))
  <2>1. Pieces(s, q) = a \o b /\ a \in Seq(Octet) /\ b \in Seq(Octet)
    BY <1>2, PiecesHead
  <2> HIDE DEF a, b
  <2> QED BY <2>1, ConcatProperties
<1> QED BY <1>1, <1>2

\* The whole of a content is one span.
LEMMA WholePiece ==
    ASSUME NEW s, s.content \in Nat, NEW size \in Nat, size # 0
    PROVE  LET q == <<[first |-> 0, last |-> size - 1]>> IN
           /\ q \in Seq(SpanIn(size)) /\ Pieces(s, q) = Octets(s.content, 0, size - 1)
           /\ Octets(s.content, 0, size - 1) \in Seq(Octet)
<1> DEFINE p == [first |-> 0, last |-> size - 1]
           q == <<p>>
           a == Octets(s.content, 0, size - 1)
<1>1. p \in SpanIn(size) /\ p.first = 0 /\ p.last = size - 1
  BY DEF SpanIn
<1> HIDE DEF p
<1>2. q \in Seq(SpanIn(size)) /\ q # <<>> /\ q[1] = p /\ Tail(q) = <<>>
  BY <1>1
<1>3. Pieces(s, q) = Octets(s.content, q[1].first, q[1].last) \o Pieces(s, Tail(q))
      /\ Octets(s.content, q[1].first, q[1].last) \in Seq(Octet)
  <2> HIDE DEF q
  <2> QED BY <1>2, PiecesHead
<1>4. Pieces(s, q) = a \o <<>> /\ a \in Seq(Octet)
  BY <1>1, <1>2, <1>3, PiecesNone
<1> HIDE DEF a
<1>5. a \o <<>> = a
  BY <1>4, ConcatEmptySeq
<1> QED BY <1>2, <1>4, <1>5 DEF a, p

-----------------------------------------------------------------------------
\* What a request is told when it is judged.
LEMMA FinishShape ==
    ASSUME NEW s, DOMAIN s = DOMAIN Idle, NEW status
    PROVE  LET u == Finish(s, status) IN
           /\ u.phase = "done" /\ u.status = status /\ (u.whole <=> Stands(s)) /\ u.request = s.request
           /\ u.version = s.version /\ u.content = s.content /\ u.tag = s.tag /\ u.body = s.body
           /\ u.cut = s.cut
  BY ServingShape DEF Finish, Answered, Stands

\* A request that may be judged, and a tag that may be what it is judged by.
Judgeable(c, t) ==
    DOMAIN t = DOMAIN Idle /\ t.phase \in {"opened", "waiting", "hashing"} /\ HandleOf(t) /\ RequestOf(c, t)
TagFits(t, tag, f) == Stands(t) => tag \in {NoTag, All(t)} /\ (f = 0 => tag = All(t))

\* A finished answer claims no more than DoneOf.
LEMMA DoneTruth ==
    ASSUME NEW c, NEW s, NEW f, s.phase = "done", DoneOf(c, s, f)
    PROVE  Truth(c, s, f)
  BY DEF Truth, HandleOf, RequestOf, HashOf, SendingOf

\* An answer that is still being sent claims no more than SendingOf.
LEMMA SendingTruth ==
    ASSUME NEW c, NEW s, NEW f, s.phase = "sending", HandleOf(s), SendingOf(c, s, f)
    PROVE  Truth(c, s, f)
  BY DEF Truth, RequestOf, HashOf, DoneOf

\* A 206 goes to a request for a range of a copy that has this tag.
LEMMA PartialIs ==
    ASSUME NEW c, NEW s, s.request \in Requests(c), s.version \in Version, rangesOf(s).verdict = "partial"
    PROVE  /\ s.tag # NoTag /\ copy[c].tag = s.tag
           /\ rangesOf(s).spans = Asked(s) /\ Asked(s) \in Seq(SpanIn(s.version.size))
<1> DEFINE r == s.request
           size == s.version.size
<1>1. /\ r.method = "GET" /\ size # 0 /\ Len(r.range) = 1 /\ ~ifRangeIsFalse(r, s.tag)
      /\ rangesOf(s) = rangeVerdict(r.range[1], size)
  BY DEF rangesOf
<1>2. PICK set \in RangeSets : r.range = <<set>> /\ r.ifRange = Mine(c)
  <2>1. r.range # <<>>
    BY <1>1
  <2> QED BY <2>1, RequestIs
<1>3. r.ifRange # <<>> /\ r.ifRange[1].opaque = copy[c].tag /\ r.range[1] = set
  <2>1. Mine(c) # <<>> /\ Mine(c)[1].opaque = copy[c].tag
    BY DEF Mine, Member
  <2>2. <<set>>[1] = set
    OBVIOUS
  <2> QED BY <1>2, <2>1, <2>2
<1>4. s.tag # NoTag /\ copy[c].tag = s.tag
  BY <1>1, <1>3 DEF ifRangeIsFalse
<1>5. set \in Seq(Specifiers) /\ size \in Nat
  BY StaticAssumption DEF Version
<1> HIDE DEF size
<1>6. rangeVerdict(set, size).spans \in Seq(SpanIn(size))
  BY <1>1, <1>3, <1>5, VerdictIs
<1> QED BY <1>1, <1>3, <1>4, <1>6 DEF Asked, size

\* The heart of it: an answer judged by a tag that fits tells its client the truth, whichever
\* of judge's returns it takes (serve in static.go).
LEMMA JudgedTruth ==
    ASSUME Copies, NEW c \in Clients, NEW t, Judgeable(c, t), NEW tag, NEW f, TagFits(t, tag, f)
    PROVE  Truth(c, Judged(t, tag), f)
<1> DEFINE s == [t EXCEPT !.tag = tag, !.call = "none"]
           Sent(status, spans) == [s EXCEPT !.phase = "sending", !.status = status, !.spans = spans]
           verdict == evaluate(s.request, s.tag, s.mod)
           ranges == rangesOf(s)
           bodyless == s.request.method = "HEAD" \/ s.version.size = 0
           u == Judged(t, tag)
           size == s.version.size
           whole == <<[first |-> 0, last |-> s.version.size - 1]>>
<1>1. /\ DOMAIN s = DOMAIN Idle /\ s.tag = tag /\ s.request = t.request /\ s.version = t.version
      /\ s.inode = t.inode /\ s.content = t.content /\ s.body = t.body /\ s.cut = t.cut
  BY ServingShape DEF Judgeable
<1>2. /\ s.inode \in 1 .. Len(inodes) /\ s.content \in 0 .. contents /\ s.version \in Version
      /\ Stands(s) => versionOf(inodes[s.inode]) = s.version
      /\ s.request \in Requests(c) /\ s.request.method \in {"GET", "HEAD"} /\ s.body = <<>> /\ ~s.cut
      /\ Stands(s) => s.tag \in {NoTag, All(s)} /\ (f = 0 => s.tag = All(s))
  <2> HIDE DEF s
  <2> QED BY <1>1 DEF Judgeable, HandleOf, RequestOf, TagFits, Stands, All
<1>3. /\ verdict \in {"send", "failed", "notModified"}
      /\ verdict = "notModified" => s.tag # NoTag /\ copy[c].tag = s.tag
      /\ verdict = "failed" => s.tag = NoTag \/ copy[c].tag # s.tag
  <2>1. ASSUME NEW r \in Requests(c), NEW g, NEW m
        PROVE  /\ evaluate(r, g, m) \in {"send", "failed", "notModified"}
               /\ evaluate(r, g, m) = "notModified" => g # NoTag /\ copy[c].tag = g
               /\ evaluate(r, g, m) = "failed" => g = NoTag \/ copy[c].tag # g
    BY EvaluateIs
  <2> HIDE DEF s
  <2>2. s.request \in Requests(c)
    BY <1>2
  <2> QED BY <2>1, <2>2
<1>4. \/ verdict = "notModified" /\ u = Finish(s, 304)
      \/ verdict = "failed" /\ u = Finish(s, 412)
      \/ u = Finish(s, 416)
      \/ ranges.verdict = "partial" /\ u = Sent(206, ranges.spans)
      \/ bodyless /\ u = Finish(s, 200)
      \/ ~bodyless /\ u = Sent(200, whole)
  <2>1. CASE verdict = "notModified"
    BY <2>1 DEF Judged
  <2>2. CASE verdict = "failed"
    BY <2>2 DEF Judged
  <2>3. CASE verdict = "send" /\ ranges.verdict = "notSatisfiable"
    BY <2>3 DEF Judged
  <2>4. CASE verdict = "send" /\ ranges.verdict = "partial"
    BY <2>4 DEF Judged
  <2>5. CASE verdict = "send" /\ ranges.verdict \notin {"notSatisfiable", "partial"}
    <3>1. u = IF bodyless THEN Finish(s, 200) ELSE Sent(200, whole)
      BY <2>5 DEF Judged
    <3> HIDE DEF u, bodyless
    <3> QED BY <3>1
  <2> HIDE DEF u, bodyless, verdict, ranges, s
  <2> QED BY <1>3, <2>1, <2>2, <2>3, <2>4, <2>5
<1>5. ASSUME NEW status
      PROVE  LET v == Finish(s, status) IN
             /\ v.phase = "done" /\ v.status = status /\ (v.whole <=> Stands(s)) /\ v.request = s.request
             /\ v.version = s.version /\ v.content = s.content /\ v.tag = s.tag /\ v.body = s.body
             /\ v.cut = s.cut
  BY <1>1, FinishShape
<1>6. ASSUME NEW status, NEW spans
      PROVE  LET v == Sent(status, spans) IN
             /\ v.phase = "sending" /\ v.status = status /\ v.spans = spans /\ v.request = s.request
             /\ v.version = s.version /\ v.content = s.content /\ v.tag = s.tag /\ v.body = s.body
             /\ v.inode = s.inode /\ v.cut = s.cut
  BY <1>1, ServingShape
<1> HIDE DEF s, Sent, verdict, ranges, u
<1>7. CASE verdict = "notModified" /\ u = Finish(s, 304)
  <2>1. copy[c].whole => copy[c].body = s.tag
    BY <1>3, <1>7 DEF Copies, CopyOf
  <2>2. DoneOf(c, u, f)
    BY <1>2, <1>3, <1>5, <1>7, <2>1 DEF DoneOf, TagTrue, All
  <2>3. u.phase = "done"
    BY <1>5, <1>7
  <2> QED BY <2>2, <2>3, DoneTruth DEF u
<1>8. CASE verdict = "failed" /\ u = Finish(s, 412)
  <2>1. DoneOf(c, u, f)
    BY <1>2, <1>3, <1>5, <1>8 DEF DoneOf, TagTrue, All
  <2>2. u.phase = "done"
    BY <1>5, <1>8
  <2> QED BY <2>1, <2>2, DoneTruth DEF u
<1>9. CASE u = Finish(s, 416)
  <2>1. DoneOf(c, u, f)
    BY <1>2, <1>5, <1>9 DEF DoneOf, TagTrue, All
  <2>2. u.phase = "done"
    BY <1>5, <1>9
  <2> QED BY <2>1, <2>2, DoneTruth DEF u
<1>10. CASE bodyless /\ u = Finish(s, 200)
  <2>1. size = 0 => All(s) = <<>>
    <3>1. size = 0 => size - 1 = -1
      OBVIOUS
    <3> QED BY <3>1, OctetsNone DEF All
  <2>2. s.body = IF s.request.method = "HEAD" THEN <<>> ELSE All(s)
    BY <1>2, <1>10, <2>1
  <2>3. DoneOf(c, u, f)
    BY <1>2, <1>5, <1>10, <2>2 DEF DoneOf, TagTrue, All, Carries
  <2>4. u.phase = "done"
    BY <1>5, <1>10
  <2> QED BY <2>3, <2>4, DoneTruth DEF u
<1>11. ASSUME NEW status \in {200, 206}, NEW spans \in Seq(SpanIn(size)), u = Sent(status, spans),
              status = 200 => s.request.method # "HEAD" /\ Pieces(s, spans) = All(s),
              status = 206 => Pieces(s, spans) = Pieces(s, Asked(s)) /\ (Stands(s) => copy[c].tag = All(s)),
              Pieces(s, spans) \in Seq(Octet)
       PROVE  Truth(c, u, f)
  <2>1. /\ u.phase = "sending" /\ u.status = status /\ u.spans = spans /\ u.request = s.request
        /\ u.version = s.version /\ u.content = s.content /\ u.tag = s.tag /\ u.body = <<>> /\ u.inode = s.inode
        /\ ~u.cut
    BY <1>2, <1>6, <1>11
  <2>2. /\ Stands(u) <=> Stands(s)
        /\ All(u) = All(s) /\ Asked(u) = Asked(s) /\ Pieces(u, spans) = Pieces(s, spans)
        /\ Pieces(u, Asked(u)) = Pieces(s, Asked(s))
    BY <2>1 DEF Stands, All, Asked, Pieces
  <2>3. HandleOf(u)
    BY <1>2, <2>1, <2>2 DEF HandleOf
  <2>4. u.body \o Pieces(u, u.spans) = Pieces(s, spans) /\ u.body \in Seq(Octet)
    <3>1. <<>> \in Seq(Octet) /\ <<>> \o Pieces(s, spans) = Pieces(s, spans)
      BY <1>11, EmptySeq, ConcatEmptySeq
    <3> QED BY <2>1, <2>2, <3>1
  <2>5. SendingOf(c, u, f)
    BY <1>2, <1>11, <2>1, <2>2, <2>4 DEF SendingOf, TagTrue, Answer
  <2> QED BY <2>1, <2>3, <2>5, SendingTruth
<1>12. s.content \in Nat /\ size \in Nat
  BY <1>2 DEF Version
<1>13. CASE ranges.verdict = "partial" /\ u = Sent(206, ranges.spans)
  <2>1. /\ s.tag # NoTag /\ copy[c].tag = s.tag /\ ranges.spans = Asked(s) /\ Asked(s) \in Seq(SpanIn(size))
    BY <1>2, <1>13, PartialIs DEF ranges
  <2>2. Pieces(s, Asked(s)) \in Seq(Octet)
    BY <1>12, <2>1, PiecesTyped
  <2> DEFINE spans == Asked(s)
  <2>3. /\ u = Sent(206, spans) /\ spans \in Seq(SpanIn(size)) /\ 206 \in {200, 206} /\ 206 # 200
        /\ Pieces(s, spans) = Pieces(s, Asked(s)) /\ Pieces(s, spans) \in Seq(Octet)
        /\ Stands(s) => copy[c].tag = All(s)
    BY <1>2, <1>13, <2>1, <2>2
  <2> HIDE DEF spans, size
  <2> QED BY <1>11, <2>3 DEF u
<1>14. CASE ~bodyless /\ u = Sent(200, whole)
  <2>1. size # 0 /\ s.request.method # "HEAD"
    BY <1>14
  <2>2. whole \in Seq(SpanIn(size)) /\ Pieces(s, whole) = All(s) /\ All(s) \in Seq(Octet)
    BY <1>12, <2>1, WholePiece DEF All
  <2>3. u = Sent(200, whole) /\ 200 \in {200, 206} /\ 200 # 206
    BY <1>14
  <2> HIDE DEF whole, size
  <2> QED BY <1>11, <2>1, <2>2, <2>3 DEF u
<1> QED BY <1>4, <1>7, <1>8, <1>9, <1>10, <1>13, <1>14 DEF u

-----------------------------------------------------------------------------
\* What is claimed of a request depends on the inodes and on its client's copy.
LEMMA TruthFrame ==
    ASSUME UNCHANGED <<inodes, contents>>, NEW c, copy'[c] = copy[c], NEW s, NEW f, Truth(c, s, f)
    PROVE  Truth(c, s, f)'
<1>1. HandleOf(s)'
  BY DEF Truth, HandleOf, Stands, versionOf
<1>2. RequestOf(c, s)'
  BY DEF Truth, RequestOf, Requests
<1>3. HashOf(s)'
  BY DEF Truth, HashOf, TagSoFar
<1>4. SendingOf(c, s, f)'
  BY DEF Truth, SendingOf, Stands, TagTrue
<1>5. DoneOf(c, s, f)'
  BY DEF Truth, DoneOf, TagTrue
<1> QED BY <1>1, <1>2, <1>3, <1>4, <1>5 DEF Truth

\* What is claimed of the state a request goes to is claimed of the request then.
LEMMA TruthNow ==
    ASSUME NEW c, NEW s, NEW f, serving'[c] = s, faults' = f, Truth(c, s, f)'
    PROVE  Truth(c, serving[c], faults)'
<1>1. HandleOf(serving[c])'
  BY DEF Truth, HandleOf, Stands
<1>2. RequestOf(c, serving[c])'
  BY DEF Truth, RequestOf
<1>3. HashOf(serving[c])'
  BY DEF Truth, HashOf, TagSoFar
<1>4. SendingOf(c, serving[c], faults)'
  BY DEF Truth, SendingOf, Stands, TagTrue
<1>5. DoneOf(c, serving[c], faults)'
  BY DEF Truth, DoneOf, TagTrue
<1> QED BY <1>1, <1>2, <1>3, <1>4, <1>5 DEF Truth

\* The fewer reads have failed, the more is claimed.
LEMMA TruthFaults ==
    ASSUME NEW c, NEW s, NEW f, NEW g, g = 0 => f = 0, Truth(c, s, f)
    PROVE  Truth(c, s, g)
<1>1. SendingOf(c, s, g)
  BY DEF Truth, SendingOf, TagTrue
<1>2. DoneOf(c, s, g)
  BY DEF Truth, DoneOf, TagTrue
<1> QED BY <1>1, <1>2 DEF Truth

\* Only one request moves, and only its client's copy is written.
LEMMA OneTold ==
    ASSUME DOMAIN serving = Clients, TruthIInv, UNCHANGED <<inodes, contents, entries>>, NEW c \in Clients,
           faults' \in Nat, faults' = 0 => faults = 0, NEW t, serving' = [serving EXCEPT ![c] = t], Truth(c, t, faults)',
           DOMAIN copy' = Clients, \A d \in Clients : d # c => copy'[d] = copy[d], CopyOf(copy'[c]),
           \A d \in Clients : SameFile(t, serving[d]), EntryOf(t)
    PROVE  TruthIInv'
<1>1. \A d \in Clients : serving'[d] = IF d = c THEN t ELSE serving[d]
  OBVIOUS
<1>2. ASSUME NEW d \in Clients PROVE Truth(d, serving[d], faults)'
  <2>1. CASE d = c
    <3>1. serving'[d] = t
      BY <1>1, <2>1
    <3>2. PICK f : f = faults'
      OBVIOUS
    <3>3. Truth(c, t, f)'
      BY <3>2 DEF Truth, SendingOf, DoneOf, TagTrue
    <3> QED BY <2>1, <3>1, <3>2, <3>3, TruthNow
  <2>2. CASE d # c
    <3>1. PICK s, f : s = serving[d] /\ f = faults
      OBVIOUS
    <3>2. Truth(d, s, f)
      BY <3>1 DEF TruthIInv, Told
    <3>3. PICK g : g = faults'
      OBVIOUS
    <3>4. Truth(d, s, g)
      BY <3>1, <3>2, <3>3, TruthFaults
    <3>5. Truth(d, s, g)' /\ serving'[d] = s /\ faults' = g
      BY <1>1, <2>2, <3>1, <3>3, <3>4, TruthFrame
    <3> QED BY <3>5, TruthNow
  <2> QED BY <2>1, <2>2
<1>3. Told'
  BY <1>2 DEF TruthIInv, Told
<1>4. Alike'
  <2>1. ASSUME NEW d \in Clients, NEW e \in Clients PROVE SameFile(serving'[d], serving'[e])
    <3>1. SameFile(serving[d], serving[e]) /\ SameFile(t, serving[d]) /\ SameFile(t, serving[e])
      BY DEF TruthIInv, Alike
    <3> QED BY <1>1, <3>1 DEF SameFile
  <2> QED BY <2>1 DEF Alike, SameFile, Older
<1>5. EntriesFit'
  <2>1. ASSUME NEW d \in Clients PROVE EntryOf(serving[d])'
    <3>1. PICK s : s = serving'[d]
      OBVIOUS
    <3>2. EntryOf(s)
      BY <1>1, <3>1 DEF TruthIInv, EntriesFit
    <3> QED BY <3>1, <3>2 DEF EntryOf, Older, Stands, All
  <2> QED BY <2>1 DEF EntriesFit
<1>6. Copies'
  BY DEF TruthIInv, Copies, CopyOf
<1> QED BY <1>3, <1>4, <1>5, <1>6 DEF TruthIInv

\* A request that goes on is as old as it was, and about the same file.
Follows(s, t) == Older(t) => Older(s) /\ t.name = s.name /\ t.version = s.version /\ t.inode = s.inode
                             /\ t.content = s.content

\* A request that goes on, and nothing else moves.
LEMMA FollowsTold ==
    ASSUME StaticTypes, TruthIInv, UNCHANGED <<inodes, contents, entries, faults, copy>>, NEW c \in Clients, NEW t,
           serving' = [serving EXCEPT ![c] = t], Truth(c, t, faults), Follows(serving[c], t)
    PROVE  TruthIInv'
<1>1. DOMAIN serving = Clients /\ DOMAIN copy = Clients /\ CopyOf(copy[c]) /\ faults \in Nat
  BY DEF StaticTypes, TruthIInv, Told, Copies
<1>2. Truth(c, t, faults)'
  <2>1. PICK f : f = faults
    OBVIOUS
  <2>2. Truth(c, t, f)
    BY <2>1
  <2>3. Truth(c, t, f)' /\ faults' = f
    BY <2>1, <2>2, TruthFrame
  <2> QED BY <2>3 DEF Truth, SendingOf, DoneOf, TagTrue
<1>3. ASSUME NEW d \in Clients PROVE SameFile(t, serving[d])
  <2>1. SameFile(serving[c], serving[d])
    BY DEF TruthIInv, Alike
  <2> QED BY <2>1 DEF Follows, SameFile
<1>4. EntryOf(t)
  <2>1. EntryOf(serving[c])
    BY DEF TruthIInv, EntriesFit
  <2> QED BY <2>1 DEF Follows, EntryOf, Stands, All
<1> QED BY <1>1, <1>2, <1>3, <1>4, OneTold

-----------------------------------------------------------------------------
\* What was written since cannot be what a request holds.
LEMMA StandsWritten ==
    ASSUME StaticTypes, NEW i, WritesTo(i), NEW s, s.inode \in 1 .. Len(inodes), s.content \in 0 .. contents
    PROVE  s.inode \in 1 .. Len(inodes') /\ (Stands(s)' => Stands(s) /\ inodes'[s.inode] = inodes[s.inode])
<1>1. Len(inodes) \in Nat /\ Len(inodes') \in Nat /\ Len(inodes) <= Len(inodes') /\ contents \in Nat
  BY LenProperties DEF WritesTo, StaticTypes
<1>2. s.inode \in 1 .. Len(inodes')
  BY <1>1
<1>3. IF s.inode = i THEN inodes'[s.inode].content = contents + 1 ELSE inodes'[s.inode] = inodes[s.inode]
  BY <1>2 DEF WritesTo
<1> QED BY <1>1, <1>2, <1>3 DEF Stands

\* What is claimed of a request outlives a write, for its file stands after it only if it did before.
LEMMA TruthWritten ==
    ASSUME StaticTypes, NEW i, WritesTo(i), UNCHANGED copy, NEW c, NEW s, NEW f, Truth(c, s, f)
    PROVE  Truth(c, s, f)'
<1> DEFINE Held == s.phase \in {"opened", "waiting", "hashing", "sending"}
<1>1. Held => /\ s.inode \in 1 .. Len(inodes') /\ s.content \in 0 .. contents'
              /\ Stands(s)' => Stands(s) /\ inodes'[s.inode] = inodes[s.inode]
  <2>1. Held => s.inode \in 1 .. Len(inodes) /\ s.content \in 0 .. contents
    BY DEF Truth, HandleOf
  <2>2. contents' = contents + 1 /\ contents \in Nat
    BY DEF WritesTo, StaticTypes
  <2>3. Held => s.content \in 0 .. contents'
    BY <2>1, <2>2
  <2> QED BY <2>1, <2>3, StandsWritten
<1>2. HandleOf(s)'
  BY <1>1 DEF Truth, HandleOf, versionOf
<1>3. RequestOf(c, s)'
  BY DEF Truth, RequestOf, Requests
<1>4. HashOf(s)'
  BY <1>1 DEF Truth, HashOf, TagSoFar, Stands
<1>5. SendingOf(c, s, f)'
  BY <1>1 DEF Truth, SendingOf, TagTrue
<1>6. DoneOf(c, s, f)'
  BY DEF Truth, DoneOf, TagTrue
<1> QED BY <1>2, <1>3, <1>4, <1>5, <1>6 DEF Truth

\* A file is rewritten or replaced: no entry fits the new version, for it was stored of an older one.
LEMMA WriteTold ==
    ASSUME StaticTypes, TruthIInv, NEW i, WritesTo(i), UNCHANGED <<copy, faults>>
    PROVE  TruthIInv'
<1>1. UNCHANGED <<serving, entries>>
  BY DEF WritesTo
<1>2. ASSUME NEW d \in Clients PROVE Truth(d, serving[d], faults)'
  <2>1. PICK s, f : s = serving[d] /\ f = faults
    OBVIOUS
  <2>2. Truth(d, s, f)
    BY <2>1 DEF TruthIInv, Told
  <2>3. Truth(d, s, f)' /\ serving'[d] = s /\ faults' = f
    BY <1>1, <2>1, <2>2, TruthWritten
  <2> QED BY <2>3, TruthNow
<1>3. Told'
  BY <1>2 DEF TruthIInv, Told
<1>4. Alike'
  BY <1>1 DEF TruthIInv, Alike, SameFile, Older
<1>5. EntriesFit'
  <2>1. ASSUME NEW d \in Clients PROVE EntryOf(serving[d])'
    <3>1. PICK s : s = serving[d]
      OBVIOUS
    <3>2. EntryOf(s) /\ HandleOf(s)
      BY <3>1 DEF TruthIInv, EntriesFit, Told, Truth
    <3>3. Older(s) /\ Stands(s)' => Stands(s)
      <4>1. Older(s) => s.inode \in 1 .. Len(inodes) /\ s.content \in 0 .. contents
        BY <3>2 DEF HandleOf, Older
      <4> QED BY <4>1, StandsWritten
    <3>4. EntryOf(s)'
      BY <1>1, <3>2, <3>3 DEF EntryOf, Older, All
    <3> QED BY <1>1, <3>1, <3>4 DEF EntryOf, Older, Stands, All
  <2> QED BY <2>1 DEF EntriesFit
<1>6. Copies'
  BY DEF TruthIInv, Copies, CopyOf
<1> QED BY <1>3, <1>4, <1>5, <1>6 DEF TruthIInv

-----------------------------------------------------------------------------
\* A version older than its stat is the last there has been of its inode at that time.
LEMMA OlderFresh ==
    ASSUME StaticTypes, NEW c, NEW s, StatOf(s), LookupOf(c, s), Older(s)
    PROVE  Fresh(s, s.version.mtime + 1)
<1>1. CASE s.phase = "opened"
  <2> DEFINE since == s.opened
  <2>1. since \in Nat /\ Fresh(s, since) /\ s.version.mtime < since
    BY <1>1 DEF StatOf, Older, StaticTypes
  <2>2. s.version.mtime \in Nat
    BY <2>1 DEF Fresh, Version
  <2>3. inodes[link[s.name]].mtime \in Nat /\ inodes[s.inode].mtime \in Nat
    <3>1. link[s.name] \in 1 .. Len(inodes) /\ s.inode \in 1 .. Len(inodes) /\ inodes \in Seq(File)
      BY <2>1 DEF Fresh, StaticTypes
    <3>2. inodes[link[s.name]] \in File /\ inodes[s.inode] \in File
      BY <3>1, ElementOfSeq
    <3> QED BY <3>2 DEF File
  <2> HIDE DEF since
  <2>4. \A m \in Nat : m >= since => m >= s.version.mtime + 1
    BY <2>1, <2>2
  <2> QED BY <2>1, <2>3, <2>4 DEF Fresh
<1>2. CASE s.phase \in {"waiting", "hashing"} /\ s.call # "none"
  BY <1>2 DEF LookupOf
<1> QED BY <1>1, <1>2 DEF Older

\* A request is opened: it has the content and the version of the file that the name is linked to.
LEMMA OpenTold ==
    ASSUME StaticIInv, TruthIInv, NEW c \in Clients, NEW r \in Requests(c), Open(c, r)
    PROVE  TruthIInv'
<1> DEFINE name == FileOf(r)
           file == inodes[link[name]]
           opened == [Idle EXCEPT !.request = r, !.phase = "opened", !.name = name, !.inode = link[name],
                                  !.version = versionOf(file), !.opened = clock, !.content = file.content]
           new == IF ~Serves(r) THEN Answered(Idle, Refusal(r)) ELSE opened
<1> PICK t : t = new
  OBVIOUS
<1>1. /\ serving[c].phase \in {"idle", "done"} /\ serving' = [serving EXCEPT ![c] = t]
      /\ UNCHANGED <<inodes, contents, entries, copy, faults>>
  BY DEF Open
<1>2. StaticTypes /\ Requested /\ CacheIsTrue /\ DOMAIN serving = Clients /\ DOMAIN copy = Clients /\ CopyOf(copy[c])
  BY DEF StaticIInv, StaticTypes, TruthIInv, Told, Copies
<1>3. CASE ~Serves(r)
  <2>1. t.phase = "done" /\ ~t.whole
    BY <1>3, ServingShape DEF Answered, Idle
  <2>2. Truth(c, t, faults)
    BY <2>1, DoneTruth DEF DoneOf
  <2>3. Follows(serving[c], t)
    BY <2>1 DEF Follows, Older
  <2> QED BY <1>1, <1>2, <2>2, <2>3, FollowsTold
<1>4. CASE Serves(r)
  <2>1. name \in FileNames /\ r.method \in {"GET", "HEAD"}
    BY <1>4 DEF Serves
  <2>2. link[name] \in 1 .. Len(inodes) /\ file \in File /\ file.content <= contents /\ contents \in Nat
    <3>1. link[name] \in 1 .. Len(inodes) /\ inodes \in Seq(File)
      BY <1>2, <2>1 DEF StaticTypes
    <3> QED BY <1>2, <3>1, ElementOfSeq DEF StaticTypes
  <2>3. /\ t.phase = "opened" /\ t.name = name /\ t.inode = link[name] /\ t.version = versionOf(file)
        /\ t.opened = clock /\ t.content = file.content /\ t.request = r /\ t.body = <<>> /\ ~t.cut
    <3>1. Idle.body = <<>> /\ ~Idle.cut
      BY DEF Idle
    <3>2. t = opened
      BY <1>4
    <3> HIDE DEF name, file
    <3> QED BY <3>1, <3>2, ServingShape
  <2> HIDE DEF opened, new
  <2>4. versionOf(file) \in Version /\ file.content \in 0 .. contents
    BY <2>2 DEF File, Version, versionOf
  <2>5. Truth(c, t, faults)
    <3>1. HandleOf(t)
      BY <2>2, <2>3, <2>4 DEF HandleOf
    <3>2. RequestOf(c, t)
      BY <2>1, <2>3 DEF RequestOf
    <3> QED BY <2>3, <3>1, <3>2 DEF Truth, HashOf, SendingOf, DoneOf
  <2>6. Truth(c, t, faults)'
    <3>1. PICK f : f = faults
      OBVIOUS
    <3>2. Truth(c, t, f)
      BY <2>5, <3>1
    <3>3. copy'[c] = copy[c] /\ UNCHANGED <<inodes, contents>> /\ faults' = f
      BY <1>1, <3>1
    <3>4. Truth(c, t, f)'
      BY <3>2, <3>3, TruthFrame
    <3> QED BY <3>3, <3>4 DEF Truth, SendingOf, DoneOf, TagTrue
  <2>7. ASSUME NEW d \in Clients PROVE SameFile(t, serving[d])
    <3> SUFFICES ASSUME Older(serving[d]), serving[d].name = name, serving[d].version = versionOf(file)
                 PROVE  serving[d].inode = link[name] /\ serving[d].content = file.content
      BY <2>3 DEF SameFile
    <3>1. Fresh(serving[d], serving[d].version.mtime + 1)
      <4>1. StatOf(serving[d]) /\ LookupOf(d, serving[d])
        BY <1>2 DEF Requested
      <4> QED BY <1>2, <4>1, OlderFresh
    <3>2. serving[d].version.mtime = file.mtime /\ file.mtime \in Nat
      BY <2>2 DEF versionOf, File
    <3>3. ~(file.mtime >= serving[d].version.mtime + 1)
      BY <3>2
    <3>4. serving[d].inode = link[name]
      BY <3>1, <3>3 DEF Fresh
    <3> QED BY <3>1, <3>3, <3>4 DEF Fresh
  <2>8. EntryOf(t)
    <3> SUFFICES ASSUME entries[name].tag # NoTag, entries[name].version = versionOf(file)
                 PROVE  entries[name].tag = All(t)
      BY <2>3 DEF EntryOf
    <3>1. entries[name].tag = Octets(file.content, 0, file.size - 1)
      BY <1>2, <2>1 DEF CacheIsTrue, EntriesAreTrue
    <3> QED BY <2>3, <3>1 DEF All, versionOf
  <2> HIDE DEF name, file
  <2>9. /\ DOMAIN copy' = Clients /\ CopyOf(copy'[c]) /\ \A d \in Clients : d # c => copy'[d] = copy[d]
        /\ faults' \in Nat /\ faults' = faults
    BY <1>1, <1>2 DEF CopyOf, TruthIInv, Told
  <2> QED BY <1>1, <1>2, <2>6, <2>7, <2>8, <2>9, OneTold
<1> QED BY <1>3, <1>4

-----------------------------------------------------------------------------
Same(s, t) == /\ t.name = s.name /\ t.inode = s.inode /\ t.content = s.content /\ t.version = s.version
              /\ t.request = s.request /\ t.body = s.body /\ t.cut = s.cut

\* Not judged yet.
Pending(s) == s.phase \in {"opened", "waiting", "hashing"}

\* What is claimed of a request that is still to be judged does not depend on where it waits.
LEMMA PendingTruth ==
    ASSUME NEW c, NEW f, NEW s, NEW t, Pending(s), Pending(t), Same(s, t), Truth(c, s, f), HashOf(t)
    PROVE  Truth(c, t, f)
<1>1. HandleOf(t)
  BY DEF Truth, HandleOf, Pending, Same, Stands
<1>2. RequestOf(c, t)
  BY DEF Truth, RequestOf, Pending, Same
<1> QED BY <1>1, <1>2 DEF Truth, SendingOf, DoneOf, Pending

\* A hash begins with no octets.
LEMMA NothingHashed == ASSUME NEW s, s.version \in Version, s.tag = <<>> PROVE TagSoFar(s)
<1>1. <<>> \in Seq(Octet) /\ Len(<<>>) = 0
  BY EmptySeq
<1> QED BY <1>1 DEF TagSoFar, Version

\* The cache is asked (get in etag.go): what it answers fits, or the request waits for a hash or makes one.
LEMMA LookTold ==
    ASSUME StaticIInv, TruthIInv, MaxPause < Window, NEW c \in Clients, Look(c)
    PROVE  TruthIInv'
<1> DEFINE s0 == serving[c]
           s == [s0 EXCEPT !.opened = 0, !.mod = modTime(s0.version.mtime, clock)]
           e == entries[s.name]
           hashing == [s EXCEPT !.phase = "hashing", !.tag = <<>>]
           waiting(k) == [s EXCEPT !.phase = "waiting", !.call = k.by]
           leading == [s EXCEPT !.phase = "hashing", !.call = c, !.tag = <<>>]
<1>1. /\ StaticTypes /\ Requested /\ Copies /\ DOMAIN s0 = DOMAIN Idle /\ StatOf(s0)
      /\ Truth(c, s0, faults) /\ EntryOf(s0)
  BY DEF StaticIInv, StaticTypes, Requested, TruthIInv, Told, EntriesFit
<1>2. DOMAIN s = DOMAIN Idle /\ Same(s0, s) /\ s.phase = s0.phase /\ s.call = s0.call
  BY <1>1, ServingShape DEF Same
<1>3. s0.phase = "opened" /\ UNCHANGED <<inodes, contents, entries, copy, faults>>
  BY <1>2 DEF Look
<1>4. \/ serving' = [serving EXCEPT ![c] = hashing]
      \/ /\ settled(s.version, clock) /\ e.tag # NoTag /\ e.version = s.version
         /\ serving' = [serving EXCEPT ![c] = Judged(s, e.tag)]
      \/ settled(s.version, clock) /\ \E k \in calls : serving' = [serving EXCEPT ![c] = waiting(k)]
      \/ settled(s.version, clock) /\ serving' = [serving EXCEPT ![c] = leading]
  BY DEF Look
<1>5. s.version \in Version /\ s.call = "none"
  BY <1>1, <1>2, <1>3 DEF StatOf, Fresh, Same
<1>6. ASSUME settled(s.version, clock) PROVE Older(s0)
  <2>1. /\ s0.opened \in Nat /\ clock \in Nat /\ clock <= s0.opened + MaxPause /\ s0.version.mtime \in Nat
        /\ MaxPause \in Nat /\ Window \in Nat /\ s.version = s0.version
    BY <1>1, <1>2, <1>3, StaticAssumption DEF StatOf, Fresh, Version, StaticTypes, Same
  <2>2. clock - s0.version.mtime >= Window
    BY <1>6, <2>1 DEF settled
  <2> HIDE DEF s0, s
  <2>3. s0.version.mtime < s0.opened
    BY <2>1, <2>2
  <2> QED BY <1>3, <2>3 DEF Older
<1> HIDE DEF s0, s
<1>7. ASSUME NEW t, serving' = [serving EXCEPT ![c] = t], Pending(t), Same(s, t), HashOf(t),
             (t.call = "none" /\ t.phase = "hashing") \/ settled(s.version, clock)
      PROVE  TruthIInv'
  <2>1. Same(s0, t)
    BY <1>2, <1>7 DEF Same
  <2>2. Truth(c, t, faults)
    BY <1>1, <1>3, <1>7, <2>1, PendingTruth DEF Pending
  <2>3. Follows(s0, t)
    BY <1>6, <1>7, <2>1 DEF Follows, Same, Older
  <2> QED BY <1>1, <1>3, <1>7, <2>2, <2>3, FollowsTold DEF s0
<1>8. CASE serving' = [serving EXCEPT ![c] = hashing]
  <2> DEFINE t == hashing
  <2>1. t.phase = "hashing" /\ t.call = "none" /\ t.tag = <<>> /\ Same(s, t)
    BY <1>2, <1>5, ServingShape DEF Same
  <2> HIDE DEF t
  <2>2. HashOf(t) /\ Pending(t)
    BY <1>5, <2>1, NothingHashed DEF HashOf, Same, Pending
  <2>3. serving' = [serving EXCEPT ![c] = t]
    BY <1>8 DEF t
  <2> QED BY <1>7, <2>1, <2>2, <2>3
<1>9. CASE /\ settled(s.version, clock) /\ e.tag # NoTag /\ e.version = s.version
           /\ serving' = [serving EXCEPT ![c] = Judged(s, e.tag)]
  <2> DEFINE t == Judged(s, e.tag)
  <2>1. Judgeable(c, s)
    BY <1>1, <1>2, <1>3 DEF Judgeable, Truth, HandleOf, RequestOf, Same, Stands
  <2>2. TagFits(s, e.tag, faults)
    <3> SUFFICES ASSUME Stands(s) PROVE e.tag = All(s)
      BY DEF TagFits
    <3>1. Stands(s0) /\ Older(s0) /\ All(s) = All(s0) /\ e = entries[s0.name] /\ s.version = s0.version
      BY <1>2, <1>6, <1>9 DEF Stands, All, Same
    <3> QED BY <1>1, <1>9, <3>1 DEF EntryOf
  <2>3. Truth(c, t, faults)
    <3> DEFINE g == e.tag
    <3> HIDE DEF g
    <3>1. \A f : TagFits(s, g, f) => Truth(c, Judged(s, g), f)
      BY <1>1, <2>1, JudgedTruth
    <3> QED BY <2>2, <3>1 DEF g
  <2>4. Answering(t)
    BY <1>2, JudgedIs
  <2> HIDE DEF t
  <2>5. Follows(s0, t)
    BY <2>4 DEF Answering, Follows, Older
  <2>6. serving' = [serving EXCEPT ![c] = t]
    BY <1>9 DEF t
  <2> QED BY <1>1, <1>3, <2>3, <2>5, <2>6, FollowsTold DEF s0
<1>10. ASSUME settled(s.version, clock), NEW k \in calls, serving' = [serving EXCEPT ![c] = waiting(k)]
       PROVE  TruthIInv'
  <2> DEFINE t == waiting(k)
  <2>1. t.phase = "waiting" /\ Same(s, t)
    BY <1>2, ServingShape DEF Same
  <2> HIDE DEF t
  <2>2. HashOf(t) /\ Pending(t)
    BY <2>1 DEF HashOf, Pending
  <2>3. serving' = [serving EXCEPT ![c] = t]
    BY <1>10 DEF t
  <2> QED BY <1>7, <1>10, <2>1, <2>2, <2>3
<1>11. CASE settled(s.version, clock) /\ serving' = [serving EXCEPT ![c] = leading]
  <2> DEFINE t == leading
  <2>1. t.phase = "hashing" /\ t.tag = <<>> /\ Same(s, t)
    BY <1>2, ServingShape DEF Same
  <2> HIDE DEF t
  <2>2. HashOf(t) /\ Pending(t)
    BY <1>5, <2>1, NothingHashed DEF HashOf, Same, Pending
  <2>3. serving' = [serving EXCEPT ![c] = t]
    BY <1>11 DEF t
  <2> QED BY <1>7, <1>11, <2>1, <2>2, <2>3
<1> HIDE DEF e, hashing, waiting, leading
<1> QED BY <1>4, <1>8, <1>9, <1>10, <1>11

\* One more octet is hashed: the tag so far is still that of the content, while that stands.
LEMMA OctetHashed ==
    ASSUME StaticTypes, NEW s, NEW t, TagSoFar(s), s.inode \in 1 .. Len(inodes), s.version \in Version, ~AtEnd(s),
           t.tag = Append(s.tag, <<inodes[s.inode].content, Len(s.tag) + 1>>),
           t.inode = s.inode, t.content = s.content, t.version = s.version
    PROVE  TagSoFar(t)
<1> DEFINE octet == <<inodes[s.inode].content, Len(s.tag) + 1>>
           l == Len(s.tag)
<1>1. s.tag \in Seq(Octet) /\ inodes[s.inode] \in File /\ l \in Nat
  BY ElementOfSeq, LenProperties DEF StaticTypes, TagSoFar
<1>2. octet \in Octet
  BY <1>1 DEF File, Octet
<1>3. /\ t.tag \in Seq(Octet) /\ Len(t.tag) = l + 1 /\ t.tag[l + 1] = octet
      /\ \A i \in 1 .. l : t.tag[i] = s.tag[i]
  BY <1>1, <1>2, AppendProperties
<1>4. ASSUME inodes[s.inode].content = s.content
      PROVE  l + 1 <= s.version.size /\ \A i \in 1 .. l + 1 : t.tag[i] = <<s.content, i>>
  <2>1. l + 1 <= s.version.size
    <3>1. ~(l >= s.version.size)
      BY DEF AtEnd
    <3> QED BY <1>1, <3>1 DEF Version
  <2>2. \A i \in 1 .. l : s.tag[i] = <<s.content, i>>
    BY <1>4 DEF TagSoFar
  <2>3. octet = <<s.content, l + 1>>
    BY <1>4
  <2> HIDE DEF l, octet
  <2>4. ASSUME NEW i \in 1 .. l + 1 PROVE t.tag[i] = <<s.content, i>>
    <3>1. i = l + 1 \/ i \in 1 .. l
      BY <1>1
    <3> QED BY <1>3, <2>2, <2>3, <3>1
  <2> QED BY <2>1, <2>4
<1> HIDE DEF l, octet
<1> QED BY <1>3, <1>4 DEF TagSoFar

\* An octet is hashed.
LEMMA HashOctetTold ==
    ASSUME StaticIInv, TruthIInv, NEW c \in Clients, HashOctet(c)
    PROVE  TruthIInv'
<1> DEFINE s == serving[c]
           t == [s EXCEPT !.tag = Append(s.tag, <<inodes[s.inode].content, Len(s.tag) + 1>>)]
<1>1. /\ StaticTypes /\ DOMAIN s = DOMAIN Idle /\ Truth(c, s, faults)
      /\ s.phase = "hashing" /\ ~AtEnd(s) /\ UNCHANGED <<inodes, contents, entries, faults, copy>>
  BY DEF StaticIInv, StaticTypes, TruthIInv, Told, HashOctet
<1>2. serving' = [serving EXCEPT ![c] = t]
  BY <1>1, ServingShape DEF HashOctet, StaticTypes
<1>3. /\ Same(s, t) /\ t.phase = "hashing" /\ t.call = s.call
      /\ t.tag = Append(s.tag, <<inodes[s.inode].content, Len(s.tag) + 1>>)
  BY <1>1, ServingShape DEF Same
<1>4. TagSoFar(s) /\ s.inode \in 1 .. Len(inodes) /\ s.version \in Version
  BY <1>1 DEF Truth, HashOf, HandleOf
<1> HIDE DEF s, t
<1>5. TagSoFar(t)
  BY <1>1, <1>3, <1>4, OctetHashed DEF Same
<1>6. Truth(c, t, faults)
  BY <1>1, <1>3, <1>5, PendingTruth DEF Pending, HashOf
<1>7. Follows(s, t)
  BY <1>1, <1>3 DEF Follows, Older, Same
<1> QED BY <1>1, <1>2, <1>6, <1>7, FollowsTold DEF s

-----------------------------------------------------------------------------
\* A tag of all the octets there are is that of the content.
LEMMA TagIs ==
    ASSUME NEW tag \in Seq(Octet), NEW size \in Nat, NEW content, Len(tag) = size,
           \A i \in 1 .. size : tag[i] = <<content, i>>
    PROVE  tag = Octets(content, 0, size - 1)
<1>1. tag = [i \in 1 .. size |-> <<content, i>>]
  <2>1. DOMAIN tag = 1 .. size /\ tag = [i \in DOMAIN tag |-> tag[i]]
    BY LenProperties
  <2> QED BY <2>1
<1>2. size - 1 - 0 + 1 = size /\ \A i \in 1 .. size : 0 + i = i
  OBVIOUS
<1> QED BY <1>1, <1>2 DEF Octets

\* A hash that has reached the end of a file that stands is the tag of its content.
LEMMA WholeHash ==
    ASSUME StaticTypes, NEW s, s.inode \in 1 .. Len(inodes), s.version \in Version,
           versionOf(inodes[s.inode]) = s.version, TagSoFar(s), AtEnd(s), Stands(s)
    PROVE  s.tag = All(s)
<1> DEFINE size == s.version.size
<1>1. inodes[s.inode].size = size /\ size \in Nat
  BY DEF versionOf, Version
<1>2. /\ s.tag \in Seq(Octet) /\ Len(s.tag) \in Nat /\ Len(s.tag) <= size
      /\ \A i \in 1 .. Len(s.tag) : s.tag[i] = <<s.content, i>>
  BY LenProperties DEF TagSoFar, Stands
<1>3. Len(s.tag) = size
  BY <1>1, <1>2 DEF AtEnd
<1> HIDE DEF size
<1> QED BY <1>1, <1>2, <1>3, TagIs DEF All, size

\* Who waits for a hash has the version that is hashed, and so the content.
LEMMA WaitersAlike ==
    ASSUME StaticIInv, TruthIInv, NEW c \in Clients, NEW d \in Clients,
           serving[d].phase = "waiting", serving[d].call = c
    PROVE  /\ serving[c].call = c /\ serving[d].version = serving[c].version
           /\ serving[d].inode = serving[c].inode /\ serving[d].content = serving[c].content
<1>1. PICK k \in calls : k.by = c /\ k.key = keyOf(serving[d].name, serving[d].version)
  BY DEF StaticIInv, CacheIsTrue, WaitersHaveCalls
<1>2. /\ serving[c].phase = "hashing" /\ serving[c].call = c
      /\ k.key = keyOf(serving[c].name, serving[c].version)
  BY <1>1 DEF StaticIInv, CacheIsTrue, CallsAreLed
<1>3. serving[d].name = serving[c].name /\ serving[d].version = serving[c].version
  BY <1>1, <1>2 DEF keyOf
<1>4. Older(serving[c]) /\ Older(serving[d])
  BY <1>2, StaticAssumption DEF Older
<1>5. SameFile(serving[d], serving[c])
  BY DEF TruthIInv, Alike
<1> QED BY <1>2, <1>3, <1>4, <1>5 DEF SameFile

\* A hash ends, well or badly: its leader and all that wait for it are judged by what it made.
LEMMA HashEndsTold ==
    ASSUME StaticIInv, TruthIInv, NEW c \in Clients, NEW tag, serving[c].phase = "hashing", HashEnds(c, tag),
           faults' \in {faults, faults + 1},
           (tag = NoTag /\ faults' # 0) \/ (tag = serving[c].tag /\ AtEnd(serving[c]))
    PROVE  TruthIInv'
<1> DEFINE s == serving[c]
           Resumes(d) == d = c \/ (serving[d].phase = "waiting" /\ serving[d].call = c)
<1>1. /\ UNCHANGED <<inodes, contents, copy>>
      /\ serving' = [d \in Clients |-> IF Resumes(d) THEN Judged(serving[d], tag) ELSE serving[d]]
      /\ \/ entries' = entries
         \/ /\ s.call = c /\ tag # NoTag
            /\ entries' \in Stored(s.name, [version |-> s.version, tag |-> tag])
  BY DEF HashEnds
<1>2. /\ StaticTypes /\ Requested /\ CacheIsTrue /\ Copies /\ faults \in Nat /\ faults' \in Nat
      /\ faults' = 0 => faults = 0
      /\ \A d \in Clients : DOMAIN serving[d] = DOMAIN Idle /\ Truth(d, serving[d], faults)
  BY DEF StaticIInv, StaticTypes, TruthIInv, Told
<1>3. \A d \in Clients : serving'[d] = IF Resumes(d) THEN Judged(serving[d], tag) ELSE serving[d]
  BY <1>1
<1>4. ASSUME tag # NoTag \/ faults' = 0, Stands(s) PROVE tag = All(s)
  <2>1. tag = s.tag /\ AtEnd(s)
    BY <1>4
  <2>2. s.inode \in 1 .. Len(inodes) /\ s.version \in Version /\ versionOf(inodes[s.inode]) = s.version /\ TagSoFar(s)
    BY <1>2, <1>4 DEF Truth, HandleOf, HashOf
  <2> QED BY <1>2, <1>4, <2>1, <2>2, WholeHash
<1> HIDE DEF s
<1>5. ASSUME NEW d \in Clients, Resumes(d) PROVE Truth(d, Judged(serving[d], tag), faults') /\ ~Older(serving'[d])
  <2>1. serving[d].version = s.version /\ serving[d].inode = s.inode /\ serving[d].content = s.content
        /\ serving[d].phase \in {"waiting", "hashing"}
    BY <1>5, WaitersAlike DEF s
  <2>2. TagFits(serving[d], tag, faults')
    BY <1>4, <2>1 DEF TagFits, Stands, All
  <2>3. Judgeable(d, serving[d])
    BY <1>2, <2>1 DEF Judgeable, Truth
  <2>4. Truth(d, Judged(serving[d], tag), faults')
    <3>1. PICK f : f = faults'
      OBVIOUS
    <3>2. \A t : Judgeable(d, t) /\ TagFits(t, tag, f) => Truth(d, Judged(t, tag), f)
      BY <1>2, JudgedTruth
    <3> QED BY <2>2, <2>3, <3>1, <3>2
  <2>5. Answering(Judged(serving[d], tag))
    BY <1>2, JudgedIs
  <2> QED BY <1>3, <1>5, <2>4, <2>5 DEF Answering, Older
<1> HIDE DEF Resumes
<1>6. ASSUME NEW d \in Clients PROVE Truth(d, serving[d], faults)'
  <2>1. PICK t, f : t = serving'[d] /\ f = faults'
    OBVIOUS
  <2>2. Truth(d, t, f)
    <3>1. CASE Resumes(d)
      BY <1>3, <1>5, <2>1, <3>1
    <3>2. CASE ~Resumes(d)
      <4>1. t = serving[d]
        BY <1>3, <2>1, <3>2
      <4> QED BY <1>2, <2>1, <4>1, TruthFaults
    <3> QED BY <3>1, <3>2
  <2>3. UNCHANGED <<inodes, contents>> /\ copy'[d] = copy[d]
    BY <1>1
  <2>4. Truth(d, t, f)'
    BY <2>2, <2>3, TruthFrame
  <2> QED BY <2>1, <2>4, TruthNow
<1>7. Told' /\ Copies'
  BY <1>1, <1>2, <1>6 DEF TruthIInv, Told, Copies, CopyOf
<1>8. Alike'
  <2>1. ASSUME NEW d \in Clients, NEW e \in Clients PROVE SameFile(serving'[d], serving'[e])
    <3>1. SameFile(serving[d], serving[e])
      BY DEF TruthIInv, Alike
    <3>2. \A x \in Clients : ~Older(serving'[x]) \/ serving'[x] = serving[x]
      BY <1>3, <1>5
    <3> QED BY <3>1, <3>2 DEF SameFile
  <2> QED BY <2>1 DEF Alike, SameFile, Older
<1>9. ASSUME NEW n \in FileNames
      PROVE  \/ entries'[n].tag = NoTag \/ entries'[n] = entries[n]
             \/ /\ s.call = c /\ n = s.name
                /\ entries'[n].version = s.version /\ entries'[n].tag = tag /\ tag # NoTag
  <2>1. CASE /\ s.call = c /\ tag # NoTag
             /\ entries' \in Stored(s.name, [version |-> s.version, tag |-> tag])
    <3> DEFINE e == [version |-> s.version, tag |-> tag]
    <3>1. s.name \in FileNames /\ DOMAIN entries = FileNames /\ CacheFits
      <4>1. LookupOf(c, s) /\ c # "none" /\ s.phase = "hashing"
        BY <1>2, StaticAssumption DEF Requested, s
      <4> QED BY <1>2, <2>1, <4>1 DEF LookupOf, Fresh, StaticTypes, CacheIsTrue
    <3>2. e.version = s.version /\ e.tag = tag /\ entries' \in Stored(s.name, e)
      BY <2>1
    <3> HIDE DEF e
    <3>3. entries'[n] \in {entries[n], NoEntry} \/ (n = s.name /\ entries'[n] = e)
      BY <2>1, <3>1, <3>2, StoredIs
    <3>4. NoEntry.tag = NoTag
      BY DEF NoEntry
    <3> QED BY <2>1, <3>2, <3>3, <3>4
  <2> QED BY <1>1, <2>1
<1>10. EntriesFit'
  <2>1. ASSUME NEW d \in Clients PROVE EntryOf(serving[d])'
    <3>1. PICK t : t = serving'[d]
      OBVIOUS
    <3>2. ASSUME Older(t), Stands(t), entries'[t.name].tag # NoTag, entries'[t.name].version = t.version
          PROVE  entries'[t.name].tag = All(t)
      <4>1. t = serving[d]
        BY <1>3, <1>5, <3>1, <3>2
      <4>2. t.name \in FileNames
        <5>1. StatOf(t) /\ LookupOf(d, t)
          BY <1>2, <4>1 DEF Requested
        <5> QED BY <1>2, <3>2, <5>1, OlderFresh DEF Fresh
      <4>3. CASE entries'[t.name] = entries[t.name]
        <5>1. EntryOf(t)
          BY <4>1 DEF TruthIInv, EntriesFit
        <5> QED BY <3>2, <4>3, <5>1 DEF EntryOf
      <4>4. CASE /\ s.call = c /\ t.name = s.name
                 /\ entries'[t.name].version = s.version /\ entries'[t.name].tag = tag /\ tag # NoTag
        <5>1. SameFile(t, s)
          BY <4>1 DEF TruthIInv, Alike, s
        <5>2. Older(s)
          BY <4>4, StaticAssumption DEF Older, s
        <5>3. t.inode = s.inode /\ t.content = s.content /\ t.version = s.version
          BY <3>2, <4>4, <5>1, <5>2 DEF SameFile
        <5>4. Stands(s) /\ All(t) = All(s)
          BY <3>2, <5>3 DEF Stands, All
        <5> QED BY <1>4, <4>4, <5>4
      <4> QED BY <1>9, <3>2, <4>2, <4>3, <4>4
    <3>3. inodes' = inodes
      BY <1>1
    <3> QED BY <3>1, <3>2, <3>3 DEF EntryOf, Older, Stands, All
  <2> QED BY <2>1 DEF EntriesFit
<1> QED BY <1>7, <1>8, <1>10 DEF TruthIInv

-----------------------------------------------------------------------------
\* An octet is sent, or the file is found shorter than the span and the answer is not whole.
LEMMA SendOctetTold ==
    ASSUME StaticIInv, TruthIInv, NEW c \in Clients, SendOctet(c)
    PROVE  TruthIInv'
<1> DEFINE s == serving[c]
           size == s.version.size
           span == s.spans[1]
           rest == IF span.first = span.last THEN Tail(s.spans)
                   ELSE <<[span EXCEPT !.first = span.first + 1]>> \o Tail(s.spans)
           octet == <<inodes[s.inode].content, span.first + 1>>
           short == [s EXCEPT !.spans = Tail(s.spans)]
           longer == [s EXCEPT !.spans = rest, !.body = Append(s.body, octet)]
           t == IF span.first >= inodes[s.inode].size THEN short ELSE longer
<1>1. /\ StaticTypes /\ DOMAIN s = DOMAIN Idle /\ Truth(c, s, faults) /\ s.phase = "sending" /\ s.spans # <<>>
      /\ UNCHANGED <<inodes, contents, entries, faults, copy>>
  BY DEF StaticIInv, StaticTypes, TruthIInv, Told, SendOctet
<1>2. serving' = [serving EXCEPT ![c] = t]
  <2>1. short = [s EXCEPT !.spans = Tail(@)]
    BY <1>1, ServingShape
  <2>2. DOMAIN span = {"first", "last"} /\ \A f : [span EXCEPT !.first = f] = [span EXCEPT !.first = f]
    <3>1. span \in SpanIn(size)
      BY <1>1, ElementOfSeq, LenProperties, EmptySeq DEF Truth, SendingOf
    <3> QED BY <3>1 DEF SpanIn
  <2> QED BY <1>1, ServingShape DEF SendOctet
<1>3. /\ s.inode \in 1 .. Len(inodes) /\ s.content \in Nat /\ s.version \in Version /\ size \in Nat
      /\ Stands(s) => inodes[s.inode].size = size
      /\ s.spans \in Seq(SpanIn(size)) /\ s.body \in Seq(Octet) /\ SendingOf(c, s, faults) /\ HandleOf(s)
      /\ inodes[s.inode] \in File
  <2>1. HandleOf(s) /\ SendingOf(c, s, faults)
    BY <1>1 DEF Truth
  <2>2. s.inode \in 1 .. Len(inodes) /\ inodes \in Seq(File) /\ contents \in Nat
    BY <1>1, <2>1 DEF HandleOf, StaticTypes
  <2>3. inodes[s.inode] \in File
    BY <2>2, ElementOfSeq
  <2> HIDE DEF s
  <2>4. /\ s.content \in Nat /\ s.version \in Version
        /\ Stands(s) => versionOf(inodes[s.inode]) = s.version
    BY <1>1, <2>1, <2>2 DEF HandleOf
  <2>5. size \in Nat /\ (Stands(s) => inodes[s.inode].size = size)
    BY <2>4 DEF Version, versionOf
  <2>6. s.spans \in Seq(SpanIn(size)) /\ s.body \in Seq(Octet)
    BY <1>1, <2>1 DEF SendingOf
  <2> QED BY <2>1, <2>2, <2>3, <2>4, <2>5, <2>6
<1> HIDE DEF s
<1>4. /\ rest \in Seq(SpanIn(size)) /\ Tail(s.spans) \in Seq(SpanIn(size)) /\ span \in SpanIn(size)
      /\ Pieces(s, rest) \in Seq(Octet)
      /\ Pieces(s, s.spans) = <<<<s.content, span.first + 1>>>> \o Pieces(s, rest)
  BY <1>1, <1>3, PiecesHead, PiecesOctet
<1>5. span.first \in Nat /\ span.first < size /\ octet \in Octet
  <2>1. span.first \in Nat /\ span.first < size
    <3> HIDE DEF span, size
    <3>1. span.first \in Nat /\ span.last \in Nat /\ span.first <= span.last /\ span.last < size
      BY <1>3, <1>4, SpansAre
    <3> QED BY <1>3, <3>1
  <2>2. inodes[s.inode].content \in Nat /\ span.first + 1 \in Nat
    BY <1>3, <2>1 DEF File
  <2> HIDE DEF span, size
  <2> QED BY <2>1, <2>2 DEF Octet
<1>6. /\ DOMAIN t = DOMAIN s /\ t.phase = "sending" /\ t.status = s.status /\ Same([s EXCEPT !.body = t.body], t)
      /\ t.tag = s.tag
      /\ \/ ~Stands(s) /\ t.spans \in Seq(SpanIn(size)) /\ t.body \in Seq(Octet)
         \/ t.spans = rest /\ t.body = Append(s.body, octet)
  <2> HIDE DEF span, rest, octet
  <2>1. CASE span.first >= inodes[s.inode].size
    <3>1. ~Stands(s)
      BY <1>3, <1>5, <2>1
    <3> QED BY <1>1, <1>3, <1>4, <2>1, <3>1, ServingShape DEF Same
  <2>2. CASE ~(span.first >= inodes[s.inode].size)
    BY <1>1, <2>2, ServingShape DEF Same
  <2> QED BY <2>1, <2>2
<1>7. /\ t.inode = s.inode /\ t.content = s.content /\ t.version = s.version /\ t.request = s.request
      /\ t.cut = s.cut
  <2> HIDE DEF t
  <2> QED BY <1>1, <1>6, ServingShape DEF Same
<1> HIDE DEF t
<1>8. HandleOf(t)
  <2>1. /\ s.inode \in 1 .. Len(inodes) /\ s.content \in 0 .. contents /\ s.version \in Version
        /\ Stands(s) => versionOf(inodes[s.inode]) = s.version
    BY <1>1, <1>3 DEF HandleOf
  <2>2. Stands(t) => Stands(s)
    BY <1>7 DEF Stands
  <2>3. Stands(t) => versionOf(inodes[t.inode]) = t.version
    BY <1>7, <2>1, <2>2
  <2>4. t.inode \in 1 .. Len(inodes) /\ t.content \in 0 .. contents /\ t.version \in Version
    BY <1>7, <2>1
  <2> QED BY <2>3, <2>4 DEF HandleOf
<1>9. All(t) = All(s) /\ Asked(t) = Asked(s) /\ (Stands(t) <=> Stands(s)) /\ \A q : Pieces(t, q) = Pieces(s, q)
  BY <1>7 DEF All, Asked, Stands, Pieces
<1>10. t.body \in Seq(Octet) /\ t.spans \in Seq(SpanIn(size))
  <2> HIDE DEF size, span, rest, octet, short, longer
  <2>1. Append(s.body, octet) \in Seq(Octet)
    BY <1>3, <1>5, AppendProperties
  <2> QED BY <1>4, <1>6, <2>1
<1>11. Stands(s) => t.body \o Pieces(s, t.spans) = s.body \o Pieces(s, s.spans)
  <2> SUFFICES ASSUME Stands(s) PROVE t.body \o Pieces(s, t.spans) = s.body \o Pieces(s, s.spans)
    OBVIOUS
  <2> DEFINE a == s.body
             h == <<octet>>
             b == Pieces(s, rest)
  <2>1. octet = <<s.content, span.first + 1>>
    BY DEF Stands
  <2>2. Pieces(s, s.spans) = h \o b
    BY <1>4, <2>1
  <2>3. t.spans = rest /\ t.body = Append(a, octet)
    BY <1>6
  <2> HIDE DEF octet, rest
  <2>4. Append(a, octet) = a \o h /\ h \in Seq(Octet) /\ a \in Seq(Octet) /\ b \in Seq(Octet)
    BY <1>3, <1>4, <1>5, AppendIsConcat
  <2> HIDE DEF a, b, h
  <2>5. (a \o h) \o b = a \o (h \o b)
    BY <2>4, ConcatAssociative
  <2> QED BY <2>2, <2>3, <2>4, <2>5 DEF a, b
<1>12. SendingOf(c, t, faults)
  <2>1. /\ s.status \in {200, 206}
        /\ s.status = 200 => s.request.method # "HEAD"
        /\ Stands(s) =>
            /\ TagTrue(s, faults)
            /\ s.body \o Pieces(s, s.spans) = IF s.status = 200 THEN All(s) ELSE Pieces(s, Asked(s))
            /\ s.status = 206 => copy[c].tag = All(s)
        /\ ~s.cut
    BY <1>1, <1>3 DEF SendingOf, Answer
  <2>2. Stands(t) => TagTrue(t, faults)
    BY <1>6, <1>9, <2>1 DEF TagTrue
  <2>3. Stands(t) => t.body \o Pieces(t, t.spans) = IF t.status = 200 THEN All(t) ELSE Pieces(t, Asked(t))
    <3> HIDE DEF size, span, rest, octet
    <3>1. /\ Pieces(t, t.spans) = Pieces(s, t.spans) /\ Pieces(t, Asked(t)) = Pieces(s, Asked(s))
          /\ t.status = s.status /\ (Stands(t) => Stands(s)) /\ All(t) = All(s)
      BY <1>6, <1>9
    <3>2. PICK p : p = t.body \o Pieces(t, t.spans)
      OBVIOUS
    <3>3. p = t.body \o Pieces(s, t.spans)
      BY <3>1, <3>2, Zenon
    <3>4. PICK q : q = s.body \o Pieces(s, s.spans)
      OBVIOUS
    <3>5. Stands(s) => p = q
      BY <1>11, <3>3, <3>4, Zenon
    <3>6. Stands(s) => q = IF s.status = 200 THEN All(s) ELSE Pieces(s, Asked(s))
      BY <2>1, <3>4, Zenon
    <3>7. Stands(t) => p = IF t.status = 200 THEN All(t) ELSE Pieces(t, Asked(t))
      BY <3>1, <3>5, <3>6
    <3> QED BY <3>2, <3>7, Zenon
  <2>4. t.version.size = size
    BY <1>7
  <2>5. t.phase = "sending" /\ t.status = s.status /\ t.request = s.request
    BY <1>6, <1>7
  <2>6. Stands(t) /\ t.status = 206 => copy[c].tag = All(t)
    <3> HIDE DEF size, span, rest, octet
    <3> QED BY <1>9, <2>1, <2>5
  <2> HIDE DEF size, span, rest, octet
  <2>7. /\ ~t.cut
    BY <1>7, <2>1
  <2>8. /\ t.status \in {200, 206} /\ t.spans \in Seq(SpanIn(t.version.size)) /\ t.body \in Seq(Octet)
        /\ t.status = 200 => t.request.method # "HEAD"
    BY <1>10, <2>1, <2>4, <2>5
  <2>9. Stands(t) => t.body \o Pieces(t, t.spans) = Answer(t)
    BY <2>3 DEF Answer
  <2> QED BY <2>2, <2>6, <2>7, <2>8, <2>9, Zenon DEF SendingOf
<1>13. Truth(c, t, faults)
  BY <1>6, <1>8, <1>12, SendingTruth
<1>14. Follows(s, t)
  BY <1>6 DEF Follows, Older
<1> QED BY <1>1, <1>2, <1>13, <1>14, FollowsTold DEF s

\* What comes before the rest, if there is a rest, is a beginning that stops short.
LEMMA Beginning ==
    ASSUME NEW a \in Seq(Octet), NEW b \in Seq(Octet), b # <<>>
    PROVE  \E n \in 0..Len(a \o b) - 1 : a = SubSeq(a \o b, 1, n)
<1> DEFINE w == a \o b
           n == Len(a)
           x == SubSeq(w, 1, n)
<1>1. n \in Nat /\ Len(b) \in Nat /\ Len(b) # 0
  BY LenProperties, EmptySeq
<1>2. w \in Seq(Octet) /\ Len(w) = n + Len(b) /\ \A i \in 1 .. n : w[i] = a[i]
  <2>1. /\ w \in Seq(Octet) /\ Len(w) = n + Len(b)
        /\ \A i \in 1 .. n + Len(b) : w[i] = IF i <= n THEN a[i] ELSE b[i - n]
    BY ConcatProperties
  <2> HIDE DEF w, n
  <2> QED BY <1>1, <2>1
<1> HIDE DEF w, n
<1>3. x \in Seq(Octet) /\ Len(x) = n /\ \A i \in 1 .. n : x[i] = w[i]
  <2>1. \A i \in 1 .. n : w[i] \in Octet
    <3>1. \A i \in 1 .. n : i \in 1 .. Len(w)
      BY <1>1, <1>2
    <3> QED BY <1>2, <3>1, ElementOfSeq
  <2>2. x = [i \in 1 .. n |-> w[i]]
    BY <1>1, <1>2
  <2> HIDE DEF x
  <2> QED BY <1>1, <2>1, <2>2
<1> HIDE DEF x
<1>4. a = x
  BY <1>2, <1>3, SeqEqual DEF n
<1>5. n \in 0 .. Len(w) - 1
  BY <1>1, <1>2
<1> QED BY <1>4, <1>5 DEF x, w

\* An answer of the announced length is not one that a failed read has cut.
LEMMA NotCut ==
    ASSUME NEW s, s.content \in Nat, s.version.size \in Nat, Carries(s, All(s)), Len(s.body) = s.version.size
    PROVE  ~s.cut /\ s.body = All(s)
<1> DEFINE size == s.version.size
           w == All(s)
<1>1. w \in Seq(Octet) /\ Len(w) = size
  <2>1. size - 1 \in Int /\ size - 1 >= 0 - 1 /\ size - 1 - 0 + 1 = size /\ size \in Nat
    OBVIOUS
  <2>2. w = [i \in 1 .. size |-> <<s.content, 0 + i>>]
    BY <2>1 DEF All, Octets
  <2>3. w \in Seq(Octet)
    BY <2>1, OctetsTyped DEF All
  <2> HIDE DEF w, size
  <2> QED BY <2>1, <2>2, <2>3
<1> HIDE DEF w
<1>2. ASSUME NEW n \in 0 .. Len(w) - 1 PROVE Len(SubSeq(w, 1, n)) = n /\ n < size
  <2> HIDE DEF size
  <2>1. size \in Nat
    BY DEF size
  <2>2. n \in Nat /\ n < size /\ \A i \in 1 .. n : i \in 1 .. Len(w)
    BY <1>1, <2>1
  <2>3. SubSeq(w, 1, n) = [i \in 1 .. n |-> w[i]]
    BY <1>1, <2>2
  <2> QED BY <2>2, <2>3
<1>3. ~s.cut
  <2> SUFFICES ASSUME s.cut PROVE FALSE
    OBVIOUS
  <2>1. PICK n \in 0 .. Len(w) - 1 : s.body = SubSeq(w, 1, n)
    BY DEF Carries, w
  <2>2. Len(s.body) = n /\ n < size
    BY <1>2, <2>1
  <2> QED BY <2>2
<1> QED BY <1>3 DEF Carries, w

\* A read of the content fails: what was sent is a beginning of the answer.
LEMMA SendFailsTold ==
    ASSUME StaticIInv, TruthIInv, NEW c \in Clients, SendFails(c)
    PROVE  TruthIInv'
<1> DEFINE s == serving[c]
           new == [s EXCEPT !.spans = <<>>, !.cut = TRUE]
<1> PICK t : t = new
  OBVIOUS
<1>1. /\ StaticTypes /\ DOMAIN s = DOMAIN Idle /\ Truth(c, s, faults) /\ s.phase = "sending" /\ s.spans # <<>>
      /\ DOMAIN serving = Clients /\ DOMAIN copy = Clients /\ Copies /\ faults \in Nat /\ faults' = faults + 1
      /\ UNCHANGED <<inodes, contents, entries, copy>>
  BY DEF StaticIInv, StaticTypes, TruthIInv, Told, SendFails
<1>2. serving' = [serving EXCEPT ![c] = t]
  BY <1>1, ServingShape DEF SendFails
<1>3. /\ t.phase = "sending" /\ t.spans = <<>> /\ t.cut = TRUE /\ t.status = s.status /\ t.tag = s.tag
      /\ t.body = s.body /\ t.inode = s.inode /\ t.content = s.content /\ t.version = s.version
      /\ t.request = s.request
  BY <1>1, ServingShape
<1> HIDE DEF s, new
<1>4. HandleOf(s) /\ SendingOf(c, s, faults)
  BY <1>1 DEF Truth
<1>5. /\ s.content \in Nat /\ s.version.size \in Nat /\ s.spans \in Seq(SpanIn(s.version.size))
      /\ s.body \in Seq(Octet) /\ ~s.cut
  BY <1>1, <1>4 DEF HandleOf, SendingOf, StaticTypes, Version
<1>6. /\ All(t) = All(s) /\ Answer(t) = Answer(s) /\ (Stands(t) <=> Stands(s))
  BY <1>3 DEF All, Asked, Stands, Pieces, Answer
<1>7. Pieces(s, s.spans) \in Seq(Octet) /\ Pieces(s, s.spans) # <<>>
  <2> DEFINE size == s.version.size
             q == s.spans
             h == <<<<s.content, q[1].first + 1>>>>
  <2>1. PICK b \in Seq(Octet) : Pieces(s, q) = h \o b
    <3> DEFINE rest == IF q[1].first = q[1].last THEN Tail(q)
                       ELSE <<[q[1] EXCEPT !.first = q[1].first + 1]>> \o Tail(q)
               d == Pieces(s, rest)
    <3>1. d \in Seq(Octet) /\ Pieces(s, q) = h \o d
      BY <1>1, <1>5, PiecesOctet
    <3> HIDE DEF d, h, q
    <3> QED BY <3>1
  <2>2. Pieces(s, q) \in Seq(Octet)
    BY <1>5, PiecesTyped
  <2>3. Pieces(s, q) # <<>>
    <3> DEFINE o == <<s.content, q[1].first + 1>>
    <3>1. q[1].first + 1 \in Nat /\ s.content \in Nat
      <4>1. q[1] \in SpanIn(size) /\ size \in Nat
        BY <1>1, <1>5, PiecesHead
      <4> HIDE DEF q, size
      <4> QED BY <1>5, <4>1, SpansAre
    <3>2. o \in Octet
      BY <3>1 DEF Octet
    <3> HIDE DEF o
    <3>3. <<o>> \in Seq(Octet) /\ Len(<<o>>) = 1
      BY <3>2
    <3>4. Len(<<o>> \o b) = 1 + Len(b) /\ Len(b) \in Nat
      BY <3>3, ConcatProperties, LenProperties
    <3>5. Len(<<o>> \o b) # 0 /\ Len(<<>>) = 0
      BY <3>4
    <3> QED BY <2>1, <3>5 DEF o
  <2> QED BY <2>2, <2>3
<1>8. ASSUME Stands(t) PROVE Carries(t, Answer(t))
  <2> DEFINE a == s.body
             b == Pieces(s, s.spans)
  <2>1. a \o b = Answer(t)
    BY <1>1, <1>4, <1>5, <1>6, <1>8 DEF SendingOf
  <2>2. a \in Seq(Octet) /\ b \in Seq(Octet) /\ b # <<>>
    BY <1>5, <1>7
  <2> HIDE DEF a, b
  <2>3. \E n \in 0..Len(a \o b) - 1 : a = SubSeq(a \o b, 1, n)
    BY <2>2, Beginning
  <2>4. t.body = a
    BY <1>3 DEF a
  <2> QED BY <1>3, <2>1, <2>3, <2>4 DEF Carries
<1>9. PICK g : g = faults + 1
  OBVIOUS
<1>10. HandleOf(t)
  BY <1>1, <1>3, <1>4, <1>6 DEF HandleOf
<1>11. SendingOf(c, t, g)
  <2>1. Stands(t) => TagTrue(t, g)
    BY <1>1, <1>3, <1>4, <1>6, <1>9 DEF SendingOf, TagTrue
  <2>2. <<>> \in Seq(SpanIn(t.version.size))
    BY EmptySeq
  <2>3. /\ s.status \in {200, 206} /\ (s.status = 200 => s.request.method # "HEAD")
        /\ Stands(s) /\ s.status = 206 => copy[c].tag = All(s)
    BY <1>1, <1>4 DEF SendingOf
  <2>4. Stands(t) /\ t.status = 206 => copy[c].tag = All(t)
    BY <1>3, <1>6, <2>3
  <2> QED BY <1>3, <1>5, <1>8, <2>1, <2>2, <2>3, <2>4 DEF SendingOf
<1>12. Truth(c, t, g)
  BY <1>3, <1>10, <1>11, SendingTruth
<1>13. Truth(c, t, g)' /\ faults' = g
  BY <1>1, <1>9, <1>12, TruthFrame
<1>14. Truth(c, t, faults)'
  BY <1>13 DEF Truth, SendingOf, DoneOf, TagTrue
<1>15. ~Older(t)
  BY <1>3 DEF Older
<1>16. EntryOf(t) /\ \A d \in Clients : SameFile(t, serving[d])
  BY <1>15 DEF EntryOf, SameFile
<1>17. /\ DOMAIN copy' = Clients /\ CopyOf(copy'[c]) /\ \A d \in Clients : d # c => copy'[d] = copy[d]
       /\ faults' \in Nat /\ faults' # 0
  BY <1>1 DEF Copies, CopyOf
<1> QED BY <1>1, <1>2, <1>14, <1>16, <1>17, OneTold

\* The answer ends, and the client may keep what it was sent.
LEMMA SendEndTold ==
    ASSUME StaticIInv, TruthIInv, NEW c \in Clients, SendEnd(c)
    PROVE  TruthIInv'
<1> DEFINE s == serving[c]
           new == Finish(s, s.status)
           kept == [target |-> new.request.target, tag |-> new.tag, body |-> new.body, whole |-> new.whole]
<1> PICK t : t = new
  OBVIOUS
<1>1. /\ StaticTypes /\ DOMAIN s = DOMAIN Idle /\ Truth(c, s, faults) /\ s.phase = "sending" /\ s.spans = <<>>
      /\ UNCHANGED <<inodes, contents, entries, faults>> /\ serving' = [serving EXCEPT ![c] = t]
      /\ DOMAIN serving = Clients /\ DOMAIN copy = Clients /\ Copies /\ s.status \in {200, 206}
  <2>1. /\ StaticTypes /\ DOMAIN s = DOMAIN Idle /\ Truth(c, s, faults) /\ DOMAIN serving = Clients
        /\ DOMAIN copy = Clients /\ Copies
    BY DEF StaticIInv, StaticTypes, TruthIInv, Told
  <2>2. /\ s.phase = "sending" /\ s.spans = <<>> /\ serving' = [serving EXCEPT ![c] = t]
        /\ UNCHANGED <<inodes, contents, entries, faults>>
    BY DEF SendEnd
  <2>3. s.status \in {200, 206}
    <3> HIDE DEF s
    <3> QED BY <2>1, <2>2 DEF Truth, SendingOf
  <2> HIDE DEF s, new
  <2> QED BY <2>1, <2>2, <2>3
<1>2. /\ t.phase = "done" /\ t.status = s.status /\ (t.whole <=> Stands(s)) /\ t.request = s.request
      /\ t.version = s.version /\ t.content = s.content /\ t.tag = s.tag /\ t.body = s.body
      /\ t.cut = s.cut
  BY <1>1, FinishShape
<1>3. \/ copy' = copy
      \/ t.status = 200 /\ Len(t.body) = t.version.size /\ copy' = [copy EXCEPT ![c] = kept]
  BY DEF SendEnd
<1>4. kept.tag = t.tag /\ kept.body = t.body /\ kept.whole = t.whole
  OBVIOUS
<1> HIDE DEF s, new, kept
<1>5. All(t) = All(s) /\ Asked(t) = Asked(s) /\ \A q : Pieces(t, q) = Pieces(s, q)
  BY <1>2 DEF All, Asked, Pieces
<1>6. s.body \o Pieces(s, s.spans) = s.body /\ SendingOf(c, s, faults)
  <2>1. SendingOf(c, s, faults) /\ s.body \in Seq(Octet)
    BY <1>1 DEF Truth, SendingOf
  <2>2. Pieces(s, s.spans) = <<>>
    BY <1>1, PiecesNone
  <2> QED BY <2>1, <2>2, ConcatEmptySeq
<1>7. t.whole =>
        /\ TagTrue(t, faults)
        /\ t.status = 200 => Carries(t, All(t)) /\ t.request.method # "HEAD"
        /\ t.status = 206 => Carries(t, Pieces(t, Asked(t))) /\ copy[c].tag = All(t)
  <2> SUFFICES ASSUME t.whole
               PROVE  /\ TagTrue(t, faults)
                      /\ t.status = 200 => Carries(t, All(t)) /\ t.request.method # "HEAD"
                      /\ t.status = 206 => Carries(t, Pieces(t, Asked(t))) /\ copy[c].tag = All(t)
    OBVIOUS
  <2>1. /\ IF s.cut THEN Carries(s, Answer(s)) ELSE s.body = Answer(s)
        /\ TagTrue(s, faults) /\ (s.status = 206 => copy[c].tag = All(s))
        /\ s.status = 200 => s.request.method # "HEAD"
    BY <1>1, <1>2, <1>6 DEF SendingOf
  <2>2. Carries(t, Answer(s)) /\ Answer(t) = Answer(s)
    BY <1>2, <1>5, <2>1 DEF Carries, Answer
  <2> QED BY <1>1, <1>2, <1>5, <2>1, <2>2 DEF TagTrue, Answer
<1>8. /\ DOMAIN copy' = Clients /\ \A d \in Clients : d # c => copy'[d] = copy[d]
      /\ copy'[c] = copy[c] \/ (t.status = 200 /\ Len(t.body) = t.version.size /\ copy'[c] = kept)
  BY <1>1, <1>3
<1>9. CopyOf(copy'[c])
  <2>1. CopyOf(copy[c])
    BY <1>1 DEF Copies
  <2>2. ASSUME t.status = 200, Len(t.body) = t.version.size PROVE CopyOf(kept)
    <3>1. t.content \in Nat /\ t.version \in Version /\ t.version.size \in Nat
      BY <1>1, <1>2 DEF Truth, HandleOf, StaticTypes, Version
    <3>2. t.whole => ~t.cut /\ t.body = All(t)
      BY <1>7, <2>2, <3>1, NotCut
    <3> QED BY <1>4, <1>7, <2>2, <3>2 DEF CopyOf, TagTrue
  <2> QED BY <1>8, <2>1, <2>2
<1>10. t.whole /\ t.status = 206 => copy'[c].tag = All(t)
  <2>1. t.whole /\ t.status = 206 => copy[c].tag = All(t)
    BY <1>7
  <2>2. t.status = 206 => copy'[c] = copy[c]
    BY <1>8
  <2> QED BY <2>1, <2>2
<1>11. DoneOf(c, t, faults)'
  BY <1>1, <1>2, <1>7, <1>10 DEF DoneOf, TagTrue
<1>12. Truth(c, t, faults)'
  BY <1>2, <1>11 DEF Truth, HandleOf, RequestOf, HashOf, SendingOf
<1>13. ~Older(t)
  BY <1>2 DEF Older
<1>14. EntryOf(t) /\ \A d \in Clients : SameFile(t, serving[d])
  BY <1>13 DEF EntryOf, SameFile
<1>15. DOMAIN serving = Clients /\ UNCHANGED <<inodes, contents, entries, faults>> /\ faults' \in Nat
       /\ serving' = [serving EXCEPT ![c] = t]
  BY <1>1 DEF TruthIInv, Told
<1>16. DOMAIN copy' = Clients /\ \A d \in Clients : d # c => copy'[d] = copy[d]
  BY <1>8
<1> QED BY <1>9, <1>12, <1>14, <1>15, <1>16, OneTold

-----------------------------------------------------------------------------
\* The three facts of an inductive invariant, on top of StaticIInv, and what it gives.
LEMMA TruthStarts == StaticInit => TruthIInv
<1> SUFFICES ASSUME StaticInit PROVE TruthIInv
  OBVIOUS
<1>1. faults = 0 /\ serving = [c \in Clients |-> Idle] /\ copy = [c \in Clients |-> NoCopy]
  BY DEF StaticInit
<1>2. Idle.phase = "idle" /\ NoCopy.tag = NoTag
  BY DEF Idle, NoCopy
<1>3. \A c \in Clients : serving[c].phase = "idle" /\ copy[c].tag = NoTag
  BY <1>1, <1>2
<1>4. \A c \in Clients : Truth(c, serving[c], faults) /\ ~Older(serving[c])
  BY <1>3 DEF Truth, HandleOf, RequestOf, HashOf, SendingOf, DoneOf, Older
<1>5. Told /\ Copies
  BY <1>1, <1>3, <1>4 DEF Told, Copies, CopyOf
<1>6. Alike /\ EntriesFit
  BY <1>4 DEF Alike, SameFile, EntriesFit, EntryOf
<1> QED BY <1>5, <1>6 DEF TruthIInv

\* A step of the clock moves none of this.
LEMMA TruthStands ==
    ASSUME StaticIInv, TruthIInv, UNCHANGED <<inodes, contents, serving, entries, faults, copy>>
    PROVE  TruthIInv'
<1>1. ASSUME NEW d \in Clients PROVE Truth(d, serving[d], faults)'
  <2>1. PICK s, f : s = serving[d] /\ f = faults
    OBVIOUS
  <2>2. Truth(d, s, f)
    BY <2>1 DEF TruthIInv, Told
  <2>3. Truth(d, s, f)' /\ serving'[d] = s /\ faults' = f
    BY <2>1, <2>2, TruthFrame
  <2> QED BY <2>3, TruthNow
<1>2. Told'
  BY <1>1 DEF TruthIInv, Told
<1>3. Alike' /\ Copies'
  BY DEF TruthIInv, Alike, SameFile, Older, Copies, CopyOf
<1>4. EntriesFit'
  BY DEF TruthIInv, EntriesFit, EntryOf, Older, Stands, All
<1> QED BY <1>2, <1>3, <1>4 DEF TruthIInv

\* Every step keeps it: one case per action.
LEMMA TruthSteps ==
    MaxPause < Window /\ StaticIInv /\ TruthIInv /\ [StaticNext]_staticVars => TruthIInv'
<1> SUFFICES ASSUME MaxPause < Window, StaticIInv, TruthIInv, [StaticNext]_staticVars PROVE TruthIInv'
  OBVIOUS
<1>1. CASE Tick
  BY <1>1, TruthStands DEF Tick
<1>2. ASSUME NEW n \in FileNames, NEW size \in Sizes, Rewrite(n, size) \/ Replace(n, size) PROVE TruthIInv'
  <2>1. StaticTypes /\ UNCHANGED <<copy, faults>>
    BY <1>2 DEF StaticIInv, Rewrite, Replace
  <2>2. \E i : WritesTo(i)
    BY <1>2, <2>1, RewriteWrites, ReplaceWrites
  <2> QED BY <2>1, <2>2, WriteTold
<1>3. ASSUME NEW c \in Clients, NEW r \in Requests(c), Open(c, r) PROVE TruthIInv'
  BY <1>3, OpenTold
<1>4. ASSUME NEW c \in Clients, Look(c) PROVE TruthIInv'
  BY <1>4, LookTold
<1>5. ASSUME NEW c \in Clients, HashOctet(c) PROVE TruthIInv'
  BY <1>5, HashOctetTold
<1>6. ASSUME NEW c \in Clients, HashDone(c) \/ HashFails(c) PROVE TruthIInv'
  <2>1. CASE HashDone(c)
    BY <2>1, HashEndsTold DEF HashDone
  <2>2. CASE HashFails(c)
    <3>1. faults \in Nat
      BY DEF TruthIInv, Told
    <3>2. PICK tag : tag = NoTag
      OBVIOUS
    <3>3. /\ faults' \in {faults, faults + 1} /\ tag = NoTag /\ faults' # 0 /\ HashEnds(c, tag)
          /\ serving[c].phase = "hashing"
      BY <2>2, <3>1, <3>2 DEF HashFails
    <3>4. (tag = NoTag /\ faults' # 0) \/ (tag = serving[c].tag /\ AtEnd(serving[c]))
      BY <3>3
    <3> QED BY <3>3, <3>4, HashEndsTold
  <2> QED BY <1>6, <2>1, <2>2
<1>7. ASSUME NEW c \in Clients, SendOctet(c) \/ SendFails(c) \/ SendEnd(c) PROVE TruthIInv'
  BY <1>7, SendOctetTold, SendFailsTold, SendEndTold
<1>8. CASE UNCHANGED staticVars
  BY <1>8, TruthStands DEF staticVars
<1> QED BY <1>1, <1>2, <1>3, <1>4, <1>5, <1>6, <1>7, <1>8 DEF StaticNext

\* A finished answer is one that DoneOf is about.
LEMMA TruthFollows == TruthIInv => ClientsKeepTheTruth
<1> SUFFICES ASSUME TruthIInv, NEW c \in Clients PROVE
        LET s == serving[c]
            r == s.request
            all == Octets(s.content, 0, s.version.size - 1)
            named == rangeVerdict(r.range[1], s.version.size).spans IN
        s.phase = "done" /\ s.whole =>
            /\ s.tag \in {NoTag, all} /\ (faults = 0 => s.tag = all)
            /\ s.status = 200 => Carries(s, IF r.method = "HEAD" THEN <<>> ELSE all)
            /\ s.status = 304 => copy[c].tag = all /\ (copy[c].whole => copy[c].body = all)
            /\ s.status = 412 => s.tag = NoTag \/ copy[c].tag # all
            /\ s.status = 206 =>
                /\ copy[c].tag = all
                /\ Carries(s, FlattenSeq([i \in DOMAIN named |->
                                            Octets(s.content, named[i].first, named[i].last)]))
  BY Zenon DEF ClientsKeepTheTruth
<1>1. DoneOf(c, serving[c], faults)
  BY DEF TruthIInv, Told, Truth
<1> QED BY <1>1 DEF DoneOf, TagTrue, All, Pieces, Asked

(***************************************************************************)
(* Clients are told the truth (serve in static.go, by a tag that get in    *)
(* etag.go has found or made): while what a handle held at open stands, a  *)
(* finished 200 or 206 is whole, unless a read of its content failed: then *)
(* it is a beginning of what it should be, shorter than what was announced.*)
(* A 304 and a 412 say of the client's copy what is so, and the tag, if    *)
(* there is one, is that of the content.  For any clients, files, sizes    *)
(* and failing reads; MaxPause < Window says that a request is not held up *)
(* between its stat and its lookup for as long as the window, as in        *)
(* CacheIsTrueCorrect.                                                     *)
(***************************************************************************)
THEOREM ClientsKeepTheTruthCorrect ==
    ASSUME MaxPause < Window
    PROVE  StaticSpec => []ClientsKeepTheTruth
<1>1. StaticInit => StaticIInv /\ TruthIInv
  BY StaticStarts, TruthStarts
<1>2. StaticIInv /\ TruthIInv /\ [StaticNext]_staticVars => StaticIInv' /\ TruthIInv'
  BY StaticSteps, TruthSteps
<1>3. TruthIInv => ClientsKeepTheTruth
  BY TruthFollows
<1> QED BY <1>1, <1>2, <1>3, PTL DEF StaticSpec
============================================================================
