------------------------------ MODULE Server -------------------------------
(***************************************************************************)
(* The accept layer (internal/server/server.go): accept loops that share   *)
(* the connection slots, the set of live connections, and the two ways to  *)
(* stop: Shutdown, which asks and waits, and Close, which cuts.            *)
(*                                                                         *)
(* Every section under Server.mu is one step.  A connection is reduced to  *)
(* its end, which may come at any time, and perhaps never: what is shown   *)
(* here does not depend on a connection that heeds a stop.                 *)
(***************************************************************************)
EXTENDS Integers, FiniteSets

CONSTANTS
    Listeners, Conns,
    MaxConns    \* Config.MaxConns

Stoppers == {"Shutdown", "Close"}
NoConn == "none"

ASSUME ServerAssumption ==
    /\ MaxConns \in Nat \ {0}
    /\ NoConn \notin Conns

VARIABLES
    loop,       \* where the accept loop of each listener is
    hand,       \* the connection it has accepted and not yet started
    open,       \* listeners whose socket is open
    slots,      \* Server.slots: how many are taken
    quit,       \* Server.quit is closed
    \* under Server.mu
    listeners, conns, closed,
    connWG,
    conn,       \* where each connection's goroutine is
    asked,      \* connections whose Shutdown was called
    cut,        \* connections whose socket was closed by the server
    at, todo,   \* where each call of Shutdown and Close is, and what its pass has left
    forced,     \* closeConns' result
    result,
    \* history
    cutShort,   \* connections that were still being served when they were cut
    zeroSeen    \* some wait has seen connWG at zero

accepting == <<loop, hand, slots>>
stopping == <<at, todo, forced, result>>
vars == <<accepting, open, quit, listeners, conns, closed, connWG, conn, asked, cut,
          stopping, cutShort, zeroSeen>>

Init ==
    /\ loop = [l \in Listeners |-> "serve"]
    /\ hand = [l \in Listeners |-> NoConn]
    /\ open = Listeners
    /\ slots = 0
    /\ quit = FALSE /\ closed = FALSE
    /\ listeners = {} /\ conns = {} /\ connWG = 0
    /\ conn = [c \in Conns |-> "none"]
    /\ asked = {} /\ cut = {} /\ cutShort = {}
    /\ at = [p \in Stoppers |-> "idle"]
    /\ todo = [p \in Stoppers |-> {}]
    /\ forced = [p \in Stoppers |-> 0]
    /\ result = [p \in Stoppers |-> "none"]
    /\ zeroSeen = FALSE

-----------------------------------------------------------------------------
(* Serve *)

GoTo(l, where) == loop' = [loop EXCEPT ![l] = where]

\* Mutant: a listener that is too late is only reported.
M_addListener(l) ==
    /\ loop[l] = "serve"
    /\ IF closed THEN GoTo(l, "ended") /\ UNCHANGED <<open, listeners>>
       ELSE listeners' = listeners \cup {l} /\ GoTo(l, "acquire") /\ UNCHANGED open
    /\ UNCHANGED <<hand, slots, quit, conns, closed, connWG, conn, asked, cut, stopping, cutShort, zeroSeen>>

addListener(l) ==
    /\ loop[l] = "serve"
    /\ IF closed THEN open' = open \ {l} /\ GoTo(l, "ended") /\ UNCHANGED listeners
       ELSE listeners' = listeners \cup {l} /\ GoTo(l, "acquire") /\ UNCHANGED open
    /\ UNCHANGED <<hand, slots, quit, conns, closed, connWG, conn, asked, cut, stopping, cutShort, zeroSeen>>

\* Mutant: the flag alone, without the select on quit.
M_acquire(l) ==
    /\ \/ loop[l] = "acquire" /\ GoTo(l, IF quit THEN "leave" ELSE "select") /\ UNCHANGED slots
       \/ loop[l] = "select" /\ slots < MaxConns /\ slots' = slots + 1 /\ GoTo(l, "accept")
    /\ UNCHANGED <<hand, open, quit, listeners, conns, closed, connWG, conn, asked, cut, stopping, cutShort, zeroSeen>>

\* The flag, then a select that may take the slot or the stop when both are ready.
acquire(l) ==
    /\ \/ loop[l] = "acquire" /\ GoTo(l, IF quit THEN "leave" ELSE "select") /\ UNCHANGED slots
       \/ loop[l] = "select" /\ slots < MaxConns /\ slots' = slots + 1 /\ GoTo(l, "accept")
       \/ loop[l] = "select" /\ quit /\ GoTo(l, "leave") /\ UNCHANGED slots
    /\ UNCHANGED <<hand, open, quit, listeners, conns, closed, connWG, conn, asked, cut, stopping, cutShort, zeroSeen>>

Accept(l, c) ==
    /\ loop[l] = "accept" /\ l \in open
    /\ conn[c] = "none"
    /\ conn' = [conn EXCEPT ![c] = "accepted"]
    /\ hand' = [hand EXCEPT ![l] = c]
    /\ GoTo(l, "track")
    /\ UNCHANGED <<slots, open, quit, listeners, conns, closed, connWG, asked, cut, stopping, cutShort, zeroSeen>>

\* Descriptor exhaustion and its like, or the listener was closed.
AcceptFails(l) ==
    /\ loop[l] = "accept"
    /\ slots' = slots - 1
    /\ GoTo(l, IF quit THEN "leave" ELSE "pause")
    /\ UNCHANGED <<hand, open, quit, listeners, conns, closed, connWG, conn, asked, cut, stopping, cutShort, zeroSeen>>

\* The pause ends with its timer or with the server.
pause(l) ==
    /\ loop[l] = "pause"
    /\ loop' \in {[loop EXCEPT ![l] = "acquire"]} \cup
                 (IF quit THEN {[loop EXCEPT ![l] = "leave"]} ELSE {})
    /\ UNCHANGED <<hand, slots, open, quit, listeners, conns, closed, connWG, conn, asked, cut, stopping, cutShort, zeroSeen>>

\* Mutant: a connection is counted whether or not the server has stopped.
M_serveConn(l) ==
    LET c == hand[l] IN
    /\ loop[l] = "track"
    /\ conns' = conns \cup {c} /\ connWG' = connWG + 1 /\ UNCHANGED asked
    /\ conn' = [conn EXCEPT ![c] = "tracked"]
    /\ hand' = [hand EXCEPT ![l] = NoConn]
    /\ GoTo(l, "acquire")
    /\ UNCHANGED <<slots, open, quit, listeners, closed, cut, stopping, cutShort, zeroSeen>>

\* serveConn and track: what came after the stop is served, told to stop, and
\* waited for by nobody.
serveConn(l) ==
    LET c == hand[l] IN
    /\ loop[l] = "track"
    /\ IF closed THEN asked' = asked \cup {c} /\ UNCHANGED <<conns, connWG>>
       ELSE conns' = conns \cup {c} /\ connWG' = connWG + 1 /\ UNCHANGED asked
    /\ conn' = [conn EXCEPT ![c] = IF closed THEN "untracked" ELSE "tracked"]
    /\ hand' = [hand EXCEPT ![l] = NoConn]
    /\ GoTo(l, "acquire")
    /\ UNCHANGED <<slots, open, quit, listeners, closed, cut, stopping, cutShort, zeroSeen>>

removeListener(l) ==
    /\ loop[l] = "leave"
    /\ listeners' = listeners \ {l}
    /\ open' = open \ {l}
    /\ GoTo(l, "ended")
    /\ UNCHANGED <<hand, slots, quit, conns, closed, connWG, conn, asked, cut, stopping, cutShort, zeroSeen>>

-----------------------------------------------------------------------------
(* A connection's goroutine. *)

Serving(c) == conn[c] \in {"tracked", "untracked"}

\* runConn returns: the peer left, an error, or a stop.
Ends(c) ==
    /\ Serving(c)
    /\ conn' = [conn EXCEPT ![c] = IF @ = "tracked" THEN "served" ELSE "done"]
    /\ UNCHANGED <<accepting, open, quit, listeners, conns, closed, connWG, asked, cut, stopping, cutShort, zeroSeen>>

\* finish: out of the set, then out of the count.
finish(c) ==
    /\ \/ /\ conn[c] = "served"
          /\ conns' = conns \ {c}
          /\ conn' = [conn EXCEPT ![c] = "deleted"] /\ UNCHANGED connWG
       \/ /\ conn[c] = "deleted"
          /\ connWG' = connWG - 1
          /\ conn' = [conn EXCEPT ![c] = "done"] /\ UNCHANGED conns
    /\ UNCHANGED <<accepting, open, quit, listeners, closed, asked, cut, stopping, cutShort, zeroSeen>>

release(c) ==
    /\ conn[c] = "done"
    /\ slots' = slots - 1
    /\ conn' = [conn EXCEPT ![c] = "released"]
    /\ UNCHANGED <<loop, hand, open, quit, listeners, conns, closed, connWG, asked, cut, stopping, cutShort, zeroSeen>>

-----------------------------------------------------------------------------
(* Shutdown and Close. *)

Moves(p, where) == at' = [at EXCEPT ![p] = where]
Returns(p, r) == Moves(p, "returned") /\ result' = [result EXCEPT ![p] = r]

\* stop: the flag, then, under mu, closed and the copy of the listeners.
stop(p) ==
    /\ \/ at[p] = "idle" /\ quit' = TRUE /\ Moves(p, "stop") /\ UNCHANGED <<closed, todo>>
       \/ /\ at[p] = "stop" /\ closed' = TRUE /\ todo' = [todo EXCEPT ![p] = listeners]
          /\ Moves(p, "closeListeners") /\ UNCHANGED quit
    /\ UNCHANGED <<accepting, open, listeners, conns, connWG, conn, asked, cut, forced, result, cutShort, zeroSeen>>

closeListeners(p) ==
    /\ at[p] = "closeListeners"
    /\ \/ \E l \in todo[p] :
            open' = open \ {l} /\ todo' = [todo EXCEPT ![p] = @ \ {l}] /\ UNCHANGED at
       \/ todo[p] = {} /\ Moves(p, IF p = "Shutdown" THEN "liveConns" ELSE "liveConns2")
          /\ UNCHANGED <<open, todo>>
    /\ UNCHANGED <<accepting, quit, listeners, conns, closed, connWG, conn, asked, cut, forced, result, cutShort, zeroSeen>>

\* liveConns, for shutdownConns and for closeConns
liveConns(p) ==
    /\ \/ at[p] = "liveConns" /\ Moves(p, "shutdownConns") /\ UNCHANGED forced
       \/ /\ at[p] = "liveConns2" /\ Moves(p, "closeConns")
          /\ forced' = [forced EXCEPT ![p] = Cardinality(conns)]
    /\ todo' = [todo EXCEPT ![p] = conns]
    /\ UNCHANGED <<accepting, open, quit, listeners, conns, closed, connWG, conn, asked, cut, result, cutShort, zeroSeen>>

shutdownConns(p) ==
    /\ at[p] = "shutdownConns"
    /\ \/ \E c \in todo[p] :
            asked' = asked \cup {c} /\ todo' = [todo EXCEPT ![p] = @ \ {c}] /\ UNCHANGED at
       \/ todo[p] = {} /\ Moves(p, "await") /\ UNCHANGED <<asked, todo>>
    /\ UNCHANGED <<accepting, open, quit, listeners, conns, closed, connWG, conn, cut, forced, result, cutShort, zeroSeen>>

closeConns(p) ==
    /\ at[p] = "closeConns"
    /\ \/ \E c \in todo[p] :
            /\ cut' = cut \cup {c} /\ todo' = [todo EXCEPT ![p] = @ \ {c}]
            /\ cutShort' = IF Serving(c) THEN cutShort \cup {c} ELSE cutShort
            /\ UNCHANGED at
       \/ todo[p] = {} /\ Moves(p, "await2") /\ UNCHANGED <<cut, cutShort, todo>>
    /\ UNCHANGED <<accepting, open, quit, listeners, conns, closed, connWG, conn, asked, forced, result, zeroSeen>>

\* The first wait of Shutdown, which its timer may end.
awaitConns(p) ==
    /\ at[p] = "await"
    /\ \/ connWG = 0 /\ Returns(p, "nil") /\ zeroSeen' = TRUE
       \/ Moves(p, "liveConns2") /\ UNCHANGED <<result, zeroSeen>>
    /\ UNCHANGED <<accepting, open, quit, listeners, conns, closed, connWG, conn, asked, cut, todo, forced, cutShort>>

\* Mutant: a wait that succeeds is reported as a clean stop.
M_awaitCut(p) ==
    /\ at[p] = "await2"
    /\ \/ connWG = 0 /\ Returns(p, "nil") /\ zeroSeen' = TRUE
       \/ Returns(p, "stuck") /\ UNCHANGED zeroSeen
    /\ UNCHANGED <<accepting, open, quit, listeners, conns, closed, connWG, conn, asked, cut, todo, forced, cutShort>>

\* The wait after the cut.  ErrShutdownGraceExpired is "midFlight" when connections
\* were closed mid-flight and "stuck" when some did not stop even so.
awaitCut(p) ==
    /\ at[p] = "await2"
    /\ \/ connWG = 0 /\ Returns(p, IF p = "Shutdown" /\ forced[p] > 0 THEN "midFlight" ELSE "nil")
          /\ zeroSeen' = TRUE
       \/ Returns(p, "stuck") /\ UNCHANGED zeroSeen
    /\ UNCHANGED <<accepting, open, quit, listeners, conns, closed, connWG, conn, asked, cut, todo, forced, cutShort>>

-----------------------------------------------------------------------------
Loop(l) ==
    \/ addListener(l) \/ acquire(l) \/ AcceptFails(l) \/ pause(l) \/ serveConn(l) \/ removeListener(l)

Stop(p) ==
    \/ stop(p) \/ closeListeners(p) \/ liveConns(p) \/ shutdownConns(p) \/ closeConns(p)
    \/ awaitConns(p) \/ awaitCut(p)

Next ==
    \/ \E l \in Listeners : Loop(l) \/ \E c \in Conns : Accept(l, c)
    \/ \E c \in Conns : Ends(c) \/ finish(c) \/ release(c)
    \/ \E p \in Stoppers : Stop(p)

Spec == Init /\ [][Next]_vars

\* Accept returns when its listener is closed, a timer fires, a goroutine that can
\* run does.  Nobody need connect, no connection need end, and nobody need call
\* Shutdown or Close.
FairSpec ==
    /\ Spec
    /\ \A l \in Listeners :
        /\ WF_vars(addListener(l) \/ acquire(l) \/ pause(l) \/ serveConn(l) \/ removeListener(l))
        /\ WF_vars(AcceptFails(l) /\ l \notin open)
    /\ \A c \in Conns : WF_vars(finish(c) \/ release(c))
    /\ \A p \in Stoppers : WF_vars(Stop(p) /\ at[p] # "idle")

-----------------------------------------------------------------------------
Tracked == {c \in Conns : conn[c] \in {"tracked", "served", "deleted"}}

TypeOK ==
    /\ loop \in [Listeners -> {"serve", "acquire", "select", "accept", "pause", "track", "leave", "ended"}]
    /\ \A l \in Listeners : (hand[l] # NoConn) <=> (loop[l] = "track")
    /\ conns \subseteq Tracked /\ connWG = Cardinality(Tracked)
    /\ listeners \subseteq Listeners /\ open \subseteq Listeners
    /\ closed => quit

(***************************************************************************)
(* The slots taken are exactly the accept loops between acquire and the    *)
(* goroutine they start, and the connections not yet released; so no more  *)
(* than MaxConns exist and none is lost to a failed accept (server.go:76). *)
(***************************************************************************)
SlotsAreExact ==
    /\ slots = Cardinality({l \in Listeners : loop[l] = "accept"})
             + Cardinality({c \in Conns : conn[c] \notin {"none", "released"}})
    /\ slots <= MaxConns

(***************************************************************************)
(* Once any wait has seen the count at zero it stays there: no Add races a *)
(* Wait (server.go:99, "it is a runtime panic").                           *)
(***************************************************************************)
NoAddAfterZero == zeroSeen => connWG = 0

(***************************************************************************)
(* Shutdown overlooks nobody: from the moment it waits, every connection   *)
(* being served has been asked to stop, also one accepted while the server *)
(* was stopping (server.go:205).                                           *)
(***************************************************************************)
NobodyIsOverlooked ==
    at["Shutdown"] \in {"await", "liveConns2", "closeConns", "await2", "returned"} =>
        \A c \in Conns : Serving(c) => c \in asked

(***************************************************************************)
(* A connection accepted while the server stops is refused in time or reached*)
(* by the stop.                                                            *)
(***************************************************************************)
StopSeesEveryConn == NoAddAfterZero /\ NobodyIsOverlooked

(***************************************************************************)
(* A nil from Shutdown is true: unless Close was called as well, no        *)
(* connection was cut off in the middle and none that it tracked is still  *)
(* served (server.go:267).                                                 *)
(***************************************************************************)
NilIsTrue ==
    result["Shutdown"] = "nil" =>
        /\ \A c \in Conns : conn[c] # "tracked"
        /\ at["Close"] = "idle" => cutShort = {}

\* Every listening socket is closed once its loop has ended and the server has
\* stopped, including one registered too late (server.go:140).
NoListenerLeaks == \A l \in Listeners : loop[l] = "ended" => l \notin open

(***************************************************************************)
(* What an accept loop holds is given back on every path: its slot and its *)
(* socket.                                                                 *)
(***************************************************************************)
NothingLeaks == TypeOK /\ SlotsAreExact /\ NoListenerLeaks

(***************************************************************************)
(* A stop reaches every accept loop, at the connection bound, in a backoff *)
(* or in Accept (server.go:432, 449).                                      *)
(***************************************************************************)
LoopsEnd == closed ~> \A l \in Listeners : loop[l] = "ended"

(***************************************************************************)
(* Shutdown and Close return, whatever a connection does (server.go:294,   *)
(* 327).                                                                   *)
(***************************************************************************)
StopsReturn == \A p \in Stoppers : at[p] = "stop" ~> at[p] = "returned"

(***************************************************************************)
(* A stop ends whatever it is meant to end, the caller's wait included.    *)
(***************************************************************************)
StopsEnd == LoopsEnd /\ StopsReturn

(***************************************************************************)
(* What the source says and the code does not do. Each is refuted under    *)
(* Server.cfg in the place of its properties.                              *)
(***************************************************************************)
\* server.go:305: "the sentinel means requests were lost".
ExpiredMeansCut == result["Shutdown"] = "midFlight" => cutShort # {}
=============================================================================
