------------------------- MODULE FrameWriter_proofs -------------------------
(***************************************************************************)
(* Proofs about two specifications that share no variable, but the sums    *)
(* over queues and goroutines that both are counted with.                  *)
(*                                                                         *)
(* FrameWriter, for any finite set of goroutines, any scripts of whole     *)
(* field blocks, any depth, high water and frame sizes.                    *)
(*                                                                         *)
(* First, sums: Length adds up the queues, and what a step changes in it   *)
(* is what it changes in one queue (SumOfChanged).  Induction over a       *)
(* finite set is done here by its smallest counterexample.  Second, what   *)
(* one frame more or less makes writable.  Third, the invariant: frames    *)
(* are numbered as in their script wherever they are (Numbered), so that a *)
(* block that is still arriving is its goroutine's, who holds the encoder  *)
(* (OpenHoldsEncoder); nobody else does (Alone), so that there is one such *)
(* block and the depth was not reached when it began (Room).  The frame    *)
(* taken last tells whether a block is part-way out, and what is left of   *)
(* it is all there (Pieces); a writer that stops with no error was told to *)
(* and found nothing (Drained).  Last, one lemma per action.               *)
(*                                                                         *)
(* RecvFlow, for any finite set of uploads, any window, any threshold up   *)
(* to a window, any payloads, padding and reads.                           *)
(*                                                                         *)
(* The connection's account is what the property says it is; a stream's    *)
(* own (StreamAgreement, StreamConserved) has to be kept beside it, as     *)
(* DATA spends both windows.  The peer's share is never negative, so once  *)
(* the ledger is drained the windows hold the frame in hand (FrameFits)    *)
(* and the reader never overruns.  Nothing follows the last frame of a     *)
(* stream (InOrder), so a body that has ended gets no more; a stream is    *)
(* kept while its content may arrive, which is when a handler parks        *)
(* (ParkedWait); and what is pending is less than the threshold (Pending). *)
(***************************************************************************)
EXTENDS FrameWriter, RecvFlow, FiniteSetTheorems, SequenceTheorems,
        WellFoundedInduction, TLAPS

\* The naturals are well ordered: a set of them that is not empty has a least member.
LEMMA Least ==
    ASSUME NEW S, S \subseteq Nat, S # {}
    PROVE  \E n \in S : \A k \in S : n <= k
<1>1. PICK n \in S : \A k \in S : ~(<<k, n>> \in OpToRel(<, Nat))
  BY NatLessThanWellFounded, WFMin, Zenon
<1>2. \A k \in S : ~(k < n)
  BY <1>1 DEF OpToRel
<1> QED BY <1>2

\* A finite set of sets has a smallest one.
LEMMA Smallest ==
    ASSUME NEW S, IsFiniteSet(S), NEW P, P \subseteq SUBSET S, P # {}
    PROVE  \E T \in P : \A U \in P : Cardinality(T) <= Cardinality(U)
<1>1. \A T \in P : Cardinality(T) \in Nat
  BY FS_Subset, FS_CardinalityType
<1> DEFINE sizes == {Cardinality(T) : T \in P}
<1>2. sizes \subseteq Nat /\ sizes # {}
  BY <1>1
<1>3. PICK n \in sizes : \A k \in sizes : n <= k
  <2> HIDE DEF sizes
  <2> QED BY <1>2, Least
<1> QED BY <1>3

\* A set without one of its elements is smaller.
LEMMA SmallerSet ==
    ASSUME NEW S, IsFiniteSet(S), NEW T \in SUBSET S, NEW x \in T
    PROVE  T \ {x} \in SUBSET S /\ ~(Cardinality(T) <= Cardinality(T \ {x}))
<1>1. IsFiniteSet(T) /\ Cardinality(T) \in Nat
  BY FS_Subset, FS_CardinalityType
<1>2. Cardinality(T \ {x}) = Cardinality(T) - 1
  BY <1>1, FS_RemoveElement
<1> QED BY <1>1, <1>2

\* The recursive function behind a sum: it adds the weights of a set's elements one by one.
Adds(h, g, D) ==
    \A T \in D : h[T] = IF T = {} THEN 0
                        ELSE LET x == CHOOSE x \in T : TRUE IN g[x] + h[T \ {x}]

\* The same as a definition of h.
Adder(h, g, S) ==
    h = [T \in SUBSET S |-> IF T = {} THEN 0
                            ELSE LET x == CHOOSE x \in T : TRUE IN g[x] + h[T \ {x}]]

\* There is such a function for every finite set.
LEMMA SumExists == ASSUME NEW S, IsFiniteSet(S), NEW g PROVE \E h : Adder(h, g, S)
<1> DEFINE Small(n) == {T \in SUBSET S : Cardinality(T) <= n}
           Has(n) == \E h : h = [T \in Small(n) |-> h[T]] /\ Adds(h, g, Small(n))
           Good == {n \in Nat : Has(n)}
<1>1. \A T \in SUBSET S : IsFiniteSet(T) /\ Cardinality(T) \in Nat
  BY FS_Subset, FS_CardinalityType
<1>2. \A T \in SUBSET S : T # {} =>
        LET x == CHOOSE x \in T : TRUE IN
        /\ T \ {x} \in SUBSET S
        /\ Cardinality(T \ {x}) = Cardinality(T) - 1
  <2> SUFFICES ASSUME NEW T \in SUBSET S, T # {}, NEW x, x = CHOOSE y \in T : TRUE
               PROVE  T \ {x} \in SUBSET S /\ Cardinality(T \ {x}) = Cardinality(T) - 1
    OBVIOUS
  <2>1. x \in T
    OBVIOUS
  <2> QED BY <2>1, <1>1, FS_RemoveElement
<1>3. 0 \in Good
  <2> DEFINE h == [T \in Small(0) |-> 0]
  <2>1. \A T \in Small(0) : T = {}
    BY <1>1, FS_EmptySet
  <2>2. Adds(h, g, Small(0))
    BY <2>1 DEF Adds
  <2>3. h = [T \in Small(0) |-> h[T]]
    OBVIOUS
  <2> QED BY <2>2, <2>3
<1>4. ASSUME NEW n \in Good PROVE n + 1 \in Good
  <2>1. PICK h : h = [T \in Small(n) |-> h[T]] /\ Adds(h, g, Small(n))
    OBVIOUS
  <2> DEFINE k == [T \in Small(n + 1) |->
                     IF T = {} THEN 0
                     ELSE LET x == CHOOSE x \in T : TRUE IN g[x] + h[T \ {x}]]
  <2>2. \A T \in Small(n) : T \in Small(n + 1) /\ k[T] = h[T]
    <3> SUFFICES ASSUME NEW T \in Small(n) PROVE T \in Small(n + 1) /\ k[T] = h[T]
      OBVIOUS
    <3>1. T \in Small(n + 1)
      BY <1>1
    <3>2. h[T] = IF T = {} THEN 0
                 ELSE LET x == CHOOSE x \in T : TRUE IN g[x] + h[T \ {x}]
      BY <2>1 DEF Adds
    <3>3. k[T] = IF T = {} THEN 0
                 ELSE LET x == CHOOSE x \in T : TRUE IN g[x] + h[T \ {x}]
      BY <3>1
    <3> QED BY <3>1, <3>2, <3>3, Zenon
  <2>3. \A T \in Small(n + 1) : T # {} =>
          LET x == CHOOSE x \in T : TRUE IN T \ {x} \in Small(n)
    BY <1>1, <1>2
  <2>4. Adds(k, g, Small(n + 1))
    <3> SUFFICES ASSUME NEW T \in Small(n + 1)
                 PROVE  k[T] = IF T = {} THEN 0
                               ELSE LET x == CHOOSE x \in T : TRUE IN g[x] + k[T \ {x}]
      BY DEF Adds
    <3>1. CASE T = {}
      BY <3>1
    <3>2. CASE T # {}
      <4>1. k[T] = LET x == CHOOSE x \in T : TRUE IN g[x] + h[T \ {x}]
        BY <3>2
      <4>2. LET x == CHOOSE x \in T : TRUE IN k[T \ {x}] = h[T \ {x}]
        BY <3>2, <2>2, <2>3
      <4> HIDE DEF k
      <4> QED BY <3>2, <4>1, <4>2
    <3> QED BY <3>1, <3>2
  <2>5. k = [T \in Small(n + 1) |-> k[T]]
    OBVIOUS
  <2> HIDE DEF k
  <2>6. Has(n + 1)
    BY <2>4, <2>5, Zenon
  <2> HIDE DEF Has
  <2> QED BY <2>6
<1>5. Cardinality(S) \in Good
  <2>1. ASSUME Nat \ Good # {} PROVE FALSE
    <3>1. PICK n \in Nat \ Good : \A j \in Nat \ Good : n <= j
      <4> HIDE DEF Good
      <4> QED BY <2>1, Least
    <3>2. n # 0
      BY <1>3, <3>1
    <3>3. n - 1 \in Nat /\ n = (n - 1) + 1
      BY <3>1, <3>2
    <3>4. n - 1 \in Good
      <4> HIDE DEF Good
      <4> QED BY <3>1, <3>3
    <3>5. (n - 1) + 1 \in Good
      BY <3>4, <1>4
    <3> QED BY <3>1, <3>3, <3>5
  <2> QED BY <2>1, <1>1
<1>6. Small(Cardinality(S)) = SUBSET S
  BY <1>1, FS_Subset
<1>7. PICK h : h = [T \in SUBSET S |-> h[T]] /\ Adds(h, g, SUBSET S)
  BY <1>5, <1>6
<1>8. Adder(h, g, S)
  BY <1>7 DEF Adds, Adder
<1> QED BY <1>8

\* SumFunction is that function's value for all of them.
LEMMA SumIs ==
    ASSUME NEW g, IsFiniteSet(DOMAIN g)
    PROVE  \E h : /\ Adds(h, g, SUBSET DOMAIN g)
                  /\ SumFunction(g) = h[DOMAIN g]
<1> DEFINE h == CHOOSE h : Adder(h, g, DOMAIN g)
<1>1. Adder(h, g, DOMAIN g)
  BY SumExists, Zenon
<1>2. SumFunction(g) = h[DOMAIN g]
  BY DEF SumFunction, SumFunctionOnSet, FoldFunctionOnSet, MapThenFoldSet, Adder
<1> HIDE DEF h
<1>3. Adds(h, g, SUBSET DOMAIN g)
  BY <1>1 DEF Adds, Adder
<1> QED BY <1>2, <1>3

\* A sum of naturals is a natural, and a sum of noughts is nought.
LEMMA SumOfNaturals ==
    ASSUME NEW S, IsFiniteSet(S), NEW g \in [S -> Nat]
    PROVE  /\ SumFunction(g) \in Nat
           /\ (\A x \in S : g[x] = 0) => SumFunction(g) = 0
<1>1. PICK h : Adds(h, g, SUBSET S) /\ SumFunction(g) = h[S]
  BY SumIs
<1> DEFINE Right(T) == h[T] \in Nat /\ ((\A x \in S : g[x] = 0) => h[T] = 0)
           Wrong == {T \in SUBSET S : ~Right(T)}
<1>2. ASSUME Wrong # {} PROVE FALSE
  <2>1. PICK T \in Wrong : \A U \in Wrong : Cardinality(T) <= Cardinality(U)
    <3>1. Wrong \subseteq SUBSET S
      OBVIOUS
    <3> HIDE DEF Wrong
    <3> QED BY <3>1, <1>2, Smallest
  <2>2. h[T] = IF T = {} THEN 0 ELSE LET x == CHOOSE x \in T : TRUE IN g[x] + h[T \ {x}]
    BY <1>1 DEF Adds
  <2>3. T # {}
    BY <2>2
  <2> DEFINE x == CHOOSE x \in T : TRUE
  <2>4. x \in T /\ x \in S
    BY <2>3
  <2>5. h[T] = g[x] + h[T \ {x}]
    BY <2>2, <2>3
  <2>6. T \ {x} \notin Wrong
    BY <2>1, <2>4, SmallerSet
  <2>7. Right(T \ {x})
    BY <2>6
  <2> HIDE DEF x
  <2>8. Right(T)
    BY <2>4, <2>5, <2>7
  <2> QED BY <2>8
<1>3. Right(S)
  BY <1>2
<1> QED BY <1>1, <1>3

\* When one weight changes the sum changes by as much.
LEMMA SumOfChanged ==
    ASSUME NEW S, IsFiniteSet(S), NEW g \in [S -> Nat], NEW k \in [S -> Nat], NEW a \in S,
           \A x \in S \ {a} : k[x] = g[x]
    PROVE  SumFunction(k) = SumFunction(g) + k[a] - g[a]
<1>1. PICK h : Adds(h, g, SUBSET S) /\ SumFunction(g) = h[S]
  BY SumIs
<1>2. PICK i : Adds(i, k, SUBSET S) /\ SumFunction(k) = i[S]
  BY SumIs
<1> DEFINE Right(T) == /\ h[T] \in Int
                       /\ i[T] = IF a \in T THEN h[T] + k[a] - g[a] ELSE h[T]
           Wrong == {T \in SUBSET S : ~Right(T)}
<1>3. ASSUME Wrong # {} PROVE FALSE
  <2>1. PICK T \in Wrong : \A U \in Wrong : Cardinality(T) <= Cardinality(U)
    <3>1. Wrong \subseteq SUBSET S
      OBVIOUS
    <3> HIDE DEF Wrong
    <3> QED BY <3>1, <1>3, Smallest
  <2>2. /\ h[T] = IF T = {} THEN 0 ELSE LET x == CHOOSE x \in T : TRUE IN g[x] + h[T \ {x}]
        /\ i[T] = IF T = {} THEN 0 ELSE LET x == CHOOSE x \in T : TRUE IN k[x] + i[T \ {x}]
    BY <1>1, <1>2 DEF Adds
  <2>3. T # {}
    BY <2>2
  <2> DEFINE x == CHOOSE x \in T : TRUE
  <2>4. x \in T /\ x \in S
    BY <2>3
  <2>5. h[T] = g[x] + h[T \ {x}] /\ i[T] = k[x] + i[T \ {x}]
    BY <2>2, <2>3
  <2>6. T \ {x} \notin Wrong
    <3>1. T \in SUBSET S
      OBVIOUS
    <3>2. ~(Cardinality(T) <= Cardinality(T \ {x}))
      BY <2>4, <3>1, SmallerSet
    <3> QED BY <2>1, <3>2
  <2>7. Right(T \ {x})
    BY <2>6
  <2> HIDE DEF x
  <2>8. Right(T)
    BY <2>4, <2>5, <2>7
  <2> QED BY <2>8
<1>4. Right(S)
  BY <1>3
<1> QED BY <1>1, <1>2, <1>4

-----------------------------------------------------------------------------
\* Frames as Build makes them.
Frames == [no : Nat \ {0}, id : Lanes, kind : {"data", "control"} \cup BlockKinds,
           end : BOOLEAN, size : Nat]

\* A set of naturals with a bound has a greatest member, which is its Max.
LEMMA Greatest ==
    ASSUME NEW n \in Nat, NEW S, S \subseteq 0 .. n, S # {}
    PROVE  Max(S) \in S /\ \A k \in S : k <= Max(S)
<1> DEFINE short == {n - k : k \in S}
<1>1. short \subseteq Nat /\ short # {}
  <2>1. \A k \in S : k \in Nat /\ n - k \in Nat
    OBVIOUS
  <2> QED BY <2>1
<1>2. PICK j \in short : \A i \in short : j <= i
  <2> HIDE DEF short
  <2> QED BY <1>1, Least
<1>3. PICK k \in S : j = n - k
  BY <1>2
<1>4. \A i \in S : k >= i
  BY <1>2, <1>3
<1> QED BY <1>3, <1>4 DEF Max

\* What Writable counts: up to the last frame that ends an item.
LEMMA WritableIs ==
    ASSUME NEW q \in Seq(Frames)
    PROVE  /\ Writable(q) \in 0 .. Len(q)
           /\ Writable(q) > 0 => EndsItem(q[Writable(q)])
           /\ \A i \in DOMAIN q : EndsItem(q[i]) => i <= Writable(q)
<1> DEFINE S == {0} \cup {i \in DOMAIN q : EndsItem(q[i])}
<1>1. Len(q) \in Nat /\ DOMAIN q = 1 .. Len(q)
  BY LenProperties
<1>2. S \subseteq 0 .. Len(q) /\ S # {}
  BY <1>1
<1>3. Max(S) \in S /\ \A k \in S : k <= Max(S)
  BY <1>1, <1>2, Greatest
<1>4. Writable(q) = Max(S)
  BY DEF Writable
<1> HIDE DEF S
<1>5. Writable(q) \in S /\ \A k \in S : k <= Writable(q)
  BY <1>3, <1>4
<1> QED BY <1>1, <1>2, <1>5 DEF S

\* There is one such number.
LEMMA WritableOnly ==
    ASSUME NEW q \in Seq(Frames), NEW m \in 0 .. Len(q), m > 0 => EndsItem(q[m]),
           \A i \in DOMAIN q : EndsItem(q[i]) => i <= m
    PROVE  Writable(q) = m
<1>1. /\ Writable(q) \in 0 .. Len(q)
      /\ Writable(q) > 0 => EndsItem(q[Writable(q)])
      /\ \A i \in DOMAIN q : EndsItem(q[i]) => i <= Writable(q)
  BY WritableIs
<1>2. Len(q) \in Nat /\ DOMAIN q = 1 .. Len(q)
  BY LenProperties
<1>3. Writable(q) <= m
  BY <1>1, <1>2
<1>4. m <= Writable(q)
  BY <1>1, <1>2
<1> QED BY <1>1, <1>2, <1>3, <1>4

\* A frame that ends an item makes all before it writable, and another nothing.
LEMMA WritableMore ==
    ASSUME NEW q \in Seq(Frames), NEW f \in Frames
    PROVE  Writable(Append(q, f)) = IF EndsItem(f) THEN Len(q) + 1 ELSE Writable(q)
<1> DEFINE r == Append(q, f)
<1>1. Len(q) \in Nat /\ DOMAIN q = 1 .. Len(q)
  BY LenProperties
<1>2. /\ r \in Seq(Frames) /\ Len(r) = Len(q) + 1 /\ DOMAIN r = 1 .. Len(q) + 1
      /\ r[Len(q) + 1] = f
      /\ \A i \in 1 .. Len(q) : r[i] = q[i]
  BY AppendProperties, LenProperties
<1>3. /\ Writable(q) \in 0 .. Len(q)
      /\ Writable(q) > 0 => EndsItem(q[Writable(q)])
      /\ \A i \in DOMAIN q : EndsItem(q[i]) => i <= Writable(q)
  BY WritableIs
<1> HIDE DEF r
<1>4. CASE EndsItem(f)
  <2>1. Writable(r) = Len(q) + 1
    BY <1>1, <1>2, <1>4, WritableOnly
  <2> QED BY <2>1, <1>4 DEF r
<1>5. CASE ~EndsItem(f)
  <2>1. \A i \in DOMAIN r : EndsItem(r[i]) => i <= Writable(q)
    BY <1>1, <1>2, <1>3, <1>5
  <2> DEFINE w == Writable(q)
  <2>2. w \in 0 .. Len(r) /\ (w > 0 => w \in 1 .. Len(q))
    BY <1>1, <1>2, <1>3
  <2>3. w > 0 => EndsItem(r[w])
    BY <1>2, <1>3, <2>2
  <2> HIDE DEF w
  <2>4. Writable(r) = w
    BY <1>2, <2>1, <2>2, <2>3, WritableOnly DEF w
  <2> QED BY <2>4, <1>5 DEF r, w
<1> QED BY <1>4, <1>5

\* Taking the first frame of a whole item makes one fewer writable.
LEMMA WritableLess ==
    ASSUME NEW q \in Seq(Frames), Whole(q)
    PROVE  q # <<>> /\ Writable(q) > 0 /\ Writable(Tail(q)) = Writable(q) - 1
<1> DEFINE r == Tail(q)
<1>1. Len(q) \in Nat /\ DOMAIN q = 1 .. Len(q)
  BY LenProperties
<1>2. PICK w \in DOMAIN q : EndsItem(q[w])
  BY DEF Whole
<1>3. q # <<>> /\ Len(q) > 0
  BY <1>1, <1>2, EmptySeq
<1>4. /\ r \in Seq(Frames) /\ Len(r) = Len(q) - 1 /\ DOMAIN r = 1 .. Len(q) - 1
      /\ \A i \in 1 .. Len(q) - 1 : r[i] = q[i + 1]
  BY <1>1, <1>3, HeadTailProperties, LenProperties
<1>5. /\ Writable(q) \in 0 .. Len(q)
      /\ Writable(q) > 0 => EndsItem(q[Writable(q)])
      /\ \A i \in DOMAIN q : EndsItem(q[i]) => i <= Writable(q)
  BY WritableIs
<1> HIDE DEF r
<1>6. Writable(q) > 0
  BY <1>1, <1>2, <1>5
<1> DEFINE m == Writable(q) - 1
<1>7. m \in 0 .. Len(r)
  BY <1>1, <1>4, <1>5, <1>6
<1>8. m > 0 => EndsItem(r[m])
  BY <1>1, <1>4, <1>5, <1>6
<1>9. ASSUME NEW i \in DOMAIN r, EndsItem(r[i]) PROVE i <= m
  <2>1. i + 1 \in DOMAIN q /\ EndsItem(q[i + 1])
    BY <1>1, <1>4, <1>9
  <2>2. i + 1 <= Writable(q)
    BY <2>1, <1>5
  <2> QED BY <2>2, <1>4, <1>5
<1>10. Writable(r) = m
  <2> HIDE DEF m
  <2> QED BY <1>4, <1>7, <1>8, <1>9, WritableOnly
<1> QED BY <1>3, <1>6, <1>10 DEF r
-----------------------------------------------------------------------------
Callers == {"idle", "running", "parked", "refused"}
Writers == {"awaiting", "parked", "buffering", "taking", "flushing", "stopping", "gone"}

Typed ==
    /\ queue \in [Lanes -> Seq(Frames)]
    /\ mid \in Lanes \cup {NoStream}
    /\ out \in Frames \cup {NoFrame}
    /\ cap \in Caps \cup {DefaultCap}
    /\ sent \in [Lanes -> Nat] /\ \A id \in Lanes : sent[id] <= Len(Script[id])
    /\ hand \in [Lanes -> Frames \cup {NoFrame}]
    /\ caller \in [Lanes -> Callers]
    /\ writer \in Writers
    /\ burst \in Seq(Frames) /\ wire \in Seq(Frames)
    /\ err \in {NoErr, "oversize", "write"}
    /\ stopGraceful \in BOOLEAN /\ stopAbrupt \in BOOLEAN /\ unannounced \in BOOLEAN
    /\ gone = (writer = "gone")

\* Enqueue has been called and has not returned.
Waits(id) == caller[id] \in {"running", "parked"}

\* The frames of its script that a goroutine has enqueued.
Accepted(id) == IF caller[id] = "idle" THEN sent[id] ELSE sent[id] - 1

\* A frame is the one of its number in the script.
Scripted(id, f) ==
    f.no \in DOMAIN Script[id] /\ f.kind = Script[id][f.no].kind /\ f.end = Script[id][f.no].end

\* A goroutine holds the last frame it built and the queue those before it, one by one.
Numbered ==
    \A id \in Lanes :
        /\ caller[id] # "idle" => sent[id] > 0
        /\ Waits(id) => /\ hand[id] \in Frames /\ hand[id].id = id
                        /\ hand[id].no = sent[id] /\ Scripted(id, hand[id])
        /\ \A i \in DOMAIN queue[id] :
            /\ queue[id][i].no = Accepted(id) - Len(queue[id]) + i
            /\ Scripted(id, queue[id][i])

\* One goroutine at a time holds the encoder.
Alone == \A id, other \in Lanes : Encoding(id) /\ Encoding(other) => id = other

Refused == \A id \in Lanes : caller[id] = "refused" => stopped

\* A field block that is still arriving finds no more than the depth ahead of it.
Room == ~stopped => \A id \in Lanes : OpenBlock(queue[id]) => Length <= Depth

\* Between bursts nothing is part-way out; in one, the last frame taken tells.
Pieces ==
    /\ mid # NoStream => Whole(queue[mid])
    /\ writer \in {"awaiting", "parked"} => mid = NoStream /\ burst = <<>>
    /\ writer = "buffering" => out \in Frames /\ (mid = NoStream <=> EndsItem(out))
    /\ writer \in {"taking", "flushing"} =>
        burst # <<>> /\ (mid = NoStream <=> EndsItem(burst[Len(burst)]))
    /\ writer = "flushing" => mid = NoStream

\* A writer that is to stop and met no error was told to by Shutdown and found the queue
\* empty.
Drained ==
    writer \in {"stopping", "gone"} /\ err = NoErr /\ ~stopAbrupt =>
        stopGraceful /\ Empty /\ burst = <<>>

IInv ==
    /\ Typed /\ Numbered /\ Alone /\ Refused
    /\ Room /\ QueueIsBounded
    /\ NobodySleepsThroughWork
    /\ Pieces /\ WireEndsWhole /\ Drained

-----------------------------------------------------------------------------
\* What may leave the queues Q: Length, of any queues.
Weight(Q) == SumFunction([id \in Lanes |-> Writable(Q[id])])

\* Queues with nothing whole in them weigh nothing.
LEMMA WeightIs ==
    ASSUME NEW Q \in [Lanes -> Seq(Frames)]
    PROVE  /\ Weight(Q) \in Nat
           /\ (\A id \in Lanes : ~Whole(Q[id])) => Weight(Q) = 0
<1> DEFINE g == [id \in Lanes |-> Writable(Q[id])]
<1>1. \A id \in Lanes : Writable(Q[id]) \in Nat /\ (Writable(Q[id]) > 0 => Whole(Q[id]))
  <2> SUFFICES ASSUME NEW id \in Lanes
               PROVE  Writable(Q[id]) \in Nat /\ (Writable(Q[id]) > 0 => Whole(Q[id]))
    OBVIOUS
  <2>1. Q[id] \in Seq(Frames)
    OBVIOUS
  <2>2. Len(Q[id]) \in Nat /\ DOMAIN Q[id] = 1 .. Len(Q[id])
    BY <2>1, LenProperties
  <2>3. Writable(Q[id]) \in 0 .. Len(Q[id])
        /\ (Writable(Q[id]) > 0 => EndsItem(Q[id][Writable(Q[id])]))
    BY <2>1, WritableIs
  <2>4. Writable(Q[id]) > 0 => Writable(Q[id]) \in DOMAIN Q[id]
    BY <2>2, <2>3
  <2> QED BY <2>2, <2>3, <2>4 DEF Whole
<1>2. g \in [Lanes -> Nat]
  BY <1>1
<1>3. SumFunction(g) \in Nat /\ ((\A id \in Lanes : g[id] = 0) => SumFunction(g) = 0)
  <2> HIDE DEF g
  <2> QED BY <1>2, SumOfNaturals, WriterAssumption
<1>4. (\A id \in Lanes : ~Whole(Q[id])) => \A id \in Lanes : g[id] = 0
  BY <1>1
<1> QED BY <1>3, <1>4 DEF Weight

\* A queue that changes changes the weight by as much.
LEMMA WeightChanges ==
    ASSUME NEW Q \in [Lanes -> Seq(Frames)], NEW R \in [Lanes -> Seq(Frames)],
           NEW id \in Lanes, \A other \in Lanes \ {id} : R[other] = Q[other]
    PROVE  Weight(R) = Weight(Q) + Writable(R[id]) - Writable(Q[id])
<1> DEFINE g == [other \in Lanes |-> Writable(Q[other])]
           k == [other \in Lanes |-> Writable(R[other])]
<1>1. \A q \in Seq(Frames) : Writable(q) \in Nat
  <2> SUFFICES ASSUME NEW q \in Seq(Frames) PROVE Writable(q) \in Nat
    OBVIOUS
  <2>1. Writable(q) \in 0 .. Len(q) /\ Len(q) \in Nat
    BY WritableIs, LenProperties
  <2> QED BY <2>1
<1>2. g \in [Lanes -> Nat] /\ k \in [Lanes -> Nat]
  BY <1>1
<1>3. \A other \in Lanes \ {id} : k[other] = g[other]
  OBVIOUS
<1>4. IsFiniteSet(Lanes)
  BY WriterAssumption
<1>5. SumFunction(k) = SumFunction(g) + k[id] - g[id]
  <2> HIDE DEF g, k
  <2> QED BY <1>2, <1>3, <1>4, SumOfChanged
<1>6. k[id] = Writable(R[id]) /\ g[id] = Writable(Q[id])
  OBVIOUS
<1> QED BY <1>5, <1>6 DEF Weight

\* With nothing to take and no piece part-way out, Length is nought.
LEMMA NothingWritable ==
    ASSUME Typed
    PROVE  Length \in Nat /\ (Empty /\ mid = NoStream => Length = 0)
<1>1. queue \in [Lanes -> Seq(Frames)]
  BY DEF Typed
<1>2. Length = Weight(queue)
  BY DEF Length, Weight
<1>3. Empty /\ mid = NoStream => \A id \in Lanes : ~Whole(queue[id])
  BY DEF Empty, Ready
<1> QED BY <1>1, <1>2, <1>3, WeightIs

\* The goroutines that enqueue stay where they are, but for those that are woken.
Steady ==
    /\ UNCHANGED <<sent, hand>>
    /\ caller' \in [Lanes -> Callers]
    /\ \A id \in Lanes :
        caller'[id] = caller[id] \/ (caller[id] = "parked" /\ caller'[id] = "running")

LEMMA BroadcastIsSteady ==
    ASSUME Typed, NEW who, Broadcast(caller, who), UNCHANGED <<sent, hand>>
    PROVE  /\ Steady /\ \A id \in Lanes : caller'[id] # "parked"
           /\ writer' = IF who = "parked" THEN "awaiting" ELSE who
<1>1. caller \in [Lanes -> Callers]
  BY DEF Typed
<1>2. caller' = [id \in Lanes |-> Awake(caller[id])]
  BY DEF Broadcast
<1>3. \A id \in Lanes : caller'[id] = IF caller[id] = "parked" THEN "running" ELSE caller[id]
  BY <1>2 DEF Awake
<1>4. caller' \in [Lanes -> Callers]
  BY <1>1, <1>2 DEF Awake, Callers
<1>5. Steady
  BY <1>3, <1>4 DEF Steady
<1>6. \A id \in Lanes : caller'[id] # "parked"
  BY <1>3
<1>7. writer' = IF who = "parked" THEN "awaiting" ELSE who
  BY DEF Broadcast
<1> QED BY <1>5, <1>6, <1>7

\* So nothing changes in what they hold and have enqueued.
LEMMA SteadyKeeps ==
    ASSUME Steady
    PROVE  /\ \A id \in Lanes : /\ Waits(id)' <=> Waits(id)
                                /\ Accepted(id)' = Accepted(id)
                                /\ caller'[id] = "idle" <=> caller[id] = "idle"
                                /\ Encoding(id)' <=> Encoding(id)
           /\ Alone => Alone'
           /\ Refused /\ (stopped => stopped') => Refused'
<1>1. \A id \in Lanes : /\ Waits(id)' <=> Waits(id)
                        /\ Accepted(id)' = Accepted(id)
                        /\ caller'[id] = "idle" <=> caller[id] = "idle"
                        /\ Encoding(id)' <=> Encoding(id)
  BY DEF Steady, Waits, Accepted, Encoding
<1>2. Alone => Alone'
  BY <1>1 DEF Alone
<1>3. Refused /\ (stopped => stopped') => Refused'
  BY DEF Refused, Steady
<1> QED BY <1>1, <1>2, <1>3

\* And the numbers run as they did.
LEMMA SteadyNumbered ==
    ASSUME Steady, Numbered, UNCHANGED queue
    PROVE  Numbered'
<1>1. \A id \in Lanes : /\ Waits(id)' <=> Waits(id)
                        /\ Accepted(id)' = Accepted(id)
                        /\ caller'[id] = "idle" <=> caller[id] = "idle"
  BY SteadyKeeps
<1> SUFFICES ASSUME NEW id \in Lanes
             PROVE  /\ caller'[id] # "idle" => sent'[id] > 0
                    /\ Waits(id)' => /\ hand'[id] \in Frames /\ hand'[id].id = id
                                     /\ hand'[id].no = sent'[id] /\ Scripted(id, hand'[id])
                    /\ \A i \in DOMAIN queue'[id] :
                        /\ queue'[id][i].no = Accepted(id)' - Len(queue'[id]) + i
                        /\ Scripted(id, queue'[id][i])
  BY DEF Numbered, Scripted
<1> QED BY <1>1 DEF Numbered, Steady

\* The last frame of a queue is the last that was enqueued.
LEMMA LastNumbered ==
    ASSUME Typed, Numbered, NEW id \in Lanes, queue[id] # <<>>
    PROVE  /\ queue[id][Len(queue[id])].no = Accepted(id)
           /\ Scripted(id, queue[id][Len(queue[id])])
<1>1. queue[id] \in Seq(Frames) /\ sent[id] \in Nat
  BY DEF Typed
<1> DEFINE l == Len(queue[id])
<1>2. l \in Nat /\ DOMAIN queue[id] = 1 .. l /\ l # 0
  BY <1>1, LenProperties, EmptySeq
<1>3. Accepted(id) \in Int
  BY <1>1 DEF Accepted
<1> HIDE DEF l
<1>4. l \in DOMAIN queue[id]
  BY <1>2
<1>5. queue[id][l].no = Accepted(id) - l + l /\ Scripted(id, queue[id][l])
  BY <1>4 DEF Numbered, l
<1> QED BY <1>2, <1>3, <1>5 DEF l

\* Whose block is still arriving holds the encoder.
LEMMA OpenHoldsEncoder ==
    ASSUME Typed, Numbered, NEW id \in Lanes, OpenBlock(queue[id]), caller[id] # "refused"
    PROVE  Encoding(id)
<1> DEFINE f == queue[id][Len(queue[id])]
<1>1. queue[id] # <<>> /\ ~EndsItem(f)
  BY DEF OpenBlock
<1>2. f.no = Accepted(id) /\ Scripted(id, f)
  BY <1>1, LastNumbered
<1> HIDE DEF f
<1>3. /\ sent[id] \in Nat /\ sent[id] <= Len(Script[id]) /\ Script[id] \in Seq([kind : {"data", "control"} \cup BlockKinds,
                                 end : BOOLEAN, full : BOOLEAN])
      /\ caller[id] \in Callers
  BY WriterAssumption DEF Typed
<1>4. Len(Script[id]) \in Nat /\ DOMAIN Script[id] = 1 .. Len(Script[id])
  BY <1>3, LenProperties
<1>5. f.no \in DOMAIN Script[id] /\ Script[id][f.no].kind \in BlockKinds /\ ~Script[id][f.no].end
  <2>1. f.no \in DOMAIN Script[id]
    BY <1>2 DEF Scripted
  <2>2. Script[id][f.no] \in [kind : {"data", "control"} \cup BlockKinds, end : BOOLEAN, full : BOOLEAN]
    BY <2>1, <1>3, ElementOfSeq, <1>4
  <2> QED BY <1>1, <1>2, <2>1, <2>2 DEF Scripted, EndsItem
<1>6. Opens(Script[id], f.no)
  BY <1>5 DEF Opens
<1>7. CASE caller[id] = "idle"
  <2>1. f.no = sent[id]
    BY <1>2, <1>7 DEF Accepted
  <2> QED BY <2>1, <1>3, <1>4, <1>5, <1>7 DEF Encoding
<1>8. CASE caller[id] # "idle"
  <2>1. f.no = sent[id] - 1 /\ sent[id] > 0
    BY <1>2, <1>8 DEF Accepted, Numbered
  <2>2. sent[id] \in 1 .. Len(Script[id]) + 1 /\ sent[id] - 1 = f.no
    BY <2>1, <1>3, <1>4
  <2>3. Script[id][sent[id]].kind = "continuation"
    BY <2>2, <1>6, WriterAssumption
  <2> QED BY <2>1, <2>3, <1>8 DEF Encoding, BlockKinds
<1> QED BY <1>7, <1>8

\* With no block arriving all of a queue is writable.
LEMMA AllWritable ==
    ASSUME NEW q \in Seq(Frames), ~OpenBlock(q)
    PROVE  Writable(q) = Len(q)
<1>1. Len(q) \in Nat /\ DOMAIN q = 1 .. Len(q)
  BY LenProperties
<1>2. Len(q) > 0 => EndsItem(q[Len(q)])
  BY <1>1, EmptySeq DEF OpenBlock
<1>3. Len(q) \in 0 .. Len(q) /\ \A i \in DOMAIN q : EndsItem(q[i]) => i <= Len(q)
  BY <1>1
<1> QED BY <1>2, <1>3, WritableOnly

\* The frames of a script are the ones the encoder and its callers cut.
LEMMA ScriptTyped ==
    ASSUME NEW id \in Lanes
    PROVE  /\ Len(Script[id]) \in Nat /\ DOMAIN Script[id] = 1 .. Len(Script[id])
           /\ \A i \in DOMAIN Script[id] :
                Script[id][i] \in [kind : {"data", "control"} \cup BlockKinds,
                                   end : BOOLEAN, full : BOOLEAN]
<1>1. Script[id] \in Seq([kind : {"data", "control"} \cup BlockKinds,
                          end : BOOLEAN, full : BOOLEAN])
  BY WriterAssumption
<1>2. Len(Script[id]) \in Nat /\ DOMAIN Script[id] = 1 .. Len(Script[id])
  BY <1>1, LenProperties
<1>3. \A i \in 1 .. Len(Script[id]) :
                Script[id][i] \in [kind : {"data", "control"} \cup BlockKinds,
                                   end : BOOLEAN, full : BOOLEAN]
  BY <1>1, ElementOfSeq
<1> QED BY <1>2, <1>3

\* A script has so many frames of blocks.
LEMMA BlocksFinite ==
    ASSUME NEW id \in Lanes
    PROVE  IsFiniteSet(Blocks(id)) /\ Cardinality(Blocks(id)) \in Nat
<1>1. Len(Script[id]) \in Nat /\ DOMAIN Script[id] = 1 .. Len(Script[id])
  BY ScriptTyped
<1>2. Blocks(id) \subseteq 1 .. Len(Script[id])
  BY <1>1 DEF Blocks
<1>3. IsFiniteSet(1 .. Len(Script[id]))
  BY <1>1, FS_Interval
<1> QED BY <1>2, <1>3, FS_Subset, FS_CardinalityType

\* What a block adds to Length when its last frame comes is no longer than a block of its
\* script.
LEMMA BlockFits ==
    ASSUME Typed, Numbered, NEW id \in Lanes, Waits(id), hand[id].kind = "continuation"
    PROVE  Len(queue[id]) + 1 - Writable(queue[id]) <= Cardinality(Blocks(id))
<1> DEFINE q == queue[id]
           l == Len(q)
           k == Writable(q)
           n == sent[id]
           S == Script[id]
<1>1. /\ q \in Seq(Frames) /\ n \in Nat /\ n <= Len(S) /\ n > 0
      /\ Accepted(id) = n - 1
      /\ hand[id].no = n /\ Scripted(id, hand[id])
  BY DEF Typed, Numbered, Waits, Accepted
<1>2. l \in Nat /\ DOMAIN q = 1 .. l /\ k \in 0 .. l
      /\ \A i \in DOMAIN q : EndsItem(q[i]) => i <= k
  BY <1>1, LenProperties, WritableIs
<1>3. Len(S) \in Nat /\ DOMAIN S = 1 .. Len(S)
  BY ScriptTyped
<1>4. \A i \in DOMAIN q : q[i].no = n - 1 - l + i /\ Scripted(id, q[i])
  BY <1>1 DEF Numbered
<1>5. \A i \in DOMAIN q : q[i] \in Frames
  BY <1>1, <1>2, ElementOfSeq
<1>6. n \in Blocks(id)
  BY <1>1 DEF Scripted, Blocks, BlockKinds
<1> HIDE DEF q, l, k, n, S
<1>7. ASSUME NEW i \in (k + 1) .. l PROVE n - 1 - l + i \in Blocks(id)
  <2>1. i \in DOMAIN q /\ ~EndsItem(q[i])
    BY <1>2, <1>7
  <2>2. q[i].kind \in BlockKinds
    BY <2>1, <1>5 DEF EndsItem, Frames
  <2>3. q[i].no = n - 1 - l + i /\ Scripted(id, q[i])
    BY <2>1, <1>4
  <2> QED BY <2>2, <2>3 DEF Scripted, Blocks
<1>8. (n - l + k) .. n \subseteq Blocks(id)
  <2> SUFFICES ASSUME NEW j \in (n - l + k) .. n PROVE j \in Blocks(id)
    OBVIOUS
  <2>1. j \in Int /\ n - l + k <= j /\ j <= n
    BY <1>1, <1>2 DEF n
  <2>2. CASE j = n
    BY <2>2, <1>6 DEF n
  <2>3. CASE j # n
    <3> DEFINE i == j - n + 1 + l
    <3>1. i \in (k + 1) .. l /\ n - 1 - l + i = j
      <4>1. n \in Int /\ l \in Int /\ k \in Int /\ j < n
        BY <2>1, <2>3, <1>1, <1>2 DEF n
      <4>2. i \in Int /\ k + 1 <= i /\ i <= l
        BY <2>1, <4>1
      <4>3. n - 1 - l + i = j
        BY <2>1, <4>1
      <4> QED BY <4>1, <4>2, <4>3
    <3> HIDE DEF i
    <3> QED BY <3>1, <1>7
  <2> QED BY <2>2, <2>3
<1>9. IsFiniteSet(Blocks(id))
  BY BlocksFinite
<1>10. Cardinality((n - l + k) .. n) = l - k + 1
  <2>1. n - l + k \in Int /\ n \in Int /\ ~(n - l + k > n)
    BY <1>1, <1>2 DEF n
  <2>2. Cardinality((n - l + k) .. n) = n - (n - l + k) + 1
    BY <2>1, FS_Interval
  <2> QED BY <2>2, <1>1, <1>2 DEF n
<1>11. Cardinality((n - l + k) .. n) <= Cardinality(Blocks(id))
  BY <1>8, <1>9, FS_Subset
<1>12. l - k + 1 = l + 1 - k
  BY <1>2
<1> QED BY <1>10, <1>11, <1>12 DEF l, k, q

-----------------------------------------------------------------------------
\* The writer takes a frame: there is one fewer to take, the numbers still run, and the
\* frame tells whether a block is part-way out.
LEMMA GetKeeps ==
    ASSUME Typed, Numbered, Room, QueueIsBounded, Steady, stopped' = stopped,
           NEW id \in Lanes, Get(id)
    PROVE  /\ queue' \in [Lanes -> Seq(Frames)] /\ mid' \in Lanes \cup {NoStream}
           /\ out' \in Frames
           /\ Numbered' /\ Room' /\ QueueIsBounded'
           /\ mid' = NoStream <=> EndsItem(out')
           /\ mid' # NoStream => Whole(queue'[mid'])
<1> DEFINE q == queue[id]
           r == Tail(q)
<1>1. queue \in [Lanes -> Seq(Frames)] /\ q \in Seq(Frames) /\ Whole(q)
  BY DEF Typed, Get, Ready
<1>2. q # <<>> /\ Writable(q) > 0 /\ Writable(r) = Writable(q) - 1
  BY <1>1, WritableLess
<1>3. Len(q) \in Nat /\ DOMAIN q = 1 .. Len(q) /\ Len(q) > 0
  BY <1>1, <1>2, LenProperties, EmptySeq
<1>4. /\ r \in Seq(Frames) /\ Len(r) = Len(q) - 1 /\ DOMAIN r = 1 .. Len(q) - 1
      /\ \A i \in 1 .. Len(q) - 1 : r[i] = q[i + 1]
      /\ Head(q) = q[1] /\ Head(q) \in Frames
  BY <1>1, <1>2, <1>3, HeadTailProperties, LenProperties
<1>5. /\ queue' = [queue EXCEPT ![id] = r]
      /\ mid' = IF EndsItem(Head(q)) THEN NoStream ELSE id
      /\ out' = Head(q)
  BY DEF Get, Shift
<1>6. queue' \in [Lanes -> Seq(Frames)] /\ queue'[id] = r
      /\ \A other \in Lanes \ {id} : queue'[other] = queue[other]
  <2> HIDE DEF r
  <2> QED BY <1>1, <1>4, <1>5
<1> HIDE DEF q, r
<1>7. mid' \in Lanes \cup {NoStream} /\ out' \in Frames
  BY <1>4, <1>5
<1>8. mid' = NoStream <=> EndsItem(out')
  <2>1. NoStream \notin Lanes
    BY WriterAssumption DEF NoStream
  <2> QED BY <1>5, <2>1
<1>9. ASSUME mid' # NoStream PROVE Whole(queue'[mid'])
  <2>1. mid' = id /\ ~EndsItem(q[1])
    BY <1>4, <1>5, <1>9
  <2>2. PICK i \in DOMAIN q : EndsItem(q[i])
    BY <1>1 DEF Whole
  <2>3. i # 1
    BY <2>1, <2>2
  <2>4. i - 1 \in DOMAIN r /\ r[i - 1] = q[i]
    BY <2>2, <2>3, <1>3, <1>4
  <2> QED BY <2>1, <2>2, <2>4, <1>6 DEF Whole
<1>10. Numbered'
  <2>1. \A o \in Lanes : /\ Waits(o)' <=> Waits(o)
                         /\ Accepted(o)' = Accepted(o)
                         /\ caller'[o] = "idle" <=> caller[o] = "idle"
    BY SteadyKeeps
  <2> SUFFICES ASSUME NEW o \in Lanes
               PROVE  /\ caller'[o] # "idle" => sent'[o] > 0
                      /\ Waits(o)' => /\ hand'[o] \in Frames /\ hand'[o].id = o
                                      /\ hand'[o].no = sent'[o] /\ Scripted(o, hand'[o])
                      /\ \A i \in DOMAIN queue'[o] :
                          /\ queue'[o][i].no = Accepted(o)' - Len(queue'[o]) + i
                          /\ Scripted(o, queue'[o][i])
    BY DEF Numbered, Scripted
  <2>2. /\ caller'[o] # "idle" => sent'[o] > 0
        /\ Waits(o)' => /\ hand'[o] \in Frames /\ hand'[o].id = o
                        /\ hand'[o].no = sent'[o] /\ Scripted(o, hand'[o])
    BY <2>1 DEF Numbered, Steady
  <2>3. CASE o # id
    <3>1. queue'[o] = queue[o]
      BY <2>3, <1>6
    <3> QED BY <2>1, <2>2, <3>1 DEF Numbered
  <2>4. CASE o = id
    <3>1. queue'[o] = r
      BY <2>4, <1>6
    <3>2. sent[o] \in Nat
      BY DEF Typed
    <3>3. Accepted(o) \in Int
      BY <3>2 DEF Accepted
    <3>4. ASSUME NEW i \in DOMAIN r
          PROVE  r[i].no = Accepted(o) - Len(r) + i /\ Scripted(o, r[i])
      <4>1. i \in 1 .. Len(q) - 1 /\ r[i] = q[i + 1] /\ i + 1 \in DOMAIN q
        BY <1>3, <1>4
      <4>2. q[i + 1].no = Accepted(o) - Len(q) + (i + 1) /\ Scripted(o, q[i + 1])
        BY <4>1, <2>4 DEF Numbered, q
      <4> QED BY <4>1, <4>2, <3>3, <1>3, <1>4
    <3> QED BY <2>1, <2>2, <3>1, <3>4
  <2> QED BY <2>3, <2>4
<1>11. Length \in Nat /\ Length' = Length - 1
  <2>1. Length = Weight(queue) /\ Length' = Weight(queue')
    BY DEF Length, Weight
  <2>2. Weight(queue') = Weight(queue) + Writable(queue'[id]) - Writable(queue[id])
    BY <1>1, <1>6, WeightChanges
  <2>3. Weight(queue) \in Nat
    BY <1>1, WeightIs
  <2>4. Writable(q) \in 0 .. Len(q)
    BY <1>1, WritableIs
  <2> QED BY <2>1, <2>2, <2>3, <2>4, <1>2, <1>3, <1>6 DEF q
<1>12. QueueIsBounded'
  <2>1. Depth \in Nat
    BY WriterAssumption
  <2>2. CASE Length <= Depth
    <3>1. Length' <= Depth
      BY <1>11, <2>1, <2>2
    <3> QED BY <3>1 DEF QueueIsBounded
  <2>3. ASSUME NEW o \in Lanes, Length <= Depth + Cardinality(Blocks(o))
        PROVE  QueueIsBounded'
    <3>1. Cardinality(Blocks(o)) \in Nat
      BY BlocksFinite
    <3>2. Length' <= Depth + Cardinality(Blocks(o))
      BY <1>11, <2>1, <2>3, <3>1
    <3> QED BY <3>2 DEF QueueIsBounded
  <2> QED BY <2>2, <2>3 DEF QueueIsBounded
<1>13. Room'
  <2> SUFFICES ASSUME ~stopped', NEW o \in Lanes, OpenBlock(queue'[o])
               PROVE  Length' <= Depth
    BY DEF Room
  <2>1. OpenBlock(queue[o])
    <3>1. CASE o # id
      BY <3>1, <1>6
    <3>2. CASE o = id
      <4>1. r # <<>> /\ ~EndsItem(r[Len(r)])
        BY <3>2, <1>6 DEF OpenBlock
      <4>2. Len(r) > 0
        BY <4>1, <1>3, <1>4, EmptySeq
      <4>3. r[Len(r)] = q[Len(q)]
        BY <4>2, <1>3, <1>4
      <4> QED BY <3>2, <4>1, <4>3, <1>2 DEF OpenBlock, q
    <3> QED BY <3>1, <3>2
  <2>2. Length <= Depth
    BY <2>1 DEF Room
  <2>3. Depth \in Nat
    BY WriterAssumption
  <2> QED BY <2>2, <2>3, <1>11
<1> QED BY <1>6, <1>7, <1>8, <1>9, <1>10, <1>12, <1>13

-----------------------------------------------------------------------------
\* A step that leaves the queue alone.
LEMMA QuietKeeps ==
    ASSUME Steady, UNCHANGED outbox, stopped => stopped',
           Numbered, Alone, Refused, Room, QueueIsBounded
    PROVE  Numbered' /\ Alone' /\ Refused' /\ Room' /\ QueueIsBounded' /\ Length' = Length
           /\ (Empty' <=> Empty)
<1>1. queue' = queue /\ mid' = mid
  BY DEF outbox
<1>2. Length' = Length
  BY <1>1 DEF Length
<1>3. Room' /\ QueueIsBounded'
  BY <1>1, <1>2 DEF Room, QueueIsBounded
<1>4. Empty' <=> Empty
  BY <1>1 DEF Empty, Ready
<1>5. Alone' /\ Refused'
  BY SteadyKeeps
<1>6. Numbered'
  BY <1>1, SteadyNumbered
<1> QED BY <1>2, <1>3, <1>4, <1>5, <1>6

LEMMA SetMaxFrameSizeIInv == ASSUME IInv, NEW size \in Caps, SetMaxFrameSize(size) PROVE IInv'
<1> USE DEF IInv
<1>1. /\ cap' = size
      /\ UNCHANGED <<outbox, callers, writer, burst, wire, err, stops>>
  BY DEF SetMaxFrameSize
<1>2. Typed'
  BY <1>1 DEF Typed, outbox, callers, stops
<1>3. Steady /\ (stopped => stopped')
  BY <1>1 DEF Typed, callers, stops, Steady, stopped
<1>4. Numbered' /\ Alone' /\ Refused' /\ Room' /\ QueueIsBounded' /\ Length' = Length
      /\ (Empty' <=> Empty)
  BY <1>1, <1>3, QuietKeeps
<1>5. NobodySleepsThroughWork'
  BY <1>1, <1>4 DEF NobodySleepsThroughWork, callers, stops
<1>6. Pieces' /\ WireEndsWhole'
  BY <1>1 DEF Pieces, WireEndsWhole, outbox
<1>7. Drained'
  BY <1>1, <1>4 DEF Drained, stops
<1> QED BY <1>2, <1>4, <1>5, <1>6, <1>7

LEMMA ShutdownIInv == ASSUME IInv, Shutdown \/ Close PROVE IInv'
<1> USE DEF IInv
<1>1. /\ stopGraceful' \in BOOLEAN /\ stopAbrupt' \in BOOLEAN /\ unannounced' = TRUE
      /\ (stopGraceful => stopGraceful') /\ (stopAbrupt => stopAbrupt')
      /\ UNCHANGED <<outbox, cap, callers, writer, burst, wire, err, gone>>
  BY DEF Shutdown, Close, Typed
<1>2. Typed'
  BY <1>1 DEF Typed, outbox, callers
<1>3. Steady /\ (stopped => stopped')
  BY <1>1 DEF Typed, callers, Steady, stopped
<1>4. Numbered' /\ Alone' /\ Refused' /\ Room' /\ QueueIsBounded' /\ Length' = Length
      /\ (Empty' <=> Empty)
  BY <1>1, <1>3, QuietKeeps
<1>5. NobodySleepsThroughWork'
  BY <1>1, <1>4 DEF NobodySleepsThroughWork, callers
<1>6. Pieces' /\ WireEndsWhole'
  BY <1>1 DEF Pieces, WireEndsWhole, outbox
<1>7. Drained'
  BY <1>1, <1>4 DEF Drained
<1> QED BY <1>2, <1>4, <1>5, <1>6, <1>7

LEMMA AnnounceIInv == ASSUME IInv, Announce PROVE IInv'
<1> USE DEF IInv
<1>1. /\ unannounced' = FALSE /\ Broadcast(caller, writer)
      /\ UNCHANGED <<outbox, cap, sent, hand, burst, wire, err, stopGraceful, stopAbrupt, gone>>
  BY DEF Announce
<1>2. /\ Steady /\ \A id \in Lanes : caller'[id] # "parked"
      /\ writer' = IF writer = "parked" THEN "awaiting" ELSE writer
  BY <1>1, BroadcastIsSteady
<1>3. Typed'
  BY <1>1, <1>2 DEF Typed, outbox, Steady, Writers
<1>4. Numbered' /\ Alone' /\ Refused' /\ Room' /\ QueueIsBounded' /\ Length' = Length
      /\ (Empty' <=> Empty)
  BY <1>1, <1>2, QuietKeeps DEF stopped
<1>5. NobodySleepsThroughWork'
  BY <1>2 DEF NobodySleepsThroughWork
<1>6. Pieces' /\ WireEndsWhole'
  BY <1>1, <1>2 DEF Pieces, WireEndsWhole, outbox
<1>7. Drained'
  BY <1>1, <1>2, <1>4 DEF Drained
<1> QED BY <1>3, <1>4, <1>5, <1>6, <1>7

\* A frame of the script is built: an encoder that is free is taken, and one that is held
\* is held on to.
LEMMA BuildIInv == ASSUME IInv, NEW id \in Lanes, Build(id) PROVE IInv'
<1> USE DEF IInv
<1> DEFINE n == sent[id] + 1
           s == Script[id][n]
           f == [no |-> n, id |-> id, kind |-> s.kind, end |-> s.end,
                 size |-> IF s.full THEN cap ELSE DefaultCap]
<1>1. /\ caller[id] = "idle" /\ sent[id] < Len(Script[id])
      /\ s.kind = "headers" => \A other \in Lanes : ~Encoding(other)
      /\ hand' = [hand EXCEPT ![id] = f]
      /\ sent' = [sent EXCEPT ![id] = n]
      /\ caller' = [caller EXCEPT ![id] = "running"]
      /\ UNCHANGED <<outbox, cap, writer, burst, wire, err, stops>>
  BY DEF Build
<1>2. /\ sent[id] \in Nat /\ n \in DOMAIN Script[id] /\ n \in Nat \ {0} /\ n <= Len(Script[id])
      /\ s \in [kind : {"data", "control"} \cup BlockKinds, end : BOOLEAN, full : BOOLEAN]
  <2>1. sent[id] \in Nat
    BY DEF Typed
  <2>2. n \in DOMAIN Script[id] /\ n \in Nat \ {0} /\ n <= Len(Script[id])
    BY <1>1, <2>1, ScriptTyped
  <2> QED BY <2>1, <2>2, ScriptTyped
<1>3. f \in Frames
  <2>1. cap \in Nat /\ DefaultCap \in Nat
    <3>1. Caps \subseteq Nat
      BY WriterAssumption
    <3>2. cap \in Caps \cup {1}
      BY DEF Typed, DefaultCap
    <3> QED BY <3>1, <3>2 DEF DefaultCap
  <2> QED BY <1>2, <2>1 DEF Frames
<1> HIDE DEF f
<1>4. Typed'
  <2>1. sent' \in [Lanes -> Nat] /\ \A o \in Lanes : sent'[o] <= Len(Script[o])
    BY <1>1, <1>2 DEF Typed
  <2>2. hand' \in [Lanes -> Frames \cup {NoFrame}] /\ caller' \in [Lanes -> Callers]
    BY <1>1, <1>3 DEF Typed, Callers
  <2> QED BY <1>1, <2>1, <2>2 DEF Typed, outbox, stops
<1>5. /\ caller'[id] = "running" /\ sent'[id] = n /\ hand'[id] = f
      /\ \A o \in Lanes \ {id} : caller'[o] = caller[o] /\ sent'[o] = sent[o] /\ hand'[o] = hand[o]
  BY <1>1 DEF Typed
<1>6. Numbered'
  <2> SUFFICES ASSUME NEW o \in Lanes
               PROVE  /\ caller'[o] # "idle" => sent'[o] > 0
                      /\ Waits(o)' => /\ hand'[o] \in Frames /\ hand'[o].id = o
                                      /\ hand'[o].no = sent'[o] /\ Scripted(o, hand'[o])
                      /\ \A i \in DOMAIN queue'[o] :
                          /\ queue'[o][i].no = Accepted(o)' - Len(queue'[o]) + i
                          /\ Scripted(o, queue'[o][i])
    BY DEF Numbered, Scripted
  <2>1. queue' = queue
    BY <1>1 DEF outbox
  <2>2. CASE o = id
    <3>1. f.no = n /\ f.id = id /\ f.kind = s.kind /\ f.end = s.end
      BY DEF f
    <3>2. Scripted(id, f)
      BY <3>1, <1>2 DEF Scripted
    <3>3. Accepted(id) = sent[id] /\ Accepted(id)' = sent[id]
      BY <1>1, <1>2, <1>5 DEF Accepted
    <3> QED BY <2>1, <2>2, <3>1, <3>2, <3>3, <1>2, <1>3, <1>5 DEF Numbered
  <2>3. CASE o # id
    <3>1. (Waits(o)' <=> Waits(o)) /\ Accepted(o)' = Accepted(o)
      BY <2>3, <1>5 DEF Waits, Accepted
    <3> QED BY <2>1, <2>3, <3>1, <1>5 DEF Numbered
  <2> QED BY <2>2, <2>3
<1>7. Alone'
  <2>1. \A o \in Lanes \ {id} : Encoding(o)' <=> Encoding(o)
    BY <1>5 DEF Encoding
  <2>2. Encoding(id)' => s.kind \in BlockKinds
    BY <1>5 DEF Encoding
  <2>3. s.kind = "continuation" => Encoding(id)
    <3> SUFFICES ASSUME s.kind = "continuation" PROVE Encoding(id)
      OBVIOUS
    <3>1. n \in 1 .. Len(Script[id]) + 1 /\ n - 1 = sent[id]
      BY <1>2, ScriptTyped
    <3>2. Opens(Script[id], n - 1)
      BY <1>2, <3>1, WriterAssumption
    <3>3. Opens(Script[id], sent[id])
      BY <3>1, <3>2
    <3>4. sent[id] > 0
      BY <3>3, <1>2, ScriptTyped DEF Opens
    <3> QED BY <3>3, <3>4, <1>1 DEF Opens, Encoding
  <2>4. s.kind = "headers" \/ s.kind = "continuation" \/ ~Encoding(id)'
    BY <2>2 DEF BlockKinds
  <2> SUFFICES ASSUME NEW a \in Lanes, NEW b \in Lanes, Encoding(a)', Encoding(b)' PROVE a = b
    BY DEF Alone
  <2>5. CASE s.kind = "headers"
    BY <2>1, <2>5, <1>1
  <2>6. CASE s.kind = "continuation"
    BY <2>1, <2>3, <2>6 DEF Alone
  <2>7. CASE ~Encoding(id)'
    BY <2>1, <2>7 DEF Alone
  <2> QED BY <2>4, <2>5, <2>6, <2>7
<1>8. queue' = queue /\ mid' = mid /\ out' = out /\ Length' = Length /\ (Empty' <=> Empty)
      /\ stopped' = stopped
  BY <1>1 DEF outbox, Length, Empty, Ready, stopped, stops
<1>9. Refused' /\ Room' /\ QueueIsBounded'
  BY <1>5, <1>8 DEF Refused, Room, QueueIsBounded
<1>10. NobodySleepsThroughWork'
  BY <1>1, <1>5, <1>8 DEF NobodySleepsThroughWork, stops
<1>11. Pieces' /\ WireEndsWhole' /\ Drained'
  BY <1>1, <1>8 DEF Pieces, WireEndsWhole, Drained, stops
<1> QED BY <1>4, <1>6, <1>7, <1>9, <1>10, <1>11

\* Enqueue puts the frame at the end of its queue: what that adds to Length it had room for,
\* or it ends the one block for which there was room when it began.
LEMMA PutKeeps ==
    ASSUME IInv, NEW id \in Lanes, caller[id] = "running", ~stopped, admits(hand[id]),
           Put(hand[id]), Broadcast([caller EXCEPT ![id] = "idle"], writer),
           UNCHANGED <<cap, sent, hand, burst, wire, err, stops>>
    PROVE  IInv'
<1> USE DEF IInv
<1> DEFINE f == hand[id]
           q == queue[id]
           r == Append(q, f)
<1>1. /\ f \in Frames /\ f.id = id /\ f.no = sent[id] /\ Scripted(id, f) /\ sent[id] > 0
      /\ q \in Seq(Frames) /\ queue \in [Lanes -> Seq(Frames)]
      /\ sent[id] \in Nat /\ caller \in [Lanes -> Callers]
  BY DEF Typed, Numbered, Waits
<1>0. /\ cap' = cap /\ sent' = sent /\ hand' = hand /\ burst' = burst /\ wire' = wire
      /\ err' = err /\ stopGraceful' = stopGraceful /\ stopAbrupt' = stopAbrupt
      /\ gone' = gone /\ unannounced' = unannounced
  BY DEF stops
<1>2. /\ f.kind = "continuation" <=> OpenBlock(q)
      /\ queue' = [queue EXCEPT ![id] = r]
      /\ mid' = mid /\ out' = out
  BY <1>1 DEF Put
<1>3. Len(q) \in Nat /\ DOMAIN q = 1 .. Len(q)
  BY <1>1, LenProperties
<1>4. /\ r \in Seq(Frames) /\ Len(r) = Len(q) + 1 /\ DOMAIN r = 1 .. Len(q) + 1
      /\ r[Len(q) + 1] = f
      /\ \A i \in 1 .. Len(q) : r[i] = q[i]
      /\ r # <<>>
  BY <1>1, <1>3, AppendProperties, LenProperties
<1>5. Writable(r) = IF EndsItem(f) THEN Len(q) + 1 ELSE Writable(q)
  BY <1>1, WritableMore
<1>6. Writable(q) \in 0 .. Len(q) /\ (~OpenBlock(q) => Writable(q) = Len(q))
  BY <1>1, WritableIs, AllWritable
<1>7. OpenBlock(q) /\ EndsItem(f) => Len(q) + 1 - Writable(q) <= Cardinality(Blocks(id))
  BY <1>2, BlockFits DEF Waits
<1>8. queue' \in [Lanes -> Seq(Frames)] /\ queue'[id] = r
      /\ \A other \in Lanes \ {id} : queue'[other] = queue[other]
  <2> HIDE DEF r, q
  <2> QED BY <1>1, <1>2, <1>4
<1>9. ContinuesBlock(f) <=> OpenBlock(q)
  BY <1>1, <1>2 DEF ContinuesBlock
<1>10. OpenBlock(q) \/ Length < Depth
  BY <1>9 DEF admits
<1>11. OpenBlock(r) <=> ~EndsItem(f)
  BY <1>4 DEF OpenBlock
<1> HIDE DEF f, q, r
<1>12. /\ Length \in Nat
       /\ Length' = Length + (IF EndsItem(f) THEN Len(q) + 1 - Writable(q) ELSE 0)
  <2>1. Length = Weight(queue) /\ Length' = Weight(queue')
    BY DEF Length, Weight
  <2>2. Weight(queue') = Weight(queue) + Writable(queue'[id]) - Writable(queue[id])
    BY <1>1, <1>8, WeightChanges
  <2>3. Weight(queue) \in Nat
    BY <1>1, WeightIs
  <2> QED BY <2>1, <2>2, <2>3, <1>3, <1>5, <1>6, <1>8 DEF q
<1>13. /\ caller' \in [Lanes -> Callers] /\ caller'[id] = "idle"
       /\ \A other \in Lanes \ {id} : caller'[other] = Awake(caller[other])
       /\ writer' = IF writer = "parked" THEN "awaiting" ELSE writer
  <2>1. \A other \in Lanes : Awake(caller[other]) \in Callers
    BY <1>1 DEF Awake, Callers
  <2> QED BY <1>1, <2>1 DEF Broadcast, Awake, Callers
<1>14. \A other \in Lanes : caller'[other] # "parked"
  BY <1>13 DEF Awake
<1>15. Typed'
  <2>1. writer' \in Writers /\ (writer' = "gone" <=> writer = "gone")
    BY <1>13 DEF Typed, Writers
  <2>2. gone' = (writer' = "gone")
    BY <2>1, <1>0 DEF Typed
  <2> QED BY <2>1, <2>2, <1>0, <1>2, <1>8, <1>13 DEF Typed
<1>16. \A other \in Lanes \ {id} :
          /\ Waits(other)' <=> Waits(other)
          /\ Accepted(other)' = Accepted(other)
          /\ caller'[other] = "idle" <=> caller[other] = "idle"
          /\ caller'[other] = "refused" <=> caller[other] = "refused"
          /\ Encoding(other)' <=> Encoding(other)
  BY <1>13 DEF Awake, Waits, Accepted, Encoding
<1>17. Encoding(id)' => Encoding(id)
  BY <1>13 DEF Encoding
<1>18. Numbered'
  <2> SUFFICES ASSUME NEW o \in Lanes
               PROVE  /\ caller'[o] # "idle" => sent'[o] > 0
                      /\ Waits(o)' => /\ hand'[o] \in Frames /\ hand'[o].id = o
                                      /\ hand'[o].no = sent'[o] /\ Scripted(o, hand'[o])
                      /\ \A i \in DOMAIN queue'[o] :
                          /\ queue'[o][i].no = Accepted(o)' - Len(queue'[o]) + i
                          /\ Scripted(o, queue'[o][i])
    BY DEF Numbered, Scripted
  <2>1. CASE o # id
    BY <2>1, <1>8, <1>16 DEF Numbered
  <2>2. CASE o = id
    <3>1. Accepted(id) = sent[id] - 1 /\ Accepted(id)' = sent[id] /\ ~Waits(id)'
      BY <1>13 DEF Accepted, Waits
    <3>2. ASSUME NEW i \in DOMAIN r
          PROVE  r[i].no = sent[id] - Len(r) + i /\ Scripted(id, r[i])
      <4>1. CASE i = Len(q) + 1
        BY <4>1, <1>1, <1>3, <1>4
      <4>2. CASE i # Len(q) + 1
        <5>1. i \in DOMAIN q /\ r[i] = q[i]
          BY <4>2, <1>3, <1>4
        <5>2. q[i].no = sent[id] - 1 - Len(q) + i /\ Scripted(id, q[i])
          BY <5>1, <3>1 DEF Numbered, q
        <5>3. i \in Int /\ Len(r) = Len(q) + 1
          BY <1>3, <1>4, <5>1
        <5> DEFINE l == Len(q)
                   m == Len(r)
                   n == sent[id]
        <5>4. n - 1 - l + i = n - m + i
          <6>1. l \in Int /\ m = l + 1 /\ n \in Int
            BY <5>3, <1>1, <1>3
          <6> HIDE DEF l, m, n
          <6> QED BY <6>1, <5>3
        <5> QED BY <5>1, <5>2, <5>4
      <4> QED BY <4>1, <4>2
    <3> QED BY <2>2, <3>1, <3>2, <1>8, <1>13
  <2> QED BY <2>1, <2>2
<1>19. Alone'
  BY <1>16, <1>17 DEF Alone
<1>20. ~stopped'
  BY DEF stopped, stops
<1>21. Refused'
  BY <1>13, <1>16 DEF Refused
<1>22. Depth \in Nat
  BY WriterAssumption
<1>23. \A other \in Lanes : OpenBlock(queue[other]) => Encoding(other) /\ Length <= Depth
  <2>1. \A other \in Lanes : caller[other] # "refused"
    BY DEF Refused
  <2> QED BY <2>1, OpenHoldsEncoder DEF Room
<1>24. Room' /\ QueueIsBounded'
  <2>1. CASE ~EndsItem(f)
    <3>1. Length' <= Depth
      BY <1>10, <1>12, <1>22, <1>23, <2>1 DEF q
    <3> QED BY <3>1 DEF Room, QueueIsBounded
  <2>2. CASE EndsItem(f) /\ ~OpenBlock(q)
    <3>1. Length' <= Depth
      BY <1>3, <1>6, <1>10, <1>12, <1>22, <2>2
    <3> QED BY <3>1 DEF Room, QueueIsBounded
  <2>3. CASE EndsItem(f) /\ OpenBlock(q)
    <3>1. Length <= Depth /\ Encoding(id)
      BY <1>23, <2>3 DEF q
    <3>2. Cardinality(Blocks(id)) \in Nat
      BY BlocksFinite
    <3>3. Length' <= Depth + Cardinality(Blocks(id))
      BY <3>1, <3>2, <1>3, <1>6, <1>7, <1>12, <1>22, <2>3
    <3>4. \A o \in Lanes : ~OpenBlock(queue'[o])
      <4> SUFFICES ASSUME NEW o \in Lanes, OpenBlock(queue'[o]) PROVE FALSE
        OBVIOUS
      <4>1. o # id
        BY <1>8, <1>11, <2>3
      <4>2. OpenBlock(queue[o])
        BY <4>1, <1>8
      <4>3. Encoding(o)
        BY <4>2, <1>23
      <4> QED BY <3>1, <4>1, <4>3 DEF Alone
    <3> QED BY <3>3, <3>4 DEF Room, QueueIsBounded
  <2> QED BY <2>1, <2>2, <2>3
<1>25. NobodySleepsThroughWork'
  <2>1. writer' # "parked"
    BY <1>13
  <2> QED BY <2>1, <1>14 DEF NobodySleepsThroughWork
<1>26. Pieces'
  <2>1. mid' # NoStream => Whole(queue'[mid'])
    <3> SUFFICES ASSUME mid # NoStream PROVE Whole(queue'[mid])
      BY <1>2
    <3>1. Whole(queue[mid])
      BY DEF Pieces
    <3>2. CASE mid # id
      <4>1. mid \in Lanes
        BY DEF Typed
      <4> QED BY <3>1, <3>2, <4>1, <1>8
    <3>3. CASE mid = id
      <4>1. PICK i \in DOMAIN q : EndsItem(q[i])
        BY <3>1, <3>3 DEF Whole, q
      <4>2. i \in DOMAIN r /\ EndsItem(r[i])
        BY <4>1, <1>3, <1>4
      <4> QED BY <3>3, <4>2, <1>8 DEF Whole
    <3> QED BY <3>2, <3>3
  <2>2. /\ writer' \in {"awaiting", "parked"} => writer \in {"awaiting", "parked"}
        /\ writer' \in {"buffering", "taking", "flushing"} => writer' = writer
    BY <1>13
  <2> QED BY <2>1, <2>2, <1>0, <1>2 DEF Pieces
<1>27. WireEndsWhole'
  <2>1. wire' = wire /\ err' = err /\ (writer \in {"stopping", "gone"} => writer' = writer)
    BY <1>0, <1>13
  <2> QED BY <2>1 DEF WireEndsWhole
<1>28. Drained'
  <2>1. writer' \in {"stopping", "gone"} => writer = writer'
    BY <1>13
  <2> QED BY <2>1, <1>0 DEF Drained, stopped
<1> QED BY <1>15, <1>18, <1>19, <1>21, <1>24, <1>25, <1>26, <1>27, <1>28

LEMMA EnqueueIInv == ASSUME IInv, NEW id \in Lanes, Enqueue(id) PROVE IInv'
<1> USE DEF IInv
<1>1. /\ caller[id] = "running" /\ caller \in [Lanes -> Callers]
      /\ UNCHANGED <<cap, sent, hand, burst, wire, err, stops>>
  BY DEF Enqueue, Typed
<1>2. ASSUME NEW c \in {"refused", "parked"}, caller' = [caller EXCEPT ![id] = c],
             UNCHANGED <<outbox, writer>>
      PROVE  /\ Typed' /\ Numbered' /\ Alone' /\ Room' /\ QueueIsBounded'
             /\ Pieces' /\ WireEndsWhole' /\ Drained'
             /\ Length' = Length /\ stopped' = stopped /\ (Empty' <=> Empty)
             /\ caller'[id] = c /\ \A o \in Lanes \ {id} : caller'[o] = caller[o]
  <2>1. caller' \in [Lanes -> Callers] /\ caller'[id] = c
        /\ \A o \in Lanes \ {id} : caller'[o] = caller[o]
    BY <1>1, <1>2 DEF Callers
  <2>2. queue' = queue /\ mid' = mid /\ out' = out /\ Length' = Length /\ (Empty' <=> Empty)
        /\ stopped' = stopped
    BY <1>1, <1>2 DEF outbox, Length, Empty, Ready, stopped, stops
  <2>3. Typed'
    BY <1>1, <1>2, <2>1, <2>2 DEF Typed, stops
  <2>4. \A o \in Lanes : /\ Waits(o)' => Waits(o)
                         /\ Accepted(o)' = Accepted(o)
                         /\ caller'[o] # "idle" => caller[o] # "idle"
                         /\ Encoding(o)' => Encoding(o)
    BY <1>1, <2>1 DEF Waits, Accepted, Encoding
  <2>5. Numbered'
    <3> SUFFICES ASSUME NEW o \in Lanes
                 PROVE  /\ caller'[o] # "idle" => sent'[o] > 0
                        /\ Waits(o)' => /\ hand'[o] \in Frames /\ hand'[o].id = o
                                        /\ hand'[o].no = sent'[o] /\ Scripted(o, hand'[o])
                        /\ \A i \in DOMAIN queue'[o] :
                            /\ queue'[o][i].no = Accepted(o)' - Len(queue'[o]) + i
                            /\ Scripted(o, queue'[o][i])
      BY DEF Numbered, Scripted
    <3> QED BY <1>1, <2>2, <2>4 DEF Numbered
  <2>6. Alone'
    BY <2>4 DEF Alone
  <2>7. Room' /\ QueueIsBounded'
    BY <2>2 DEF Room, QueueIsBounded
  <2>8. Pieces' /\ WireEndsWhole' /\ Drained'
    BY <1>1, <1>2, <2>2 DEF Pieces, WireEndsWhole, Drained, stops
  <2> QED BY <2>1, <2>2, <2>3, <2>5, <2>6, <2>7, <2>8
<1>3. CASE stopped
  <2>1. caller' = [caller EXCEPT ![id] = "refused"] /\ UNCHANGED <<outbox, writer>>
    BY <1>3 DEF Enqueue
  <2>2. /\ Typed' /\ Numbered' /\ Alone' /\ Room' /\ QueueIsBounded'
        /\ Pieces' /\ WireEndsWhole' /\ Drained'
        /\ Length' = Length /\ stopped' = stopped /\ (Empty' <=> Empty)
        /\ caller'[id] = "refused" /\ \A o \in Lanes \ {id} : caller'[o] = caller[o]
    BY <2>1, <1>2
  <2>3. Refused'
    BY <1>3, <2>2 DEF Refused
  <2>4. NobodySleepsThroughWork'
    BY <1>1, <2>1, <2>2 DEF NobodySleepsThroughWork, stops
  <2> QED BY <2>2, <2>3, <2>4
<1>4. CASE ~stopped /\ admits(hand[id])
  <2>1. Put(hand[id]) /\ Broadcast([caller EXCEPT ![id] = "idle"], writer)
    BY <1>4 DEF Enqueue
  <2> QED BY <1>1, <1>4, <2>1, PutKeeps
<1>5. CASE ~stopped /\ ~admits(hand[id])
  <2>1. caller' = [caller EXCEPT ![id] = "parked"] /\ UNCHANGED <<outbox, writer>>
    BY <1>5 DEF Enqueue
  <2>2. /\ Typed' /\ Numbered' /\ Alone' /\ Room' /\ QueueIsBounded'
        /\ Pieces' /\ WireEndsWhole' /\ Drained'
        /\ Length' = Length /\ stopped' = stopped /\ (Empty' <=> Empty)
        /\ caller'[id] = "parked" /\ \A o \in Lanes \ {id} : caller'[o] = caller[o]
    BY <2>1, <1>2
  <2>3. Refused'
    BY <2>2 DEF Refused
  <2>4. Length \in Nat /\ Depth \in Nat \ {0} /\ Length >= Depth
    BY <1>5, NothingWritable, WriterAssumption DEF admits
  <2>5. writer \notin {"parked", "gone"}
    <3>1. writer # "gone"
      BY <1>5 DEF stopped, Typed
    <3>2. writer = "parked" => Empty /\ mid = NoStream
      BY DEF NobodySleepsThroughWork, Pieces
    <3>3. writer = "parked" => Length = 0
      BY <3>2, NothingWritable
    <3> QED BY <3>1, <3>3, <2>4
  <2>6. ~stopGraceful' /\ ~stopAbrupt'
    BY <1>1, <1>5 DEF stopped, stops
  <2>7. NobodySleepsThroughWork'
    BY <1>1, <2>1, <2>2, <2>4, <2>5, <2>6 DEF NobodySleepsThroughWork
  <2> QED BY <2>2, <2>3, <2>7
<1> QED BY <1>3, <1>4, <1>5

-----------------------------------------------------------------------------
\* The writer takes a frame into its hands and wakes whoever waits for room.
LEMMA PopIInv ==
    ASSUME IInv, writer \in {"awaiting", "taking"}, Pop("buffering"),
           UNCHANGED <<cap, sent, hand, burst, wire, err, stops>>
    PROVE  IInv'
<1> USE DEF IInv
<1>1. PICK id \in Lanes : Get(id) /\ Broadcast(caller, "buffering")
  BY DEF Pop
<1>2. /\ Steady /\ \A o \in Lanes : caller'[o] # "parked"
      /\ writer' = "buffering"
  BY <1>1, BroadcastIsSteady
<1>3. stopped' = stopped /\ gone' = gone
  BY DEF stopped, stops
<1>4. /\ queue' \in [Lanes -> Seq(Frames)] /\ mid' \in Lanes \cup {NoStream}
      /\ out' \in Frames
      /\ Numbered' /\ Room' /\ QueueIsBounded'
      /\ mid' = NoStream <=> EndsItem(out')
      /\ mid' # NoStream => Whole(queue'[mid'])
  BY <1>1, <1>2, <1>3, GetKeeps
<1>5. Typed'
  BY <1>2, <1>3, <1>4 DEF Typed, Steady, Writers, stops
<1>6. Alone' /\ Refused'
  BY <1>2, <1>3, SteadyKeeps
<1>7. NobodySleepsThroughWork'
  BY <1>2 DEF NobodySleepsThroughWork
<1>8. Pieces' /\ WireEndsWhole' /\ Drained'
  BY <1>2, <1>4 DEF Pieces, WireEndsWhole, Drained
<1> QED BY <1>4, <1>5, <1>6, <1>7, <1>8

\* The writer moves on without touching the queue or anyone who waits at it.
LEMMA MovesIInv ==
    ASSUME IInv, UNCHANGED <<outbox, cap, callers, stops>>,
           writer # "gone", writer' \in Writers \ {"gone"},
           burst' \in Seq(Frames), wire' \in Seq(Frames), err' \in {NoErr, "oversize", "write"},
           writer' = "parked" => Empty /\ mid = NoStream /\ ~stopGraceful /\ ~stopAbrupt,
           Pieces', WireEndsWhole', Drained'
    PROVE  IInv'
<1> USE DEF IInv
<1>1. /\ queue' = queue /\ mid' = mid /\ out' = out /\ cap' = cap /\ sent' = sent /\ hand' = hand
      /\ caller' = caller /\ stopGraceful' = stopGraceful /\ stopAbrupt' = stopAbrupt
      /\ gone' = gone /\ unannounced' = unannounced
  BY DEF outbox, callers, stops
<1>2. Typed'
  BY <1>1 DEF Typed
<1>3. Steady /\ (stopped => stopped')
  BY <1>1 DEF Steady, Typed, stopped
<1>4. Numbered' /\ Alone' /\ Refused' /\ Room' /\ QueueIsBounded' /\ Length' = Length
      /\ (Empty' <=> Empty)
  BY <1>3, QuietKeeps
<1>5. writer' = "parked" => \A id \in Lanes : caller[id] # "parked"
  <2>1. Length \in Nat /\ (Empty /\ mid = NoStream => Length = 0) /\ Depth \in Nat \ {0}
    BY NothingWritable, WriterAssumption
  <2> QED BY <2>1 DEF NobodySleepsThroughWork
<1>6. NobodySleepsThroughWork'
  BY <1>1, <1>4, <1>5 DEF NobodySleepsThroughWork
<1> QED BY <1>2, <1>4, <1>6

LEMMA awaitIInv == ASSUME IInv, await PROVE IInv'
<1> USE DEF IInv
<1>1. /\ writer = "awaiting"
      /\ UNCHANGED <<cap, sent, hand, burst, wire, err, stops>>
  BY DEF await
<1>2. CASE ~stopAbrupt /\ ~Empty
  <2>1. Pop("buffering")
    BY <1>2 DEF await
  <2> QED BY <1>1, <2>1, PopIInv
<1>3. CASE stopAbrupt \/ Empty
  <2>1. /\ UNCHANGED <<outbox, caller>>
        /\ writer' = IF stopAbrupt \/ stopGraceful THEN "stopping" ELSE "parked"
    BY <1>3 DEF await
  <2>2. UNCHANGED <<outbox, cap, callers, stops>>
    BY <1>1, <2>1 DEF callers
  <2>3. mid = NoStream /\ burst = <<>>
    BY <1>1 DEF Pieces
  <2>4. /\ writer # "gone" /\ writer' \in Writers \ {"gone"}
        /\ burst' \in Seq(Frames) /\ wire' \in Seq(Frames)
        /\ err' \in {NoErr, "oversize", "write"}
    BY <1>1, <2>1 DEF Typed, Writers
  <2>5. writer' = "parked" => Empty /\ mid = NoStream /\ ~stopGraceful /\ ~stopAbrupt
    BY <1>3, <2>1, <2>3
  <2>6. Empty' <=> Empty
    BY <2>1 DEF Empty, Ready, outbox
  <2>7. Pieces' /\ WireEndsWhole' /\ Drained'
    BY <1>1, <1>3, <2>1, <2>3, <2>6 DEF Pieces, WireEndsWhole, Drained, outbox, stops
  <2> QED BY <2>2, <2>4, <2>5, <2>7, MovesIInv
<1> QED BY <1>2, <1>3

LEMMA takeIfIInv == ASSUME IInv, takeIf PROVE IInv'
<1> USE DEF IInv
<1>1. /\ writer = "taking"
      /\ UNCHANGED <<cap, sent, hand, burst, wire, err, stops>>
  BY DEF takeIf
<1>2. CASE mayTake /\ ~Empty
  <2>1. Pop("buffering")
    BY <1>2 DEF takeIf
  <2> QED BY <1>1, <2>1, PopIInv
<1>3. CASE ~(mayTake /\ ~Empty)
  <2>1. UNCHANGED <<outbox, caller>> /\ writer' = "flushing"
    BY <1>3 DEF takeIf
  <2>2. UNCHANGED <<outbox, cap, callers, stops>>
    BY <1>1, <2>1 DEF callers
  <2>3. mid = NoStream
    <3> SUFFICES ASSUME mid # NoStream PROVE FALSE
      OBVIOUS
    <3>1. mid \in Lanes /\ Ready(mid)
      BY DEF Typed, Pieces, Ready
    <3> QED BY <3>1, <1>3 DEF mayTake, Empty
  <2>4. /\ writer # "gone" /\ writer' \in Writers \ {"gone"} /\ writer' # "parked"
        /\ burst' \in Seq(Frames) /\ wire' \in Seq(Frames)
        /\ err' \in {NoErr, "oversize", "write"}
    BY <1>1, <2>1 DEF Typed, Writers
  <2>5. Pieces' /\ WireEndsWhole' /\ Drained'
    BY <1>1, <2>1, <2>3 DEF Pieces, WireEndsWhole, Drained, outbox
  <2> QED BY <2>2, <2>4, <2>5, MovesIInv
<1> QED BY <1>2, <1>3

LEMMA QueueIInv == ASSUME IInv, Queue PROVE IInv'
<1> USE DEF IInv
<1>1. /\ writer = "buffering"
      /\ UNCHANGED <<outbox, cap, callers, wire, stops>>
      /\ out \in Frames /\ burst \in Seq(Frames) /\ wire \in Seq(Frames)
  BY DEF Queue, Typed, Pieces
<1>2. CASE out.size > cap
  <2>1. err' = "oversize" /\ writer' = "stopping" /\ burst' = burst
    BY <1>2 DEF Queue
  <2>2. Pieces' /\ WireEndsWhole' /\ Drained'
    BY <1>1, <2>1 DEF Pieces, WireEndsWhole, Drained, outbox, NoErr
  <2>3. writer # "gone" /\ writer' \in Writers \ {"gone"} /\ writer' # "parked"
    BY <1>1, <2>1 DEF Writers
  <2> QED BY <1>1, <2>1, <2>2, <2>3, MovesIInv
<1>3. CASE ~(out.size > cap)
  <2>1. burst' = Append(burst, out) /\ writer' = "taking" /\ err' = err
    BY <1>3 DEF Queue
  <2>2. /\ burst' \in Seq(Frames) /\ burst' # <<>> /\ burst'[Len(burst')] = out
    BY <1>1, <2>1, AppendProperties, LenProperties
  <2>3. Pieces' /\ WireEndsWhole' /\ Drained'
    BY <1>1, <2>1, <2>2 DEF Pieces, WireEndsWhole, Drained, outbox
  <2>4. writer # "gone" /\ writer' \in Writers \ {"gone"} /\ writer' # "parked"
        /\ err' \in {NoErr, "oversize", "write"}
    BY <1>1, <2>1 DEF Writers, Typed
  <2> QED BY <1>1, <2>2, <2>3, <2>4, MovesIInv
<1> QED BY <1>2, <1>3

\* A burst ends where a frame that ends an item does, and so the wire does when it is written
\* whole; when it is not, the writer stops.
LEMMA FlushIInv == ASSUME IInv, Flush \/ FlushFails PROVE IInv'
<1> USE DEF IInv
<1>1. /\ writer = "flushing" /\ burst' = <<>>
      /\ UNCHANGED <<outbox, cap, callers, stops>>
      /\ burst \in Seq(Frames) /\ wire \in Seq(Frames)
      /\ err \in {NoErr, "oversize", "write"}
  BY DEF Flush, FlushFails, Typed
<1>2. mid = NoStream /\ burst # <<>> /\ EndsItem(burst[Len(burst)])
  BY <1>1 DEF Pieces
<1>3. burst' \in Seq(Frames)
  BY <1>1
<1>4. CASE Flush
  <2>1. wire' = wire \o burst /\ writer' = "awaiting" /\ err' = err
    BY <1>4 DEF Flush
  <2>2. /\ wire' \in Seq(Frames) /\ EndsItem(wire'[Len(wire')])
    <3>1. Len(burst) \in Nat /\ Len(burst) > 0 /\ Len(wire) \in Nat
      BY <1>1, <1>2, LenProperties, EmptySeq
    <3>2. /\ wire' \in Seq(Frames) /\ Len(wire') = Len(wire) + Len(burst)
          /\ \A i \in 1 .. Len(wire) + Len(burst) :
                wire'[i] = IF i <= Len(wire) THEN wire[i] ELSE burst[i - Len(wire)]
      BY <2>1, <1>1, ConcatProperties
    <3>3. wire'[Len(wire')] = burst[Len(burst)]
      <4> DEFINE l == Len(wire)
                 m == Len(burst)
      <4>1. /\ l \in Nat /\ m \in Nat /\ m > 0
            /\ \A i \in 1 .. l + m : wire'[i] = IF i <= l THEN wire[i] ELSE burst[i - l]
        BY <3>1, <3>2
      <4> HIDE DEF l, m
      <4>2. wire'[l + m] = burst[m]
        <5>1. l + m \in 1 .. l + m /\ ~(l + m <= l) /\ l + m - l = m
          BY <4>1
        <5> QED BY <5>1, <4>1
      <4> QED BY <4>2, <3>2 DEF l, m
    <3> QED BY <3>2, <3>3, <1>2
  <2>3. Pieces' /\ WireEndsWhole' /\ Drained'
    BY <1>1, <1>2, <2>1, <2>2 DEF Pieces, WireEndsWhole, Drained, outbox
  <2>4. writer # "gone" /\ writer' \in Writers \ {"gone"} /\ writer' # "parked"
        /\ err' \in {NoErr, "oversize", "write"}
    BY <1>1, <2>1 DEF Writers
  <2> QED BY <1>1, <1>3, <2>2, <2>3, <2>4, MovesIInv
<1>5. CASE FlushFails
  <2>1. writer' = "stopping" /\ err' = "write"
    BY <1>5 DEF FlushFails
  <2>2. wire' \in Seq(Frames)
    <3>1. PICK n \in 0 .. Len(burst) : wire' = wire \o SubSeq(burst, 1, n)
      BY <1>5 DEF FlushFails
    <3>2. SubSeq(burst, 1, n) \in Seq(Frames)
      BY <1>1, LenProperties, SubSeqProperties
    <3> QED BY <1>1, <3>1, <3>2, ConcatProperties
  <2>3. Pieces' /\ WireEndsWhole' /\ Drained'
    BY <1>1, <1>2, <2>1 DEF Pieces, WireEndsWhole, Drained, outbox, NoErr
  <2>4. writer # "gone" /\ writer' \in Writers \ {"gone"} /\ writer' # "parked"
        /\ err' \in {NoErr, "oversize", "write"}
    BY <1>1, <2>1 DEF Writers
  <2> QED BY <1>1, <1>3, <2>2, <2>3, <2>4, MovesIInv
<1> QED BY <1>4, <1>5

LEMMA stopIInv == ASSUME IInv, stop PROVE IInv'
<1> USE DEF IInv
<1>1. /\ writer = "stopping" /\ gone' = TRUE /\ Broadcast(caller, "gone")
      /\ UNCHANGED <<outbox, cap, sent, hand, burst, wire, err, stopGraceful, stopAbrupt, unannounced>>
  BY DEF stop
<1>2. /\ Steady /\ \A id \in Lanes : caller'[id] # "parked"
      /\ writer' = "gone"
  BY <1>1, BroadcastIsSteady
<1>3. Typed'
  BY <1>1, <1>2 DEF Typed, outbox, Steady, Writers
<1>4. Numbered' /\ Alone' /\ Refused' /\ Room' /\ QueueIsBounded' /\ Length' = Length
      /\ (Empty' <=> Empty)
  BY <1>1, <1>2, QuietKeeps DEF stopped
<1>5. NobodySleepsThroughWork'
  BY <1>2 DEF NobodySleepsThroughWork
<1>6. Pieces' /\ WireEndsWhole'
  BY <1>1, <1>2 DEF Pieces, WireEndsWhole, outbox
<1>7. Drained'
  BY <1>1, <1>2, <1>4 DEF Drained
<1> QED BY <1>3, <1>4, <1>5, <1>6, <1>7

-----------------------------------------------------------------------------
LEMMA InitIInv == Init => IInv
<1> SUFFICES ASSUME Init PROVE IInv
  OBVIOUS
<1>1. /\ queue = [id \in Lanes |-> <<>>] /\ mid = NoStream /\ out = NoFrame
      /\ sent = [id \in Lanes |-> 0] /\ caller = [id \in Lanes |-> "idle"]
  BY DEF Init, OutboxInit
<1>2. Typed
  <2>1. \A id \in Lanes : Len(Script[id]) \in Nat
    BY ScriptTyped
  <2>2. /\ queue \in [Lanes -> Seq(Frames)] /\ burst \in Seq(Frames) /\ wire \in Seq(Frames)
        /\ sent \in [Lanes -> Nat] /\ hand \in [Lanes -> Frames \cup {NoFrame}]
        /\ caller \in [Lanes -> Callers]
    BY <1>1 DEF Init, Callers
  <2>3. writer \in Writers /\ gone = FALSE /\ writer # "gone"
    BY DEF Init, Writers
  <2>4. gone = (writer = "gone")
    BY <2>3
  <2>5. \A id \in Lanes : sent[id] <= Len(Script[id])
    BY <1>1, <2>1
  <2>6. stopGraceful \in BOOLEAN /\ stopAbrupt \in BOOLEAN /\ unannounced \in BOOLEAN
    BY DEF Init
  <2> QED BY <1>1, <2>2, <2>3, <2>4, <2>5, <2>6 DEF Init, Typed
<1>3. Numbered
  BY <1>1 DEF Numbered, Waits
<1>4. Alone /\ Refused
  BY <1>1 DEF Alone, Encoding, Refused
<1>5. \A id \in Lanes : ~Whole(queue[id]) /\ ~OpenBlock(queue[id])
  BY <1>1 DEF Whole, OpenBlock
<1>6. Length = 0
  BY <1>2, <1>5, NothingWritable, <1>1 DEF Empty, Ready
<1>7. Room /\ QueueIsBounded
  <2>1. Depth \in Nat
    BY WriterAssumption
  <2> QED BY <1>5, <1>6, <2>1 DEF Room, QueueIsBounded
<1>8. NobodySleepsThroughWork /\ Pieces /\ WireEndsWhole /\ Drained
  BY <1>1 DEF Init, NobodySleepsThroughWork, Pieces, WireEndsWhole, Drained, NoErr
<1> QED BY <1>2, <1>3, <1>4, <1>7, <1>8 DEF IInv

LEMMA StepIInv == IInv /\ [Next]_vars => IInv'
<1> SUFFICES ASSUME IInv, [Next]_vars PROVE IInv'
  OBVIOUS
<1>1. ASSUME NEW id \in Lanes, Build(id) \/ Enqueue(id) PROVE IInv'
  BY <1>1, BuildIInv, EnqueueIInv
<1>2. ASSUME NEW size \in Caps, SetMaxFrameSize(size) PROVE IInv'
  BY <1>2, SetMaxFrameSizeIInv
<1>3. CASE Shutdown \/ Close \/ Announce
  BY <1>3, ShutdownIInv, AnnounceIInv
<1>4. CASE run
  BY <1>4, awaitIInv, QueueIInv, takeIfIInv, FlushIInv, stopIInv DEF run
<1>5. CASE UNCHANGED vars
  <2> USE DEF IInv
  <2>1. /\ UNCHANGED outbox /\ cap' = cap /\ sent' = sent /\ hand' = hand /\ caller' = caller
        /\ writer' = writer /\ burst' = burst /\ wire' = wire /\ err' = err
        /\ stopGraceful' = stopGraceful /\ stopAbrupt' = stopAbrupt
        /\ gone' = gone /\ unannounced' = unannounced
    BY <1>5 DEF vars, callers, stops
  <2>2. Typed'
    BY <2>1 DEF Typed, outbox
  <2>3. Steady /\ (stopped => stopped')
    BY <2>1 DEF Typed, Steady, stopped
  <2>4. Numbered' /\ Alone' /\ Refused' /\ Room' /\ QueueIsBounded' /\ Length' = Length
        /\ (Empty' <=> Empty)
    BY <2>1, <2>3, QuietKeeps
  <2>5. NobodySleepsThroughWork' /\ Drained'
    BY <2>1, <2>4 DEF NobodySleepsThroughWork, Drained
  <2>6. Pieces' /\ WireEndsWhole'
    BY <2>1 DEF Pieces, WireEndsWhole, outbox
  <2> QED BY <2>2, <2>4, <2>5, <2>6
<1> QED BY <1>1, <1>2, <1>3, <1>4, <1>5 DEF Next

\* The inductive invariant holds at every step of the writer and its callers.
THEOREM Inductive == Spec => []IInv
  BY InitIInv, StepIInv, PTL DEF Spec

\* However the writer stops, the wire ends with a whole item unless a write has failed, after
\* which nothing follows; and after a graceful stop that met no error nothing that was
\* accepted is left (writer.go:289, writer.go:400, frame/writer.go:177).
THEOREM StopsEndWholeCorrect == Spec => []StopsEndWhole
<1>1. IInv => StopsEndWhole
  BY DEF IInv, StopsEndWhole, GracefulStopDrains, Drained, Typed
<1> QED BY <1>1, Inductive, PTL

\* The queue holds no more than its depth and one field block, nobody waits at the condition
\* variable without somebody to wake it, and the types hold (writer.go:34, writer.go:107).
THEOREM WaitsAreRightCorrect == Spec => []WaitsAreRight
<1>1. IInv => WaitsAreRight
  <2> SUFFICES ASSUME IInv PROVE TypeOK
    BY DEF IInv, WaitsAreRight
  <2>1. \A id \in Lanes : sent[id] \in 0 .. Len(Script[id])
    BY ScriptTyped DEF IInv, Typed
  <2> QED BY <2>1 DEF IInv, Typed, TypeOK, Callers, Writers
<1> QED BY <1>1, Inductive, PTL

-----------------------------------------------------------------------------
(***************************************************************************)
(* Receive-side flow control: the proofs about RecvFlow.                   *)
(***************************************************************************)
\* The weights of a set's elements may be added in any order.
AddsAny(h, g, S) == \A T \in SUBSET S : h[T] \in Nat /\ \A x \in T : h[T] = g[x] + h[T \ {x}]

\* A sum over a finite set is a natural number, and any element may be taken out of it.
LEMMA AddAny ==
    ASSUME NEW S, IsFiniteSet(S), NEW g \in [S -> Nat], NEW h, Adds(h, g, SUBSET S)
    PROVE  AddsAny(h, g, S)
<1> DEFINE Right(T) == h[T] \in Nat /\ \A x \in T : h[T] = g[x] + h[T \ {x}]
           Wrong == {T \in SUBSET S : ~Right(T)}
<1>1. ASSUME Wrong # {} PROVE FALSE
  <2>1. PICK T \in Wrong : \A U \in Wrong : Cardinality(T) <= Cardinality(U)
    <3>1. Wrong \subseteq SUBSET S
      OBVIOUS
    <3> HIDE DEF Wrong
    <3> QED BY <3>1, <1>1, Smallest
  <2>2. T \in SUBSET S
    OBVIOUS
  <2>3. h[T] = IF T = {} THEN 0 ELSE LET x == CHOOSE x \in T : TRUE IN g[x] + h[T \ {x}]
    BY <2>2 DEF Adds
  <2>4. T # {}
    BY <2>1, <2>3
  <2> DEFINE c == CHOOSE x \in T : TRUE
  <2>5. c \in T
    BY <2>4
  <2>6. h[T] = g[c] + h[T \ {c}]
    BY <2>3, <2>4
  <2>7. ASSUME NEW x \in T PROVE Right(T \ {x})
    <3>1. T \ {x} \in SUBSET S /\ ~(Cardinality(T) <= Cardinality(T \ {x}))
      BY <2>2, SmallerSet
    <3> QED BY <2>1, <3>1
  <2> HIDE DEF c, Wrong
  <2>8. ASSUME NEW x \in T PROVE h[T] = g[x] + h[T \ {x}]
    <3>1. CASE x = c
      BY <3>1, <2>6
    <3>2. CASE x # c
      <4>1. h[T \ {c}] = g[x] + h[(T \ {c}) \ {x}]
        BY <3>2, <2>5, <2>7
      <4>2. h[T \ {x}] = g[c] + h[(T \ {x}) \ {c}] /\ h[T \ {x}] \in Nat
        BY <3>2, <2>5, <2>7
      <4>3. (T \ {c}) \ {x} = (T \ {x}) \ {c}
        OBVIOUS
      <4>4. x \in S /\ c \in S /\ x \in T \ {c}
        BY <2>2, <2>5, <3>2
      <4>5. h[(T \ {c}) \ {x}] \in Nat
        <5>1. Right(T \ {c})
          BY <2>5, <2>7
        <5>2. (T \ {c}) \ {x} \in SUBSET S /\ ~(Cardinality(T) <= Cardinality((T \ {c}) \ {x}))
          <6>1. T \ {c} \in SUBSET S /\ ~(Cardinality(T) <= Cardinality(T \ {c}))
            BY <2>2, <2>5, SmallerSet
          <6>2. (T \ {c}) \ {x} \in SUBSET S
                /\ ~(Cardinality(T \ {c}) <= Cardinality((T \ {c}) \ {x}))
            BY <6>1, <4>4, SmallerSet
          <6>3. Cardinality(T) \in Nat /\ Cardinality(T \ {c}) \in Nat
                /\ Cardinality((T \ {c}) \ {x}) \in Nat
            BY <2>2, <6>1, <6>2, FS_Subset, FS_CardinalityType
          <6> QED BY <6>1, <6>2, <6>3
        <5> QED BY <2>1, <5>2 DEF Wrong
      <4>6. g[x] \in Nat /\ g[c] \in Nat
        BY <4>4
      <4> DEFINE rest == h[(T \ {c}) \ {x}]
      <4>7. rest \in Nat /\ h[T] = g[c] + (g[x] + rest) /\ h[T \ {x}] = g[c] + rest
        BY <2>6, <4>1, <4>2, <4>3, <4>5
      <4> HIDE DEF rest
      <4> QED BY <4>6, <4>7
    <3> QED BY <3>1, <3>2
  <2>9. h[T] \in Nat
    <3>1. c \in S /\ h[T \ {c}] \in Nat
      BY <2>2, <2>5, <2>7
    <3> QED BY <2>6, <3>1
  <2> QED BY <2>1, <2>8, <2>9 DEF Wrong
<1> QED BY <1>1 DEF AddsAny

\* The sum of a sequence, added up from its beginning.
LEMMA SumOfSequence ==
    ASSUME NEW n \in Nat, NEW w \in [1 .. n -> Nat]
    PROVE  \E h : /\ h[0] = 0 /\ \A i \in 0 .. n : h[i] \in Nat
                  /\ \A i \in 1 .. n : h[i] = h[i - 1] + w[i]
                  /\ SumFunction(w) = h[n]
<1>1. IsFiniteSet(1 .. n) /\ DOMAIN w = 1 .. n
  BY FS_Interval
<1>2. PICK a : Adds(a, w, SUBSET (1 .. n)) /\ SumFunction(w) = a[1 .. n]
  BY <1>1, SumIs
<1>3. \A T \in SUBSET (1 .. n) : a[T] \in Nat /\ \A x \in T : a[T] = w[x] + a[T \ {x}]
  <2> DEFINE S == 1 .. n
  <2>1. Adds(a, w, SUBSET S) /\ IsFiniteSet(S) /\ w \in [S -> Nat]
    BY <1>1, <1>2
  <2> HIDE DEF S
  <2>2. AddsAny(a, w, S)
    BY <2>1, AddAny
  <2> QED BY <2>2 DEF S, AddsAny
<1> DEFINE h == [i \in 0 .. n |-> a[1 .. i]]
<1>4. \A i \in 0 .. n : h[i] = a[1 .. i] /\ (1 .. i) \in SUBSET (1 .. n)
  OBVIOUS
<1>5. h[0] = 0
  <2>1. (1 .. 0) = {} /\ {} \in SUBSET (1 .. n)
    OBVIOUS
  <2>2. a[{}] = 0
    BY <1>2, <2>1 DEF Adds
  <2> QED BY <1>4, <2>1, <2>2
<1>6. \A i \in 0 .. n : h[i] \in Nat
  BY <1>3, <1>4
<1>7. ASSUME NEW i \in 1 .. n PROVE h[i] = h[i - 1] + w[i]
  <2>1. i \in 0 .. n /\ i - 1 \in 0 .. n /\ i \in 1 .. i /\ (1 .. i) \ {i} = 1 .. (i - 1)
    OBVIOUS
  <2>2. a[1 .. i] = w[i] + a[1 .. (i - 1)]
    BY <1>3, <1>4, <2>1
  <2>3. h[i] = a[1 .. i] /\ h[i - 1] = a[1 .. (i - 1)] /\ h[i - 1] \in Nat /\ w[i] \in Nat
    BY <1>4, <1>6, <2>1
  <2> HIDE DEF h
  <2> QED BY <2>2, <2>3
<1>8. SumFunction(w) = h[n]
  BY <1>2, <1>4
<1> HIDE DEF h
<1> QED BY <1>5, <1>6, <1>7, <1>8

\* A sequence with one more weight at its end.
LEMMA SumOfLonger ==
    ASSUME NEW n \in Nat, NEW v \in [1 .. n -> Nat], NEW w \in [1 .. n + 1 -> Nat],
           \A i \in 1 .. n : w[i] = v[i]
    PROVE  SumFunction(w) = SumFunction(v) + w[n + 1]
<1>1. PICK h : /\ h[0] = 0 /\ \A i \in 0 .. n : h[i] \in Nat
               /\ \A i \in 1 .. n : h[i] = h[i - 1] + v[i]
               /\ SumFunction(v) = h[n]
  BY SumOfSequence
<1>2. PICK k : /\ k[0] = 0 /\ \A i \in 0 .. n + 1 : k[i] \in Nat
               /\ \A i \in 1 .. n + 1 : k[i] = k[i - 1] + w[i]
               /\ SumFunction(w) = k[n + 1]
  <2>1. n + 1 \in Nat
    OBVIOUS
  <2> QED BY <2>1, SumOfSequence
<1> DEFINE Wrong == {i \in Nat : i <= n /\ k[i] # h[i]}
<1>3. ASSUME Wrong # {} PROVE FALSE
  <2>1. PICK i \in Wrong : \A j \in Wrong : i <= j
    <3>1. Wrong \subseteq Nat
      OBVIOUS
    <3> HIDE DEF Wrong
    <3> QED BY <3>1, <1>3, Least
  <2>2. i # 0 /\ i \in Nat /\ i <= n
    BY <1>1, <1>2
  <2>3. k[i - 1] = h[i - 1]
    BY <2>1, <2>2
  <2>4. k[i] = k[i - 1] + w[i] /\ h[i] = h[i - 1] + v[i] /\ w[i] = v[i]
    BY <1>1, <1>2, <2>2
  <2> QED BY <2>1, <2>3, <2>4
<1>4. k[n] = h[n]
  BY <1>3
<1>5. k[n + 1] = k[n] + w[n + 1]
  BY <1>2
<1> QED BY <1>1, <1>2, <1>4, <1>5

\* A sequence with one more weight at its beginning.
LEMMA SumOfShifted ==
    ASSUME NEW n \in Nat, NEW v \in [1 .. n -> Nat], NEW w \in [1 .. n + 1 -> Nat],
           \A i \in 1 .. n : w[i + 1] = v[i]
    PROVE  SumFunction(w) = w[1] + SumFunction(v)
<1>1. PICK h : /\ h[0] = 0 /\ \A i \in 0 .. n : h[i] \in Nat
               /\ \A i \in 1 .. n : h[i] = h[i - 1] + v[i]
               /\ SumFunction(v) = h[n]
  BY SumOfSequence
<1>2. PICK k : /\ k[0] = 0 /\ \A i \in 0 .. n + 1 : k[i] \in Nat
               /\ \A i \in 1 .. n + 1 : k[i] = k[i - 1] + w[i]
               /\ SumFunction(w) = k[n + 1]
  <2>1. n + 1 \in Nat
    OBVIOUS
  <2> QED BY <2>1, SumOfSequence
<1>3. w[1] \in Nat
  OBVIOUS
<1> DEFINE Wrong == {i \in Nat : i <= n /\ k[i + 1] # w[1] + h[i]}
<1>4. ASSUME Wrong # {} PROVE FALSE
  <2>1. PICK i \in Wrong : \A j \in Wrong : i <= j
    <3>1. Wrong \subseteq Nat
      OBVIOUS
    <3> HIDE DEF Wrong
    <3> QED BY <3>1, <1>4, Least
  <2>2. k[0 + 1] = k[0] + w[1]
    BY <1>2
  <2>3. i # 0 /\ i \in Nat /\ i <= n
    BY <1>1, <1>2, <1>3, <2>2
  <2>4. k[i] = w[1] + h[i - 1]
    BY <2>1, <2>3
  <2>5. k[i + 1] = k[i] + w[i + 1] /\ h[i] = h[i - 1] + v[i] /\ w[i + 1] = v[i]
    <3>1. i \in 1 .. n /\ i + 1 \in 1 .. n + 1 /\ (i + 1) - 1 = i
      BY <2>3
    <3> QED BY <1>1, <1>2, <3>1
  <2>6. v[i] \in Nat /\ h[i - 1] \in Nat
    BY <1>1, <2>3
  <2> QED BY <1>3, <2>1, <2>4, <2>5, <2>6
<1>5. k[n + 1] = w[1] + h[n]
  <2>1. n \notin Wrong
    BY <1>4
  <2> QED BY <2>1
<1> QED BY <1>1, <1>2, <1>5

\* A frame of the peer, and what it is the last of.
UpFrame == {f \in [kind : {"data", "rst"}, id : Streams, octets : Nat, pad : Nat, end : BOOLEAN] :
               f.kind = "rst" => Octets(f) = 0}
Final(f) == f.kind = "rst" \/ f.end
Credit == [pending : Nat, granted : Nat]
\* A WINDOW_UPDATE for the connection or for a stream.
DownFrame == [id : Streams \cup {0}, inc : Nat]
Bodies == [Streams -> [chunks : Seq(Nat), ended : BOOLEAN, failed : BOOLEAN]]
Accounts == [Streams -> [n : Nat, more : BOOLEAN, conn : Nat, stream : Nat]]

\* The type of every variable the windows are about.
RecvTypes ==
    /\ up \in Seq(UpFrame) /\ down \in Seq(DownFrame)
    /\ peerConn \in Nat /\ peerStream \in [Streams -> Nat] /\ peerDone \subseteq Streams
    /\ connRecv \in Nat /\ recv \in [Streams -> Nat]
    /\ live \subseteq Streams /\ credited \subseteq Streams
    /\ connCredit \in Credit /\ streamCredit \in [Streams -> Credit]
    /\ reader \in {"idle", "drained", "current"}
    /\ frame \in UpFrame \cup {NoDataFrame}
    /\ body \in Bodies
    /\ handler \in [Streams -> {"running", "parked", "reporting", "enqueueing", "returned"}]
    /\ report \in Accounts
    /\ lost \in Nat

\* The octets in flight on one stream, and all the credit a stream has.
CarriedOf(q, id) == SumFunction([i \in DOMAIN q |-> IF q[i].id = id THEN Octets(q[i]) ELSE 0])
InHand(id) == IF frame.id = id THEN Octets(frame) ELSE 0
Total(id) == recv[id] + streamCredit[id].granted + streamCredit[id].pending + Unread(id) + report[id].n

\* ConnAgreement for a stream whose window is still kept.
StreamAgreement ==
    \A id \in live :
        peerStream[id] + CarriedOf(up, id) + InHand(id) + Returned(down, id) + report[id].stream
          = recv[id] + streamCredit[id].granted

\* No stream gets more credit than it began with, and what is kept of it while its
\* content may still arrive is all but the padding.
StreamConserved ==
    \A id \in Streams :
        /\ Total(id) <= InitialWindowSize
        /\ ~body[id].ended /\ ~body[id].failed => InitialWindowSize <= Total(id) + lost

\* Once the ledger is drained the windows hold the frame in hand.
FrameFits ==
    /\ reader = "idle" <=> frame = NoDataFrame
    /\ reader = "current" => /\ Octets(frame) <= connRecv
                             /\ frame.id \in live => Octets(frame) <= recv[frame.id]
    /\ ~overrun

\* What a handler has to report is what it is at.
Reports ==
    \A id \in Streams :
        /\ handler[id] \in {"running", "parked", "returned"} =>
            report[id].n = 0 /\ report[id].conn = 0 /\ report[id].stream = 0
        /\ handler[id] = "reporting" =>
            /\ report[id].conn = 0 /\ report[id].stream = 0
            /\ ~report[id].more => body[id].ended
        /\ handler[id] = "enqueueing" => report[id].n = 0

\* Less is pending than would be due.
Pending ==
    /\ connCredit.pending < ReplenishThreshold
    /\ \A id \in Streams : streamCredit[id].pending < ReplenishThreshold

\* Nothing follows the last frame of a stream.
InOrder ==
    /\ \A i \in 1 .. Len(up) : Final(up[i]) =>
        /\ up[i].id \in peerDone
        /\ \A j \in 1 .. Len(up) : i < j => up[j].id # up[i].id
    /\ frame # NoDataFrame /\ Final(frame) =>
        /\ frame.id \in peerDone
        /\ \A j \in 1 .. Len(up) : up[j].id # frame.id
    /\ \A id \in Streams : body[id].ended \/ body[id].failed =>
        /\ id \in peerDone /\ frame.id # id
        /\ \A j \in 1 .. Len(up) : up[j].id # id

\* A parked handler has nothing to read, and its stream is still there.
ParkedWait ==
    /\ \A id \in Streams : handler[id] = "parked" =>
        ~body[id].ended /\ ~body[id].failed /\ body[id].chunks = <<>>
    /\ \A id \in Streams \ live : body[id].ended \/ body[id].failed

\* The inductive invariant.
RecvIInv ==
    /\ RecvTypes /\ ConnAgreement /\ ConnConserved /\ StreamAgreement /\ StreamConserved
    /\ FrameFits /\ Reports /\ Pending /\ InOrder /\ ParkedWait
-----------------------------------------------------------------------------
\* The weight of a queue whose entries have the weights g.
Load(q, g) == SumFunction([i \in DOMAIN q |-> g[q[i]]])
Loads(q, g, S) ==
    /\ Load(q, g) \in Nat
    /\ \A f \in S : Load(Append(q, f), g) = Load(q, g) + g[f]
    /\ q # <<>> => Load(q, g) = g[Head(q)] + Load(Tail(q), g)

\* A queue's weight grows by an entry appended and shrinks by its head.
LEMMA LoadOfQueue ==
    ASSUME NEW S, NEW g \in [S -> Nat], NEW q \in Seq(S)
    PROVE  Loads(q, g, S)
<1> DEFINE n == Len(q)
           W(r) == [i \in DOMAIN r |-> g[r[i]]]
<1>1. n \in Nat /\ DOMAIN q = 1 .. n /\ \A i \in 1 .. n : q[i] \in S
  BY LenProperties
<1>2. W(q) \in [1 .. n -> Nat] /\ \A i \in 1 .. n : W(q)[i] = g[q[i]]
  <2> HIDE DEF n
  <2> QED BY <1>1
<1>3. SumFunction(W(q)) \in Nat
  <2>1. IsFiniteSet(1 .. n)
    BY <1>1, FS_Interval
  <2> HIDE DEF W, n
  <2> QED BY <1>2, <2>1, SumOfNaturals
<1>4. ASSUME NEW f \in S PROVE SumFunction(W(Append(q, f))) = SumFunction(W(q)) + g[f]
  <2> DEFINE r == Append(q, f)
  <2>1. DOMAIN r = 1 .. n + 1 /\ r[n + 1] = f /\ \A i \in 1 .. n : r[i] = q[i]
    BY AppendProperties, LenProperties
  <2> HIDE DEF n, r
  <2>2. W(r) \in [1 .. n + 1 -> Nat] /\ W(r)[n + 1] = g[f] /\ \A i \in 1 .. n : W(r)[i] = W(q)[i]
    <3>1. \A i \in 1 .. n + 1 : r[i] \in S
      BY <1>1, <2>1
    <3>2. W(r) \in [1 .. n + 1 -> Nat] /\ \A i \in 1 .. n + 1 : W(r)[i] = g[r[i]]
      BY <2>1, <3>1
    <3> HIDE DEF W
    <3> QED BY <1>1, <1>2, <2>1, <3>2
  <2> HIDE DEF W
  <2>3. SumFunction(W(r)) = SumFunction(W(q)) + W(r)[n + 1]
    BY <1>1, <1>2, <2>2, SumOfLonger
  <2> QED BY <2>2, <2>3 DEF r
<1>5. ASSUME q # <<>> PROVE SumFunction(W(q)) = g[Head(q)] + SumFunction(W(Tail(q)))
  <2> DEFINE r == Tail(q)
             m == n - 1
  <2>1. m \in Nat /\ n = m + 1 /\ DOMAIN r = 1 .. m /\ Head(q) = q[1] /\ \A i \in 1 .. m : r[i] = q[i + 1]
    BY <1>5, HeadTailProperties, LenProperties, EmptySeq
  <2> HIDE DEF n, r, m
  <2>2. W(r) \in [1 .. m -> Nat] /\ \A i \in 1 .. m : W(q)[i + 1] = W(r)[i]
    <3>1. \A i \in 1 .. m : i + 1 \in 1 .. n
      BY <1>1, <2>1
    <3>2. W(r) \in [1 .. m -> Nat] /\ \A i \in 1 .. m : W(r)[i] = g[q[i + 1]]
      BY <1>1, <2>1, <3>1
    <3> HIDE DEF W
    <3> QED BY <1>2, <3>1, <3>2
  <2> HIDE DEF W
  <2>3. SumFunction(W(q)) = W(q)[1] + SumFunction(W(r))
    BY <1>2, <2>1, <2>2, SumOfShifted
  <2>4. W(q)[1] = g[Head(q)]
    BY <1>1, <1>2, <2>1
  <2> QED BY <2>3, <2>4 DEF r
<1> QED BY <1>3, <1>4, <1>5 DEF Loads, Load

\* An empty queue weighs nothing.
LEMMA LoadOfNone == ASSUME NEW g PROVE SumFunction([i \in DOMAIN <<>> |-> g[<<>>[i]]]) = 0
<1> DEFINE w == [i \in DOMAIN <<>> |-> g[<<>>[i]]]
<1>1. w \in [{} -> Nat] /\ \A x \in {} : w[x] = 0
  <2>1. DOMAIN <<>> = {}
    OBVIOUS
  <2> QED BY <2>1
<1> HIDE DEF w
<1>2. SumFunction(w) = 0
  BY <1>1, FS_EmptySet, SumOfNaturals
<1> QED BY <1>2 DEF w

\* A frame's octets are a natural number.
LEMMA UpFrameOctets == \A f \in UpFrame : Octets(f) \in Nat
  BY DEF UpFrame, Octets

\* What a queue of frames carries grows by the frame appended to it and shrinks by its head.
LEMMA CarriedIs ==
    ASSUME NEW q \in Seq(UpFrame)
    PROVE  /\ Carried(q) \in Nat /\ Carried(<<>>) = 0
           /\ \A f \in UpFrame : Carried(Append(q, f)) = Carried(q) + Octets(f)
           /\ q # <<>> => Carried(q) = Octets(Head(q)) + Carried(Tail(q))
<1> DEFINE g == [f \in UpFrame |-> Octets(f)]
<1>1. g \in [UpFrame -> Nat] /\ \A f \in UpFrame : g[f] = Octets(f)
  BY UpFrameOctets
<1>2. ASSUME NEW r \in Seq(UpFrame) PROVE Load(r, g) = Carried(r)
  <2>1. \A i \in DOMAIN r : r[i] \in UpFrame
    BY LenProperties
  <2>2. [i \in DOMAIN r |-> g[r[i]]] = [i \in DOMAIN r |-> Octets(r[i])]
    BY <2>1
  <2> QED BY <2>2 DEF Load, Carried
<1> HIDE DEF g
<1>3. Loads(q, g, UpFrame)
  BY <1>1, LoadOfQueue
<1>4. \A f \in UpFrame : Append(q, f) \in Seq(UpFrame)
  BY AppendProperties
<1>5. q # <<>> => Head(q) \in UpFrame /\ Tail(q) \in Seq(UpFrame)
  BY HeadTailProperties, EmptySeq
<1>6. Carried(<<>>) = 0
  <2>1. <<>> \in Seq(UpFrame)
    BY EmptySeq
  <2>2. Load(<<>>, g) = 0
    BY LoadOfNone DEF Load
  <2> QED BY <1>2, <2>1, <2>2
<1> QED BY <1>1, <1>2, <1>3, <1>4, <1>5, <1>6 DEF Loads

\* The same for the frames of one stream.
LEMMA CarriedOfIs ==
    ASSUME NEW q \in Seq(UpFrame), NEW id \in Streams
    PROVE  /\ CarriedOf(q, id) \in Nat /\ CarriedOf(<<>>, id) = 0
           /\ \A f \in UpFrame :
                CarriedOf(Append(q, f), id) = CarriedOf(q, id) + IF f.id = id THEN Octets(f) ELSE 0
           /\ q # <<>> => CarriedOf(q, id) = (IF Head(q).id = id THEN Octets(Head(q)) ELSE 0)
                                               + CarriedOf(Tail(q), id)
<1> DEFINE w(f) == IF f.id = id THEN Octets(f) ELSE 0
           g == [f \in UpFrame |-> w(f)]
<1>1. g \in [UpFrame -> Nat] /\ \A f \in UpFrame : g[f] = w(f)
  BY UpFrameOctets
<1>2. ASSUME NEW r \in Seq(UpFrame) PROVE Load(r, g) = CarriedOf(r, id)
  <2>1. \A i \in DOMAIN r : r[i] \in UpFrame
    BY LenProperties
  <2>2. [i \in DOMAIN r |-> g[r[i]]] = [i \in DOMAIN r |-> w(r[i])]
    BY <2>1
  <2> QED BY <2>2 DEF Load, CarriedOf
<1> HIDE DEF g
<1>3. Loads(q, g, UpFrame)
  BY <1>1, LoadOfQueue
<1>4. \A f \in UpFrame : Append(q, f) \in Seq(UpFrame)
  BY AppendProperties
<1>5. q # <<>> => Head(q) \in UpFrame /\ Tail(q) \in Seq(UpFrame)
  BY HeadTailProperties, EmptySeq
<1>6. CarriedOf(<<>>, id) = 0
  <2>1. <<>> \in Seq(UpFrame)
    BY EmptySeq
  <2>2. Load(<<>>, g) = 0
    BY LoadOfNone DEF Load
  <2> QED BY <1>2, <2>1, <2>2
<1> QED BY <1>1, <1>2, <1>3, <1>4, <1>5, <1>6 DEF Loads

\* The same for the credit that a queue of WINDOW_UPDATEs returns to one window.
LEMMA ReturnedIs ==
    ASSUME NEW q \in Seq(DownFrame), NEW id \in Streams \cup {0}
    PROVE  /\ Returned(q, id) \in Nat /\ Returned(<<>>, id) = 0
           /\ \A f \in DownFrame :
                Returned(Append(q, f), id) = Returned(q, id) + IF f.id = id THEN f.inc ELSE 0
           /\ q # <<>> => Returned(q, id) = (IF Head(q).id = id THEN Head(q).inc ELSE 0)
                                              + Returned(Tail(q), id)
<1> DEFINE w(f) == IF f.id = id THEN f.inc ELSE 0
           g == [f \in DownFrame |-> w(f)]
<1>1. g \in [DownFrame -> Nat] /\ \A f \in DownFrame : g[f] = w(f)
  BY DEF DownFrame
<1>2. ASSUME NEW r \in Seq(DownFrame) PROVE Load(r, g) = Returned(r, id)
  <2>1. \A i \in DOMAIN r : r[i] \in DownFrame
    BY LenProperties
  <2>2. [i \in DOMAIN r |-> g[r[i]]] = [i \in DOMAIN r |-> w(r[i])]
    BY <2>1
  <2> QED BY <2>2 DEF Load, Returned
<1> HIDE DEF g
<1>3. Loads(q, g, DownFrame)
  BY <1>1, LoadOfQueue
<1>4. \A f \in DownFrame : Append(q, f) \in Seq(DownFrame)
  BY AppendProperties
<1>5. q # <<>> => Head(q) \in DownFrame /\ Tail(q) \in Seq(DownFrame)
  BY HeadTailProperties, EmptySeq
<1>6. Returned(<<>>, id) = 0
  <2>1. <<>> \in Seq(DownFrame)
    BY EmptySeq
  <2>2. Load(<<>>, g) = 0
    BY LoadOfNone DEF Load
  <2> QED BY <1>2, <2>1, <2>2
<1> QED BY <1>1, <1>2, <1>3, <1>4, <1>5, <1>6 DEF Loads

\* A payload more to read, and one read in part or whole.
LEMMA ChunksAre ==
    ASSUME NEW q \in Seq(Nat)
    PROVE  /\ SumFunction(q) \in Nat /\ SumFunction(<<>>) = 0
           /\ \A n \in Nat : SumFunction(Append(q, n)) = SumFunction(q) + n
           /\ q # <<>> =>
                /\ SumFunction(q) = Head(q) + SumFunction(Tail(q))
                /\ \A n \in Nat : SumFunction(<<n>> \o Tail(q)) = n + SumFunction(Tail(q))
<1> DEFINE g == [n \in Nat |-> n]
<1>1. g \in [Nat -> Nat] /\ \A n \in Nat : g[n] = n
  OBVIOUS
<1>2. ASSUME NEW r \in Seq(Nat) PROVE Load(r, g) = SumFunction(r)
  <2>1. r \in [1 .. Len(r) -> Nat] /\ DOMAIN r = 1 .. Len(r)
    BY LenProperties
  <2>2. [i \in DOMAIN r |-> g[r[i]]] = r
    BY <2>1
  <2> QED BY <2>2 DEF Load
<1>3. ASSUME NEW r \in Seq(Nat) PROVE Loads(r, g, Nat)
  <2> HIDE DEF g
  <2> QED BY <1>1, LoadOfQueue
<1> HIDE DEF g
<1>4. \A n \in Nat : Append(q, n) \in Seq(Nat)
  BY AppendProperties
<1>5. SumFunction(<<>>) = 0
  <2>1. <<>> \in Seq(Nat)
    BY EmptySeq
  <2>2. Load(<<>>, g) = 0
    BY LoadOfNone DEF Load
  <2> QED BY <1>2, <2>1, <2>2
<1>6. ASSUME q # <<>>, NEW n \in Nat
      PROVE  /\ Tail(q) \in Seq(Nat) /\ Head(q) \in Nat
             /\ SumFunction(<<n>> \o Tail(q)) = n + SumFunction(Tail(q))
  <2>1. Tail(q) \in Seq(Nat) /\ Head(q) \in Nat /\ <<n>> \in Seq(Nat) /\ Len(<<n>>) = 1
    BY <1>6, HeadTailProperties, EmptySeq
  <2> DEFINE r == <<n>> \o Tail(q)
  <2>2. r \in Seq(Nat) /\ r # <<>> /\ Head(r) = n /\ Tail(r) = Tail(q)
    <3> DEFINE t == Tail(q)
    <3>1. t \in Seq(Nat)
      BY <2>1
    <3> HIDE DEF t
    <3>2. <<n>> \o t \in Seq(Nat) /\ Len(<<n>> \o t) = 1 + Len(t) /\ Len(t) \in Nat
      BY <2>1, <3>1, ConcatProperties, LenProperties
    <3>3. <<n>> \o t # <<>>
      BY <3>2, EmptySeq
    <3>4. Head(<<n>> \o t) = n
      BY <3>1, <3>2
    <3>5. Tail(<<n>> \o t) = t
      BY <3>1, <3>2
    <3> QED BY <3>2, <3>3, <3>4, <3>5 DEF t
  <2> HIDE DEF r
  <2>3. Load(r, g) = n + Load(Tail(q), g)
    BY <1>1, <1>3, <2>2 DEF Loads
  <2> QED BY <1>2, <2>1, <2>2, <2>3 DEF r
<1> QED BY <1>1, <1>2, <1>3, <1>4, <1>5, <1>6 DEF Loads
-----------------------------------------------------------------------------
\* The octets that handlers have before them or in their hands, and the credit for the
\* connection that they are about to return.
Holding(b, r) == SumFunction([id \in Streams |-> SumFunction(b[id].chunks) + r[id].n])
Owed(r) == SumFunction([id \in Streams |-> r[id].conn])

\* Both sums over the handlers are natural numbers.
LEMMA HoldingIs ==
    ASSUME NEW b \in Bodies, NEW r \in Accounts
    PROVE  /\ Holding(b, r) \in Nat /\ Owed(r) \in Nat
           /\ \A id \in Streams : SumFunction(b[id].chunks) \in Nat
           /\ (\A id \in Streams : r[id].conn = 0) => Owed(r) = 0
           /\ (\A id \in Streams : b[id].chunks = <<>> /\ r[id].n = 0) => Holding(b, r) = 0
<1> DEFINE g == [id \in Streams |-> SumFunction(b[id].chunks) + r[id].n]
           h == [id \in Streams |-> r[id].conn]
<1>1. \A id \in Streams : SumFunction(b[id].chunks) \in Nat
  BY ChunksAre DEF Bodies
<1>2. g \in [Streams -> Nat] /\ \A id \in Streams : g[id] = SumFunction(b[id].chunks) + r[id].n
  BY <1>1 DEF Accounts
<1>3. h \in [Streams -> Nat] /\ \A id \in Streams : h[id] = r[id].conn
  BY DEF Accounts
<1>4. (\A id \in Streams : b[id].chunks = <<>> /\ r[id].n = 0) => \A id \in Streams : g[id] = 0
  <2>1. <<>> \in Seq(Nat)
    BY EmptySeq
  <2>2. SumFunction(<<>>) = 0
    BY <2>1, ChunksAre
  <2> HIDE DEF g
  <2> QED BY <1>2, <2>2
<1> HIDE DEF g, h
<1>5. SumFunction(g) \in Nat /\ ((\A id \in Streams : g[id] = 0) => SumFunction(g) = 0)
  BY <1>2, SumOfNaturals, RecvAssumption
<1>6. SumFunction(h) \in Nat /\ ((\A id \in Streams : h[id] = 0) => SumFunction(h) = 0)
  BY <1>3, SumOfNaturals, RecvAssumption
<1>7. Holding(b, r) = SumFunction(g) /\ Owed(r) = SumFunction(h)
  BY DEF g, h, Holding, Owed
<1> QED BY <1>1, <1>3, <1>4, <1>5, <1>6, <1>7

\* They change on one stream only.
SameBut(a, b, r, c, s) ==
    \A id \in Streams \ {a} : c[id].chunks = b[id].chunks /\ s[id].n = r[id].n /\ s[id].conn = r[id].conn

\* What one handler's step changes in a sum is what it changes in that handler's part.
LEMMA HoldingChanges ==
    ASSUME NEW b \in Bodies, NEW c \in Bodies, NEW r \in Accounts, NEW s \in Accounts, NEW a \in Streams,
           SameBut(a, b, r, c, s)
    PROVE  /\ Holding(c, s) = Holding(b, r) + (SumFunction(c[a].chunks) + s[a].n)
                                            - (SumFunction(b[a].chunks) + r[a].n)
           /\ Owed(s) = Owed(r) + s[a].conn - r[a].conn
<1> DEFINE g == [id \in Streams |-> SumFunction(b[id].chunks) + r[id].n]
           k == [id \in Streams |-> SumFunction(c[id].chunks) + s[id].n]
           h == [id \in Streams |-> r[id].conn]
           i == [id \in Streams |-> s[id].conn]
<1>1. \A id \in Streams : SumFunction(b[id].chunks) \in Nat /\ SumFunction(c[id].chunks) \in Nat
  BY HoldingIs
<1>2. /\ g \in [Streams -> Nat] /\ \A id \in Streams : g[id] = SumFunction(b[id].chunks) + r[id].n
      /\ k \in [Streams -> Nat] /\ \A id \in Streams : k[id] = SumFunction(c[id].chunks) + s[id].n
  BY <1>1 DEF Accounts
<1>3. /\ h \in [Streams -> Nat] /\ \A id \in Streams : h[id] = r[id].conn
      /\ i \in [Streams -> Nat] /\ \A id \in Streams : i[id] = s[id].conn
  BY DEF Accounts
<1>4. Holding(b, r) = SumFunction(g) /\ Owed(r) = SumFunction(h)
      /\ Holding(c, s) = SumFunction(k) /\ Owed(s) = SumFunction(i)
  BY DEF Holding, Owed
<1> HIDE DEF g, h, i, k
<1>5. IsFiniteSet(Streams) /\ \A id \in Streams \ {a} : k[id] = g[id] /\ i[id] = h[id]
  BY <1>2, <1>3, RecvAssumption DEF SameBut
<1>6. SumFunction(k) = SumFunction(g) + k[a] - g[a]
  BY <1>2, <1>5, SumOfChanged
<1>7. SumFunction(i) = SumFunction(h) + i[a] - h[a]
  BY <1>3, <1>5, SumOfChanged
<1> QED BY <1>2, <1>3, <1>4, <1>6, <1>7

\* The invariant's sums, by these names.
LEMMA ConnAgreementIs ==
    ConnAgreement <=>
        peerConn + Carried(up) + Octets(frame) + Returned(down, 0) + Owed(report)
          = connRecv + connCredit.granted
  BY DEF ConnAgreement, Owed

\* What connection credit is made of, by these names.
LEMMA ConnConservedIs ==
    ConnConserved <=>
        connRecv + connCredit.granted + connCredit.pending + Holding(body, report) + lost
          = InitialWindowSize
  BY DEF ConnConserved, Holding, Unread

\* Everything the two accounts add up is a natural number.
LEMMA NumbersAre ==
    ASSUME RecvTypes
    PROVE  /\ Carried(up) \in Nat /\ Octets(frame) \in Nat /\ Returned(down, 0) \in Nat
           /\ Owed(report) \in Nat /\ Holding(body, report) \in Nat
           /\ connCredit.granted \in Nat /\ connCredit.pending \in Nat
           /\ \A id \in Streams :
                /\ CarriedOf(up, id) \in Nat /\ Returned(down, id) \in Nat /\ InHand(id) \in Nat
                /\ recv[id] \in Nat /\ peerStream[id] \in Nat
                /\ streamCredit[id].granted \in Nat /\ streamCredit[id].pending \in Nat
                /\ Unread(id) \in Nat /\ report[id].n \in Nat /\ report[id].conn \in Nat
                /\ report[id].stream \in Nat /\ Total(id) \in Nat
<1>1. Carried(up) \in Nat /\ \A id \in Streams : CarriedOf(up, id) \in Nat
  BY CarriedIs, CarriedOfIs DEF RecvTypes
<1>2. \A id \in Streams \cup {0} : Returned(down, id) \in Nat
  BY ReturnedIs DEF RecvTypes
<1>3. Octets(frame) \in Nat /\ \A id \in Streams : InHand(id) \in Nat
  BY UpFrameOctets DEF RecvTypes, NoDataFrame, Octets, InHand
<1>4. /\ Owed(report) \in Nat /\ Holding(body, report) \in Nat
      /\ \A id \in Streams : Unread(id) \in Nat
  BY HoldingIs DEF RecvTypes, Unread
<1>5. /\ connCredit.granted \in Nat /\ connCredit.pending \in Nat
      /\ \A id \in Streams :
           /\ recv[id] \in Nat /\ peerStream[id] \in Nat
           /\ streamCredit[id].granted \in Nat /\ streamCredit[id].pending \in Nat
           /\ report[id].n \in Nat /\ report[id].conn \in Nat /\ report[id].stream \in Nat
  BY DEF RecvTypes, Credit, Accounts
<1>6. \A id \in Streams : Total(id) \in Nat
  BY <1>4, <1>5 DEF Total
<1> QED BY <1>1, <1>2, <1>3, <1>4, <1>5, <1>6

-----------------------------------------------------------------------------
\* The peer sends a frame within its windows.
Sends(f) ==
    /\ f \in UpFrame /\ f.id \notin peerDone
    /\ Octets(f) <= peerConn /\ Octets(f) <= peerStream[f.id]
    /\ up' = Append(up, f) /\ peerConn' = peerConn - Octets(f)
    /\ peerStream' = [peerStream EXCEPT ![f.id] = @ - Octets(f)]
    /\ peerDone' = IF Final(f) THEN peerDone \cup {f.id} ELSE peerDone
    /\ UNCHANGED <<down, windows, credit, reading, handling, lost>>

\* A frame the peer sends moves from its windows to the wire.
LEMMA SendsKeeps == ASSUME RecvIInv, NEW f, Sends(f) PROVE RecvIInv'
<1>1. /\ f \in UpFrame /\ f.id \in Streams /\ Octets(f) \in Nat /\ f.id \notin peerDone
      /\ up' = Append(up, f) /\ peerConn' = peerConn - Octets(f)
      /\ UNCHANGED <<down, connRecv, recv, live, connCredit, streamCredit, credited, reader, frame,
                     overrun, body, handler, report, lost>>
  BY UpFrameOctets DEF Sends, UpFrame, windows, credit, reading, handling
<1>2. /\ up \in Seq(UpFrame) /\ up' \in Seq(UpFrame) /\ Len(up) \in Nat /\ Len(up') = Len(up) + 1
      /\ up'[Len(up) + 1] = f /\ \A i \in 1 .. Len(up) : up'[i] = up[i]
  BY <1>1, AppendProperties, LenProperties DEF RecvIInv, RecvTypes
<1>3. RecvTypes'
  <2>1. peerConn' \in Nat /\ peerStream' \in [Streams -> Nat] /\ peerDone' \subseteq Streams
    BY <1>1 DEF Sends, RecvIInv, RecvTypes
  <2> QED BY <1>1, <1>2, <2>1 DEF RecvIInv, RecvTypes
<1>4. RecvTypes /\ peerConn \in Nat
  BY DEF RecvIInv, RecvTypes
<1>5. ConnAgreement'
  <2>1. Carried(up') = Carried(up) + Octets(f)
    BY <1>1, <1>2, CarriedIs
  <2>2. peerConn + Carried(up) + Octets(frame) + Returned(down, 0) + Owed(report)
          = connRecv + connCredit.granted
    BY ConnAgreementIs DEF RecvIInv
  <2>3. peerConn' + Carried(up') + Octets(frame) + Returned(down, 0) + Owed(report)
          = connRecv + connCredit.granted
    BY <1>1, <1>4, <2>1, <2>2, NumbersAre
  <2> QED BY <1>1, <2>3 DEF ConnAgreement, Owed
<1>6. ConnConserved'
  BY <1>1 DEF RecvIInv, ConnConserved, Unread
<1>7. StreamAgreement'
  <2> SUFFICES ASSUME NEW id \in live
               PROVE  peerStream'[id] + CarriedOf(up', id) + InHand(id) + Returned(down, id) + report[id].stream
                        = recv[id] + streamCredit[id].granted
    BY <1>1 DEF StreamAgreement, InHand
  <2>1. id \in Streams
    BY DEF RecvIInv, RecvTypes
  <2>2. CarriedOf(up', id) = CarriedOf(up, id) + IF f.id = id THEN Octets(f) ELSE 0
    BY <1>1, <1>2, <2>1, CarriedOfIs
  <2>3. peerStream \in [Streams -> Nat] /\ peerStream' = [peerStream EXCEPT ![f.id] = @ - Octets(f)]
    BY DEF Sends, RecvIInv, RecvTypes
  <2>4. peerStream[id] + CarriedOf(up, id) + InHand(id) + Returned(down, id) + report[id].stream
          = recv[id] + streamCredit[id].granted
    BY DEF RecvIInv, StreamAgreement
  <2>5. /\ CarriedOf(up, id) \in Nat /\ InHand(id) \in Nat /\ Returned(down, id) \in Nat
        /\ report[id].stream \in Nat /\ peerStream[id] \in Nat /\ Octets(f) \in Nat
    BY <1>1, <1>4, <2>1, NumbersAre
  <2>6. CASE f.id = id
    <3>1. peerStream'[id] = peerStream[id] - Octets(f)
      BY <2>1, <2>3, <2>6
    <3>2. CarriedOf(up', id) = CarriedOf(up, id) + Octets(f)
      BY <2>2, <2>6
    <3> QED BY <2>4, <2>5, <3>1, <3>2
  <2>7. CASE f.id # id
    <3>1. peerStream'[id] = peerStream[id]
      BY <2>1, <2>3, <2>7
    <3>2. CarriedOf(up', id) = CarriedOf(up, id)
      BY <2>2, <2>5, <2>7
    <3> QED BY <2>4, <3>1, <3>2
  <2> QED BY <2>6, <2>7
<1>8. StreamConserved'
  BY <1>1 DEF RecvIInv, StreamConserved, Total, Unread
<1>9. FrameFits' /\ Reports' /\ Pending' /\ ParkedWait'
  BY <1>1 DEF RecvIInv, FrameFits, Reports, Pending, ParkedWait
<1>10. InOrder'
  <2>1. peerDone \subseteq peerDone' /\ (Final(f) => f.id \in peerDone')
    BY DEF Sends
  <2>2. ASSUME NEW i \in 1 .. Len(up'), Final(up'[i])
        PROVE  up'[i].id \in peerDone' /\ \A j \in 1 .. Len(up') : i < j => up'[j].id # up'[i].id
    BY <1>1, <1>2, <2>1, <2>2 DEF RecvIInv, InOrder
  <2>3. frame # NoDataFrame /\ Final(frame) =>
          frame.id \in peerDone' /\ \A j \in 1 .. Len(up') : up'[j].id # frame.id
    BY <1>1, <1>2, <2>1 DEF RecvIInv, InOrder
  <2>4. ASSUME NEW id \in Streams, body[id].ended \/ body[id].failed
        PROVE  id \in peerDone' /\ frame.id # id /\ \A j \in 1 .. Len(up') : up'[j].id # id
    BY <1>1, <1>2, <2>1, <2>4 DEF RecvIInv, InOrder
  <2> QED BY <1>1, <2>2, <2>3, <2>4 DEF InOrder
<1> QED BY <1>3, <1>5, <1>6, <1>7, <1>8, <1>9, <1>10 DEF RecvIInv

\* DATA within both windows keeps the accounts.
LEMMA SendDataKeeps ==
    ASSUME RecvIInv, NEW id \in Streams, NEW octets \in Payloads, NEW pad \in Pads, NEW end \in BOOLEAN,
           SendData(id, octets, pad, end)
    PROVE  RecvIInv'
<1> DEFINE f == [kind |-> "data", id |-> id, octets |-> octets, pad |-> pad, end |-> end]
<1>1. f \in UpFrame /\ Octets(f) = octets + pad /\ f.id = id /\ (Final(f) <=> end) /\ Octets(f) \in Nat
  BY RecvAssumption DEF UpFrame, Octets, Final
<1>2. peerConn \in Nat /\ peerStream[id] \in Nat
  BY DEF RecvIInv, RecvTypes
<1>3. Octets(f) <= Min2(peerConn, peerStream[id])
  BY <1>1 DEF SendData
<1>4. Octets(f) <= peerConn /\ Octets(f) <= peerStream[id]
  BY <1>1, <1>2, <1>3 DEF Min2
<1>5. Sends(f)
  BY <1>1, <1>4 DEF SendData, Sends
<1> QED BY <1>5, SendsKeeps

\* RST_STREAM carries no octets, and nothing follows it on its stream.
LEMMA SendResetKeeps == ASSUME RecvIInv, NEW id \in Streams, SendReset(id) PROVE RecvIInv'
<1> DEFINE f == [kind |-> "rst", id |-> id, octets |-> 0, pad |-> 0, end |-> FALSE]
<1>1. f \in UpFrame /\ Octets(f) = 0 /\ f.id = id /\ Final(f)
  BY DEF UpFrame, Octets, Final
<1>2. peerConn \in Nat /\ peerStream \in [Streams -> Nat]
  BY DEF RecvIInv, RecvTypes
<1> HIDE DEF f
<1>3. up' = Append(up, f) /\ peerDone' = peerDone \cup {id} /\ id \notin peerDone
      /\ UNCHANGED <<down, peerConn, peerStream, windows, credit, reading, handling, lost>>
  BY DEF SendReset, f
<1>4. peerConn' = peerConn - Octets(f) /\ peerStream' = [peerStream EXCEPT ![f.id] = @ - Octets(f)]
  BY <1>1, <1>2, <1>3
<1>5. Octets(f) <= peerConn /\ Octets(f) <= peerStream[id]
  BY <1>1, <1>2
<1>6. Sends(f)
  BY <1>1, <1>3, <1>4, <1>5 DEF Sends
<1> QED BY <1>6, SendsKeeps

\* A WINDOW_UPDATE moves its increment from the wire to one of the peer's windows.
LEMMA ReceiveWindowUpdateKeeps == ASSUME RecvIInv, ReceiveWindowUpdate PROVE RecvIInv'
<1> DEFINE f == Head(down)
<1>1. /\ down # <<>> /\ down' = Tail(down)
      /\ UNCHANGED <<up, peerDone, connRecv, recv, live, connCredit, streamCredit, credited, reader, frame,
                     overrun, body, handler, report, lost>>
  BY DEF ReceiveWindowUpdate, windows, credit, reading, handling
<1>2. /\ down \in Seq(DownFrame) /\ down' \in Seq(DownFrame) /\ f \in DownFrame
      /\ f.id \in Streams \cup {0} /\ f.inc \in Nat
  <2>1. down \in Seq(DownFrame)
    BY DEF RecvIInv, RecvTypes
  <2>2. f \in DownFrame /\ Tail(down) \in Seq(DownFrame)
    BY <1>1, <2>1, HeadTailProperties, EmptySeq
  <2> QED BY <1>1, <2>1, <2>2 DEF DownFrame
<1>3. RecvTypes /\ peerConn \in Nat /\ peerStream \in [Streams -> Nat] /\ 0 \notin Streams
  BY RecvAssumption DEF RecvIInv, RecvTypes
<1>4. /\ peerConn' = peerConn + (IF f.id = 0 THEN f.inc ELSE 0)
      /\ peerStream' \in [Streams -> Nat]
      /\ \A id \in Streams : peerStream'[id] = peerStream[id] + (IF f.id = id THEN f.inc ELSE 0)
  <2>1. CASE f.id = 0
    BY <1>2, <1>3, <2>1 DEF ReceiveWindowUpdate
  <2>2. CASE f.id # 0
    BY <1>2, <1>3, <2>2 DEF ReceiveWindowUpdate
  <2> QED BY <2>1, <2>2
<1>5. \A id \in Streams \cup {0} :
        Returned(down, id) = (IF f.id = id THEN f.inc ELSE 0) + Returned(down', id) /\ Returned(down', id) \in Nat
  BY <1>1, <1>2, ReturnedIs
<1> HIDE DEF f
<1>6. RecvTypes'
  BY <1>1, <1>2, <1>3, <1>4 DEF RecvTypes
<1>7. ConnAgreement'
  <2>1. peerConn + Carried(up) + Octets(frame) + Returned(down, 0) + Owed(report)
          = connRecv + connCredit.granted
    BY ConnAgreementIs DEF RecvIInv
  <2>2. Returned(down, 0) = (IF f.id = 0 THEN f.inc ELSE 0) + Returned(down', 0) /\ Returned(down', 0) \in Nat
    BY <1>5
  <2>3. peerConn' + Carried(up) + Octets(frame) + Returned(down', 0) + Owed(report)
          = connRecv + connCredit.granted
    <3>1. Carried(up) \in Nat /\ Octets(frame) \in Nat /\ Owed(report) \in Nat /\ Returned(down, 0) \in Nat
      BY <1>3, NumbersAre
    <3>2. peerConn' = peerConn + (IF f.id = 0 THEN f.inc ELSE 0) /\ peerConn \in Nat
      BY <1>3, <1>4
    <3>3. CASE f.id = 0
      <4>1. peerConn' = peerConn + f.inc /\ Returned(down, 0) = f.inc + Returned(down', 0) /\ f.inc \in Nat
        BY <1>2, <2>2, <3>2, <3>3
      <4> QED BY <2>1, <2>2, <3>1, <3>2, <4>1
    <3>4. CASE f.id # 0
      BY <1>2, <2>1, <2>2, <3>1, <3>2, <3>4
    <3> QED BY <3>3, <3>4
  <2> QED BY <1>1, <2>3 DEF ConnAgreement, Owed
<1>8. ConnConserved'
  BY <1>1 DEF RecvIInv, ConnConserved, Unread
<1>9. StreamAgreement'
  <2> SUFFICES ASSUME NEW id \in live
               PROVE  peerStream'[id] + CarriedOf(up, id) + InHand(id) + Returned(down', id) + report[id].stream
                        = recv[id] + streamCredit[id].granted
    BY <1>1 DEF StreamAgreement, InHand
  <2>1. id \in Streams
    BY <1>3 DEF RecvTypes
  <2>2. peerStream[id] + CarriedOf(up, id) + InHand(id) + Returned(down, id) + report[id].stream
          = recv[id] + streamCredit[id].granted
    BY DEF RecvIInv, StreamAgreement
  <2>3. /\ Returned(down, id) = (IF f.id = id THEN f.inc ELSE 0) + Returned(down', id)
        /\ Returned(down', id) \in Nat /\ peerStream'[id] = peerStream[id] + (IF f.id = id THEN f.inc ELSE 0)
    BY <1>4, <1>5, <2>1
  <2>4. /\ CarriedOf(up, id) \in Nat /\ InHand(id) \in Nat /\ report[id].stream \in Nat
        /\ peerStream[id] \in Nat
    BY <1>3, <2>1, NumbersAre
  <2>5. CASE f.id = id
    BY <1>2, <2>2, <2>3, <2>4, <2>5
  <2>6. CASE f.id # id
    BY <1>2, <2>2, <2>3, <2>4, <2>6
  <2> QED BY <2>5, <2>6
<1>10. StreamConserved'
  BY <1>1 DEF RecvIInv, StreamConserved, Total, Unread
<1>11. FrameFits' /\ Reports' /\ Pending' /\ InOrder' /\ ParkedWait'
  BY <1>1 DEF RecvIInv, FrameFits, Reports, Pending, InOrder, ParkedWait
<1> QED BY <1>6, <1>7, <1>8, <1>9, <1>10, <1>11 DEF RecvIInv

-----------------------------------------------------------------------------
\* drainSent retires only streams whose content has ended (table.go HandleFrame).
LEMMA ReadFrameKeeps == ASSUME RecvIInv, ReadFrame PROVE RecvIInv'
<1> DEFINE f == Head(up)
<1>1. /\ reader = "idle" /\ up # <<>> /\ frame' = f /\ up' = Tail(up) /\ reader' = "drained"
      /\ live' = live \ {id \in reported : body[id].ended}
      /\ UNCHANGED <<down, peerConn, peerStream, peerDone, connRecv, recv, connCredit, streamCredit, credited,
                     overrun, body, handler, report, lost>>
  BY DEF ReadFrame, peer, credit, handling
<1>2. RecvTypes /\ frame = NoDataFrame /\ Octets(frame) = 0
  BY <1>1 DEF RecvIInv, FrameFits, NoDataFrame, Octets
<1>3. /\ up \in Seq(UpFrame) /\ up' \in Seq(UpFrame) /\ f \in UpFrame /\ f.id \in Streams /\ f # NoDataFrame
      /\ Len(up) \in Nat /\ Len(up') = Len(up) - 1 /\ up[1] = f /\ 1 \in 1 .. Len(up)
      /\ \A i \in 1 .. Len(up') : up'[i] = up[i + 1]
  <2>1. up \in Seq(UpFrame)
    BY DEF RecvIInv, RecvTypes
  <2>2. f \in UpFrame /\ up' \in Seq(UpFrame) /\ Len(up) \in Nat \ {0} /\ Len(up') = Len(up) - 1 /\ up[1] = f
        /\ \A i \in 1 .. Len(up') : up'[i] = up[i + 1]
    BY <1>1, <2>1, HeadTailProperties, EmptySeq, LenProperties
  <2>3. f.id \in Streams /\ f # NoDataFrame
    BY <2>2 DEF UpFrame, NoDataFrame
  <2> QED BY <2>1, <2>2, <2>3
<1> HIDE DEF f
<1>4. Octets(f) \in Nat /\ Carried(up) = Octets(f) + Carried(up') /\ Carried(up') \in Nat
  BY <1>1, <1>3, CarriedIs, UpFrameOctets DEF f
<1>5. ASSUME NEW id \in Streams
      PROVE  /\ CarriedOf(up, id) = (IF f.id = id THEN Octets(f) ELSE 0) + CarriedOf(up', id)
             /\ CarriedOf(up', id) \in Nat /\ InHand(id) = 0
  <2>1. CarriedOf(up, id) = (IF f.id = id THEN Octets(f) ELSE 0) + CarriedOf(up', id)
    BY <1>1, <1>3, CarriedOfIs DEF f
  <2>2. CarriedOf(up', id) \in Nat
    BY <1>3, CarriedOfIs
  <2> QED BY <1>2, <2>1, <2>2 DEF InHand
<1>6. RecvTypes'
  BY <1>1, <1>2, <1>3 DEF RecvTypes
<1>7. ConnAgreement'
  <2>1. peerConn + Carried(up) + Octets(frame) + Returned(down, 0) + Owed(report)
          = connRecv + connCredit.granted
    BY ConnAgreementIs DEF RecvIInv
  <2>2. peerConn \in Nat
    BY <1>2 DEF RecvTypes
  <2>3. peerConn + Carried(up') + Octets(f) + Returned(down, 0) + Owed(report)
          = connRecv + connCredit.granted
    BY <1>2, <1>4, <2>1, <2>2, NumbersAre
  <2> QED BY <1>1, <2>3 DEF ConnAgreement, Owed
<1>8. ConnConserved'
  BY <1>1 DEF RecvIInv, ConnConserved, Unread
<1>9. StreamAgreement'
  <2> SUFFICES ASSUME NEW id \in live
               PROVE  peerStream[id] + CarriedOf(up', id) + (IF f.id = id THEN Octets(f) ELSE 0)
                          + Returned(down, id) + report[id].stream
                        = recv[id] + streamCredit[id].granted
    BY <1>1 DEF StreamAgreement, InHand
  <2>1. id \in Streams
    BY <1>2 DEF RecvTypes
  <2>2. peerStream[id] + CarriedOf(up, id) + InHand(id) + Returned(down, id) + report[id].stream
          = recv[id] + streamCredit[id].granted
    BY DEF RecvIInv, StreamAgreement
  <2> QED BY <1>2, <1>4, <1>5, <2>1, <2>2, NumbersAre
<1>10. StreamConserved'
  BY <1>1 DEF RecvIInv, StreamConserved, Total, Unread
<1>11. FrameFits' /\ Reports' /\ Pending'
  BY <1>1, <1>3 DEF RecvIInv, FrameFits, Reports, Pending
<1>12. InOrder'
  <2>1. ASSUME NEW i \in 1 .. Len(up'), Final(up'[i])
        PROVE  up'[i].id \in peerDone /\ \A j \in 1 .. Len(up') : i < j => up'[j].id # up'[i].id
    <3>1. /\ i + 1 \in 1 .. Len(up) /\ up'[i] = up[i + 1]
          /\ \A j \in 1 .. Len(up') : j + 1 \in 1 .. Len(up) /\ (i < j => i + 1 < j + 1) /\ up'[j] = up[j + 1]
      BY <1>3
    <3> QED BY <2>1, <3>1 DEF RecvIInv, InOrder
  <2>2. Final(f) => f.id \in peerDone /\ \A j \in 1 .. Len(up') : up'[j].id # f.id
    <3>1. \A j \in 1 .. Len(up') : j + 1 \in 1 .. Len(up) /\ 1 < j + 1 /\ up'[j] = up[j + 1]
      BY <1>3
    <3> QED BY <1>3, <3>1 DEF RecvIInv, InOrder
  <2>3. ASSUME NEW id \in Streams, body[id].ended \/ body[id].failed
        PROVE  id \in peerDone /\ f.id # id /\ \A j \in 1 .. Len(up') : up'[j].id # id
    <3>1. \A j \in 1 .. Len(up') : j + 1 \in 1 .. Len(up) /\ up'[j] = up[j + 1]
      BY <1>3
    <3> QED BY <1>3, <2>3, <3>1 DEF RecvIInv, InOrder
  <2> QED BY <1>1, <2>1, <2>2, <2>3 DEF InOrder
<1>13. ParkedWait'
  BY <1>1 DEF RecvIInv, ParkedWait
<1> QED BY <1>6, <1>7, <1>8, <1>9, <1>10, <1>11, <1>12, <1>13 DEF RecvIInv

\* Draining clears what is granted and nothing else.
LEMMA CreditDrains ==
    ASSUME NEW c \in Credit
    PROVE  LET d == [c EXCEPT !.granted = 0] IN d \in Credit /\ d.granted = 0 /\ d.pending = c.pending
  BY DEF Credit

\* drainCredit moves what was advertised into the windows, so that they hold the frame in
\* hand: the peer's share of the account is not negative (table.go:573).
LEMMA DrainCreditKeeps == ASSUME RecvIInv, DrainCredit PROVE RecvIInv'
<1>1. /\ reader = "drained" /\ reader' = "current"
      /\ connRecv' = connRecv + connCredit.granted /\ connCredit' = [connCredit EXCEPT !.granted = 0]
      /\ recv' = [id \in Streams |-> IF id \in live THEN recv[id] + streamCredit[id].granted ELSE recv[id]]
      /\ streamCredit' = [id \in Streams |-> [streamCredit[id] EXCEPT !.granted = 0]]
      /\ credited' = {id \in credited : id \in live \/ streamCredit[id].pending # 0}
      /\ UNCHANGED <<up, down, peerConn, peerStream, peerDone, live, frame, overrun, body, handler, report, lost>>
  BY DEF DrainCredit, peer, handling
<1>2. RecvTypes
  BY DEF RecvIInv
<1>3. /\ connCredit' \in Credit /\ connCredit'.granted = 0 /\ connCredit'.pending = connCredit.pending
      /\ connRecv' \in Nat
  <2>1. connCredit \in Credit /\ connRecv \in Nat
    BY <1>2 DEF RecvTypes
  <2>2. connCredit' \in Credit /\ connCredit'.granted = 0 /\ connCredit'.pending = connCredit.pending
    BY <1>1, <2>1, CreditDrains
  <2>3. connCredit.granted \in Nat
    BY <2>1 DEF Credit
  <2> QED BY <1>1, <2>1, <2>2, <2>3
<1>4. ASSUME NEW id \in Streams
      PROVE  /\ streamCredit'[id] \in Credit /\ streamCredit'[id].granted = 0
             /\ streamCredit'[id].pending = streamCredit[id].pending
             /\ recv'[id] = recv[id] + (IF id \in live THEN streamCredit[id].granted ELSE 0)
             /\ recv'[id] \in Nat
  BY <1>1, <1>2 DEF RecvTypes, Credit
<1>5. RecvTypes'
  <2>1. recv' \in [Streams -> Nat] /\ streamCredit' \in [Streams -> Credit]
    BY <1>1, <1>4
  <2> QED BY <1>1, <1>2, <1>3, <2>1 DEF RecvTypes
<1>6. ConnAgreement'
  <2>1. peerConn + Carried(up) + Octets(frame) + Returned(down, 0) + Owed(report)
          = connRecv + connCredit.granted
    BY ConnAgreementIs DEF RecvIInv
  <2>2. connRecv' + connCredit'.granted = connRecv + connCredit.granted
    BY <1>1, <1>2, <1>3 DEF RecvTypes, Credit
  <2> QED BY <1>1, <2>1, <2>2 DEF ConnAgreement, Owed
<1>7. ConnConserved'
  <2>1. connRecv + connCredit.granted + connCredit.pending + Holding(body, report) + lost = InitialWindowSize
    BY ConnConservedIs DEF RecvIInv
  <2>2. connRecv' + connCredit'.granted + connCredit'.pending = connRecv + connCredit.granted + connCredit.pending
    BY <1>1, <1>2, <1>3 DEF RecvTypes, Credit
  <2>3. connRecv' + connCredit'.granted + connCredit'.pending + Holding(body, report) + lost = InitialWindowSize
    BY <2>1, <2>2
  <2> QED BY <1>1, <2>3 DEF ConnConserved, Holding, Unread
<1>8. StreamAgreement'
  <2> SUFFICES ASSUME NEW id \in live
               PROVE  peerStream[id] + CarriedOf(up, id) + InHand(id) + Returned(down, id) + report[id].stream
                        = recv'[id] + streamCredit'[id].granted
    BY <1>1 DEF StreamAgreement, InHand
  <2>1. id \in Streams
    BY <1>2 DEF RecvTypes
  <2>2. recv'[id] + streamCredit'[id].granted = recv[id] + streamCredit[id].granted
    BY <1>4, <2>1
  <2> QED BY <2>2 DEF RecvIInv, StreamAgreement
<1>9. StreamConserved'
  <2> SUFFICES ASSUME NEW id \in Streams
               PROVE  /\ Total(id)' <= InitialWindowSize
                      /\ ~body[id].ended /\ ~body[id].failed => InitialWindowSize <= Total(id)' + lost
    BY <1>1 DEF StreamConserved
  <2> DEFINE kept == recv'[id] + 0 + streamCredit[id].pending + Unread(id) + report[id].n
  <2>1. Total(id)' = kept
    BY <1>1, <1>4 DEF Total, Unread
  <2>2. /\ recv[id] \in Nat /\ streamCredit[id].granted \in Nat /\ streamCredit[id].pending \in Nat
        /\ Unread(id) \in Nat /\ report[id].n \in Nat
    BY <1>2, NumbersAre
  <2>3. Total(id) = recv[id] + streamCredit[id].granted + streamCredit[id].pending + Unread(id) + report[id].n
    BY DEF Total
  <2>4. /\ Total(id) <= InitialWindowSize
        /\ ~body[id].ended /\ ~body[id].failed => InitialWindowSize <= Total(id) + lost
    BY DEF RecvIInv, StreamConserved
  <2>5. kept <= Total(id) /\ (id \in live => kept = Total(id))
    BY <1>4, <2>2, <2>3
  <2>6. ~body[id].ended /\ ~body[id].failed => id \in live
    BY DEF RecvIInv, ParkedWait
  <2>7. kept \in Nat /\ Total(id) \in Nat
    BY <1>4, <2>2, <2>3
  <2> HIDE DEF kept
  <2> QED BY <2>1, <2>4, <2>5, <2>6, <2>7, RecvAssumption
<1>10. FrameFits'
  <2>1. Octets(frame) <= connRecv'
    <3>1. peerConn + Carried(up) + Octets(frame) + Returned(down, 0) + Owed(report) = connRecv'
      BY <1>1, ConnAgreementIs DEF RecvIInv
    <3>2. peerConn \in Nat
      BY <1>2 DEF RecvTypes
    <3> QED BY <1>2, <3>1, <3>2, NumbersAre
  <2>2. frame.id \in live => Octets(frame) <= recv'[frame.id]
    <3> SUFFICES ASSUME frame.id \in live PROVE Octets(frame) <= recv'[frame.id]
      OBVIOUS
    <3> DEFINE id == frame.id
    <3>1. id \in Streams /\ InHand(id) = Octets(frame)
      BY <1>2 DEF RecvTypes, InHand
    <3>2. peerStream[id] + CarriedOf(up, id) + InHand(id) + Returned(down, id) + report[id].stream
            = recv[id] + streamCredit[id].granted
      BY DEF RecvIInv, StreamAgreement
    <3>3. recv'[id] = recv[id] + streamCredit[id].granted
      BY <1>4, <3>1
    <3>4. /\ peerStream[id] \in Nat /\ CarriedOf(up, id) \in Nat /\ InHand(id) \in Nat
          /\ Returned(down, id) \in Nat /\ report[id].stream \in Nat
      BY <1>2, <3>1, NumbersAre
    <3> HIDE DEF id
    <3>5. InHand(id) <= recv'[id]
      BY <3>2, <3>3, <3>4
    <3> QED BY <3>1, <3>5 DEF id
  <2> QED BY <1>1, <2>1, <2>2 DEF RecvIInv, FrameFits
<1>11. Reports' /\ InOrder' /\ ParkedWait'
  BY <1>1 DEF RecvIInv, Reports, InOrder, ParkedWait
<1>12. Pending'
  BY <1>3, <1>4 DEF RecvIInv, Pending
<1> QED BY <1>5, <1>6, <1>7, <1>8, <1>9, <1>10, <1>11, <1>12 DEF RecvIInv

-----------------------------------------------------------------------------
\* The frame in hand is handled: nothing changes on the wire or in the ledgers.
Handles ==
    /\ reader = "current" /\ reader' = "idle" /\ frame' = NoDataFrame
    /\ UNCHANGED <<up, down, peerConn, peerStream, peerDone, connCredit, streamCredit, credited, report>>

\* What a DATA frame does: its stream is gone and it counts as lost, or it is buffered.
\* The overrun branches of Table.data are never taken.
LEMMA DataIs ==
    ASSUME RecvIInv, Data
    PROVE  LET n == Octets(frame)
               id == frame.id IN
           /\ Handles /\ overrun' = overrun /\ frame \in UpFrame /\ id \in Streams /\ n \in Nat
           /\ n <= connRecv /\ connRecv' = connRecv - n
           /\ \/ /\ id \notin live /\ lost' = lost + n /\ UNCHANGED <<recv, live, body, handler>>
              \/ /\ id \in live /\ n <= recv[id] /\ recv' = [recv EXCEPT ![id] = @ - n]
                 /\ live' = IF frame.end THEN live \ (localDone \cap {id}) ELSE live
                 /\ body' = [body EXCEPT ![id].chunks = Append(@, frame.octets), ![id].ended = frame.end]
                 /\ handler' = Wake(id) /\ lost' = lost + frame.pad
<1> DEFINE n == Octets(frame)
           id == frame.id
<1>1. RecvTypes /\ reader = "current" /\ frame.kind = "data"
  BY DEF RecvIInv, Data
<1>2. frame \in UpFrame /\ id \in Streams /\ n \in Nat
  <2>1. frame # NoDataFrame
    BY <1>1 DEF NoDataFrame
  <2> QED BY <1>1, <2>1, UpFrameOctets DEF RecvTypes, UpFrame
<1>3. /\ n <= connRecv /\ (id \in live => n <= recv[id])
  BY <1>1 DEF RecvIInv, FrameFits
<1>4. connRecv \in Nat /\ recv[id] \in Nat
  BY <1>1, <1>2 DEF RecvTypes
<1>5. ~(n > connRecv) /\ (id \in live => ~(n > recv[id]))
  BY <1>2, <1>3, <1>4
<1>6. Handles
  BY DEF Data, Done, Handles, peer, credit
<1>7. /\ connRecv' = connRecv - n /\ overrun' = overrun
      /\ \/ /\ id \notin live /\ lost' = lost + n /\ UNCHANGED <<recv, live, body, handler>>
         \/ /\ id \in live /\ recv' = [recv EXCEPT ![id] = @ - n]
            /\ live' = IF frame.end THEN live \ (localDone \cap {id}) ELSE live
            /\ body' = [body EXCEPT ![id].chunks = Append(@, frame.octets), ![id].ended = frame.end]
            /\ handler' = Wake(id) /\ lost' = lost + frame.pad
  <2> HIDE DEF n, id
  <2> QED BY <1>5 DEF Data, n, id
<1> QED BY <1>2, <1>3, <1>6, <1>7

\* What handling a frame keeps whatever becomes of the payload.
LEMMA HandlesKeeps ==
    ASSUME RecvIInv, Handles, overrun' = overrun, connRecv' = connRecv - Octets(frame)
    PROVE  /\ ConnAgreement' /\ FrameFits' /\ Pending' /\ frame'.id = 0 /\ 0 \notin Streams
           /\ frame' \in UpFrame \cup {NoDataFrame}
           /\ \A id \in Streams : InHand(id)' = 0
<1>1. /\ reader' = "idle" /\ frame' = NoDataFrame /\ Octets(frame') = 0 /\ frame'.id = 0 /\ 0 \notin Streams
      /\ UNCHANGED <<up, down, peerConn, peerStream, peerDone, connCredit, streamCredit, credited, report>>
  BY RecvAssumption DEF Handles, NoDataFrame, Octets
<1>2. ConnAgreement'
  <2>1. peerConn + Carried(up) + Octets(frame) + Returned(down, 0) + Owed(report)
          = connRecv + connCredit.granted
    BY ConnAgreementIs DEF RecvIInv
  <2>2. RecvTypes /\ peerConn \in Nat /\ connRecv \in Nat
    BY DEF RecvIInv, RecvTypes
  <2>3. peerConn + Carried(up) + 0 + Returned(down, 0) + Owed(report)
          = connRecv' + connCredit.granted
    BY <2>1, <2>2, NumbersAre
  <2> QED BY <1>1, <2>3 DEF ConnAgreement, Owed
<1>3. FrameFits' /\ Pending'
  BY <1>1 DEF RecvIInv, FrameFits, Pending
<1>4. \A id \in Streams : InHand(id)' = 0
  BY <1>1 DEF InHand
<1> QED BY <1>1, <1>2, <1>3, <1>4

\* A frame on a stream that is gone: its octets are lost.
Dropped ==
    /\ Handles /\ overrun' = overrun /\ frame \in UpFrame
    /\ Octets(frame) <= connRecv /\ connRecv' = connRecv - Octets(frame)
    /\ frame.id \notin live /\ lost' = lost + Octets(frame) /\ UNCHANGED <<recv, live, body, handler>>

\* DATA on a stream that is gone is debited from the connection's window alone.
LEMMA DroppedKeeps == ASSUME RecvIInv, Dropped PROVE RecvIInv'
<1> DEFINE n == Octets(frame)
<1>1. RecvTypes /\ connRecv \in Nat /\ lost \in Nat /\ n \in Nat /\ n <= connRecv
  BY UpFrameOctets DEF Dropped, RecvIInv, RecvTypes
<1>2. connRecv' = connRecv - n /\ connRecv' \in Nat /\ lost' = lost + n /\ lost' \in Nat
  BY <1>1 DEF Dropped
<1>3. /\ UNCHANGED <<up, down, peerConn, peerStream, peerDone, connCredit, streamCredit, credited, report,
                     recv, live, body, handler>>
      /\ reader' = "idle" /\ frame.id \notin live
  BY DEF Handles, Dropped
<1>4. /\ ConnAgreement' /\ FrameFits' /\ Pending' /\ frame'.id = 0 /\ 0 \notin Streams
      /\ frame' \in UpFrame \cup {NoDataFrame} /\ \A id \in Streams : InHand(id)' = 0
  BY HandlesKeeps DEF Dropped
<1> HIDE DEF n
<1>5. RecvTypes'
  BY <1>1, <1>2, <1>3, <1>4 DEF RecvTypes
<1>6. ConnConserved'
  <2>1. connRecv + connCredit.granted + connCredit.pending + Holding(body, report) + lost = InitialWindowSize
    BY ConnConservedIs DEF RecvIInv
  <2>2. connRecv' + connCredit.granted + connCredit.pending + Holding(body, report) + lost' = InitialWindowSize
    BY <1>1, <1>2, <2>1, NumbersAre
  <2> QED BY <1>3, <2>2 DEF ConnConserved, Holding, Unread
<1>7. StreamAgreement'
  <2> SUFFICES ASSUME NEW id \in live
               PROVE  peerStream[id] + CarriedOf(up, id) + 0 + Returned(down, id) + report[id].stream
                        = recv[id] + streamCredit[id].granted
    <3>1. live \subseteq Streams
      BY <1>1 DEF RecvTypes
    <3> QED BY <1>3, <1>4, <3>1 DEF StreamAgreement
  <2>1. InHand(id) = 0
    BY <1>3 DEF InHand
  <2> QED BY <2>1 DEF RecvIInv, StreamAgreement
<1>8. StreamConserved'
  <2> SUFFICES ASSUME NEW id \in Streams
               PROVE  /\ Total(id) <= InitialWindowSize
                      /\ ~body[id].ended /\ ~body[id].failed => InitialWindowSize <= Total(id) + lost'
    BY <1>3 DEF StreamConserved, Total, Unread
  <2>1. Total(id) \in Nat
    BY <1>1, NumbersAre
  <2> QED BY <1>1, <1>2, <2>1, RecvAssumption DEF RecvIInv, StreamConserved
<1>9. Reports' /\ ParkedWait'
  BY <1>3 DEF RecvIInv, Reports, ParkedWait
<1>10. InOrder'
  <2>1. frame' = NoDataFrame
    BY DEF Handles, Dropped
  <2> QED BY <1>3, <1>4, <2>1 DEF RecvIInv, InOrder
<1> QED BY <1>4, <1>5, <1>6, <1>7, <1>8, <1>9, <1>10 DEF RecvIInv

\* A frame on a live stream: its content is buffered, its padding lost.
Buffered ==
    /\ Handles /\ overrun' = overrun /\ frame \in UpFrame
    /\ Octets(frame) <= connRecv /\ connRecv' = connRecv - Octets(frame)
    /\ frame.id \in live /\ Octets(frame) <= recv[frame.id]
    /\ recv' = [recv EXCEPT ![frame.id] = @ - Octets(frame)]
    /\ live' = IF frame.end THEN live \ (localDone \cap {frame.id}) ELSE live
    /\ body' = [body EXCEPT ![frame.id].chunks = Append(@, frame.octets), ![frame.id].ended = frame.end]
    /\ handler' = Wake(frame.id) /\ lost' = lost + frame.pad

\* DATA on a live stream goes from both windows to the body; the padding is lost.
LEMMA BufferedKeeps == ASSUME RecvIInv, Buffered PROVE RecvIInv'
<1> DEFINE n == Octets(frame)
           id == frame.id
           octets == frame.octets
           pad == frame.pad
<1>1. /\ RecvTypes /\ connRecv \in Nat /\ lost \in Nat /\ n \in Nat /\ octets \in Nat /\ pad \in Nat
      /\ n = octets + pad /\ id \in Streams /\ frame # NoDataFrame /\ frame.end \in BOOLEAN
  <2>1. frame # NoDataFrame
    BY DEF Buffered, UpFrame, NoDataFrame
  <2>2. RecvTypes /\ connRecv \in Nat /\ lost \in Nat
    BY DEF RecvIInv, RecvTypes
  <2>3. frame \in UpFrame
    BY DEF Buffered
  <2>4. octets \in Nat /\ pad \in Nat /\ id \in Streams /\ frame.end \in BOOLEAN
    BY <2>3 DEF UpFrame
  <2>5. n = octets + pad /\ n \in Nat
    BY <2>4 DEF Octets
  <2> QED BY <2>1, <2>2, <2>4, <2>5
<1>2. connRecv' = connRecv - n /\ connRecv' \in Nat /\ lost' = lost + pad /\ lost' \in Nat
  BY <1>1 DEF Buffered
<1>3. /\ UNCHANGED <<up, down, peerConn, peerStream, peerDone, connCredit, streamCredit, credited, report>>
      /\ reader' = "idle" /\ frame' = NoDataFrame
  BY DEF Buffered, Handles
<1>4. /\ ConnAgreement' /\ FrameFits' /\ Pending' /\ frame'.id = 0 /\ 0 \notin Streams
      /\ frame' \in UpFrame \cup {NoDataFrame} /\ \A d \in Streams : InHand(d)' = 0
  BY HandlesKeeps DEF Buffered
<1>5. /\ recv' \in [Streams -> Nat] /\ recv'[id] = recv[id] - n
      /\ \A d \in Streams \ {id} : recv'[d] = recv[d]
  <2>1. recv \in [Streams -> Nat] /\ recv[id] \in Nat /\ n <= recv[id]
    BY <1>1 DEF Buffered, RecvTypes
  <2> QED BY <1>1, <2>1 DEF Buffered
<1>6. /\ body' \in Bodies /\ body'[id].chunks = Append(body[id].chunks, octets)
      /\ body'[id].ended = frame.end /\ body'[id].failed = body[id].failed
      /\ \A d \in Streams \ {id} : body'[d] = body[d]
  <2>1. body \in Bodies
    BY <1>1 DEF RecvTypes
  <2>2. Append(body[id].chunks, octets) \in Seq(Nat)
    BY <1>1, <2>1, AppendProperties DEF Bodies
  <2> QED BY <1>1, <2>1, <2>2 DEF Buffered, Bodies
<1>7. ~body[id].ended /\ ~body[id].failed
  BY <1>1 DEF RecvIInv, InOrder
<1>8. /\ handler' \in [Streams -> {"running", "parked", "reporting", "enqueueing", "returned"}]
      /\ handler'[id] = IF handler[id] = "parked" THEN "running" ELSE handler[id]
      /\ \A d \in Streams \ {id} : handler'[d] = handler[d]
  BY <1>1 DEF Buffered, Wake, RecvTypes
<1>9. live' \subseteq live /\ (id \notin live' => frame.end) /\ live \ {id} \subseteq live'
  BY DEF Buffered
<1>10. SumFunction(body'[id].chunks) = SumFunction(body[id].chunks) + octets
       /\ \A d \in Streams : SumFunction(body[d].chunks) \in Nat
  <2>1. \A d \in Streams : body[d].chunks \in Seq(Nat)
    BY <1>1 DEF RecvTypes, Bodies
  <2> QED BY <1>1, <1>6, <2>1, ChunksAre
<1> HIDE DEF n, id, octets, pad
<1>11. RecvTypes'
  BY <1>1, <1>2, <1>3, <1>4, <1>5, <1>6, <1>8, <1>9 DEF RecvTypes
<1>12. ConnConserved'
  <2>1. connRecv + connCredit.granted + connCredit.pending + Holding(body, report) + lost = InitialWindowSize
    BY ConnConservedIs DEF RecvIInv
  <2>2. Holding(body', report) = Holding(body, report) + octets
    <3>1. body \in Bodies /\ report \in Accounts
      BY <1>1 DEF RecvTypes
    <3>2. SameBut(id, body, report, body', report)
      BY <1>6 DEF SameBut
    <3>3. Holding(body', report) = Holding(body, report) + (SumFunction(body'[id].chunks) + report[id].n)
                                     - (SumFunction(body[id].chunks) + report[id].n)
      BY <1>1, <1>6, <3>1, <3>2, HoldingChanges
    <3>4. Holding(body, report) \in Nat /\ report[id].n \in Nat
      BY <1>1, NumbersAre
    <3> QED BY <1>1, <1>10, <3>3, <3>4
  <2>3. connCredit.granted \in Nat /\ connCredit.pending \in Nat /\ Holding(body, report) \in Nat
    BY <1>1, NumbersAre
  <2>4. connRecv' + connCredit.granted + connCredit.pending + Holding(body', report) + lost' = InitialWindowSize
    <3>1. /\ connRecv \in Nat /\ lost \in Nat /\ octets \in Nat /\ pad \in Nat
          /\ connRecv' = connRecv - (octets + pad) /\ lost' = lost + pad
      BY <1>1, <1>2
    <3> QED BY <2>1, <2>2, <2>3, <3>1
  <2> QED BY <1>3, <2>4 DEF ConnConserved, Holding, Unread
<1>13. StreamAgreement'
  <2> SUFFICES ASSUME NEW d \in live'
               PROVE  peerStream[d] + CarriedOf(up, d) + 0 + Returned(down, d) + report[d].stream
                        = recv'[d] + streamCredit[d].granted
    <3>1. live' \subseteq Streams
      BY <1>11 DEF RecvTypes
    <3> QED BY <1>3, <1>4, <3>1 DEF StreamAgreement
  <2>1. d \in live /\ d \in Streams
    BY <1>1, <1>9 DEF RecvTypes
  <2>2. peerStream[d] + CarriedOf(up, d) + InHand(d) + Returned(down, d) + report[d].stream
          = recv[d] + streamCredit[d].granted
    BY <2>1 DEF RecvIInv, StreamAgreement
  <2>3. /\ peerStream[d] \in Nat /\ CarriedOf(up, d) \in Nat /\ Returned(down, d) \in Nat
        /\ report[d].stream \in Nat /\ recv[d] \in Nat /\ streamCredit[d].granted \in Nat
    BY <1>1, <2>1, NumbersAre
  <2>4. CASE d = id
    <3>1. InHand(d) = n /\ recv'[d] = recv[d] - n
      BY <1>5, <2>4 DEF InHand, id, n
    <3>2. n \in Nat
      BY <1>1
    <3>3. peerStream[d] + CarriedOf(up, d) + n + Returned(down, d) + report[d].stream
            = recv[d] + streamCredit[d].granted
      BY <2>2, <3>1
    <3> QED BY <2>3, <3>1, <3>2, <3>3
  <2>5. CASE d # id
    <3>1. InHand(d) = 0 /\ recv'[d] = recv[d]
      BY <1>5, <2>1, <2>5 DEF InHand, id
    <3> QED BY <2>2, <3>1
  <2> QED BY <2>4, <2>5
<1>14. StreamConserved'
  <2> SUFFICES ASSUME NEW d \in Streams
               PROVE  /\ Total(d)' <= InitialWindowSize
                      /\ ~body'[d].ended /\ ~body'[d].failed => InitialWindowSize <= Total(d)' + lost'
    BY DEF StreamConserved
  <2>1. Total(d) \in Nat
    BY <1>1, NumbersAre
  <2>2. /\ Total(d) <= InitialWindowSize
        /\ ~body[d].ended /\ ~body[d].failed => InitialWindowSize <= Total(d) + lost
    BY DEF RecvIInv, StreamConserved
  <2>3. CASE d = id
    <3>1. /\ recv[d] \in Nat /\ streamCredit[d].granted \in Nat /\ streamCredit[d].pending \in Nat
          /\ Unread(d) \in Nat /\ report[d].n \in Nat
      BY <1>1, NumbersAre
    <3>2. Total(d)' = (recv[d] - n) + streamCredit[d].granted + streamCredit[d].pending
                        + (Unread(d) + octets) + report[d].n
      BY <1>3, <1>5, <1>10, <2>3 DEF Total, Unread
    <3>3. Total(d)' = Total(d) - pad
      <4>1. n \in Nat /\ octets \in Nat /\ pad \in Nat /\ n = octets + pad
        BY <1>1
      <4>2. Total(d) = recv[d] + streamCredit[d].granted + streamCredit[d].pending + Unread(d) + report[d].n
        BY DEF Total
      <4> QED BY <3>1, <3>2, <4>1, <4>2
    <3> DEFINE after == Total(d)'
    <3>4. after = Total(d) - pad
      BY <3>3
    <3> HIDE DEF after
    <3>5. after <= InitialWindowSize /\ InitialWindowSize <= after + lost'
      BY <1>1, <1>2, <1>7, <2>1, <2>2, <2>3, <3>4, RecvAssumption
    <3> QED BY <3>5 DEF after
  <2>4. CASE d # id
    <3>1. Total(d)' = Total(d) /\ body'[d] = body[d]
      BY <1>3, <1>5, <1>6, <2>4 DEF Total, Unread
    <3> DEFINE after == Total(d)'
    <3>2. after = Total(d)
      BY <3>1
    <3> HIDE DEF after
    <3>3. /\ after <= InitialWindowSize
          /\ ~body'[d].ended /\ ~body'[d].failed => InitialWindowSize <= after + lost'
      <4>1. lost \in Nat /\ pad \in Nat /\ lost' = lost + pad /\ InitialWindowSize \in Nat
        BY <1>1, <1>2, RecvAssumption
      <4> QED BY <2>1, <2>2, <3>1, <3>2, <4>1
    <3> QED BY <3>3 DEF after
  <2> QED BY <2>3, <2>4
<1>15. Reports'
  <2> SUFFICES ASSUME NEW d \in Streams
               PROVE  /\ handler'[d] \in {"running", "parked", "returned"} =>
                          report[d].n = 0 /\ report[d].conn = 0 /\ report[d].stream = 0
                      /\ handler'[d] = "reporting" =>
                          /\ report[d].conn = 0 /\ report[d].stream = 0
                          /\ ~report[d].more => body'[d].ended
                      /\ handler'[d] = "enqueueing" => report[d].n = 0
    BY <1>3 DEF Reports
  <2>1. CASE d = id
    BY <1>7, <1>8, <2>1 DEF RecvIInv, Reports
  <2>2. CASE d # id
    BY <1>6, <1>8, <2>2 DEF RecvIInv, Reports
  <2> QED BY <2>1, <2>2
<1>16. InOrder'
  <2>1. ASSUME NEW d \in Streams, body'[d].ended \/ body'[d].failed
        PROVE  d \in peerDone /\ 0 # d /\ \A j \in 1 .. Len(up) : up[j].id # d
    <3>1. CASE d = id
      <4>1. frame.end
        BY <1>6, <1>7, <2>1, <3>1
      <4> QED BY <1>1, <1>4, <3>1, <4>1 DEF RecvIInv, InOrder, Final, id
    <3>2. CASE d # id
      BY <1>4, <1>6, <2>1, <3>2 DEF RecvIInv, InOrder
    <3> QED BY <3>1, <3>2
  <2>2. \A i \in 1 .. Len(up) : Final(up[i]) =>
          up[i].id \in peerDone /\ \A j \in 1 .. Len(up) : i < j => up[j].id # up[i].id
    BY DEF RecvIInv, InOrder
  <2> QED BY <1>3, <1>4, <2>1, <2>2 DEF InOrder
<1>17. ParkedWait'
  <2>1. ASSUME NEW d \in Streams, handler'[d] = "parked"
        PROVE  ~body'[d].ended /\ ~body'[d].failed /\ body'[d].chunks = <<>>
    <3>1. d # id /\ handler[d] = "parked"
      BY <1>8, <2>1
    <3> QED BY <1>6, <3>1 DEF RecvIInv, ParkedWait
  <2>2. ASSUME NEW d \in Streams \ live' PROVE body'[d].ended \/ body'[d].failed
    <3>1. CASE d = id
      BY <1>6, <1>9, <2>2, <3>1
    <3>2. CASE d # id
      BY <1>6, <1>9, <2>2, <3>2 DEF RecvIInv, ParkedWait
    <3> QED BY <3>1, <3>2
  <2> QED BY <2>1, <2>2 DEF ParkedWait
<1> QED BY <1>4, <1>11, <1>12, <1>13, <1>14, <1>15, <1>16, <1>17 DEF RecvIInv

\* Table.data keeps the accounts.
LEMMA DataKeeps == ASSUME RecvIInv, Data PROVE RecvIInv'
<1>1. Dropped \/ Buffered
  BY DataIs DEF Dropped, Buffered
<1> QED BY <1>1, DroppedKeeps, BufferedKeeps

\* Table.rstStream removes the stream and wakes its handler; no account changes.
LEMMA RstStreamKeeps == ASSUME RecvIInv, RstStream PROVE RecvIInv'
<1> DEFINE id == frame.id
<1>1. /\ Handles /\ overrun' = overrun /\ frame.kind = "rst" /\ connRecv' = connRecv /\ lost' = lost
      /\ recv' = recv /\ live' = live \ {id}
  BY DEF RstStream, Done, Handles, peer, credit
<1>2. RecvTypes /\ frame \in UpFrame /\ frame # NoDataFrame /\ id \in Streams /\ Octets(frame) = 0 /\ Final(frame)
  <2>1. RecvTypes /\ frame # NoDataFrame
    BY <1>1 DEF RecvIInv, NoDataFrame
  <2> QED BY <1>1, <2>1 DEF RecvTypes, UpFrame, Final
<1>3. /\ UNCHANGED <<up, down, peerConn, peerStream, peerDone, connCredit, streamCredit, credited, report>>
      /\ reader' = "idle" /\ frame' = NoDataFrame
  BY <1>1 DEF Handles
<1>4. /\ ConnAgreement' /\ FrameFits' /\ Pending' /\ frame'.id = 0 /\ 0 \notin Streams
      /\ frame' \in UpFrame \cup {NoDataFrame} /\ \A d \in Streams : InHand(d)' = 0
  <2>1. connRecv' = connRecv - Octets(frame)
    BY <1>1, <1>2 DEF RecvTypes
  <2> QED BY <1>1, <2>1, HandlesKeeps
<1>5. /\ body' \in Bodies
      /\ \A d \in Streams : /\ body'[d].chunks = body[d].chunks /\ body'[d].ended = body[d].ended
                            /\ body'[d].failed <=> body[d].failed \/ (d = id /\ id \in live)
  <2>1. body \in Bodies
    BY <1>2 DEF RecvTypes
  <2>2. CASE id \in live
    <3>1. body' = [body EXCEPT ![id].failed = TRUE]
      BY <2>2 DEF RstStream
    <3> QED BY <1>2, <2>1, <2>2, <3>1 DEF Bodies
  <2>3. CASE id \notin live
    <3>1. body' = body
      BY <2>3 DEF RstStream
    <3> QED BY <2>1, <2>3, <3>1 DEF Bodies
  <2> QED BY <2>2, <2>3
<1>6. /\ handler' \in [Streams -> {"running", "parked", "reporting", "enqueueing", "returned"}]
      /\ \A d \in Streams : \/ handler'[d] = handler[d] /\ ~(d = id /\ id \in live /\ handler[d] = "parked")
                            \/ handler[d] = "parked" /\ handler'[d] = "running"
  <2>1. handler \in [Streams -> {"running", "parked", "reporting", "enqueueing", "returned"}]
    BY <1>2 DEF RecvTypes
  <2>2. CASE id \in live
    <3>1. handler' = [handler EXCEPT ![id] = IF @ = "parked" THEN "running" ELSE @]
      BY <2>2 DEF RstStream, Wake
    <3> HIDE DEF id
    <3> QED BY <1>2, <2>1, <2>2, <3>1
  <2>3. CASE id \notin live
    <3>1. handler' = handler
      BY <2>3 DEF RstStream
    <3> QED BY <2>1, <2>3, <3>1
  <2> QED BY <2>2, <2>3
<1> HIDE DEF id
<1>7. RecvTypes'
  BY <1>1, <1>2, <1>3, <1>4, <1>5, <1>6 DEF RecvTypes
<1>8. ConnConserved'
  <2>1. connRecv + connCredit.granted + connCredit.pending + Holding(body, report) + lost = InitialWindowSize
    BY ConnConservedIs DEF RecvIInv
  <2>2. Holding(body', report) = Holding(body, report)
    <3>1. body \in Bodies /\ report \in Accounts
      BY <1>2 DEF RecvTypes
    <3>2. SameBut(id, body, report, body', report)
      BY <1>5 DEF SameBut
    <3>3. Holding(body', report) = Holding(body, report) + (SumFunction(body'[id].chunks) + report[id].n)
                                     - (SumFunction(body[id].chunks) + report[id].n)
      BY <1>2, <1>5, <3>1, <3>2, HoldingChanges
    <3>4. SumFunction(body'[id].chunks) = SumFunction(body[id].chunks)
      BY <1>2, <1>5
    <3>5. SumFunction(body[id].chunks) \in Nat /\ Holding(body, report) \in Nat /\ report[id].n \in Nat
      BY <1>2, NumbersAre DEF Unread
    <3> QED BY <3>3, <3>4, <3>5
  <2> QED BY <1>1, <1>3, <2>1, <2>2 DEF ConnConserved, Holding, Unread
<1>9. StreamAgreement'
  <2> SUFFICES ASSUME NEW d \in live'
               PROVE  peerStream[d] + CarriedOf(up, d) + 0 + Returned(down, d) + report[d].stream
                        = recv[d] + streamCredit[d].granted
    <3>1. live' \subseteq Streams
      BY <1>7 DEF RecvTypes
    <3> QED BY <1>1, <1>3, <1>4, <3>1 DEF StreamAgreement
  <2>1. d \in live /\ InHand(d) = 0
    BY <1>1 DEF InHand, id
  <2> QED BY <2>1 DEF RecvIInv, StreamAgreement
<1>10. StreamConserved'
  <2> SUFFICES ASSUME NEW d \in Streams
               PROVE  /\ Total(d)' <= InitialWindowSize
                      /\ ~body'[d].ended /\ ~body'[d].failed => InitialWindowSize <= Total(d)' + lost
    BY <1>1 DEF StreamConserved
  <2>1. Total(d)' = Total(d)
    BY <1>1, <1>3, <1>5 DEF Total, Unread
  <2>2. ~body'[d].ended /\ ~body'[d].failed => ~body[d].ended /\ ~body[d].failed
    BY <1>5
  <2> QED BY <2>1, <2>2 DEF RecvIInv, StreamConserved
<1>11. Reports'
  <2>1. \A d \in Streams : (handler[d] = "parked" /\ handler'[d] = "running") \/ handler'[d] = handler[d]
    BY <1>6
  <2> QED BY <1>3, <1>5, <2>1 DEF RecvIInv, Reports
<1>12. InOrder'
  <2>1. ASSUME NEW d \in Streams, body'[d].ended \/ body'[d].failed
        PROVE  d \in peerDone /\ 0 # d /\ \A j \in 1 .. Len(up) : up[j].id # d
    <3>1. CASE d = id
      BY <1>2, <1>4, <3>1 DEF RecvIInv, InOrder, id
    <3>2. CASE d # id
      BY <1>4, <1>5, <2>1, <3>2 DEF RecvIInv, InOrder
    <3> QED BY <3>1, <3>2
  <2>2. \A i \in 1 .. Len(up) : Final(up[i]) =>
          up[i].id \in peerDone /\ \A j \in 1 .. Len(up) : i < j => up[j].id # up[i].id
    BY DEF RecvIInv, InOrder
  <2> QED BY <1>3, <1>4, <2>1, <2>2 DEF InOrder
<1>13. ParkedWait'
  <2>1. ASSUME NEW d \in Streams, handler'[d] = "parked"
        PROVE  ~body'[d].ended /\ ~body'[d].failed /\ body'[d].chunks = <<>>
    <3>1. handler[d] = "parked" /\ ~(d = id /\ id \in live)
      BY <1>6, <2>1
    <3> QED BY <1>5, <3>1 DEF RecvIInv, ParkedWait
  <2>2. ASSUME NEW d \in Streams \ live' PROVE body'[d].ended \/ body'[d].failed
    BY <1>1, <1>5, <2>2 DEF RecvIInv, ParkedWait
  <2> QED BY <2>1, <2>2 DEF ParkedWait
<1> QED BY <1>4, <1>7, <1>8, <1>9, <1>10, <1>11, <1>12, <1>13 DEF RecvIInv

-----------------------------------------------------------------------------
\* What a handler leaves alone.
HandlerSteps == UNCHANGED <<up, peerConn, peerStream, peerDone, connRecv, recv, live, reader, frame, overrun, lost>>

\* A handler that only moves keeps the accounts.
LEMMA MovesKeep ==
    ASSUME RecvIInv, HandlerSteps, NEW id \in Streams, NEW place, handler' = [handler EXCEPT ![id] = place],
           place \in {"running", "parked", "returned"},
           UNCHANGED <<down, connCredit, streamCredit, credited, body, report>>,
           handler[id] \in {"running", "parked", "returned"},
           place = "parked" => ~body[id].ended /\ ~body[id].failed /\ body[id].chunks = <<>>
    PROVE  RecvIInv'
<1>1. RecvTypes
  BY DEF RecvIInv
<1>2. /\ handler' \in [Streams -> {"running", "parked", "reporting", "enqueueing", "returned"}]
      /\ handler'[id] = place /\ \A d \in Streams \ {id} : handler'[d] = handler[d]
  BY <1>1 DEF RecvTypes
<1>3. RecvTypes'
  BY <1>1, <1>2 DEF RecvTypes, HandlerSteps
<1>4. ConnAgreement' /\ ConnConserved'
  BY DEF RecvIInv, ConnAgreement, ConnConserved, Unread, HandlerSteps
<1>5. StreamAgreement' /\ StreamConserved'
  BY DEF RecvIInv, StreamAgreement, StreamConserved, Total, Unread, InHand, HandlerSteps
<1>6. FrameFits' /\ Pending' /\ InOrder'
  BY DEF RecvIInv, FrameFits, Pending, InOrder, HandlerSteps
<1>7. Reports'
  <2>1. report[id].n = 0 /\ report[id].conn = 0 /\ report[id].stream = 0
    BY DEF RecvIInv, Reports
  <2> QED BY <1>2, <2>1 DEF RecvIInv, Reports
<1>8. ParkedWait'
  BY <1>2 DEF RecvIInv, ParkedWait, HandlerSteps
<1> QED BY <1>3, <1>4, <1>5, <1>6, <1>7, <1>8 DEF RecvIInv

\* A handler parks only on a body that is empty and still open.
LEMMA ParkKeeps == ASSUME RecvIInv, NEW id \in Streams, Park(id) PROVE RecvIInv'
<1>1. handler[id] = "running" /\ handler' = [handler EXCEPT ![id] = "parked"]
      /\ ~body[id].ended /\ ~body[id].failed /\ body[id].chunks = <<>>
      /\ UNCHANGED <<down, connCredit, streamCredit, credited, body, report>> /\ HandlerSteps
  BY DEF Park, HandlerSteps, peer, windows, credit, reading
<1> QED BY <1>1, MovesKeep

\* A handler that returns has nothing left to report.
LEMMA ReturnKeeps == ASSUME RecvIInv, NEW id \in Streams, Return(id) PROVE RecvIInv'
<1>1. handler[id] = "running" /\ handler' = [handler EXCEPT ![id] = "returned"]
      /\ UNCHANGED <<down, connCredit, streamCredit, credited, body, report>> /\ HandlerSteps
  BY DEF Return, HandlerSteps, peer, windows, credit, reading
<1> QED BY <1>1, MovesKeep

\* A handler takes n octets of the first payload and leaves the rest.
Takes(id, n, left) ==
    /\ handler[id] = "running" /\ n \in Nat /\ left \in Seq(Nat)
    /\ SumFunction(left) + n = SumFunction(body[id].chunks)
    /\ body[id].chunks # <<>>
    /\ body' = [body EXCEPT ![id].chunks = left]
    /\ \/ n = 0 /\ UNCHANGED <<report, handler>>
       \/ /\ report' = [report EXCEPT ![id] = [NoReport EXCEPT !.n = n, !.more = ~body[id].ended \/ left # <<>>]]
          /\ handler' = [handler EXCEPT ![id] = "reporting"]
    /\ UNCHANGED <<down, connCredit, streamCredit, credited>> /\ HandlerSteps

\* Body.take splits a payload: what is handed over and what is left is what there was.
LEMMA TakeIs ==
    ASSUME RecvIInv, NEW id \in Streams, Take(id)
    PROVE  \E n, left : Takes(id, n, left)
<1> DEFINE b == body[id]
           rest(n) == IF n = Head(b.chunks) THEN Tail(b.chunks) ELSE <<Head(b.chunks) - n>> \o Tail(b.chunks)
<1>1. PICK size \in Buffers :
        LET n == Min2(size, Head(b.chunks)) IN
        /\ body' = [body EXCEPT ![id].chunks = rest(n)]
        /\ IF n > 0
           THEN /\ report' = [report EXCEPT ![id] = [NoReport EXCEPT !.n = n, !.more = ~b.ended \/ rest(n) # <<>>]]
                /\ handler' = [handler EXCEPT ![id] = "reporting"]
           ELSE UNCHANGED <<report, handler>>
  BY DEF Take
<1> DEFINE n == Min2(size, Head(b.chunks))
<1>2. b.chunks \in Seq(Nat) /\ b.chunks # <<>> /\ handler[id] = "running"
  BY DEF Take, RecvIInv, RecvTypes, Bodies
<1>3. Head(b.chunks) \in Nat /\ Tail(b.chunks) \in Seq(Nat)
  BY <1>2, HeadTailProperties, EmptySeq
<1>4. n \in Nat /\ n <= Head(b.chunks)
  BY <1>3, RecvAssumption DEF Min2
<1>5. rest(n) \in Seq(Nat) /\ SumFunction(rest(n)) + n = SumFunction(b.chunks)
  <2> DEFINE x == Head(b.chunks)
             t == Tail(b.chunks)
  <2>1. SumFunction(b.chunks) = x + SumFunction(t) /\ SumFunction(t) \in Nat
    BY <1>2, <1>3, ChunksAre
  <2>2. CASE n = x
    <3>1. rest(n) = t
      BY <2>2
    <3>2. x \in Nat /\ t \in Seq(Nat)
      BY <1>3
    <3> HIDE DEF rest, n, x, t
    <3> QED BY <1>4, <2>1, <2>2, <3>1, <3>2
  <2>3. CASE n # x
    <3>1. x - n \in Nat /\ rest(n) = <<x - n>> \o t
      BY <1>3, <1>4, <2>3
    <3>2. <<x - n>> \o t \in Seq(Nat)
      BY <1>3, <3>1
    <3>3. SumFunction(<<x - n>> \o t) = (x - n) + SumFunction(t)
      BY <1>2, <3>1, ChunksAre
    <3>4. x \in Nat
      BY <1>3
    <3> HIDE DEF rest, n, x, t
    <3> QED BY <1>4, <2>1, <3>1, <3>2, <3>3, <3>4
  <2> QED BY <2>2, <2>3
<1>6. \/ n = 0 /\ UNCHANGED <<report, handler>>
      \/ /\ report' = [report EXCEPT ![id] = [NoReport EXCEPT !.n = n, !.more = ~b.ended \/ rest(n) # <<>>]]
         /\ handler' = [handler EXCEPT ![id] = "reporting"]
  BY <1>1, <1>4
<1>7. body' = [body EXCEPT ![id].chunks = rest(n)]
  BY <1>1
<1>8. HandlerSteps /\ UNCHANGED <<down, connCredit, streamCredit, credited>>
  BY DEF Take, HandlerSteps, peer, windows, credit, reading
<1> HIDE DEF n, rest
<1>9. Takes(id, n, rest(n))
  BY <1>2, <1>4, <1>5, <1>6, <1>7, <1>8 DEF Takes
<1> QED BY <1>9

\* What is taken from the body is in the handler's hands.
LEMMA TakesKeeps == ASSUME RecvIInv, NEW id \in Streams, NEW n, NEW left, Takes(id, n, left) PROVE RecvIInv'
<1>1. /\ handler[id] = "running" /\ n \in Nat /\ left \in Seq(Nat)
      /\ SumFunction(left) + n = SumFunction(body[id].chunks) /\ body[id].chunks # <<>>
      /\ UNCHANGED <<down, connCredit, streamCredit, credited>>
      /\ UNCHANGED <<up, peerConn, peerStream, peerDone, connRecv, recv, live, reader, frame, overrun, lost>>
  BY DEF Takes, HandlerSteps
<1>2. RecvTypes /\ body \in Bodies /\ report \in Accounts
  BY DEF RecvIInv, RecvTypes
<1>3. report[id].n = 0 /\ report[id].conn = 0 /\ report[id].stream = 0
  BY <1>1 DEF RecvIInv, Reports
<1>4. /\ body' \in Bodies /\ body'[id].chunks = left
      /\ \A d \in Streams : body'[d].ended = body[d].ended /\ body'[d].failed = body[d].failed
      /\ \A d \in Streams \ {id} : body'[d].chunks = body[d].chunks
  BY <1>1, <1>2 DEF Takes, Bodies
<1>5. /\ report' \in Accounts /\ report'[id].n = n /\ report'[id].conn = 0 /\ report'[id].stream = 0
      /\ \A d \in Streams \ {id} : report'[d] = report[d]
  <2>1. CASE n = 0 /\ report' = report
    BY <1>2, <1>3, <2>1
  <2>2. CASE report' = [report EXCEPT ![id] = [NoReport EXCEPT !.n = n, !.more = ~body[id].ended \/ left # <<>>]]
    BY <1>1, <1>2, <2>2 DEF Accounts, NoReport
  <2> QED BY <2>1, <2>2 DEF Takes
<1>6. /\ handler' \in [Streams -> {"running", "parked", "reporting", "enqueueing", "returned"}]
      /\ \A d \in Streams \ {id} : handler'[d] = handler[d]
      /\ \/ handler'[id] = "running" /\ n = 0
         \/ handler'[id] = "reporting" /\ (report'[id].more <=> ~body[id].ended \/ left # <<>>)
  <2>1. handler \in [Streams -> {"running", "parked", "reporting", "enqueueing", "returned"}]
    BY <1>2 DEF RecvTypes
  <2>2. CASE n = 0 /\ UNCHANGED <<report, handler>>
    BY <1>1, <2>1, <2>2
  <2>3. CASE /\ report' = [report EXCEPT ![id] = [NoReport EXCEPT !.n = n, !.more = ~body[id].ended \/ left # <<>>]]
             /\ handler' = [handler EXCEPT ![id] = "reporting"]
    <3>1. report'[id].more = (~body[id].ended \/ left # <<>>)
      BY <1>2, <2>3 DEF Accounts, NoReport
    <3> QED BY <2>1, <2>3, <3>1
  <2> QED BY <2>2, <2>3 DEF Takes
<1>7. RecvTypes'
  BY <1>1, <1>2, <1>4, <1>5, <1>6 DEF RecvTypes
<1>8. Holding(body', report') = Holding(body, report) /\ Owed(report') = Owed(report)
  <2>1. SameBut(id, body, report, body', report')
    BY <1>4, <1>5 DEF SameBut
  <2>2. /\ Holding(body', report') = Holding(body, report) + (SumFunction(body'[id].chunks) + report'[id].n)
                                       - (SumFunction(body[id].chunks) + report[id].n)
        /\ Owed(report') = Owed(report) + report'[id].conn - report[id].conn
    BY <1>2, <1>4, <1>5, <2>1, HoldingChanges
  <2>3. Holding(body, report) \in Nat /\ Owed(report) \in Nat /\ SumFunction(body[id].chunks) \in Nat
    BY <1>2, NumbersAre DEF Unread
  <2>4. SumFunction(left) \in Nat
    BY <1>1, ChunksAre
  <2> QED BY <1>1, <1>3, <1>4, <1>5, <2>2, <2>3, <2>4
<1>9. ConnAgreement'
  BY <1>1, <1>8, ConnAgreementIs DEF RecvIInv, ConnAgreement, Owed
<1>10. ConnConserved'
  BY <1>1, <1>8, ConnConservedIs DEF RecvIInv, ConnConserved, Holding, Unread
<1>11. StreamAgreement'
  <2>1. \A d \in Streams : report'[d].stream = report[d].stream
    BY <1>3, <1>5
  <2>2. live \subseteq Streams
    BY <1>2 DEF RecvTypes
  <2> QED BY <1>1, <2>1, <2>2 DEF RecvIInv, StreamAgreement, InHand
<1>12. ASSUME NEW d \in Streams PROVE Total(d)' = Total(d)
  <2>1. CASE d = id
    <3>1. Total(d)' = recv[d] + streamCredit[d].granted + streamCredit[d].pending + SumFunction(left) + n
      BY <1>1, <1>4, <1>5, <2>1 DEF Total, Unread
    <3>2. Total(d) = recv[d] + streamCredit[d].granted + streamCredit[d].pending
                       + SumFunction(body[id].chunks) + 0
      BY <1>3, <2>1 DEF Total, Unread
    <3>3. recv[d] \in Nat /\ streamCredit[d].granted \in Nat /\ streamCredit[d].pending \in Nat
      BY <1>2, NumbersAre
    <3>4. SumFunction(left) \in Nat
      BY <1>1, ChunksAre
    <3> QED BY <1>1, <3>1, <3>2, <3>3, <3>4
  <2>2. CASE d # id
    BY <1>1, <1>4, <1>5, <2>2 DEF Total, Unread
  <2> QED BY <2>1, <2>2
<1>13. StreamConserved'
  BY <1>1, <1>4, <1>12 DEF RecvIInv, StreamConserved
<1>14. FrameFits' /\ Pending'
  BY <1>1 DEF RecvIInv, FrameFits, Pending
<1>15. Reports'
  <2> SUFFICES ASSUME NEW d \in Streams
               PROVE  /\ handler'[d] \in {"running", "parked", "returned"} =>
                          report'[d].n = 0 /\ report'[d].conn = 0 /\ report'[d].stream = 0
                      /\ handler'[d] = "reporting" =>
                          /\ report'[d].conn = 0 /\ report'[d].stream = 0
                          /\ ~report'[d].more => body'[d].ended
                      /\ handler'[d] = "enqueueing" => report'[d].n = 0
    BY DEF Reports
  <2>1. CASE d = id
    BY <1>4, <1>5, <1>6, <2>1
  <2>2. CASE d # id
    BY <1>4, <1>5, <1>6, <2>2 DEF RecvIInv, Reports
  <2> QED BY <2>1, <2>2
<1>16. InOrder'
  BY <1>1, <1>4 DEF RecvIInv, InOrder
<1>17. ParkedWait'
  <2>1. \A d \in Streams : handler'[d] = "parked" => d # id /\ handler[d] = "parked"
    BY <1>6
  <2> QED BY <1>1, <1>4, <2>1 DEF RecvIInv, ParkedWait
<1> QED BY <1>7, <1>9, <1>10, <1>11, <1>13, <1>14, <1>15, <1>16, <1>17 DEF RecvIInv

\* Body.take keeps the accounts.
LEMMA TakeKeeps == ASSUME RecvIInv, NEW id \in Streams, Take(id) PROVE RecvIInv'
  BY TakeIs, TakesKeeps

-----------------------------------------------------------------------------
\* recvCredit.earn moves octets into the ledger and leaves less than the threshold pending.
LEMMA EarnIs ==
    ASSUME NEW c \in Credit, NEW n \in Nat
    PROVE  LET e == Earn(c, n) IN
           /\ Due(c, n) \in Nat /\ e \in Credit /\ e.granted = c.granted + Due(c, n)
           /\ e.granted + e.pending = c.granted + c.pending + n
           /\ c.pending < ReplenishThreshold => e.pending < ReplenishThreshold
<1> DEFINE due == Due(c, n)
           e == Earn(c, n)
<1>1. c.pending \in Nat /\ c.granted \in Nat /\ ReplenishThreshold \in Nat \ {0}
  BY RecvAssumption DEF Credit
<1>2. \/ c.pending + n < ReplenishThreshold /\ due = 0
      \/ due = c.pending + n
  BY DEF Due
<1>3. e.pending = c.pending + n - due /\ e.granted = c.granted + due /\ e = [pending |-> e.pending, granted |-> e.granted]
  BY DEF Earn
<1> HIDE DEF due, e
<1>4. due \in Nat /\ e.pending \in Nat /\ e.granted \in Nat
  BY <1>1, <1>2, <1>3
<1>5. e \in Credit
  BY <1>3, <1>4 DEF Credit
<1>6. e.granted + e.pending = c.granted + c.pending + n
  BY <1>1, <1>3, <1>4
<1>7. c.pending < ReplenishThreshold => e.pending < ReplenishThreshold
  BY <1>1, <1>2, <1>3
<1> QED BY <1>3, <1>4, <1>5, <1>6, <1>7 DEF due, e

\* What is reported on a stream comes due for the connection and, if more is to come, for
\* the stream.
Consumes(id, n, due, mine) ==
    /\ handler[id] = "reporting" /\ n = report[id].n
    /\ connCredit' \in Credit /\ due \in Nat /\ connCredit'.granted = connCredit.granted + due
    /\ connCredit'.granted + connCredit'.pending = connCredit.granted + connCredit.pending + n
    /\ connCredit'.pending < ReplenishThreshold
    /\ streamCredit' \in [Streams -> Credit] /\ mine \in Nat /\ credited' \subseteq Streams
    /\ streamCredit'[id].granted = streamCredit[id].granted + mine
    /\ streamCredit'[id].granted + streamCredit'[id].pending
         = streamCredit[id].granted + streamCredit[id].pending + (IF report[id].more THEN n ELSE 0)
    /\ streamCredit'[id].pending < ReplenishThreshold
    /\ \A d \in Streams \ {id} : streamCredit'[d] = streamCredit[d]
    /\ report' = [report EXCEPT ![id] = [NoReport EXCEPT !.conn = due, !.stream = mine]]
    /\ handler' = [handler EXCEPT ![id] = IF report'[id] = NoReport THEN "running" ELSE "enqueueing"]
    /\ UNCHANGED <<down, body>> /\ HandlerSteps

\* What Table.ReportConsumed does to both ledgers.
LEMMA ReportConsumedIs ==
    ASSUME RecvIInv, NEW id \in Streams, ReportConsumed(id)
    PROVE  \E n, due, mine : Consumes(id, n, due, mine)
<1> DEFINE n == report[id].n
           due == Due(connCredit, n)
           mine == IF report[id].more THEN Due(streamCredit[id], n) ELSE 0
<1>1. /\ n \in Nat /\ connCredit \in Credit /\ streamCredit \in [Streams -> Credit] /\ credited \subseteq Streams
      /\ connCredit.pending < ReplenishThreshold /\ streamCredit[id].pending < ReplenishThreshold
  BY DEF RecvIInv, RecvTypes, Accounts, Pending
<1>2. /\ handler[id] = "reporting" /\ connCredit' = Earn(connCredit, n)
      /\ report' = [report EXCEPT ![id] = [NoReport EXCEPT !.conn = due, !.stream = mine]]
      /\ handler' = [handler EXCEPT ![id] = IF report'[id] = NoReport THEN "running" ELSE "enqueueing"]
      /\ UNCHANGED <<down, body>> /\ HandlerSteps
  BY DEF ReportConsumed, HandlerSteps, peer, windows, reading
<1>3. /\ connCredit' \in Credit /\ due \in Nat /\ connCredit'.granted = connCredit.granted + due
      /\ connCredit'.granted + connCredit'.pending = connCredit.granted + connCredit.pending + n
      /\ connCredit'.pending < ReplenishThreshold
  <2> HIDE DEF n
  <2> QED BY <1>1, <1>2, EarnIs
<1>4. /\ streamCredit' \in [Streams -> Credit] /\ mine \in Nat /\ credited' \subseteq Streams
      /\ streamCredit'[id].granted = streamCredit[id].granted + mine
      /\ streamCredit'[id].granted + streamCredit'[id].pending
           = streamCredit[id].granted + streamCredit[id].pending + (IF report[id].more THEN n ELSE 0)
      /\ streamCredit'[id].pending < ReplenishThreshold
      /\ \A d \in Streams \ {id} : streamCredit'[d] = streamCredit[d]
  <2>1. streamCredit[id] \in Credit
    BY <1>1
  <2>2. CASE report[id].more
    <3>1. streamCredit' = [streamCredit EXCEPT ![id] = Earn(@, n)] /\ credited' = credited \cup {id}
      BY <2>2 DEF ReportConsumed
    <3> DEFINE e == Earn(streamCredit[id], n)
    <3>2. mine = Due(streamCredit[id], n)
      BY <2>2
    <3> HIDE DEF n, mine
    <3>3. /\ mine \in Nat /\ e \in Credit /\ e.granted = streamCredit[id].granted + mine
          /\ e.granted + e.pending = streamCredit[id].granted + streamCredit[id].pending + n
          /\ e.pending < ReplenishThreshold
      BY <1>1, <2>1, <3>2, EarnIs
    <3>4. streamCredit'[id] = e /\ streamCredit' = [streamCredit EXCEPT ![id] = e]
      BY <1>1, <3>1
    <3> HIDE DEF e
    <3>5. streamCredit' \in [Streams -> Credit] /\ \A d \in Streams \ {id} : streamCredit'[d] = streamCredit[d]
      BY <1>1, <3>3, <3>4
    <3> QED BY <1>1, <2>2, <3>1, <3>3, <3>4, <3>5
  <2>3. CASE ~report[id].more
    <3>1. UNCHANGED <<streamCredit, credited>>
      BY <2>3 DEF ReportConsumed
    <3>2. streamCredit[id].granted \in Nat /\ streamCredit[id].pending \in Nat
      BY <2>1 DEF Credit
    <3> QED BY <1>1, <2>3, <3>1, <3>2
  <2> QED BY <2>2, <2>3
<1>5. Consumes(id, n, due, mine)
  <2> HIDE DEF due, mine
  <2> QED BY <1>2, <1>3, <1>4 DEF Consumes
<1> QED BY <1>5

\* What is earned leaves the handler's hands; what is due counts as granted and is owed to
\* the peer until it is enqueued.
LEMMA ConsumesKeeps ==
    ASSUME RecvIInv, NEW id \in Streams, NEW n, NEW due, NEW mine, Consumes(id, n, due, mine) PROVE RecvIInv'
<1>1. /\ handler[id] = "reporting" /\ due \in Nat /\ mine \in Nat /\ n = report[id].n
      /\ UNCHANGED <<up, down, peerConn, peerStream, peerDone, connRecv, recv, live, reader, frame, overrun,
                     lost, body>>
  BY DEF Consumes, HandlerSteps
<1>2. RecvTypes /\ body \in Bodies /\ report \in Accounts /\ n \in Nat
  BY <1>1 DEF RecvIInv, RecvTypes, Accounts
<1>3. /\ report[id].conn = 0 /\ report[id].stream = 0 /\ (~report[id].more => body[id].ended)
  BY <1>1 DEF RecvIInv, Reports
<1>4. /\ report' \in Accounts /\ report'[id].n = 0 /\ report'[id].conn = due /\ report'[id].stream = mine
      /\ \A d \in Streams \ {id} : report'[d] = report[d]
  <2>1. report' = [report EXCEPT ![id] = [NoReport EXCEPT !.conn = due, !.stream = mine]]
    BY DEF Consumes
  <2> QED BY <1>1, <1>2, <2>1 DEF Accounts, NoReport
<1>5. /\ handler' \in [Streams -> {"running", "parked", "reporting", "enqueueing", "returned"}]
      /\ \A d \in Streams \ {id} : handler'[d] = handler[d]
      /\ \/ handler'[id] = "running" /\ report'[id].conn = 0 /\ report'[id].stream = 0
         \/ handler'[id] = "enqueueing"
  <2>1. handler \in [Streams -> {"running", "parked", "reporting", "enqueueing", "returned"}]
    BY <1>2 DEF RecvTypes
  <2>2. report'[id] = NoReport => report'[id].conn = 0 /\ report'[id].stream = 0
    BY DEF NoReport
  <2> QED BY <2>1, <2>2 DEF Consumes
<1>6. /\ connCredit' \in Credit /\ connCredit'.granted = connCredit.granted + due
      /\ connCredit'.granted + connCredit'.pending = connCredit.granted + connCredit.pending + n
      /\ connCredit'.pending < ReplenishThreshold
      /\ streamCredit' \in [Streams -> Credit] /\ credited' \subseteq Streams
      /\ streamCredit'[id].granted = streamCredit[id].granted + mine
      /\ streamCredit'[id].granted + streamCredit'[id].pending
           = streamCredit[id].granted + streamCredit[id].pending + (IF report[id].more THEN n ELSE 0)
      /\ streamCredit'[id].pending < ReplenishThreshold
      /\ \A d \in Streams \ {id} : streamCredit'[d] = streamCredit[d]
  BY DEF Consumes
<1>7. RecvTypes'
  BY <1>1, <1>2, <1>4, <1>5, <1>6 DEF RecvTypes
<1>8. Holding(body, report') = Holding(body, report) - n /\ Owed(report') = Owed(report) + due
  <2>1. SameBut(id, body, report, body, report')
    BY <1>4 DEF SameBut
  <2>2. /\ Holding(body, report') = Holding(body, report) + (SumFunction(body[id].chunks) + report'[id].n)
                                      - (SumFunction(body[id].chunks) + report[id].n)
        /\ Owed(report') = Owed(report) + report'[id].conn - report[id].conn
    BY <1>2, <1>4, <2>1, HoldingChanges
  <2>3. Holding(body, report) \in Nat /\ Owed(report) \in Nat /\ SumFunction(body[id].chunks) \in Nat
    BY <1>2, NumbersAre DEF Unread
  <2> QED BY <1>1, <1>2, <1>3, <1>4, <2>2, <2>3
<1>9. ConnAgreement'
  <2>1. peerConn + Carried(up) + Octets(frame) + Returned(down, 0) + Owed(report)
          = connRecv + connCredit.granted
    BY ConnAgreementIs DEF RecvIInv
  <2>2. peerConn \in Nat /\ connRecv \in Nat /\ connCredit'.granted = connCredit.granted + due /\ due \in Nat
    BY <1>1, <1>2, <1>6 DEF RecvTypes
  <2>3. peerConn + Carried(up) + Octets(frame) + Returned(down, 0) + Owed(report')
          = connRecv + connCredit'.granted
    <3>1. Owed(report') = Owed(report) + due
      BY <1>8
    <3> QED BY <1>2, <2>1, <2>2, <3>1, NumbersAre
  <2> QED BY <1>1, <2>3 DEF ConnAgreement, Owed
<1>10. ConnConserved'
  <2>1. connRecv + connCredit.granted + connCredit.pending + Holding(body, report) + lost = InitialWindowSize
    BY ConnConservedIs DEF RecvIInv
  <2>2. /\ connRecv \in Nat /\ lost \in Nat /\ connCredit.granted \in Nat /\ connCredit.pending \in Nat
        /\ connCredit'.granted \in Nat /\ connCredit'.pending \in Nat /\ Holding(body, report) \in Nat
    BY <1>2, <1>6, NumbersAre DEF RecvTypes, Credit
  <2>3. /\ connCredit'.granted + connCredit'.pending = connCredit.granted + connCredit.pending + n
        /\ n \in Nat /\ Holding(body, report') = Holding(body, report) - n
    BY <1>2, <1>6, <1>8
  <2>4. connRecv + connCredit'.granted + connCredit'.pending + Holding(body, report') + lost = InitialWindowSize
    BY <2>1, <2>2, <2>3
  <2> QED BY <1>1, <2>4 DEF ConnConserved, Holding, Unread
<1>11. StreamAgreement'
  <2> SUFFICES ASSUME NEW d \in live
               PROVE  peerStream[d] + CarriedOf(up, d) + InHand(d) + Returned(down, d) + report'[d].stream
                        = recv[d] + streamCredit'[d].granted
    BY <1>1 DEF StreamAgreement, InHand
  <2>1. d \in Streams
    BY <1>2 DEF RecvTypes
  <2>2. peerStream[d] + CarriedOf(up, d) + InHand(d) + Returned(down, d) + report[d].stream
          = recv[d] + streamCredit[d].granted
    BY DEF RecvIInv, StreamAgreement
  <2>3. CASE d = id
    <3>1. /\ peerStream[d] \in Nat /\ CarriedOf(up, d) \in Nat /\ InHand(d) \in Nat /\ Returned(down, d) \in Nat
          /\ recv[d] \in Nat /\ streamCredit[d].granted \in Nat
      BY <1>2, <2>1, NumbersAre
    <3>2. report[d].stream = 0 /\ report'[d].stream = mine /\ mine \in Nat
          /\ streamCredit'[d].granted = streamCredit[d].granted + mine
      BY <1>1, <1>3, <1>4, <1>6, <2>3
    <3> QED BY <2>2, <3>1, <3>2
  <2>4. CASE d # id
    BY <1>4, <1>6, <2>1, <2>2, <2>4
  <2> QED BY <2>3, <2>4
<1>12. StreamConserved'
  <2> SUFFICES ASSUME NEW d \in Streams
               PROVE  /\ Total(d)' <= InitialWindowSize
                      /\ ~body[d].ended /\ ~body[d].failed => InitialWindowSize <= Total(d)' + lost
    BY <1>1 DEF StreamConserved
  <2>1. CASE d = id
    <3>1. Total(d)' = recv[d] + streamCredit'[d].granted + streamCredit'[d].pending + Unread(d) + 0
      BY <1>1, <1>4, <2>1 DEF Total, Unread
    <3>2. Total(d) = recv[d] + streamCredit[d].granted + streamCredit[d].pending + Unread(d) + n
      BY <1>1, <2>1 DEF Total
    <3>3. /\ recv[d] \in Nat /\ streamCredit[d].granted \in Nat /\ streamCredit[d].pending \in Nat
          /\ streamCredit'[d].granted \in Nat /\ streamCredit'[d].pending \in Nat /\ Unread(d) \in Nat
      BY <1>2, <1>6, NumbersAre DEF Credit
    <3>4. streamCredit'[d].granted + streamCredit'[d].pending
            = streamCredit[d].granted + streamCredit[d].pending + (IF report[d].more THEN n ELSE 0)
      BY <1>6, <2>1
    <3>5. /\ Total(d) <= InitialWindowSize
          /\ ~body[d].ended /\ ~body[d].failed => InitialWindowSize <= Total(d) + lost
      BY DEF RecvIInv, StreamConserved
    <3> DEFINE after == Total(d)'
    <3>6. Total(d) \in Nat /\ after \in Nat /\ InitialWindowSize \in Nat /\ n \in Nat
      BY <1>2, <3>1, <3>2, <3>3, RecvAssumption
    <3>7. CASE report[d].more
      <4>1. after = Total(d)
        <5>1. streamCredit'[d].granted + streamCredit'[d].pending
                = streamCredit[d].granted + streamCredit[d].pending + n
          BY <3>4, <3>7
        <5>2. after = recv[d] + streamCredit'[d].granted + streamCredit'[d].pending + Unread(d) + 0
          BY <3>1
        <5> HIDE DEF after
        <5> QED BY <3>2, <3>3, <3>6, <5>1, <5>2
      <4> HIDE DEF after
      <4>2. /\ after <= InitialWindowSize
            /\ ~body[d].ended /\ ~body[d].failed => InitialWindowSize <= after + lost
        BY <3>5, <4>1
      <4> QED BY <4>2 DEF after
    <3>8. CASE ~report[d].more
      <4>1. after + n = Total(d)
        <5>1. streamCredit'[d].granted + streamCredit'[d].pending
                = streamCredit[d].granted + streamCredit[d].pending
          BY <3>3, <3>4, <3>8
        <5>2. after = recv[d] + streamCredit'[d].granted + streamCredit'[d].pending + Unread(d)
          BY <3>1, <3>3
        <5>3. n \in Nat
          BY <1>2
        <5> HIDE DEF after
        <5> QED BY <3>2, <3>3, <5>1, <5>2, <5>3
      <4>2. body[d].ended
        BY <1>3, <2>1, <3>8
      <4> HIDE DEF after
      <4>3. after <= InitialWindowSize
        BY <3>5, <3>6, <4>1
      <4> QED BY <4>2, <4>3 DEF after
    <3> QED BY <3>7, <3>8
  <2>2. CASE d # id
    <3>1. Total(d)' = Total(d)
      BY <1>1, <1>4, <1>6, <2>2 DEF Total, Unread
    <3> QED BY <3>1 DEF RecvIInv, StreamConserved
  <2> QED BY <2>1, <2>2
<1>13. FrameFits' /\ InOrder'
  BY <1>1 DEF RecvIInv, FrameFits, InOrder
<1>14. Pending'
  <2>1. \A d \in Streams : streamCredit'[d].pending < ReplenishThreshold
    BY <1>6 DEF RecvIInv, Pending
  <2> QED BY <1>6, <2>1 DEF Pending
<1>15. Reports'
  <2> SUFFICES ASSUME NEW d \in Streams
               PROVE  /\ handler'[d] \in {"running", "parked", "returned"} =>
                          report'[d].n = 0 /\ report'[d].conn = 0 /\ report'[d].stream = 0
                      /\ handler'[d] = "reporting" =>
                          /\ report'[d].conn = 0 /\ report'[d].stream = 0
                          /\ ~report'[d].more => body[d].ended
                      /\ handler'[d] = "enqueueing" => report'[d].n = 0
    BY <1>1 DEF Reports
  <2>1. CASE d = id
    BY <1>4, <1>5, <2>1
  <2>2. CASE d # id
    BY <1>4, <1>5, <2>2 DEF RecvIInv, Reports
  <2> QED BY <2>1, <2>2
<1>16. ParkedWait'
  <2>1. \A d \in Streams : handler'[d] = "parked" => handler[d] = "parked"
    BY <1>5
  <2> QED BY <1>1, <2>1 DEF RecvIInv, ParkedWait
<1> QED BY <1>7, <1>9, <1>10, <1>11, <1>12, <1>13, <1>14, <1>15, <1>16 DEF RecvIInv

\* Table.ReportConsumed keeps the accounts.
LEMMA ReportConsumedKeeps == ASSUME RecvIInv, NEW id \in Streams, ReportConsumed(id) PROVE RecvIInv'
  BY ReportConsumedIs, ConsumesKeeps

-----------------------------------------------------------------------------
\* A WINDOW_UPDATE is enqueued for window w, the connection's or this stream's own.
Enqueues(id, w) ==
    LET inc == IF w = 0 THEN report[id].conn ELSE report[id].stream IN
    /\ w \in {0, id} /\ handler[id] = "enqueueing"
    /\ down' = Append(down, [id |-> w, inc |-> inc])
    /\ report' \in Accounts /\ report'[id].n = 0 /\ \A d \in Streams \ {id} : report'[d] = report[d]
    /\ report'[id].conn = IF w = 0 THEN 0 ELSE report[id].conn
    /\ report'[id].stream = IF w = 0 THEN report[id].stream ELSE 0
    /\ handler' \in [Streams -> {"running", "parked", "reporting", "enqueueing", "returned"}]
    /\ \A d \in Streams \ {id} : handler'[d] = handler[d]
    /\ \/ handler'[id] = "running" /\ report'[id].conn = 0 /\ report'[id].stream = 0
       \/ handler'[id] = "enqueueing"
    /\ UNCHANGED <<connCredit, streamCredit, credited, body>> /\ HandlerSteps

\* The connection's WINDOW_UPDATE is enqueued.
LEMMA EnqueueConnIs == ASSUME RecvIInv, NEW id \in Streams, EnqueueConn(id) PROVE Enqueues(id, 0)
<1>1. /\ handler[id] = "enqueueing" /\ down' = Append(down, [id |-> 0, inc |-> report[id].conn])
      /\ report' = [report EXCEPT ![id].conn = 0]
      /\ handler' = [handler EXCEPT ![id] = IF report[id].stream = 0 THEN "running" ELSE "enqueueing"]
      /\ UNCHANGED <<connCredit, streamCredit, credited, body>> /\ HandlerSteps
  BY DEF EnqueueConn, HandlerSteps, peer, windows, credit, reading
<1>2. /\ report \in Accounts /\ report[id].n = 0
      /\ handler \in [Streams -> {"running", "parked", "reporting", "enqueueing", "returned"}]
  BY <1>1 DEF RecvIInv, RecvTypes, Reports
<1>3. /\ report' \in Accounts /\ report'[id].n = 0 /\ \A d \in Streams \ {id} : report'[d] = report[d]
      /\ report'[id].conn = 0 /\ report'[id].stream = report[id].stream
  BY <1>1, <1>2 DEF Accounts
<1> QED BY <1>1, <1>2, <1>3 DEF Enqueues

\* The stream's own WINDOW_UPDATE is enqueued.
LEMMA EnqueueStreamIs == ASSUME RecvIInv, NEW id \in Streams, EnqueueStream(id) PROVE Enqueues(id, id)
<1>1. /\ handler[id] = "enqueueing" /\ down' = Append(down, [id |-> id, inc |-> report[id].stream])
      /\ report[id].conn = 0 /\ report' = [report EXCEPT ![id] = NoReport]
      /\ handler' = [handler EXCEPT ![id] = "running"]
      /\ UNCHANGED <<connCredit, streamCredit, credited, body>> /\ HandlerSteps
  BY DEF EnqueueStream, HandlerSteps, peer, windows, credit, reading
<1>2. /\ report \in Accounts /\ id # 0
      /\ handler \in [Streams -> {"running", "parked", "reporting", "enqueueing", "returned"}]
  BY RecvAssumption DEF RecvIInv, RecvTypes
<1>3. /\ report' \in Accounts /\ report'[id].n = 0 /\ \A d \in Streams \ {id} : report'[d] = report[d]
      /\ report'[id].conn = 0 /\ report'[id].stream = 0
  BY <1>1, <1>2 DEF Accounts, NoReport
<1> QED BY <1>1, <1>2, <1>3 DEF Enqueues

\* What was owed is on the wire.
LEMMA EnqueuesKeeps == ASSUME RecvIInv, NEW id \in Streams, NEW w, Enqueues(id, w) PROVE RecvIInv'
<1> DEFINE inc == IF w = 0 THEN report[id].conn ELSE report[id].stream
           f == [id |-> w, inc |-> inc]
<1>1. /\ handler[id] = "enqueueing" /\ down' = Append(down, f) /\ w \in {0, id}
      /\ UNCHANGED <<up, peerConn, peerStream, peerDone, connRecv, recv, live, connCredit, streamCredit,
                     credited, reader, frame, overrun, lost, body>>
  BY DEF Enqueues, HandlerSteps
<1>2. RecvTypes /\ body \in Bodies /\ report \in Accounts /\ down \in Seq(DownFrame) /\ 0 \notin Streams
  BY RecvAssumption DEF RecvIInv, RecvTypes
<1>3. report[id].n = 0 /\ report[id].conn \in Nat /\ report[id].stream \in Nat
  BY <1>1, <1>2 DEF RecvIInv, Reports, Accounts
<1>4. /\ report' \in Accounts /\ report'[id].n = 0 /\ \A d \in Streams \ {id} : report'[d] = report[d]
      /\ report'[id].conn = (IF w = 0 THEN 0 ELSE report[id].conn)
      /\ report'[id].stream = (IF w = 0 THEN report[id].stream ELSE 0)
      /\ handler' \in [Streams -> {"running", "parked", "reporting", "enqueueing", "returned"}]
      /\ \A d \in Streams \ {id} : handler'[d] = handler[d]
      /\ \/ handler'[id] = "running" /\ report'[id].conn = 0 /\ report'[id].stream = 0
         \/ handler'[id] = "enqueueing"
  BY DEF Enqueues
<1>5. f \in DownFrame /\ f.id = w /\ f.inc = inc /\ inc \in Nat
  BY <1>1, <1>3 DEF DownFrame
<1>6. down' \in Seq(DownFrame)
  BY <1>1, <1>2, <1>5, AppendProperties
<1>7. ASSUME NEW d \in Streams \cup {0} PROVE Returned(down', d) = Returned(down, d) + (IF w = d THEN inc ELSE 0)
  <2> HIDE DEF f
  <2>1. Returned(Append(down, f), d) = Returned(down, d) + (IF f.id = d THEN f.inc ELSE 0)
    BY <1>2, <1>5, ReturnedIs
  <2> QED BY <1>1, <1>5, <2>1
<1> HIDE DEF inc, f
<1>8. RecvTypes'
  BY <1>1, <1>2, <1>4, <1>6 DEF RecvTypes
<1>9. Holding(body, report') = Holding(body, report) /\ Owed(report') = Owed(report) + report'[id].conn - report[id].conn
  <2>1. SameBut(id, body, report, body, report')
    BY <1>4 DEF SameBut
  <2>2. /\ Holding(body, report') = Holding(body, report) + (SumFunction(body[id].chunks) + report'[id].n)
                                      - (SumFunction(body[id].chunks) + report[id].n)
        /\ Owed(report') = Owed(report) + report'[id].conn - report[id].conn
    BY <1>2, <1>4, <2>1, HoldingChanges
  <2>3. Holding(body, report) \in Nat /\ SumFunction(body[id].chunks) \in Nat
    BY <1>2, NumbersAre DEF Unread
  <2> QED BY <1>3, <1>4, <2>2, <2>3
<1>10. ConnAgreement'
  <2>1. peerConn + Carried(up) + Octets(frame) + Returned(down, 0) + Owed(report)
          = connRecv + connCredit.granted
    BY ConnAgreementIs DEF RecvIInv
  <2>2. /\ peerConn \in Nat /\ Carried(up) \in Nat /\ Octets(frame) \in Nat /\ Returned(down, 0) \in Nat
        /\ Owed(report) \in Nat
    BY <1>2, NumbersAre DEF RecvTypes
  <2>3. Returned(down', 0) + Owed(report') = Returned(down, 0) + Owed(report)
    <3>1. CASE w = 0
      <4>1. Returned(down', 0) = Returned(down, 0) + report[id].conn
        BY <1>7, <3>1 DEF inc
      <4>2. Owed(report') = Owed(report) + 0 - report[id].conn
        BY <1>4, <1>9, <3>1
      <4> QED BY <1>3, <2>2, <4>1, <4>2
    <3>2. CASE w # 0
      <4>1. Returned(down', 0) = Returned(down, 0) + 0
        BY <1>7, <3>2
      <4>2. Owed(report') = Owed(report) + report[id].conn - report[id].conn
        BY <1>4, <1>9, <3>2
      <4> QED BY <1>3, <2>2, <4>1, <4>2
    <3> QED BY <3>1, <3>2
  <2>4. Returned(down', 0) \in Nat /\ Owed(report') \in Nat
    BY <1>4, <1>6, <1>2, ReturnedIs, HoldingIs
  <2>5. peerConn + Carried(up) + Octets(frame) + Returned(down', 0) + Owed(report')
          = connRecv + connCredit.granted
    BY <2>1, <2>2, <2>3, <2>4
  <2> QED BY <1>1, <2>5 DEF ConnAgreement, Owed
<1>11. ConnConserved'
  BY <1>1, <1>9, ConnConservedIs DEF RecvIInv, ConnConserved, Holding, Unread
<1>12. StreamAgreement'
  <2> SUFFICES ASSUME NEW d \in live
               PROVE  peerStream[d] + CarriedOf(up, d) + InHand(d) + Returned(down', d) + report'[d].stream
                        = recv[d] + streamCredit[d].granted
    BY <1>1 DEF StreamAgreement, InHand
  <2>1. d \in Streams /\ d # 0
    BY <1>2 DEF RecvTypes
  <2>2. peerStream[d] + CarriedOf(up, d) + InHand(d) + Returned(down, d) + report[d].stream
          = recv[d] + streamCredit[d].granted
    BY DEF RecvIInv, StreamAgreement
  <2>3. /\ peerStream[d] \in Nat /\ CarriedOf(up, d) \in Nat /\ InHand(d) \in Nat /\ Returned(down, d) \in Nat
        /\ report[d].stream \in Nat
    BY <1>2, <2>1, NumbersAre
  <2>4. Returned(down', d) + report'[d].stream = Returned(down, d) + report[d].stream
    <3>1. CASE w = d
      <4>1. w # 0 /\ d = id
        BY <1>1, <2>1, <3>1
      <4>2. Returned(down', d) = Returned(down, d) + report[d].stream /\ report'[d].stream = 0
        BY <1>4, <1>7, <2>1, <3>1, <4>1 DEF inc
      <4> QED BY <2>3, <4>2
    <3>2. CASE w # d
      <4>1. report'[d].stream = report[d].stream
        BY <1>1, <1>4, <2>1, <3>2
      <4>2. Returned(down', d) = Returned(down, d) + 0
        BY <1>7, <2>1, <3>2
      <4> QED BY <2>3, <4>1, <4>2
    <3> QED BY <3>1, <3>2
  <2>5. Returned(down', d) \in Nat /\ report'[d].stream \in Nat
    BY <1>4, <1>6, <2>1, ReturnedIs DEF Accounts
  <2> QED BY <2>2, <2>3, <2>4, <2>5
<1>13. StreamConserved'
  <2>1. \A d \in Streams : report'[d].n = report[d].n
    BY <1>3, <1>4
  <2> QED BY <1>1, <2>1 DEF RecvIInv, StreamConserved, Total, Unread
<1>14. FrameFits' /\ Pending' /\ InOrder'
  BY <1>1 DEF RecvIInv, FrameFits, Pending, InOrder
<1>15. Reports'
  <2> SUFFICES ASSUME NEW d \in Streams
               PROVE  /\ handler'[d] \in {"running", "parked", "returned"} =>
                          report'[d].n = 0 /\ report'[d].conn = 0 /\ report'[d].stream = 0
                      /\ handler'[d] = "reporting" =>
                          /\ report'[d].conn = 0 /\ report'[d].stream = 0
                          /\ ~report'[d].more => body[d].ended
                      /\ handler'[d] = "enqueueing" => report'[d].n = 0
    BY <1>1 DEF Reports
  <2>1. CASE d = id
    BY <1>4, <2>1
  <2>2. CASE d # id
    BY <1>4, <2>2 DEF RecvIInv, Reports
  <2> QED BY <2>1, <2>2
<1>16. ParkedWait'
  <2>1. \A d \in Streams : handler'[d] = "parked" => handler[d] = "parked"
    BY <1>4
  <2> QED BY <1>1, <2>1 DEF RecvIInv, ParkedWait
<1> QED BY <1>8, <1>10, <1>11, <1>12, <1>13, <1>14, <1>15, <1>16 DEF RecvIInv

-----------------------------------------------------------------------------
\* The invariant holds before the first frame.
LEMMA RecvStarts == RecvInit => RecvIInv
<1> SUFFICES ASSUME RecvInit PROVE RecvIInv
  OBVIOUS
<1>1. /\ up = <<>> /\ down = <<>> /\ peerConn = InitialWindowSize /\ peerDone = {}
      /\ peerStream = [id \in Streams |-> InitialWindowSize] /\ connRecv = InitialWindowSize
      /\ recv = [id \in Streams |-> InitialWindowSize] /\ live = Streams
      /\ connCredit = NoCredit /\ streamCredit = [id \in Streams |-> NoCredit] /\ credited = {}
      /\ reader = "idle" /\ frame = NoDataFrame /\ overrun = FALSE /\ lost = 0
      /\ body = [id \in Streams |-> [chunks |-> <<>>, ended |-> FALSE, failed |-> FALSE]]
      /\ handler = [id \in Streams |-> "running"] /\ report = [id \in Streams |-> NoReport]
  BY DEF RecvInit
<1>2. /\ InitialWindowSize \in Nat /\ ReplenishThreshold \in Nat /\ 0 < ReplenishThreshold
      /\ <<>> \in Seq(UpFrame) /\ <<>> \in Seq(DownFrame) /\ <<>> \in Seq(Nat) /\ 0 \notin Streams
  BY RecvAssumption, EmptySeq
<1>3. \A id \in Streams :
        /\ peerStream[id] = InitialWindowSize /\ recv[id] = InitialWindowSize
        /\ streamCredit[id].granted = 0 /\ streamCredit[id].pending = 0
        /\ report[id].n = 0 /\ report[id].conn = 0 /\ report[id].stream = 0
        /\ body[id].chunks = <<>> /\ ~body[id].ended /\ ~body[id].failed /\ handler[id] = "running"
  BY <1>1 DEF NoCredit, NoReport
<1>4. RecvTypes
  <2>1. connCredit \in Credit /\ streamCredit \in [Streams -> Credit]
    BY <1>1 DEF NoCredit, Credit
  <2>2. body \in Bodies /\ report \in Accounts
    BY <1>1, <1>2 DEF Bodies, Accounts, NoReport
  <2>3. peerStream \in [Streams -> Nat] /\ recv \in [Streams -> Nat]
        /\ handler \in [Streams -> {"running", "parked", "reporting", "enqueueing", "returned"}]
    BY <1>1, <1>2
  <2> QED BY <1>1, <1>2, <2>1, <2>2, <2>3 DEF RecvTypes
<1>5. Carried(up) = 0 /\ Octets(frame) = 0 /\ Returned(down, 0) = 0
      /\ \A id \in Streams : CarriedOf(up, id) = 0 /\ Returned(down, id) = 0 /\ InHand(id) = 0
  <2>1. Octets(frame) = 0 /\ \A id \in Streams : InHand(id) = 0
    BY <1>1, <1>2 DEF NoDataFrame, Octets, InHand
  <2>2. Carried(up) = 0 /\ \A id \in Streams : CarriedOf(up, id) = 0
    BY <1>1, <1>2, CarriedIs, CarriedOfIs
  <2>3. \A id \in Streams \cup {0} : Returned(down, id) = 0
    BY <1>1, <1>2, ReturnedIs
  <2> QED BY <2>1, <2>2, <2>3
<1>6. Owed(report) = 0 /\ Holding(body, report) = 0
  <2>1. body \in Bodies /\ report \in Accounts
    BY <1>4 DEF RecvTypes
  <2> QED BY <1>3, <2>1, HoldingIs
<1>7. connCredit.granted = 0 /\ connCredit.pending = 0
  BY <1>1 DEF NoCredit
<1>8. ConnAgreement
  BY <1>1, <1>2, <1>5, <1>6, <1>7, ConnAgreementIs
<1>9. ConnConserved
  BY <1>1, <1>2, <1>6, <1>7, ConnConservedIs
<1>10. StreamAgreement
  BY <1>1, <1>2, <1>3, <1>5 DEF StreamAgreement
<1>11. StreamConserved
  <2>1. \A id \in Streams : Unread(id) = 0
    BY <1>2, <1>3, ChunksAre DEF Unread
  <2>2. \A id \in Streams : Total(id) = InitialWindowSize
    BY <1>2, <1>3, <2>1 DEF Total
  <2> QED BY <1>1, <1>2, <2>2 DEF StreamConserved
<1>12. FrameFits /\ Reports /\ ParkedWait
  BY <1>1, <1>3 DEF FrameFits, Reports, ParkedWait
<1>13. Pending
  BY <1>2, <1>3, <1>7 DEF Pending
<1>14. InOrder
  <2>1. 1 .. Len(up) = {}
    BY <1>1
  <2> QED BY <1>1, <1>3, <2>1 DEF InOrder
<1> QED BY <1>4, <1>8, <1>9, <1>10, <1>11, <1>12, <1>13, <1>14 DEF RecvIInv

\* Every step of the peer, of the reader and of the handlers keeps it.
LEMMA RecvSteps == RecvIInv /\ [RecvNext]_recvVars => RecvIInv'
<1> SUFFICES ASSUME RecvIInv, [RecvNext]_recvVars PROVE RecvIInv'
  OBVIOUS
<1>1. ASSUME NEW id \in Streams, NEW octets \in Payloads, NEW pad \in Pads, NEW end \in BOOLEAN,
             SendData(id, octets, pad, end)
      PROVE  RecvIInv'
  BY <1>1, SendDataKeeps
<1>2. ASSUME NEW id \in Streams, SendReset(id) PROVE RecvIInv'
  BY <1>2, SendResetKeeps
<1>3. CASE ReceiveWindowUpdate
  BY <1>3, ReceiveWindowUpdateKeeps
<1>4. CASE HandleFrame
  BY <1>4, ReadFrameKeeps, DrainCreditKeeps, DataKeeps, RstStreamKeeps DEF HandleFrame
<1>5. ASSUME NEW id \in Streams, Handler(id) PROVE RecvIInv'
  <2>1. CASE EnqueueConn(id)
    BY <2>1, EnqueueConnIs, EnqueuesKeeps
  <2>2. CASE EnqueueStream(id)
    BY <2>2, EnqueueStreamIs, EnqueuesKeeps
  <2> QED BY <1>5, <2>1, <2>2, TakeKeeps, ParkKeeps, ReportConsumedKeeps, ReturnKeeps DEF Handler
<1>6. CASE UNCHANGED recvVars
  <2>1. /\ HandlerSteps
        /\ UNCHANGED <<down, connCredit, streamCredit, credited, body, report, handler>>
    BY <1>6 DEF recvVars, HandlerSteps, peer, windows, credit, reading, handling
  <2>2. RecvTypes' /\ ConnAgreement' /\ ConnConserved'
    BY <2>1 DEF RecvIInv, RecvTypes, ConnAgreement, ConnConserved, Unread, HandlerSteps
  <2>3. StreamAgreement' /\ StreamConserved'
    BY <2>1 DEF RecvIInv, StreamAgreement, StreamConserved, Total, Unread, InHand, HandlerSteps
  <2>4. FrameFits' /\ Pending' /\ InOrder' /\ Reports' /\ ParkedWait'
    BY <2>1 DEF RecvIInv, FrameFits, Pending, InOrder, Reports, ParkedWait, HandlerSteps
  <2> QED BY <2>2, <2>3, <2>4 DEF RecvIInv
<1> QED BY <1>1, <1>2, <1>3, <1>4, <1>5, <1>6 DEF RecvNext

\* The account of credit is kept at both ends of the wire, on the connection and on every
\* stream, at every step of the peer, the reader and the handlers (table.go:573).
THEOREM RecvInductive == RecvSpec => []RecvIInv
  BY RecvStarts, RecvSteps, PTL DEF RecvSpec

\* The invariant holds both accounts and, since no part of them is negative, their bounds.
LEMMA CreditFollows == RecvIInv => CreditIsConserved
<1> SUFFICES ASSUME RecvIInv PROVE CreditIsConserved
  OBVIOUS
<1>1. RecvTypes
  BY DEF RecvIInv
<1>2. RecvTypeOK
  BY <1>1 DEF RecvTypes, RecvTypeOK, Credit
<1>3. NoFalseOverrun /\ ConnAgreement /\ ConnConserved
  BY DEF RecvIInv, FrameFits, NoFalseOverrun
<1>4. connRecv + connCredit.granted <= InitialWindowSize
  <2>1. connRecv + connCredit.granted + connCredit.pending + Holding(body, report) + lost = InitialWindowSize
    BY <1>3, ConnConservedIs
  <2>2. connRecv \in Nat /\ lost \in Nat
    BY <1>1 DEF RecvTypes
  <2> QED BY <1>1, <2>1, <2>2, NumbersAre
<1>5. ASSUME NEW id \in Streams
      PROVE  recv[id] + streamCredit[id].granted <= InitialWindowSize /\ Unread(id) <= InitialWindowSize
  <2>1. Total(id) <= InitialWindowSize
    BY DEF RecvIInv, StreamConserved
  <2>2. /\ recv[id] \in Nat /\ streamCredit[id].granted \in Nat /\ streamCredit[id].pending \in Nat
        /\ Unread(id) \in Nat /\ report[id].n \in Nat
    BY <1>1, NumbersAre
  <2>3. recv[id] + streamCredit[id].granted + streamCredit[id].pending + Unread(id) + report[id].n
          <= InitialWindowSize
    BY <2>1 DEF Total
  <2> QED BY <2>2, <2>3, RecvAssumption
<1> QED BY <1>2, <1>3, <1>4, <1>5 DEF CreditIsConserved, WithinInitial

\* With the wire empty and the handlers parked, the peer's windows are all of the account
\* but what is pending, buffered or lost.
LEMMA HalfFollows == RecvIInv => HalfWindowOnHand
<1> SUFFICES ASSUME RecvIInv, Quiet, NEW id \in Waiting
             PROVE  /\ peerConn + lost + SumFunction([i \in Streams |-> Unread(i)])
                         > InitialWindowSize - ReplenishThreshold
                    /\ peerStream[id] + lost > InitialWindowSize - ReplenishThreshold
  BY DEF HalfWindowOnHand
<1>1. /\ RecvTypes /\ id \in Streams /\ handler[id] = "parked" /\ up = <<>> /\ down = <<>>
      /\ \A d \in Streams : report[d].n = 0 /\ report[d].conn = 0 /\ report[d].stream = 0
  BY DEF RecvIInv, Reports, Quiet, Waiting
<1>2. Octets(frame) = 0 /\ InHand(id) = 0
  <2>1. frame = NoDataFrame /\ id # 0
    BY <1>1, RecvAssumption DEF RecvIInv, FrameFits, Quiet
  <2> QED BY <2>1 DEF NoDataFrame, Octets, InHand
<1>3. Carried(up) = 0 /\ CarriedOf(up, id) = 0 /\ Returned(down, 0) = 0 /\ Returned(down, id) = 0
  BY <1>1, CarriedIs, CarriedOfIs, ReturnedIs DEF RecvTypes
<1>4. /\ peerConn \in Nat /\ connRecv \in Nat /\ lost \in Nat /\ InitialWindowSize \in Nat
      /\ ReplenishThreshold \in Nat /\ body \in Bodies /\ report \in Accounts
  BY <1>1, RecvAssumption DEF RecvTypes
<1>5. peerConn + lost + SumFunction([i \in Streams |-> Unread(i)]) > InitialWindowSize - ReplenishThreshold
  <2>1. Owed(report) = 0
    BY <1>1, <1>4, HoldingIs
  <2>2. peerConn = connRecv + connCredit.granted
    <3>1. peerConn + Carried(up) + Octets(frame) + Returned(down, 0) + Owed(report)
            = connRecv + connCredit.granted
      BY ConnAgreementIs DEF RecvIInv
    <3>2. connCredit.granted \in Nat
      BY <1>1, NumbersAre
    <3> QED BY <1>2, <1>3, <1>4, <2>1, <3>1, <3>2
  <2>3. Holding(body, report) = SumFunction([i \in Streams |-> Unread(i)])
    <3>1. \A i \in Streams : SumFunction(body[i].chunks) + report[i].n = Unread(i)
      <4>1. \A i \in Streams : Unread(i) \in Nat
        BY <1>1, NumbersAre
      <4> QED BY <1>1, <4>1 DEF Unread
    <3>2. [i \in Streams |-> SumFunction(body[i].chunks) + report[i].n] = [i \in Streams |-> Unread(i)]
      BY <3>1
    <3> QED BY <3>2 DEF Holding
  <2>4. connRecv + connCredit.granted + connCredit.pending + Holding(body, report) + lost = InitialWindowSize
    BY ConnConservedIs DEF RecvIInv
  <2>5. connCredit.pending < ReplenishThreshold
    BY DEF RecvIInv, Pending
  <2>6. connCredit.granted \in Nat /\ connCredit.pending \in Nat /\ Holding(body, report) \in Nat
    BY <1>1, NumbersAre
  <2>7. peerConn + lost + Holding(body, report) > InitialWindowSize - ReplenishThreshold
    BY <1>4, <2>2, <2>4, <2>5, <2>6
  <2> QED BY <2>3, <2>7
<1>6. peerStream[id] + lost > InitialWindowSize - ReplenishThreshold
  <2>1. ~body[id].ended /\ ~body[id].failed /\ body[id].chunks = <<>> /\ id \in live
    BY <1>1 DEF RecvIInv, ParkedWait
  <2>2. /\ peerStream[id] \in Nat /\ recv[id] \in Nat /\ streamCredit[id].granted \in Nat
        /\ streamCredit[id].pending \in Nat
    BY <1>1, NumbersAre
  <2>3. peerStream[id] = recv[id] + streamCredit[id].granted
    <3>1. peerStream[id] + CarriedOf(up, id) + InHand(id) + Returned(down, id) + report[id].stream
            = recv[id] + streamCredit[id].granted
      BY <2>1 DEF RecvIInv, StreamAgreement
    <3> QED BY <1>1, <1>2, <1>3, <2>2, <3>1
  <2>4. Total(id) = recv[id] + streamCredit[id].granted + streamCredit[id].pending
    <3>1. Unread(id) = 0
      <4>1. <<>> \in Seq(Nat)
        BY EmptySeq
      <4> QED BY <2>1, <4>1, ChunksAre DEF Unread
    <3> QED BY <1>1, <2>2, <3>1 DEF Total
  <2>5. InitialWindowSize <= Total(id) + lost
    BY <1>1, <2>1 DEF RecvIInv, StreamConserved
  <2>6. streamCredit[id].pending < ReplenishThreshold
    BY <1>1 DEF RecvIInv, Pending
  <2> QED BY <1>4, <2>2, <2>3, <2>4, <2>5, <2>6
<1> QED BY <1>5, <1>6

\* No octet of credit is lost or invented however the drain, the reports and the
\* WINDOW_UPDATEs interleave, so a peer that spends what it was offered is never told it
\* overran (table.go:582), and no window is restored above what it started at (table.go:621).
THEOREM CreditIsConservedCorrect == RecvSpec => []CreditIsConserved
  BY RecvInductive, CreditFollows, PTL

\* When nothing is in motion, a peer whose content a handler waits for has all of both
\* windows but what lies under the threshold, and octets no handler reads (bounds.go:77).
THEOREM HalfWindowOnHandCorrect == RecvSpec => []HalfWindowOnHand
  BY RecvInductive, HalfFollows, PTL
=============================================================================
