------------------------- MODULE Scheduler_proofs --------------------------
(***************************************************************************)
(* Proofs about Scheduler for any finite set of streams, any bands and any *)
(* signals, without the bounds on pushes and signals mattering.            *)
(*                                                                         *)
(* A ring is a sequence in which nothing occurs twice.  That it holds      *)
(* exactly the participants of its band (InRings) is inductive once frames *)
(* are known to be where their kind belongs (Kinds); that a stream waits   *)
(* its turn and no longer follows from its place in the ring and the turns *)
(* it has let pass together never exceeding the number of streams (Turns). *)
(* The counters count slots, places of a frame in a family of queues: a    *)
(* push adds a block of them, a pop takes one, and an item that leaves the *)
(* lane moves the others up (MovedUp).                                     *)
(***************************************************************************)
EXTENDS Scheduler, FiniteSetTheorems, SequenceTheorems, TLAPS

Priority == [urgency : Urgencies, inc : BOOLEAN]
Ring == Seq(Ids \cup {nonIncrementalTurn})
AnyBand == [ring : Ring, nonInc : SUBSET Ids]
Item == [frames : Seq(Frames), stream : Ids \cup {0}, seq : Nat]

\* The type of every variable but the two counters (Counts, below).
Types ==
    /\ seq \in Nat
    /\ lane \in Seq(Item) /\ pinned \in Seq(Frames)
    /\ runs \in [Ids -> Seq(Frames)] /\ data \in [Ids -> Seq(Frames)]
    /\ place \in [Ids -> Priority] /\ prio \in [Ids -> Priority]
    /\ bands \in [Urgencies -> AnyBand]
    /\ phase \in [Ids -> {"start", "inHeaders", "content", "inTrailers", "over"}]
    /\ forgotten \subseteq Ids
    /\ out \in Frames
    /\ skips \in [Ids -> Nat]

\* DATA is queued with its stream, and everything else is not.
Kinds ==
    /\ \A id \in Ids : \A i \in 1 .. Len(data[id]) : data[id][i].kind = "data" /\ data[id][i].id = id
    /\ \A id \in Ids : \A i \in 1 .. Len(runs[id]) : runs[id][i].kind # "data"
    /\ \A k \in 1 .. Len(lane) : /\ lane[k].frames # <<>>
                                 /\ \A i \in 1 .. Len(lane[k].frames) : lane[k].frames[i].kind # "data"
    /\ \A i \in 1 .. Len(pinned) : pinned[i].kind # "data"

\* The band b has the participants of here, of which inc are incremental.
Holds(b, here, inc) ==
    /\ b.nonInc = here \ inc
    /\ ToSet(b.ring) = inc \cup (IF here = inc THEN {} ELSE {nonIncrementalTurn})
    /\ IsInjective(b.ring)

Here(u) == {id \in Waiting : place[id].urgency = u}
Incremental(u) == {id \in Here(u) : place[id].inc}

InRings == \A u \in Urgencies : Holds(bands[u], Here(u), Incremental(u))

\* A stream's place in its ring and the turns it has waited through.
Turns ==
    /\ \A id \in Ids \ Waiting : skips[id] = 0
    /\ \A id \in Waiting : \A i \in 1 .. Len(bands[place[id].urgency].ring) :
         bands[place[id].urgency].ring[i] = id => skips[id] + i <= Cardinality(Ids)

IInv == Types /\ Kinds /\ InRings /\ SignalsApply /\ Turns

(***************************************************************************)
(* The least of a set, which Band and Served take.                         *)
(***************************************************************************)
\* A set of naturals that is not empty has a least element.
LEMMA LeastNatural ==
    ASSUME NEW S \in SUBSET Nat, S # {}
    PROVE  \E i \in S : \A j \in S : i <= j
<1> DEFINE R == OpToRel(<, Nat)
<1>1. IsWellFoundedOn(R, Nat)
  BY NatLessThanWellFounded
<1>2. \A i, j \in Nat : <<j, i>> \in R <=> j < i
  BY DEF OpToRel
<1> HIDE DEF R
<1>3. PICK i \in S : \A j \in S : ~(<<j, i>> \in R)
  BY <1>1, WFMin
<1>4. \A j \in S : ~(j < i)
  BY <1>2, <1>3
<1>5. QED
  BY <1>3, <1>4

LEMMA MinIs ==
    ASSUME NEW S \in SUBSET Nat, S # {}
    PROVE  Min(S) \in S /\ \A j \in S : Min(S) <= j
  BY LeastNatural DEF Min

\* RemoveFirst on a ring takes out the one place where the element is.
LEMMA RemoveFirstIs ==
    ASSUME NEW S, NEW r \in Seq(S), IsInjective(r), NEW p \in 1 .. Len(r)
    PROVE  RemoveFirst(r, r[p]) = SubSeq(r, 1, p - 1) \o SubSeq(r, p + 1, Len(r))
<1> DEFINE I == {i \in 1 .. Len(r) : r[i] = r[p]}
<1>1. I = {p}
  BY LenProperties DEF IsInjective
<1>2. I \in SUBSET Nat /\ I # {}
  BY <1>1
<1>3. Min(I) = p
  BY <1>1, <1>2, MinIs
<1>4. SelectInSeq(r, LAMBDA v : v = r[p]) = Min(I)
  BY <1>1 DEF SelectInSeq
<1> QED
  BY <1>3, <1>4 DEF RemoveFirst, RemoveAt

(***************************************************************************)
(* Rings: sequences in which nothing occurs twice.                         *)
(***************************************************************************)
LEMMA AppendRing ==
    ASSUME NEW S, NEW r \in Seq(S), NEW e \in S
    PROVE  /\ Append(r, e) \in Seq(S) /\ Len(Append(r, e)) = Len(r) + 1
           /\ ToSet(Append(r, e)) = ToSet(r) \cup {e}
           /\ \A i \in 1 .. Len(r) : Append(r, e)[i] = r[i]
           /\ Append(r, e)[Len(r) + 1] = e
           /\ IsInjective(r) /\ e \notin ToSet(r) => IsInjective(Append(r, e))
<1> DEFINE t == Append(r, e)
<1>1. /\ t \in Seq(S) /\ Len(t) = Len(r) + 1 /\ t[Len(r) + 1] = e
      /\ \A i \in 1 .. Len(r) : t[i] = r[i]
  BY AppendProperties
<1>2. Len(r) \in Nat /\ DOMAIN r = 1 .. Len(r) /\ DOMAIN t = 1 .. Len(t)
  BY <1>1, LenProperties
<1> HIDE DEF t
<1>3. DOMAIN t = (DOMAIN r) \cup {Len(r) + 1}
  BY <1>1, <1>2
<1>4. ToSet(t) = ToSet(r) \cup {e}
  BY <1>1, <1>2, <1>3 DEF ToSet
<1>5. ASSUME IsInjective(r), e \notin ToSet(r) PROVE IsInjective(t)
  <2>1. \A i \in DOMAIN r : t[i] = r[i] /\ t[i] # e
    BY <1>1, <1>2, <1>5 DEF ToSet
  <2> QED
    BY <1>1, <1>3, <1>5, <2>1 DEF IsInjective
<1> QED
  BY <1>1, <1>4, <1>5 DEF t

\* A sequence that takes the elements of a ring in another order, each at most once.
LEMMA Reindexed ==
    ASSUME NEW r, NEW t, IsInjective(r), NEW k \in [DOMAIN t -> DOMAIN r], IsInjective(k),
           \A i \in DOMAIN t : t[i] = r[k[i]]
    PROVE  IsInjective(t) /\ \A x : x \in ToSet(t) <=> \E i \in DOMAIN t : x = r[k[i]]
<1>1. \A i, j \in DOMAIN t : k[i] = k[j] => i = j
  BY DEF IsInjective
<1>2. IsInjective(t)
  BY <1>1 DEF IsInjective
<1> QED
  BY <1>2 DEF ToSet

LEMMA RemoveRing ==
    ASSUME NEW S, NEW r \in Seq(S), IsInjective(r), NEW e \in ToSet(r)
    PROVE  LET t == RemoveFirst(r, e) IN
           /\ t \in Seq(S) /\ Len(t) = Len(r) - 1
           /\ ToSet(t) = ToSet(r) \ {e} /\ IsInjective(t)
           /\ \A i \in 1 .. Len(t) : \E j \in {i, i + 1} : j \in 1 .. Len(r) /\ t[i] = r[j]
           /\ r[1] = e => \A i \in 1 .. Len(t) : i + 1 \in 1 .. Len(r) /\ t[i] = r[i + 1]
<1>1. Len(r) \in Nat /\ DOMAIN r = 1 .. Len(r)
  BY LenProperties
<1>2. PICK p \in 1 .. Len(r) : r[p] = e
  BY <1>1 DEF ToSet
<1> DEFINE t == RemoveFirst(r, e)
           front == SubSeq(r, 1, p - 1)
           back == SubSeq(r, p + 1, Len(r))
           m == Len(r) - 1
           k == [i \in 1 .. m |-> IF i <= p - 1 THEN i ELSE i + 1]
<1>3. t = front \o back
  BY <1>2, RemoveFirstIs
<1>4. \A i \in 1 .. Len(r) : r[i] \in S
  BY ElementOfSeq
<1>5. /\ front \in Seq(S) /\ Len(front) = p - 1
      /\ \A i \in 1 .. p - 1 : front[i] = r[i]
  <2>1. \A i \in 1 .. p - 1 : r[i] \in S
    BY <1>1, <1>4
  <2>2. /\ front \in Seq(S) /\ Len(front) = IF 1 <= p - 1 THEN p - 1 - 1 + 1 ELSE 0
        /\ \A i \in 1 .. p - 1 - 1 + 1 : front[i] = r[1 + i - 1]
    BY <2>1, <1>1, SubSeqProperties
  <2> QED
    BY <2>2, <1>1
<1>6. /\ back \in Seq(S) /\ Len(back) = Len(r) - p
      /\ \A i \in 1 .. Len(r) - p : back[i] = r[p + i]
  <2>1. \A i \in p + 1 .. Len(r) : r[i] \in S
    BY <1>1, <1>4
  <2>2. /\ back \in Seq(S) /\ Len(back) = IF p + 1 <= Len(r) THEN Len(r) - (p + 1) + 1 ELSE 0
        /\ \A i \in 1 .. Len(r) - (p + 1) + 1 : back[i] = r[p + 1 + i - 1]
    BY <2>1, <1>1, SubSeqProperties
  <2> HIDE DEF back
  <2>3. ASSUME NEW i \in 1 .. Len(r) - p PROVE back[i] = r[p + i]
    <3>1. i \in 1 .. Len(r) - (p + 1) + 1 /\ p + 1 + i - 1 = p + i
      BY <1>1
    <3> QED
      BY <2>2, <3>1
  <2>4. Len(back) = Len(r) - p
    <3>1. CASE p + 1 <= Len(r)
      BY <1>1, <2>2, <3>1
    <3>2. CASE ~(p + 1 <= Len(r))
      <4>1. Len(back) = 0
        BY <2>2, <3>2
      <4> DEFINE l == Len(r)
      <4>2. l \in Nat /\ p \in 1 .. l /\ ~(p + 1 <= l)
        BY <1>1, <3>2
      <4>3. l - p = 0
        <5> HIDE DEF l
        <5> QED
          BY <4>2
      <4> QED
        BY <4>1, <4>3
    <3> QED
      BY <3>1, <3>2
  <2>5. back \in Seq(S)
    BY <2>2
  <2> QED
    BY <2>3, <2>4, <2>5
<1> HIDE DEF t, front, back
<1>7. /\ t \in Seq(S) /\ Len(t) = m /\ m \in Nat /\ DOMAIN t = 1 .. m
      /\ \A i \in 1 .. m : t[i] = r[k[i]]
  <2>1. /\ t \in Seq(S) /\ Len(t) = Len(front) + Len(back)
        /\ \A i \in 1 .. Len(front) + Len(back) :
             t[i] = IF i <= Len(front) THEN front[i] ELSE back[i - Len(front)]
    BY <1>3, <1>5, <1>6, ConcatProperties
  <2>2. Len(front) + Len(back) = m /\ m \in Nat
    BY <1>1, <1>5, <1>6
  <2>3. \A i \in 1 .. m : t[i] = IF i <= p - 1 THEN front[i] ELSE back[i - (p - 1)]
    BY <1>5, <2>1, <2>2
  <2>4. ASSUME NEW i \in 1 .. m PROVE t[i] = r[k[i]]
    <3>1. CASE i <= p - 1
      BY <1>1, <1>5, <2>3, <3>1
    <3>2. CASE ~(i <= p - 1)
      <4>1. i - (p - 1) \in 1 .. Len(r) - p /\ p + (i - (p - 1)) = i + 1
        BY <1>1, <3>2
      <4>2. back[i - (p - 1)] = r[i + 1]
        BY <1>6, <4>1
      <4> QED
        BY <2>3, <3>2, <4>2
    <3> QED
      BY <3>1, <3>2
  <2> QED
    BY <2>1, <2>2, <2>4, LenProperties
<1>8. /\ k \in [DOMAIN t -> DOMAIN r] /\ IsInjective(k)
      /\ \A i \in 1 .. m : k[i] \in {i, i + 1} /\ k[i] # p
      /\ \A j \in 1 .. Len(r) : j # p => \E i \in 1 .. m : k[i] = j
      /\ p = 1 => \A i \in 1 .. m : k[i] = i + 1
  <2>1. k \in [DOMAIN t -> DOMAIN r]
    BY <1>1, <1>7
  <2>2. IsInjective(k)
    BY <1>1 DEF IsInjective
  <2>3. \A i \in 1 .. m : k[i] \in {i, i + 1} /\ k[i] # p
    BY <1>1
  <2>4. ASSUME NEW j \in 1 .. Len(r), j # p PROVE \E i \in 1 .. m : k[i] = j
    <3>1. CASE j < p
      BY <1>1, <3>1
    <3>2. CASE j > p
      <4>1. j - 1 \in 1 .. m /\ k[j - 1] = j
        BY <1>1, <3>2
      <4> QED
        BY <4>1
    <3> QED
      BY <1>1, <2>4, <3>1, <3>2
  <2>5. p = 1 => \A i \in 1 .. m : k[i] = i + 1
    BY <1>1
  <2> QED
    BY <2>1, <2>2, <2>3, <2>4, <2>5
<1> HIDE DEF k, m
<1>9. IsInjective(t) /\ \A x : x \in ToSet(t) <=> \E i \in DOMAIN t : x = r[k[i]]
  <2>1. \A i \in DOMAIN t : t[i] = r[k[i]]
    BY <1>7
  <2> QED
    BY <1>8, <2>1, Reindexed
<1>10. ToSet(t) = ToSet(r) \ {e}
  <2>1. ASSUME NEW x \in ToSet(t) PROVE x \in ToSet(r) \ {e}
    <3>1. PICK i \in 1 .. m : x = r[k[i]]
      BY <1>7, <1>9
    <3>2. k[i] \in DOMAIN r /\ k[i] # p
      BY <1>7, <1>8
    <3> QED
      BY <1>1, <1>2, <3>1, <3>2 DEF ToSet, IsInjective
  <2>2. ASSUME NEW x \in ToSet(r), x # e PROVE x \in ToSet(t)
    <3>1. PICK j \in 1 .. Len(r) : x = r[j]
      BY <1>1 DEF ToSet
    <3>2. PICK i \in 1 .. m : k[i] = j
      BY <1>2, <1>8, <2>2, <3>1
    <3> QED
      BY <1>7, <1>9, <3>1, <3>2
  <2> QED
    BY <2>1, <2>2
<1>11. \A i \in 1 .. Len(t) : \E j \in {i, i + 1} : j \in 1 .. Len(r) /\ t[i] = r[j]
  BY <1>1, <1>7, <1>8
<1>12. ASSUME r[1] = e PROVE \A i \in 1 .. Len(t) : i + 1 \in 1 .. Len(r) /\ t[i] = r[i + 1]
  <2>1. p = 1
    BY <1>1, <1>2, <1>12 DEF IsInjective
  <2> QED
    BY <1>1, <1>7, <1>8, <2>1
<1> QED
  BY <1>7, <1>9, <1>10, <1>11, <1>12 DEF t, m

LEMMA RotateRing ==
    ASSUME NEW S, NEW r \in Seq(S), IsInjective(r), r # <<>>
    PROVE  LET t == rotate(r) IN
           /\ t \in Seq(S) /\ Len(t) = Len(r)
           /\ ToSet(t) = ToSet(r) /\ IsInjective(t)
           /\ \A i \in 1 .. Len(r) - 1 : t[i] = r[i + 1]
           /\ t[Len(r)] = r[1]
<1> DEFINE rest == Tail(r)
           n0 == Len(r)
           k == [i \in 1 .. n0 |-> IF i = n0 THEN 1 ELSE i + 1]
<1>1. n0 \in Nat \ {0} /\ DOMAIN r = 1 .. n0
  BY LenProperties, EmptySeq
<1>2. /\ rest \in Seq(S) /\ Len(rest) = n0 - 1
      /\ \A i \in 1 .. n0 - 1 : rest[i] = r[i + 1]
  BY HeadTailProperties
<1>3. Head(r) = r[1] /\ r[1] \in S
  BY <1>1, ElementOfSeq
<1> HIDE DEF rest
<1> DEFINE t == Append(rest, r[1])
<1>4. rotate(r) = t
  BY <1>3 DEF rotate, rest
<1>5. /\ t \in Seq(S) /\ Len(t) = n0 /\ t[n0] = r[1]
      /\ \A i \in 1 .. n0 - 1 : t[i] = r[i + 1]
  <2>1. /\ t \in Seq(S) /\ Len(t) = Len(rest) + 1 /\ t[Len(rest) + 1] = r[1]
        /\ \A i \in 1 .. Len(rest) : t[i] = rest[i]
    BY <1>2, <1>3, AppendProperties
  <2>2. Len(rest) + 1 = n0
    BY <1>1, <1>2
  <2> QED
    BY <1>2, <2>1, <2>2
<1>6. DOMAIN t = 1 .. n0
  BY <1>5, LenProperties
<1> HIDE DEF t, n0
<1>7. /\ k \in [DOMAIN t -> DOMAIN r]
      /\ \A i \in 1 .. n0 : t[i] = r[k[i]]
      /\ \A j \in 1 .. n0 : \E i \in 1 .. n0 : k[i] = j
  <2>1. k \in [DOMAIN t -> DOMAIN r]
    BY <1>1, <1>6
  <2>2. \A i \in 1 .. n0 : t[i] = r[k[i]]
    BY <1>1, <1>5
  <2>3. ASSUME NEW j \in 1 .. n0 PROVE \E i \in 1 .. n0 : k[i] = j
    <3>1. CASE j = 1
      BY <1>1, <3>1
    <3>2. CASE j # 1
      <4>1. j - 1 \in 1 .. n0 /\ k[j - 1] = j
        BY <1>1, <3>2
      <4> QED
        BY <4>1
    <3> QED
      BY <3>1, <3>2
  <2> QED
    BY <2>1, <2>2, <2>3
<1>8. IsInjective(k)
  BY <1>1 DEF IsInjective
<1> HIDE DEF k
<1>9. IsInjective(t) /\ \A x : x \in ToSet(t) <=> \E i \in DOMAIN t : x = r[k[i]]
  <2>1. \A i \in DOMAIN t : t[i] = r[k[i]]
    BY <1>6, <1>7
  <2> QED
    BY <1>7, <1>8, <2>1, Reindexed
<1>10. ToSet(t) = ToSet(r)
  <2>1. \A x : x \in ToSet(r) <=> \E j \in 1 .. n0 : x = r[j]
    BY <1>1 DEF ToSet
  <2>2. \A i \in 1 .. n0 : k[i] \in 1 .. n0
    BY <1>1, <1>6, <1>7
  <2>3. ASSUME NEW x PROVE x \in ToSet(t) <=> x \in ToSet(r)
    BY <1>6, <1>7, <1>9, <2>1, <2>2
  <2> QED
    BY <2>3
<1> QED
  BY <1>4, <1>5, <1>9, <1>10 DEF n0

\* A ring is as long as the set of what it holds.
LEMMA RingLength ==
    ASSUME NEW S, NEW r \in Seq(S), IsInjective(r)
    PROVE  IsFiniteSet(ToSet(r)) /\ Cardinality(ToSet(r)) = Len(r)
<1>1. Len(r) \in Nat /\ DOMAIN r = 1 .. Len(r) /\ r \in [1 .. Len(r) -> S]
  BY LenProperties
<1>2. r \in [1 .. Len(r) -> ToSet(r)]
  BY <1>1 DEF ToSet
<1>3. \A x \in ToSet(r) : \E i \in 1 .. Len(r) : r[i] = x
  BY <1>1 DEF ToSet
<1>4. r \in Bijection(1 .. Len(r), ToSet(r))
  BY <1>1, <1>2, <1>3 DEF Bijection, Injection, Surjection, IsInjective
<1>5. ExistsBijection(1 .. Len(r), ToSet(r))
  BY <1>4 DEF ExistsBijection
<1>6. Cardinality(ToSet(r)) = Len(r)
  BY <1>1, <1>5, FS_CountingElements
<1>7. IsFiniteSet(ToSet(r))
  BY <1>1, <1>5, FS_NatBijection
<1> QED
  BY <1>6, <1>7

(***************************************************************************)
(* A band has no more turns than there are streams: its group has one only *)
(* while a member of it has none.                                          *)
(***************************************************************************)
LEMMA RingIsShort ==
    ASSUME NEW b \in AnyBand, NEW here \in SUBSET Ids, NEW inc \in SUBSET here,
           Holds(b, here, inc)
    PROVE  Len(b.ring) <= Cardinality(Ids)
<1>1. b.ring \in Ring
  BY DEF AnyBand
<1>2. IsFiniteSet(ToSet(b.ring)) /\ Cardinality(ToSet(b.ring)) = Len(b.ring)
  BY <1>1, RingLength DEF Holds, Ring
<1>3. IsFiniteSet(Ids) /\ Cardinality(Ids) \in Nat /\ IsFiniteSet(inc)
  BY SchedulerAssumption, FS_CardinalityType, FS_Subset
<1>4. CASE here = inc
  <2>1. ToSet(b.ring) \subseteq Ids
    BY <1>4 DEF Holds
  <2> QED
    BY <1>2, <1>3, <2>1, FS_Subset
<1>5. CASE here # inc
  <2>1. PICK x \in Ids : x \notin inc
    BY <1>5
  <2>2. inc \subseteq Ids \ {x}
    BY <2>1
  <2>3. IsFiniteSet(Ids \ {x}) /\ Cardinality(Ids \ {x}) = Cardinality(Ids) - 1
    BY <1>3, FS_RemoveElement
  <2>4. Cardinality(inc) <= Cardinality(Ids) - 1 /\ Cardinality(inc) \in Nat
    BY <1>3, <2>2, <2>3, FS_Subset, FS_CardinalityType
  <2>5. ToSet(b.ring) = inc \cup {nonIncrementalTurn}
    BY <1>5 DEF Holds
  <2>6. Cardinality(inc \cup {nonIncrementalTurn})
          = IF nonIncrementalTurn \in inc THEN Cardinality(inc) ELSE Cardinality(inc) + 1
    BY <1>3, FS_AddElement
  <2> QED
    BY <1>2, <1>3, <2>4, <2>5, <2>6
<1> QED
  BY <1>4, <1>5

\* A group's turn is nobody's identifier.
LEMMA TurnIsNoId == nonIncrementalTurn \notin Ids
  BY SchedulerAssumption

(***************************************************************************)
(* What a step on a band does to the places of its streams: everybody but  *)
(* id stays, nobody falls back, or everybody moves up by one.              *)
(***************************************************************************)
Stay(b, c, id) ==
    \A x \in Ids \ {id} : \A k \in 1 .. Len(c.ring) :
        c.ring[k] = x => k \in 1 .. Len(b.ring) /\ b.ring[k] = x

NoneFallsBack(b, c) ==
    \A x \in Ids : \A k \in 1 .. Len(c.ring) :
        c.ring[k] = x => \E j \in {k, k + 1} : j \in 1 .. Len(b.ring) /\ b.ring[j] = x

MoveUp(b, c) ==
    \A k \in 1 .. Len(c.ring) : k + 1 \in 1 .. Len(b.ring) /\ c.ring[k] = b.ring[k + 1]

(***************************************************************************)
(* Enter: the newcomer goes to the back, and nobody else moves.            *)
(***************************************************************************)
LEMMA EnterHolds ==
    ASSUME NEW b \in AnyBand, NEW here \in SUBSET Ids, NEW inc \in SUBSET here,
           Holds(b, here, inc), NEW id \in Ids \ here, NEW p \in Priority
    PROVE  LET c == Enter(b, id, p.inc) IN
           /\ c \in AnyBand
           /\ p.inc => Holds(c, here \cup {id}, inc \cup {id})
           /\ ~p.inc => Holds(c, here \cup {id}, inc)
           /\ Stay(b, c, id)
<1> DEFINE S == Ids \cup {nonIncrementalTurn}
           c == Enter(b, id, p.inc)
<1>1. /\ b.ring \in Seq(S) /\ b.nonInc \in SUBSET Ids
      /\ b = [ring |-> b.ring, nonInc |-> b.nonInc]
      /\ Len(b.ring) \in Nat /\ id \in S /\ nonIncrementalTurn \in S
  BY LenProperties DEF AnyBand, Ring
<1>2. /\ b.nonInc = here \ inc /\ IsInjective(b.ring)
      /\ ToSet(b.ring) = inc \cup (IF here = inc THEN {} ELSE {nonIncrementalTurn})
  BY DEF Holds
<1>3. id \notin ToSet(b.ring)
  BY <1>2, TurnIsNoId
<1>4. CASE p.inc
  <2>1. c = [ring |-> Append(b.ring, id), nonInc |-> b.nonInc]
    BY <1>1, <1>4 DEF Enter
  <2>2. /\ Append(b.ring, id) \in Seq(S) /\ Len(Append(b.ring, id)) = Len(b.ring) + 1
        /\ ToSet(Append(b.ring, id)) = ToSet(b.ring) \cup {id}
        /\ \A k \in 1 .. Len(b.ring) : Append(b.ring, id)[k] = b.ring[k]
        /\ Append(b.ring, id)[Len(b.ring) + 1] = id
        /\ IsInjective(Append(b.ring, id))
    BY <1>1, <1>2, <1>3, AppendRing
  <2>3. c \in AnyBand
    BY <1>1, <2>1, <2>2 DEF AnyBand, Ring
  <2>4. (here \cup {id}) \ (inc \cup {id}) = here \ inc
    OBVIOUS
  <2>5. here = inc <=> here \cup {id} = inc \cup {id}
    OBVIOUS
  <2>6. Holds(c, here \cup {id}, inc \cup {id})
    BY <1>2, <2>1, <2>2, <2>4, <2>5 DEF Holds
  <2>7. Stay(b, c, id)
    BY <1>1, <2>1, <2>2 DEF Stay
  <2> QED
    BY <1>4, <2>3, <2>6, <2>7
<1>5. CASE ~p.inc /\ b.nonInc # {}
  <2>1. c = [ring |-> b.ring, nonInc |-> b.nonInc \cup {id}]
    BY <1>5 DEF Enter
  <2>2. c \in AnyBand
    BY <1>1, <2>1 DEF AnyBand, Ring
  <2>3. here # inc /\ here \cup {id} # inc /\ (here \cup {id}) \ inc = (here \ inc) \cup {id}
    BY <1>2, <1>5
  <2>4. Holds(c, here \cup {id}, inc)
    BY <1>2, <2>1, <2>3 DEF Holds
  <2>5. Stay(b, c, id)
    BY <1>1, <2>1 DEF Stay
  <2> QED
    BY <1>5, <2>2, <2>4, <2>5
<1>6. CASE ~p.inc /\ b.nonInc = {}
  <2> DEFINE t == Append(b.ring, nonIncrementalTurn)
  <2>1. c = [ring |-> t, nonInc |-> b.nonInc \cup {id}]
    BY <1>6 DEF Enter
  <2>2. here = inc
    BY <1>2, <1>6
  <2>3. nonIncrementalTurn \notin ToSet(b.ring)
    BY <1>2, <2>2, TurnIsNoId
  <2>4. /\ t \in Seq(S) /\ Len(t) = Len(b.ring) + 1
        /\ ToSet(t) = ToSet(b.ring) \cup {nonIncrementalTurn}
        /\ \A k \in 1 .. Len(b.ring) : t[k] = b.ring[k]
        /\ t[Len(b.ring) + 1] = nonIncrementalTurn
        /\ IsInjective(t)
    BY <1>1, <1>2, <2>3, AppendRing
  <2> HIDE DEF t
  <2>5. c \in AnyBand
    BY <1>1, <2>1, <2>4 DEF AnyBand, Ring
  <2>6. here \cup {id} # inc /\ (here \cup {id}) \ inc = (here \ inc) \cup {id}
    BY <2>2
  <2>7. Holds(c, here \cup {id}, inc)
    BY <1>2, <2>1, <2>2, <2>4, <2>6 DEF Holds
  <2>8. Stay(b, c, id)
    BY <1>1, <2>1, <2>4, TurnIsNoId DEF Stay
  <2> QED
    BY <1>6, <2>5, <2>7, <2>8
<1> QED
  BY <1>4, <1>5, <1>6

(***************************************************************************)
(* Leave: those behind the one that leaves move up by one, and the group   *)
(* keeps its turn while it has members.                                    *)
(***************************************************************************)
LEMMA LeaveHolds ==
    ASSUME NEW b \in AnyBand, NEW here \in SUBSET Ids, NEW inc \in SUBSET here,
           Holds(b, here, inc), NEW id \in here, NEW p \in Priority, p.inc <=> id \in inc
    PROVE  LET c == Leave(b, id, p.inc) IN
           /\ c \in AnyBand
           /\ Holds(c, here \ {id}, inc \ {id})
           /\ NoneFallsBack(b, c)
           /\ p.inc /\ b.ring[1] = id => MoveUp(b, c)
           /\ ~p.inc /\ b.ring[1] = nonIncrementalTurn /\ c.nonInc = {} => MoveUp(b, c)
           /\ ~p.inc /\ c.nonInc # {} => c.ring = b.ring
<1> DEFINE S == Ids \cup {nonIncrementalTurn}
           c == Leave(b, id, p.inc)
<1>1. /\ b.ring \in Seq(S) /\ b.nonInc \in SUBSET Ids
      /\ b = [ring |-> b.ring, nonInc |-> b.nonInc]
      /\ Len(b.ring) \in Nat
  BY LenProperties DEF AnyBand, Ring
<1>2. /\ b.nonInc = here \ inc /\ IsInjective(b.ring)
      /\ ToSet(b.ring) = inc \cup (IF here = inc THEN {} ELSE {nonIncrementalTurn})
  BY DEF Holds
<1>3. CASE p.inc
  <2> DEFINE t == RemoveFirst(b.ring, id)
  <2>1. c = [ring |-> t, nonInc |-> b.nonInc]
    BY <1>1, <1>3 DEF Leave
  <2>2. id \in ToSet(b.ring)
    BY <1>2, <1>3
  <2>3. /\ t \in Seq(S) /\ ToSet(t) = ToSet(b.ring) \ {id} /\ IsInjective(t)
        /\ \A k \in 1 .. Len(t) : \E j \in {k, k + 1} : j \in 1 .. Len(b.ring) /\ t[k] = b.ring[j]
        /\ b.ring[1] = id => \A k \in 1 .. Len(t) : k + 1 \in 1 .. Len(b.ring) /\ t[k] = b.ring[k + 1]
    BY <1>1, <1>2, <2>2, RemoveRing
  <2> HIDE DEF t
  <2>4. c \in AnyBand
    BY <1>1, <2>1, <2>3 DEF AnyBand, Ring
  <2>5. (here \ {id}) \ (inc \ {id}) = here \ inc /\ (here = inc <=> here \ {id} = inc \ {id})
    BY <1>3
  <2>6. id # nonIncrementalTurn
    BY TurnIsNoId
  <2>7. Holds(c, here \ {id}, inc \ {id})
    BY <1>2, <2>1, <2>3, <2>5, <2>6 DEF Holds
  <2>8. c.ring = t /\ c.nonInc = b.nonInc
    BY <2>1
  <2>9. NoneFallsBack(b, c)
    <3>1. ASSUME NEW x \in Ids, NEW k \in 1 .. Len(c.ring), c.ring[k] = x
          PROVE  \E j \in {k, k + 1} : j \in 1 .. Len(b.ring) /\ b.ring[j] = x
      BY <2>3, <2>8, <3>1
    <3> QED
      BY <3>1 DEF NoneFallsBack
  <2>10. b.ring[1] = id => MoveUp(b, c)
    BY <2>3, <2>8 DEF MoveUp
  <2> HIDE DEF c
  <2> QED
    BY <1>3, <2>4, <2>7, <2>9, <2>10 DEF c
<1>4. CASE ~p.inc
  <2> DEFINE rest == b.nonInc \ {id}
             t == RemoveFirst(b.ring, nonIncrementalTurn)
  <2>1. c = [ring |-> IF rest = {} THEN t ELSE b.ring, nonInc |-> rest]
    BY <1>4 DEF Leave
  <2>2. here # inc /\ nonIncrementalTurn \in ToSet(b.ring)
    BY <1>2, <1>4
  <2>3. /\ t \in Seq(S) /\ ToSet(t) = ToSet(b.ring) \ {nonIncrementalTurn} /\ IsInjective(t)
        /\ \A k \in 1 .. Len(t) : \E j \in {k, k + 1} : j \in 1 .. Len(b.ring) /\ t[k] = b.ring[j]
        /\ b.ring[1] = nonIncrementalTurn =>
             \A k \in 1 .. Len(t) : k + 1 \in 1 .. Len(b.ring) /\ t[k] = b.ring[k + 1]
    BY <1>1, <1>2, <2>2, RemoveRing
  <2>4. rest = (here \ {id}) \ inc /\ inc \ {id} = inc
    BY <1>2, <1>4
  <2> HIDE DEF t, rest
  <2>5. c \in AnyBand
    BY <1>1, <2>1, <2>3 DEF AnyBand, Ring, rest
  <2>6. rest = {} <=> here \ {id} = inc
    BY <1>4, <2>4
  <2>7. nonIncrementalTurn \notin inc
    BY TurnIsNoId
  <2>8. Holds(c, here \ {id}, inc \ {id})
    <3>1. CASE rest = {}
      BY <1>2, <2>1, <2>2, <2>3, <2>4, <2>6, <2>7, <3>1 DEF Holds
    <3>2. CASE rest # {}
      BY <1>2, <2>1, <2>2, <2>4, <2>6, <3>2 DEF Holds
    <3> QED
      BY <3>1, <3>2
  <2>9. c.ring = (IF rest = {} THEN t ELSE b.ring) /\ c.nonInc = rest
    BY <2>1
  <2>10. NoneFallsBack(b, c)
    <3>1. ASSUME NEW x \in Ids, NEW k \in 1 .. Len(c.ring), c.ring[k] = x
          PROVE  \E j \in {k, k + 1} : j \in 1 .. Len(b.ring) /\ b.ring[j] = x
      BY <2>3, <2>9, <3>1
    <3> QED
      BY <3>1 DEF NoneFallsBack
  <2>11. /\ b.ring[1] = nonIncrementalTurn /\ c.nonInc = {} => MoveUp(b, c)
         /\ c.nonInc # {} => c.ring = b.ring
    BY <2>3, <2>9 DEF MoveUp
  <2> HIDE DEF c
  <2> QED
    BY <1>4, <2>5, <2>8, <2>10, <2>11 DEF c
<1> QED
  BY <1>3, <1>4

\* Passing the turn on: everybody but its holder moves up.
LEMMA RotateHolds ==
    ASSUME NEW b \in AnyBand, NEW here, NEW inc, Holds(b, here, inc), b.ring # <<>>
    PROVE  LET c == [b EXCEPT !.ring = rotate(@)] IN
           /\ c \in AnyBand /\ Holds(c, here, inc) /\ Len(c.ring) = Len(b.ring)
           /\ \A k \in 1 .. Len(c.ring) : c.ring[k] # b.ring[1] =>
                k + 1 \in 1 .. Len(b.ring) /\ c.ring[k] = b.ring[k + 1]
<1> DEFINE S == Ids \cup {nonIncrementalTurn}
           c == [b EXCEPT !.ring = rotate(@)]
           t == rotate(b.ring)
<1>1. /\ b.ring \in Seq(S) /\ b.nonInc \in SUBSET Ids /\ Len(b.ring) \in Nat
      /\ c = [ring |-> t, nonInc |-> b.nonInc]
  BY LenProperties DEF AnyBand, Ring
<1>2. /\ t \in Seq(S) /\ Len(t) = Len(b.ring)
      /\ ToSet(t) = ToSet(b.ring) /\ IsInjective(t)
      /\ \A i \in 1 .. Len(b.ring) - 1 : t[i] = b.ring[i + 1]
      /\ t[Len(b.ring)] = b.ring[1]
  BY <1>1, RotateRing DEF Holds
<1> HIDE DEF t
<1>3. c \in AnyBand /\ Holds(c, here, inc)
  BY <1>1, <1>2 DEF AnyBand, Ring, Holds
<1>4. ASSUME NEW k \in 1 .. Len(b.ring), t[k] # b.ring[1]
      PROVE  k + 1 \in 1 .. Len(b.ring) /\ t[k] = b.ring[k + 1]
  <2>1. k # Len(b.ring)
    BY <1>2, <1>4
  <2>2. k \in 1 .. Len(b.ring) - 1 /\ k + 1 \in 1 .. Len(b.ring)
    BY <1>1, <2>1
  <2> QED
    BY <1>2, <2>2
<1> QED
  BY <1>1, <1>2, <1>3, <1>4

-----------------------------------------------------------------------------
(***************************************************************************)
(* All bands at once: H and I give the participants of each.               *)
(***************************************************************************)
LEMMA EnterBands ==
    ASSUME NEW bs \in [Urgencies -> AnyBand], NEW H \in [Urgencies -> SUBSET Ids], NEW I,
           \A u \in Urgencies : I[u] \subseteq H[u] /\ Holds(bs[u], H[u], I[u]),
           NEW id \in Ids, \A u \in Urgencies : id \notin H[u], NEW p \in Priority
    PROVE  LET bt == enter(bs, id, p) IN
           /\ bt \in [Urgencies -> AnyBand]
           /\ \A u \in Urgencies :
                Holds(bt[u], IF u = p.urgency THEN H[u] \cup {id} ELSE H[u],
                             IF u = p.urgency /\ p.inc THEN I[u] \cup {id} ELSE I[u])
           /\ \A u \in Urgencies : Stay(bs[u], bt[u], id)
<1> DEFINE v == p.urgency
           c == Enter(bs[v], id, p.inc)
           bt == enter(bs, id, p)
<1>1. v \in Urgencies /\ p.inc \in BOOLEAN
  BY DEF Priority
<1>2. /\ c \in AnyBand
      /\ p.inc => Holds(c, H[v] \cup {id}, I[v] \cup {id})
      /\ ~p.inc => Holds(c, H[v] \cup {id}, I[v])
      /\ Stay(bs[v], c, id)
  <2>1. bs[v] \in AnyBand /\ H[v] \in SUBSET Ids /\ I[v] \in SUBSET H[v] /\ Holds(bs[v], H[v], I[v])
    BY <1>1
  <2>2. id \in Ids \ H[v] /\ p \in Priority
    BY <1>1
  <2> HIDE DEF v
  <2>3. c \in AnyBand
    BY <2>1, <2>2, EnterHolds, Zenon
  <2>4. p.inc => Holds(c, H[v] \cup {id}, I[v] \cup {id})
    BY <2>1, <2>2, EnterHolds, Zenon
  <2>5. ~p.inc => Holds(c, H[v] \cup {id}, I[v])
    BY <2>1, <2>2, EnterHolds, Zenon
  <2>6. Stay(bs[v], c, id)
    BY <2>1, <2>2, EnterHolds, Zenon
  <2> QED
    BY <2>3, <2>4, <2>5, <2>6
<1>3. bt = [u \in Urgencies |-> IF u = v THEN c ELSE bs[u]]
  BY <1>1 DEF enter
<1> HIDE DEF c, bt
<1>4. bt \in [Urgencies -> AnyBand]
  BY <1>2, <1>3
<1>5. ASSUME NEW u \in Urgencies
      PROVE  /\ Holds(bt[u], IF u = v THEN H[u] \cup {id} ELSE H[u],
                             IF u = v /\ p.inc THEN I[u] \cup {id} ELSE I[u])
             /\ Stay(bs[u], bt[u], id)
  <2>1. CASE u = v
    <3>1. bt[u] = c
      BY <1>3, <2>1
    <3> QED
      BY <1>2, <2>1, <3>1
  <2>2. CASE u # v
    <3>1. bt[u] = bs[u]
      BY <1>3, <2>2
    <3>2. Stay(bs[u], bs[u], id)
      BY DEF Stay
    <3> QED
      BY <2>2, <3>1, <3>2
  <2> QED
    BY <2>1, <2>2
<1> QED
  BY <1>4, <1>5 DEF bt

LEMMA LeaveBands ==
    ASSUME NEW bs \in [Urgencies -> AnyBand], NEW H \in [Urgencies -> SUBSET Ids], NEW I,
           \A u \in Urgencies : I[u] \subseteq H[u] /\ Holds(bs[u], H[u], I[u]),
           NEW p \in Priority, NEW id \in H[p.urgency], p.inc <=> id \in I[p.urgency]
    PROVE  LET bt == leave(bs, id, p) IN
           /\ bt \in [Urgencies -> AnyBand]
           /\ \A u \in Urgencies :
                Holds(bt[u], IF u = p.urgency THEN H[u] \ {id} ELSE H[u],
                             IF u = p.urgency THEN I[u] \ {id} ELSE I[u])
           /\ \A u \in Urgencies : NoneFallsBack(bs[u], bt[u])
<1> DEFINE v == p.urgency
           c == Leave(bs[v], id, p.inc)
           bt == leave(bs, id, p)
<1>1. v \in Urgencies /\ p.inc \in BOOLEAN
  BY DEF Priority
<1>2. /\ c \in AnyBand
      /\ Holds(c, H[v] \ {id}, I[v] \ {id})
      /\ NoneFallsBack(bs[v], c)
  <2>1. bs[v] \in AnyBand /\ H[v] \in SUBSET Ids /\ I[v] \in SUBSET H[v] /\ Holds(bs[v], H[v], I[v])
    BY <1>1
  <2>2. p \in Priority /\ id \in H[v] /\ (p.inc <=> id \in I[v])
    OBVIOUS
  <2> HIDE DEF v
  <2>3. c \in AnyBand
    BY <2>1, <2>2, LeaveHolds, Zenon
  <2>4. Holds(c, H[v] \ {id}, I[v] \ {id})
    BY <2>1, <2>2, LeaveHolds, Zenon
  <2>5. NoneFallsBack(bs[v], c)
    BY <2>1, <2>2, LeaveHolds, Zenon
  <2> QED
    BY <2>3, <2>4, <2>5
<1>3. bt = [u \in Urgencies |-> IF u = v THEN c ELSE bs[u]]
  BY <1>1 DEF leave
<1> HIDE DEF c, bt
<1>4. bt \in [Urgencies -> AnyBand]
  BY <1>2, <1>3
<1>5. ASSUME NEW u \in Urgencies
      PROVE  /\ Holds(bt[u], IF u = v THEN H[u] \ {id} ELSE H[u],
                             IF u = v THEN I[u] \ {id} ELSE I[u])
             /\ NoneFallsBack(bs[u], bt[u])
  <2>1. CASE u = v
    <3>1. bt[u] = c
      BY <1>3, <2>1
    <3> QED
      BY <1>2, <2>1, <3>1
  <2>2. CASE u # v
    <3>1. bt[u] = bs[u]
      BY <1>3, <2>2
    <3>2. NoneFallsBack(bs[u], bs[u])
      BY DEF NoneFallsBack
    <3> QED
      BY <2>2, <3>1, <3>2
  <2> QED
    BY <2>1, <2>2
<1> QED
  BY <1>4, <1>5 DEF bt

(***************************************************************************)
(* The participants of the bands, as functions.                            *)
(***************************************************************************)
Heres == [u \in Urgencies |-> Here(u)]
Incs == [u \in Urgencies |-> Incremental(u)]

LEMMA Participants ==
    ASSUME Types, InRings
    PROVE  /\ bands \in [Urgencies -> AnyBand] /\ Heres \in [Urgencies -> SUBSET Ids]
           /\ \A u \in Urgencies : Incs[u] \subseteq Heres[u] /\ Holds(bands[u], Heres[u], Incs[u])
           /\ \A u \in Urgencies : Heres[u] = Here(u) /\ Incs[u] = Incremental(u)
<1>1. \A u \in Urgencies : Incremental(u) \subseteq Here(u) /\ Here(u) \subseteq Ids
  BY DEF Incremental, Here, Waiting
<1> QED
  BY <1>1 DEF Types, InRings, Heres, Incs

\* A band that holds its streams has no more turns than there are streams.
LEMMA PlacesAreBounded ==
    ASSUME Types, InRings, NEW u \in Urgencies
    PROVE  /\ bands[u].ring \in Ring /\ Len(bands[u].ring) \in Nat
           /\ Len(bands[u].ring) <= Cardinality(Ids) /\ Cardinality(Ids) \in Nat
<1>1. Len(bands[u].ring) <= Cardinality(Ids)
  BY Participants, RingIsShort
<1>2. bands[u].ring \in Ring
  BY DEF Types, AnyBand
<1> QED
  BY <1>1, <1>2, LenProperties, SchedulerAssumption, FS_CardinalityType DEF Ring

\* And so in the next state.
LEMMA NextPlacesAreBounded ==
    ASSUME bands' \in [Urgencies -> AnyBand], InRings', NEW u \in Urgencies
    PROVE  Len(bands'[u].ring) \in Nat /\ Len(bands'[u].ring) <= Cardinality(Ids)
<1>1. /\ Here(u)' \in SUBSET Ids /\ Incremental(u)' \in SUBSET Here(u)'
      /\ Holds(bands'[u], Here(u)', Incremental(u)')
  BY DEF InRings, Here, Incremental, Waiting
<1>2. bands'[u] \in AnyBand
  OBVIOUS
<1>3. bands'[u].ring \in Ring
  BY <1>2 DEF AnyBand
<1> QED
  BY <1>1, <1>2, <1>3, RingIsShort, LenProperties DEF Ring

(***************************************************************************)
(* The five things a step can do to the rings.                             *)
(***************************************************************************)
\* Nothing, although a stream may be told that its waiting is over.
LEMMA StayStep ==
    ASSUME Types, InRings, Turns, UNCHANGED <<bands, place>>, Waiting' = Waiting,
           \A x \in Ids : skips'[x] \in {0, skips[x]}
    PROVE  bands' \in [Urgencies -> AnyBand] /\ InRings' /\ Turns'
<1>1. \A u \in Urgencies : Here(u)' = Here(u) /\ Incremental(u)' = Incremental(u)
  BY DEF Here, Incremental
<1>2. InRings'
  BY <1>1 DEF InRings
<1>3. \A x \in Ids : skips[x] \in Nat /\ skips'[x] \in Nat /\ skips'[x] <= skips[x]
  <2>1. skips \in [Ids -> Nat]
    BY DEF Types
  <2> QED
    BY <2>1
<1>4. \A x \in Ids \ Waiting' : skips'[x] = 0
  BY DEF Turns
<1>5. Cardinality(Ids) \in Nat
  BY SchedulerAssumption, FS_CardinalityType
<1>6. ASSUME NEW x \in Waiting', NEW i \in 1 .. Len(bands'[place'[x].urgency].ring),
             bands'[place'[x].urgency].ring[i] = x
      PROVE  skips'[x] + i <= Cardinality(Ids)
  <2>1. x \in Ids /\ skips[x] + i <= Cardinality(Ids)
    BY <1>6 DEF Turns, Waiting
  <2>2. i \in Nat
    OBVIOUS
  <2> QED
    BY <1>3, <1>5, <2>1, <2>2
<1>7. Turns'
  BY <1>4, <1>6 DEF Turns
<1> QED
  BY <1>2, <1>7 DEF Types

\* A stream that was not waiting enters.
LEMMA EnterStep ==
    ASSUME Types, InRings, Turns, NEW id \in Ids \ Waiting, NEW p \in Priority,
           Waiting' = Waiting \cup {id}, place' = [place EXCEPT ![id] = p],
           bands' = enter(bands, id, p), UNCHANGED skips
    PROVE  bands' \in [Urgencies -> AnyBand] /\ InRings' /\ Turns'
<1>1. /\ bands \in [Urgencies -> AnyBand] /\ Heres \in [Urgencies -> SUBSET Ids]
      /\ \A u \in Urgencies : Incs[u] \subseteq Heres[u] /\ Holds(bands[u], Heres[u], Incs[u])
      /\ \A u \in Urgencies : Heres[u] = Here(u) /\ Incs[u] = Incremental(u)
  BY Participants
<1>2. \A u \in Urgencies : id \notin Heres[u]
  BY <1>1 DEF Here
<1>3. /\ bands' \in [Urgencies -> AnyBand]
      /\ \A u \in Urgencies :
           Holds(bands'[u], IF u = p.urgency THEN Heres[u] \cup {id} ELSE Heres[u],
                            IF u = p.urgency /\ p.inc THEN Incs[u] \cup {id} ELSE Incs[u])
      /\ \A u \in Urgencies : Stay(bands[u], bands'[u], id)
  BY <1>1, <1>2, EnterBands
<1>4. place'[id] = p /\ \A x \in Ids \ {id} : place'[x] = place[x]
  <2>1. place \in [Ids -> Priority]
    BY DEF Types
  <2> QED
    BY <2>1
<1>5. \A u \in Urgencies :
        /\ Here(u)' = IF u = p.urgency THEN Heres[u] \cup {id} ELSE Heres[u]
        /\ Incremental(u)' = IF u = p.urgency /\ p.inc THEN Incs[u] \cup {id} ELSE Incs[u]
  <2>1. \A x \in Waiting : x \in Ids \ {id}
    BY DEF Waiting
  <2> QED
    BY <1>1, <1>4, <2>1 DEF Here, Incremental
<1>6. InRings'
  BY <1>3, <1>5 DEF InRings
<1>7. ASSUME NEW x \in Waiting', NEW i \in 1 .. Len(bands'[place'[x].urgency].ring),
             bands'[place'[x].urgency].ring[i] = x
      PROVE  skips'[x] + i <= Cardinality(Ids)
  <2>1. CASE x = id
    <3>1. p.urgency \in Urgencies /\ skips'[x] = 0
      BY <2>1 DEF Priority, Turns
    <3>2. Len(bands'[p.urgency].ring) \in Nat /\ Len(bands'[p.urgency].ring) <= Cardinality(Ids)
      BY <1>3, <1>6, <3>1, NextPlacesAreBounded
    <3>3. i \in 1 .. Len(bands'[p.urgency].ring)
      BY <1>4, <2>1
    <3> QED
      BY <3>1, <3>2, <3>3, SchedulerAssumption, FS_CardinalityType
  <2>2. CASE x # id
    <3>1. x \in Waiting /\ x \in Ids \ {id} /\ place'[x] = place[x]
      BY <1>4, <2>2 DEF Waiting
    <3>2. place[x].urgency \in Urgencies
      BY <3>1 DEF Types, Priority
    <3>3. i \in 1 .. Len(bands[place[x].urgency].ring) /\ bands[place[x].urgency].ring[i] = x
      BY <1>3, <1>7, <3>1, <3>2 DEF Stay
    <3> QED
      BY <3>1, <3>3 DEF Turns
  <2> QED
    BY <2>1, <2>2
<1>8. Turns'
  BY <1>7 DEF Turns
<1> QED
  BY <1>3, <1>6, <1>8

\* What is left of the rings when a stream leaves.
LEMMA LeftRings ==
    ASSUME Types, InRings, NEW id \in Waiting
    PROVE  LET bt == leave(bands, id, place[id]) IN
           /\ bt \in [Urgencies -> AnyBand]
           /\ \A u \in Urgencies : Holds(bt[u], Here(u) \ {id}, Incremental(u) \ {id})
           /\ \A u \in Urgencies : NoneFallsBack(bands[u], bt[u])
<1> DEFINE p == place[id]
           bt == leave(bands, id, p)
<1>1. /\ bands \in [Urgencies -> AnyBand] /\ Heres \in [Urgencies -> SUBSET Ids]
      /\ \A u \in Urgencies : Incs[u] \subseteq Heres[u] /\ Holds(bands[u], Heres[u], Incs[u])
      /\ \A u \in Urgencies : Heres[u] = Here(u) /\ Incs[u] = Incremental(u)
  BY Participants
<1>2. p \in Priority /\ p.urgency \in Urgencies /\ id \in Ids
  BY DEF Types, Waiting, Priority
<1>3. id \in Heres[p.urgency] /\ (p.inc <=> id \in Incs[p.urgency])
  BY <1>1, <1>2 DEF Here, Incremental
<1>4. \A u \in Urgencies : u # p.urgency => id \notin Heres[u] /\ id \notin Incs[u]
  BY <1>1 DEF Here
<1> HIDE DEF p
<1>5. /\ bt \in [Urgencies -> AnyBand]
      /\ \A u \in Urgencies :
           Holds(bt[u], IF u = p.urgency THEN Heres[u] \ {id} ELSE Heres[u],
                        IF u = p.urgency THEN Incs[u] \ {id} ELSE Incs[u])
      /\ \A u \in Urgencies : NoneFallsBack(bands[u], bt[u])
  BY <1>1, <1>2, <1>3, LeaveBands
<1> HIDE DEF bt
<1>6. ASSUME NEW u \in Urgencies
      PROVE  Holds(bt[u], Here(u) \ {id}, Incremental(u) \ {id})
  <2>1. CASE u = p.urgency
    BY <1>1, <1>5, <2>1
  <2>2. CASE u # p.urgency
    <3>1. Heres[u] \ {id} = Heres[u] /\ Incs[u] \ {id} = Incs[u]
      BY <1>4, <2>2
    <3> QED
      BY <1>1, <1>5, <2>2, <3>1
  <2> QED
    BY <2>1, <2>2
<1> QED
  BY <1>5, <1>6 DEF bt, p

\* The last DATA of a stream goes out of turn, and the stream leaves.
LEMMA LeaveStep ==
    ASSUME Types, InRings, Turns, NEW id \in Waiting,
           Waiting' = Waiting \ {id}, UNCHANGED place,
           bands' = leave(bands, id, place[id]), skips' = [skips EXCEPT ![id] = 0]
    PROVE  bands' \in [Urgencies -> AnyBand] /\ InRings' /\ Turns'
<1>1. /\ bands' \in [Urgencies -> AnyBand]
      /\ \A u \in Urgencies : Holds(bands'[u], Here(u) \ {id}, Incremental(u) \ {id})
      /\ \A u \in Urgencies : NoneFallsBack(bands[u], bands'[u])
  BY LeftRings
<1>2. \A u \in Urgencies : Here(u)' = Here(u) \ {id} /\ Incremental(u)' = Incremental(u) \ {id}
  BY DEF Here, Incremental
<1>3. InRings'
  BY <1>1, <1>2 DEF InRings
<1>4. skips \in [Ids -> Nat] /\ place \in [Ids -> Priority] /\ id \in Ids
  BY DEF Types, Waiting
<1>5. \A x \in Ids \ Waiting' : skips'[x] = 0
  BY <1>4 DEF Turns
<1>6. ASSUME NEW x \in Waiting', NEW i \in 1 .. Len(bands'[place'[x].urgency].ring),
             bands'[place'[x].urgency].ring[i] = x
      PROVE  skips'[x] + i <= Cardinality(Ids)
  <2>1. x \in Waiting /\ x \in Ids \ {id} /\ place'[x] = place[x] /\ skips'[x] = skips[x]
    BY <1>4 DEF Waiting
  <2>2. place[x].urgency \in Urgencies
    BY <1>4, <2>1 DEF Priority
  <2>3. PICK j \in {i, i + 1} : /\ j \in 1 .. Len(bands[place[x].urgency].ring)
                                /\ bands[place[x].urgency].ring[j] = x
    BY <1>1, <1>6, <2>1, <2>2 DEF NoneFallsBack
  <2>4. skips[x] + j <= Cardinality(Ids)
    BY <2>1, <2>3 DEF Turns
  <2> QED
    BY <1>4, <2>1, <2>3, <2>4, SchedulerAssumption, FS_CardinalityType
<1>7. Turns'
  BY <1>5, <1>6 DEF Turns
<1> QED
  BY <1>1, <1>3, <1>7

\* A stream moves to the back of another band.
LEMMA MoveStep ==
    ASSUME Types, InRings, Turns, NEW id \in Waiting, NEW p \in Priority,
           Waiting' = Waiting, place' = [place EXCEPT ![id] = p],
           bands' = enter(leave(bands, id, place[id]), id, p), skips' = [skips EXCEPT ![id] = 0]
    PROVE  bands' \in [Urgencies -> AnyBand] /\ InRings' /\ Turns'
<1> DEFINE bt == leave(bands, id, place[id])
           H == [u \in Urgencies |-> Here(u) \ {id}]
           I == [u \in Urgencies |-> Incremental(u) \ {id}]
<1>1. /\ bt \in [Urgencies -> AnyBand]
      /\ \A u \in Urgencies : Holds(bt[u], Here(u) \ {id}, Incremental(u) \ {id})
      /\ \A u \in Urgencies : NoneFallsBack(bands[u], bt[u])
  BY LeftRings
<1> HIDE DEF bt
<1>2. skips \in [Ids -> Nat] /\ place \in [Ids -> Priority] /\ id \in Ids
  BY DEF Types, Waiting
<1>3. /\ H \in [Urgencies -> SUBSET Ids]
      /\ \A u \in Urgencies : I[u] \subseteq H[u] /\ Holds(bt[u], H[u], I[u])
      /\ \A u \in Urgencies : id \notin H[u]
      /\ \A u \in Urgencies : H[u] = Here(u) \ {id} /\ I[u] = Incremental(u) \ {id}
  BY <1>1 DEF Here, Incremental, Waiting
<1> HIDE DEF H, I
<1>4. bands' = enter(bt, id, p)
  BY DEF bt
<1>5. /\ bands' \in [Urgencies -> AnyBand]
      /\ \A u \in Urgencies :
           Holds(bands'[u], IF u = p.urgency THEN H[u] \cup {id} ELSE H[u],
                            IF u = p.urgency /\ p.inc THEN I[u] \cup {id} ELSE I[u])
      /\ \A u \in Urgencies : Stay(bt[u], bands'[u], id)
  <2>1. id \in Ids /\ p \in Priority /\ bt \in [Urgencies -> AnyBand]
    BY <1>1, <1>2
  <2>2. /\ enter(bt, id, p) \in [Urgencies -> AnyBand]
        /\ \A u \in Urgencies :
             Holds(enter(bt, id, p)[u], IF u = p.urgency THEN H[u] \cup {id} ELSE H[u],
                              IF u = p.urgency /\ p.inc THEN I[u] \cup {id} ELSE I[u])
        /\ \A u \in Urgencies : Stay(bt[u], enter(bt, id, p)[u], id)
    BY <1>3, <2>1, EnterBands, Zenon
  <2> QED
    BY <1>4, <2>2, Zenon
<1>6. place'[id] = p /\ \A x \in Ids \ {id} : place'[x] = place[x]
  BY <1>2
<1>7. \A u \in Urgencies :
        /\ Here(u)' = IF u = p.urgency THEN H[u] \cup {id} ELSE H[u]
        /\ Incremental(u)' = IF u = p.urgency /\ p.inc THEN I[u] \cup {id} ELSE I[u]
  <2>1. \A x \in Waiting : x \in Ids
    BY DEF Waiting
  <2> QED
    BY <1>3, <1>6, <2>1 DEF Here, Incremental
<1>8. InRings'
  BY <1>5, <1>7 DEF InRings
<1>9. \A x \in Ids \ Waiting' : skips'[x] = 0
  BY <1>2 DEF Turns
<1>10. ASSUME NEW x \in Waiting', NEW i \in 1 .. Len(bands'[place'[x].urgency].ring),
             bands'[place'[x].urgency].ring[i] = x
      PROVE  skips'[x] + i <= Cardinality(Ids)
  <2>1. CASE x = id
    <3>1. p.urgency \in Urgencies /\ skips'[x] = 0
      BY <1>2, <2>1 DEF Priority
    <3>2. Len(bands'[p.urgency].ring) \in Nat /\ Len(bands'[p.urgency].ring) <= Cardinality(Ids)
      BY <1>5, <1>8, <3>1, NextPlacesAreBounded
    <3>3. i \in 1 .. Len(bands'[p.urgency].ring)
      BY <1>6, <2>1
    <3> QED
      BY <3>1, <3>2, <3>3, SchedulerAssumption, FS_CardinalityType
  <2>2. CASE x # id
    <3>1. x \in Waiting /\ x \in Ids \ {id} /\ place'[x] = place[x] /\ skips'[x] = skips[x]
      BY <1>2, <1>6, <2>2 DEF Waiting
    <3>2. place[x].urgency \in Urgencies
      BY <1>2, <3>1 DEF Priority
    <3>3. i \in 1 .. Len(bt[place[x].urgency].ring) /\ bt[place[x].urgency].ring[i] = x
      BY <1>5, <1>10, <3>1, <3>2 DEF Stay
    <3>4. PICK j \in {i, i + 1} : /\ j \in 1 .. Len(bands[place[x].urgency].ring)
                                  /\ bands[place[x].urgency].ring[j] = x
      BY <1>1, <3>1, <3>2, <3>3 DEF NoneFallsBack
    <3>5. skips[x] + j <= Cardinality(Ids)
      BY <3>1, <3>4 DEF Turns
    <3> QED
      BY <1>2, <3>1, <3>4, <3>5, SchedulerAssumption, FS_CardinalityType
  <2> QED
    BY <2>1, <2>2
<1>11. Turns'
  BY <1>9, <1>10 DEF Turns
<1> QED
  BY <1>5, <1>8, <1>11

\* The band that is served, and the stream whose turn it is.
LEMMA ServedIs ==
    ASSUME Types, InRings, \E u \in Urgencies : bands[u].ring # <<>>
    PROVE  /\ Band \in Urgencies /\ bands[Band].ring # <<>> /\ bands[Band].ring[1] = Turn
           /\ \A u \in Urgencies : bands[u].ring # <<>> => Band <= u
           /\ Served \in Here(Band)
           /\ Turn = nonIncrementalTurn <=> ~place[Served].inc
           /\ Turn # nonIncrementalTurn => Served = Turn
<1> DEFINE U == {u \in Urgencies : bands[u].ring # <<>>}
<1>1. U \in SUBSET Nat /\ U # {} /\ Urgencies \subseteq Nat
  BY SchedulerAssumption
<1>2. Min(U) \in U /\ \A u \in U : Min(U) <= u
  BY <1>1, MinIs
<1>3. Band = Min(U)
  BY DEF Band
<1> HIDE DEF U
<1>4. Band \in Urgencies /\ bands[Band].ring # <<>>
  BY <1>2, <1>3 DEF U
<1>5. \A u \in Urgencies : bands[u].ring # <<>> => Band <= u
  BY <1>2, <1>3 DEF U
<1> DEFINE b == bands[Band]
<1>6. Holds(b, Here(Band), Incremental(Band)) /\ b \in AnyBand
  BY <1>4 DEF InRings, Types
<1>7. b.ring \in Ring
  BY <1>6 DEF AnyBand
<1>8. Turn = b.ring[1] /\ 1 \in DOMAIN b.ring
  BY <1>4, <1>7, LenProperties, HeadTailProperties, EmptySeq DEF Ring, Turn
<1>9. Turn \in ToSet(b.ring)
  BY <1>8 DEF ToSet
<1> HIDE DEF b
<1>10. Incremental(Band) \subseteq Here(Band) /\ Here(Band) \subseteq Ids
  BY DEF Incremental, Here, Waiting
<1>11. CASE Turn = nonIncrementalTurn
  <2>1. Turn \notin Incremental(Band)
    BY <1>10, <1>11, TurnIsNoId
  <2>2. Here(Band) # Incremental(Band)
    BY <1>6, <1>9, <2>1 DEF Holds
  <2>3. b.nonInc = Here(Band) \ Incremental(Band)
    BY <1>6 DEF Holds
  <2>4. b.nonInc # {} /\ b.nonInc \in SUBSET Nat
    BY <1>10, <2>2, <2>3, SchedulerAssumption
  <2>5. Min(b.nonInc) \in b.nonInc
    BY <2>4, MinIs
  <2>6. Served = Min(b.nonInc)
    BY <1>11 DEF Served, b
  <2>7. Served \in Here(Band) /\ Served \notin Incremental(Band)
    BY <2>3, <2>5, <2>6
  <2> QED
    BY <1>4, <1>5, <1>8, <1>11, <2>7 DEF b, Incremental
<1>12. CASE Turn # nonIncrementalTurn
  <2>1. Turn \in Incremental(Band)
    BY <1>6, <1>9, <1>12 DEF Holds
  <2>2. Served = Turn
    BY <1>12 DEF Served
  <2> QED
    BY <1>4, <1>5, <1>8, <1>10, <1>12, <2>1, <2>2 DEF b, Incremental
<1> QED
  BY <1>11, <1>12

\* The band after its turn: everybody but the stream served moves up by one.
LEMMA AdvancedIs ==
    ASSUME Types, InRings, \E u \in Urgencies : bands[u].ring # <<>>,
           NEW more \in BOOLEAN, more <=> Len(data[Served]) > 1
    PROVE  LET b == bands[Band]
               c == Advanced(b, Served)
               gone == IF more THEN {} ELSE {Served} IN
           /\ c \in AnyBand
           /\ Holds(c, Here(Band) \ gone, Incremental(Band) \ gone)
           /\ \A x \in Ids \ {Served} : \A k \in 1 .. Len(c.ring) :
                c.ring[k] = x => k + 1 \in 1 .. Len(b.ring) /\ b.ring[k + 1] = x
<1> DEFINE b == bands[Band]
           c == Advanced(b, Served)
           gone == IF more THEN {} ELSE {Served}
           p == place[Served]
           left == Leave(b, Served, p.inc)
           here == Here(Band)
           inc == Incremental(Band)
           Up(x) == \A k \in 1 .. Len(c.ring) :
                      c.ring[k] = x => k + 1 \in 1 .. Len(b.ring) /\ b.ring[k + 1] = x
<1>1. /\ Band \in Urgencies /\ b.ring # <<>> /\ b.ring[1] = Turn
      /\ Served \in here
      /\ Turn = nonIncrementalTurn <=> ~p.inc
      /\ Turn # nonIncrementalTurn => Served = Turn
  BY ServedIs
<1>2. /\ Holds(b, here, inc) /\ b \in AnyBand
      /\ here \in SUBSET Ids /\ inc \in SUBSET here
  BY <1>1 DEF InRings, Types, Here, Incremental, Waiting
<1>3. p \in Priority /\ (p.inc <=> Served \in inc)
  BY <1>1 DEF Types, Incremental, Here, Waiting
<1>4. \A x \in Ids \ {Served} : x # Turn
  BY <1>1, TurnIsNoId
<1>5. CASE more
  <2>1. c = [b EXCEPT !.ring = rotate(@)]
    BY <1>5 DEF Advanced
  <2> HIDE DEF b, here, inc
  <2>2. /\ c \in AnyBand /\ Holds(c, here, inc)
        /\ \A k \in 1 .. Len(c.ring) : c.ring[k] # b.ring[1] =>
             k + 1 \in 1 .. Len(b.ring) /\ c.ring[k] = b.ring[k + 1]
    BY <1>1, <1>2, <2>1, RotateHolds
  <2>3. ASSUME NEW x \in Ids \ {Served} PROVE Up(x)
    BY <1>1, <1>4, <2>2
  <2>4. here \ gone = here /\ inc \ gone = inc
    BY <1>5
  <2> QED
    BY <2>2, <2>3, <2>4 DEF b, here, inc
<1>6. CASE ~more
  <2>1. c = IF Turn = nonIncrementalTurn /\ left.nonInc # {}
            THEN [left EXCEPT !.ring = rotate(@)] ELSE left
    BY <1>6 DEF Advanced
  <2>2. here \ gone = here \ {Served} /\ inc \ gone = inc \ {Served}
    BY <1>6
  <2> HIDE DEF b, here, inc, p
  <2>3. left \in AnyBand
    BY <1>1, <1>2, <1>3, LeaveHolds, Zenon
  <2>4. Holds(left, here \ {Served}, inc \ {Served})
    BY <1>1, <1>2, <1>3, LeaveHolds, Zenon
  <2>5. p.inc /\ b.ring[1] = Served => MoveUp(b, left)
    BY <1>1, <1>2, <1>3, LeaveHolds, Zenon
  <2>6. ~p.inc /\ b.ring[1] = nonIncrementalTurn /\ left.nonInc = {} => MoveUp(b, left)
    BY <1>1, <1>2, <1>3, LeaveHolds, Zenon
  <2>7. ~p.inc /\ left.nonInc # {} => left.ring = b.ring
    BY <1>1, <1>2, <1>3, LeaveHolds, Zenon
  <2> HIDE DEF left, gone, c
  <2>8. CASE Turn = nonIncrementalTurn /\ left.nonInc # {}
    <3>1. c = [left EXCEPT !.ring = rotate(@)] /\ left.ring = b.ring
      BY <1>1, <2>1, <2>7, <2>8
    <3>2. /\ c \in AnyBand /\ Holds(c, here \ {Served}, inc \ {Served})
          /\ \A k \in 1 .. Len(c.ring) : c.ring[k] # left.ring[1] =>
               k + 1 \in 1 .. Len(left.ring) /\ c.ring[k] = left.ring[k + 1]
      BY <1>1, <2>3, <2>4, <3>1, RotateHolds
    <3>3. ASSUME NEW x \in Ids \ {Served} PROVE Up(x)
      BY <1>1, <1>4, <3>1, <3>2
    <3> QED
      BY <2>2, <3>2, <3>3 DEF b, c, here, inc, gone
  <2>9. CASE ~(Turn = nonIncrementalTurn /\ left.nonInc # {})
    <3>1. c = left /\ MoveUp(b, left)
      BY <1>1, <2>1, <2>5, <2>6, <2>9
    <3>2. ASSUME NEW x \in Ids \ {Served} PROVE Up(x)
      BY <3>1 DEF MoveUp
    <3> QED
      BY <2>2, <2>3, <2>4, <3>1, <3>2 DEF b, c, here, inc, gone
  <2> QED
    BY <2>8, <2>9
<1> QED
  BY <1>5, <1>6

\* A turn.
LEMMA ServeStep ==
    ASSUME Types, InRings, Turns, \E u \in Urgencies : bands[u].ring # <<>>,
           NEW more \in BOOLEAN, more <=> Len(data[Served]) > 1,
           Waiting' = Waiting \ (IF more THEN {} ELSE {Served}), UNCHANGED place,
           bands' = [bands EXCEPT ![Band] = Advanced(@, Served)],
           skips' = [id \in Ids |->
                        IF id = Served THEN 0
                        ELSE IF id \in Waiting /\ place[id].urgency = Band
                        THEN skips[id] + 1 ELSE skips[id]]
    PROVE  bands' \in [Urgencies -> AnyBand] /\ InRings' /\ Turns'
<1> DEFINE b == bands[Band]
           c == Advanced(b, Served)
           gone == IF more THEN {} ELSE {Served}
<1>1. Band \in Urgencies /\ Served \in Here(Band)
  BY ServedIs
<1>2. /\ c \in AnyBand
      /\ Holds(c, Here(Band) \ gone, Incremental(Band) \ gone)
      /\ \A x \in Ids \ {Served} : \A k \in 1 .. Len(c.ring) :
           c.ring[k] = x => k + 1 \in 1 .. Len(b.ring) /\ b.ring[k + 1] = x
  BY AdvancedIs
<1>3. skips \in [Ids -> Nat] /\ place \in [Ids -> Priority] /\ bands \in [Urgencies -> AnyBand]
  BY DEF Types
<1>4. bands' = [u \in Urgencies |-> IF u = Band THEN c ELSE bands[u]]
  BY <1>1, <1>3
<1>5. gone \subseteq {Served} /\ Waiting' = Waiting \ gone
  OBVIOUS
<1>6. \A u \in Urgencies : Here(u)' = Here(u) \ gone /\ Incremental(u)' = Incremental(u) \ gone
  BY DEF Here, Incremental
<1> HIDE DEF c, gone
<1>7. bands' \in [Urgencies -> AnyBand]
  BY <1>2, <1>3, <1>4
<1>8. InRings'
  <2>1. ASSUME NEW u \in Urgencies, u # Band
        PROVE  Holds(bands'[u], Here(u) \ gone, Incremental(u) \ gone)
    <3>1. Served \notin Here(u) /\ Served \notin Incremental(u)
      BY <1>1, <2>1 DEF Here, Incremental
    <3>2. Here(u) \ gone = Here(u) /\ Incremental(u) \ gone = Incremental(u)
      BY <1>5, <3>1
    <3> QED
      BY <1>4, <2>1, <3>2 DEF InRings
  <2>2. Holds(bands'[Band], Here(Band) \ gone, Incremental(Band) \ gone)
    BY <1>1, <1>2, <1>4
  <2> QED
    BY <1>6, <2>1, <2>2 DEF InRings
<1>9. \A x \in Ids \ Waiting' : skips'[x] = 0
  BY <1>3, <1>5 DEF Turns
<1>10. ASSUME NEW x \in Waiting', NEW i \in 1 .. Len(bands'[place'[x].urgency].ring),
              bands'[place'[x].urgency].ring[i] = x
       PROVE  skips'[x] + i <= Cardinality(Ids)
  <2>1. x \in Waiting /\ x \in Ids /\ place'[x] = place[x] /\ place[x].urgency \in Urgencies
    BY <1>3, <1>5 DEF Waiting, Priority
  <2>2. i \in Nat /\ skips[x] \in Nat /\ Cardinality(Ids) \in Nat
    BY <1>3, <2>1, SchedulerAssumption, FS_CardinalityType
  <2>3. CASE x = Served
    <3>1. skips'[x] = 0
      BY <2>1, <2>3
    <3>2. /\ Len(bands'[place'[x].urgency].ring) \in Nat
          /\ Len(bands'[place'[x].urgency].ring) <= Cardinality(Ids)
      BY <1>7, <1>8, <2>1, NextPlacesAreBounded
    <3> QED
      BY <2>2, <3>1, <3>2
  <2>4. CASE x # Served /\ place[x].urgency = Band
    <3>1. skips'[x] = skips[x] + 1
      BY <2>1, <2>4
    <3>2. bands'[place'[x].urgency] = c
      BY <1>1, <1>4, <2>1, <2>4
    <3>3. i + 1 \in 1 .. Len(b.ring) /\ b.ring[i + 1] = x
      BY <1>2, <1>10, <2>1, <2>4, <3>2
    <3>4. skips[x] + (i + 1) <= Cardinality(Ids)
      BY <2>1, <2>4, <3>3 DEF Turns
    <3> QED
      BY <2>2, <3>1, <3>4
  <2>5. CASE x # Served /\ place[x].urgency # Band
    <3>1. skips'[x] = skips[x]
      BY <2>1, <2>5
    <3>2. bands'[place'[x].urgency] = bands[place[x].urgency]
      BY <1>4, <2>1, <2>5
    <3> QED
      BY <1>10, <2>1, <3>1, <3>2 DEF Turns
  <2> QED
    BY <2>3, <2>4, <2>5
<1>11. Turns'
  BY <1>9, <1>10 DEF Turns
<1> QED
  BY <1>7, <1>8, <1>11

-----------------------------------------------------------------------------
(***************************************************************************)
(* Queues.                                                                 *)
(***************************************************************************)
LEMMA Appended ==
    ASSUME NEW S, NEW s \in Seq(S), NEW e \in S
    PROVE  /\ Append(s, e) \in Seq(S) /\ Append(s, e) # <<>>
           /\ Len(Append(s, e)) = Len(s) + 1 /\ 1 \in 1 .. Len(Append(s, e))
           /\ \A i \in 1 .. Len(Append(s, e)) :
                \/ Append(s, e)[i] = e
                \/ i \in 1 .. Len(s) /\ Append(s, e)[i] = s[i]
<1> DEFINE t == Append(s, e)
<1>1. /\ t \in Seq(S) /\ Len(t) = Len(s) + 1 /\ t[Len(s) + 1] = e
      /\ \A i \in 1 .. Len(s) : t[i] = s[i]
  BY AppendProperties
<1>2. Len(s) \in Nat
  BY LenProperties
<1> HIDE DEF t
<1>3. t # <<>> /\ 1 \in 1 .. Len(t)
  BY <1>1, <1>2, EmptySeq
<1> QED
  BY <1>1, <1>2, <1>3 DEF t

LEMMA Headed ==
    ASSUME NEW S, NEW s \in Seq(S), s # <<>>
    PROVE  /\ Head(s) = s[1] /\ Head(s) \in S /\ Tail(s) \in Seq(S)
           /\ Len(s) \in Nat \ {0} /\ (Tail(s) = <<>> <=> ~(Len(s) > 1))
           /\ \A i \in 1 .. Len(Tail(s)) : i + 1 \in 1 .. Len(s) /\ Tail(s)[i] = s[i + 1]
<1>1. Len(s) \in Nat \ {0}
  BY LenProperties, EmptySeq
<1>2. /\ Tail(s) \in Seq(S) /\ Len(Tail(s)) = Len(s) - 1 /\ Head(s) = s[1] /\ Head(s) \in S
      /\ \A i \in 1 .. Len(s) - 1 : Tail(s)[i] = s[i + 1]
  BY HeadTailProperties
<1> DEFINE t == Tail(s)
<1> HIDE DEF t
<1>3. t = <<>> <=> ~(Len(s) > 1)
  BY <1>1, <1>2, EmptySeq DEF t
<1>4. \A i \in 1 .. Len(s) - 1 : i + 1 \in 1 .. Len(s)
  BY <1>1
<1> QED
  BY <1>1, <1>2, <1>3, <1>4 DEF t

-----------------------------------------------------------------------------
(***************************************************************************)
(* IInv holds initially, and every action keeps it.                        *)
(***************************************************************************)
LEMMA InitIInv == Init => IInv
<1> SUFFICES ASSUME Init PROVE IInv
  OBVIOUS
<1> USE DEF Init
<1>1. Types
  <2>1. Default \in Priority /\ <<>> \in Seq(Item) /\ <<>> \in Seq(Frames) /\ <<>> \in Ring
    BY SchedulerAssumption DEF Priority, Ring
  <2>2. bands \in [Urgencies -> AnyBand]
    BY <2>1 DEF AnyBand
  <2>3. out \in Frames
    BY DEF Frames, NoFrame
  <2> QED
    BY <2>1, <2>2, <2>3 DEF Types
<1>2. \A x \in Ids : data[x] = <<>> /\ runs[x] = <<>> /\ Len(data[x]) = 0 /\ Len(runs[x]) = 0
  BY EmptySeq
<1>3. Len(lane) = 0 /\ Len(pinned) = 0
  BY EmptySeq
<1>4. Kinds
  BY <1>2, <1>3 DEF Kinds
<1>5. Waiting = {}
  BY <1>2 DEF Waiting
<1>6. ASSUME NEW u \in Urgencies PROVE Holds(bands[u], Here(u), Incremental(u))
  <2>1. Here(u) = {} /\ Incremental(u) = {} /\ bands[u].ring = <<>> /\ bands[u].nonInc = {}
    BY <1>5 DEF Here, Incremental
  <2>2. ToSet(<<>>) = {} /\ IsInjective(<<>>)
    BY EmptySeq DEF ToSet, IsInjective
  <2> QED
    BY <2>1, <2>2 DEF Holds
<1>7. SignalsApply /\ Turns
  BY <1>5 DEF SignalsApply, Turns
<1> QED
  BY <1>1, <1>4, <1>6, <1>7 DEF IInv, InRings

\* DATA is pushed: the stream enters the ring of its band if it has none waiting.
LEMMA ContentIInv ==
    ASSUME IInv, NEW id \in Ids, Content(id)
    PROVE  IInv'
<1> DEFINE f == Frame(id, "data", FALSE)
<1> USE DEF IInv
<1>1. /\ data \in [Ids -> Seq(Frames)] /\ seq \in Nat /\ prio \in [Ids -> Priority]
      /\ place \in [Ids -> Priority]
  BY DEF Types
<1>2. f \in Frames /\ f.id = id /\ f.kind = "data"
  BY <1>1 DEF Frame, Frames
<1>3. /\ PushData(f) /\ seq' = seq + 1
      /\ UNCHANGED <<pinned, prio, forgotten, out, skips, phase>>
  BY <1>2 DEF Content, Push
<1> HIDE DEF f
<1>4. data' = [data EXCEPT ![id] = Append(data[id], f)] /\ UNCHANGED <<lane, runs>>
  BY <1>2, <1>3 DEF PushData
<1>5. /\ Append(data[id], f) \in Seq(Frames) /\ Append(data[id], f) # <<>>
      /\ \A i \in 1 .. Len(Append(data[id], f)) :
           \/ Append(data[id], f)[i] = f
           \/ i \in 1 .. Len(data[id]) /\ Append(data[id], f)[i] = data[id][i]
  BY <1>1, <1>2, Appended
<1>6. data' \in [Ids -> Seq(Frames)] /\ data'[id] = Append(data[id], f)
      /\ \A x \in Ids \ {id} : data'[x] = data[x]
  BY <1>1, <1>4, <1>5
<1>7. Waiting' = Waiting \cup {id}
  BY <1>5, <1>6 DEF Waiting
<1>8. Enters(id) <=> id \notin Waiting
  BY <1>1, EmptySeq DEF Enters, Waiting
<1>9. bands' \in [Urgencies -> AnyBand] /\ InRings' /\ Turns' /\ place' \in [Ids -> Priority]
      /\ \A x \in Ids : place'[x] = IF x = id /\ id \notin Waiting THEN prio[id] ELSE place[x]
  <2>1. CASE id \notin Waiting
    <3>1. place' = [place EXCEPT ![id] = prio[id]] /\ bands' = enter(bands, id, prio[id])
      BY <1>2, <1>3, <1>8, <2>1 DEF PushData
    <3>2. prio[id] \in Priority /\ id \in Ids \ Waiting /\ UNCHANGED skips
      BY <1>1, <1>3, <2>1
    <3>3. bands' \in [Urgencies -> AnyBand] /\ InRings' /\ Turns'
      BY <1>7, <3>1, <3>2, EnterStep
    <3> QED
      BY <1>1, <2>1, <3>1, <3>3
  <2>2. CASE id \in Waiting
    <3>1. UNCHANGED <<place, bands>> /\ Waiting' = Waiting
      BY <1>2, <1>3, <1>7, <1>8, <2>2 DEF PushData
    <3>2. \A x \in Ids : skips'[x] \in {0, skips[x]}
      BY <1>3
    <3>3. bands' \in [Urgencies -> AnyBand] /\ InRings' /\ Turns'
      BY <3>1, <3>2, StayStep
    <3> QED
      BY <1>1, <2>2, <3>1, <3>3
  <2> QED
    BY <2>1, <2>2
<1>10. Types'
  BY <1>3, <1>4, <1>6, <1>9 DEF Types
<1>11. Kinds'
  <2>1. \A i \in 1 .. Len(data'[id]) : data'[id][i].kind = "data" /\ data'[id][i].id = id
    BY <1>2, <1>5, <1>6 DEF Kinds
  <2>2. \A x \in Ids : \A i \in 1 .. Len(data[x]) : data[x][i].kind = "data" /\ data[x][i].id = x
    BY DEF Kinds
  <2>3. \A x \in Ids : \A i \in 1 .. Len(data'[x]) : data'[x][i].kind = "data" /\ data'[x][i].id = x
    BY <1>6, <2>1, <2>2
  <2> QED
    BY <1>3, <1>4, <2>3 DEF Kinds
<1>12. SignalsApply'
  BY <1>3, <1>7, <1>9 DEF SignalsApply, Waiting
<1> QED
  BY <1>9, <1>10, <1>11, <1>12

\* A frame that is not DATA is pushed.
LEMMA OtherIInv ==
    ASSUME IInv, NEW f \in Frames, f.kind # "data", Push(f),
           phase' \in [Ids -> {"start", "inHeaders", "content", "inTrailers", "over"}]
    PROVE  IInv'
<1> USE DEF IInv
<1>1. /\ PushOther(f) /\ seq' = seq + 1
      /\ UNCHANGED <<pinned, prio, forgotten, out, skips>>
  BY DEF Push
<1> DEFINE run == IF f.id \in Ids THEN runs[f.id] ELSE <<>>
           whole == Append(run, f)
           item == [frames |-> whole, stream |-> f.id, seq |-> whole[1].no]
<1>2. /\ runs \in [Ids -> Seq(Frames)] /\ lane \in Seq(Item) /\ seq \in Nat
      /\ f.id \in Ids \cup {0}
  BY DEF Types, Frames
<1>3. UNCHANGED <<data, place, bands>>
  BY <1>1 DEF PushOther
<1>4. \/ runs' = [runs EXCEPT ![f.id] = whole] /\ UNCHANGED lane
      \/ lane' = Append(lane, item) /\ runs' \in {runs, [runs EXCEPT ![f.id] = <<>>]}
  BY <1>1 DEF PushOther
<1>5. run \in Seq(Frames) /\ \A i \in 1 .. Len(run) : run[i].kind # "data"
  <2>1. <<>> \in Seq(Frames) /\ Len(<<>>) = 0
    BY EmptySeq
  <2> QED
    BY <1>2, <2>1 DEF Kinds
<1> HIDE DEF run
<1> HIDE DEF whole
<1>6. /\ whole \in Seq(Frames) /\ whole # <<>> /\ 1 \in 1 .. Len(whole)
      /\ \A i \in 1 .. Len(whole) : whole[i].kind # "data"
  <2>1. /\ whole \in Seq(Frames) /\ whole # <<>> /\ 1 \in 1 .. Len(whole)
        /\ \A i \in 1 .. Len(whole) : \/ whole[i] = f
                                      \/ i \in 1 .. Len(run) /\ whole[i] = run[i]
    BY <1>5, Appended DEF whole
  <2> QED
    BY <1>5, <2>1
<1>7. item \in Item /\ item.frames = whole
  <2>1. whole[1] \in Frames
    BY <1>6, ElementOfSeq
  <2> QED
    BY <1>2, <1>6, <2>1 DEF Item, Frames
<1> HIDE DEF item
<1>8. /\ Append(lane, item) \in Seq(Item)
      /\ \A k \in 1 .. Len(Append(lane, item)) :
           \/ Append(lane, item)[k] = item
           \/ k \in 1 .. Len(lane) /\ Append(lane, item)[k] = lane[k]
  BY <1>2, <1>7, Appended
<1>9. lane' \in Seq(Item) /\ runs' \in [Ids -> Seq(Frames)]
  <2>1. <<>> \in Seq(Frames)
    OBVIOUS
  <2> QED
    BY <1>2, <1>4, <1>6, <1>8, <2>1
<1>10. \A k \in 1 .. Len(lane') : /\ lane'[k].frames # <<>>
                                  /\ \A i \in 1 .. Len(lane'[k].frames) : lane'[k].frames[i].kind # "data"
  <2>1. CASE UNCHANGED lane
    BY <2>1 DEF Kinds
  <2>2. CASE lane' = Append(lane, item)
    BY <1>6, <1>7, <1>8, <2>2 DEF Kinds
  <2> QED
    BY <1>4, <2>1, <2>2
<1>11. \A x \in Ids : \A i \in 1 .. Len(runs'[x]) : runs'[x][i].kind # "data"
  <2>1. \A x \in Ids : runs'[x] \in {runs[x], whole, <<>>}
    BY <1>2, <1>4
  <2>2. Len(<<>>) = 0
    BY EmptySeq
  <2>3. ASSUME NEW x \in Ids PROVE \A i \in 1 .. Len(runs'[x]) : runs'[x][i].kind # "data"
    BY <1>6, <2>1, <2>2 DEF Kinds
  <2> QED
    BY <2>3
<1>12. Waiting' = Waiting /\ \A x \in Ids : skips'[x] \in {0, skips[x]}
  BY <1>1, <1>3 DEF Waiting
<1>13. bands' \in [Urgencies -> AnyBand] /\ InRings' /\ Turns'
  BY <1>3, <1>12, StayStep
<1>14. Types'
  BY <1>1, <1>3, <1>9 DEF Types
<1>15. Kinds'
  BY <1>1, <1>3, <1>10, <1>11 DEF Kinds
<1>16. SignalsApply'
  BY <1>1, <1>3, <1>12 DEF SignalsApply
<1> QED
  BY <1>13, <1>14, <1>15, <1>16

\* Pop from what is left of a block, or from the lane: no DATA leaves.
LEMMA PopLaneIInv ==
    ASSUME IInv, PopPinned \/ PopLane
    PROVE  IInv' /\ out'.kind # "data"
<1> USE DEF IInv
<1>1. UNCHANGED <<seq, runs, data, place, bands, prio, producers, skips>>
  BY DEF PopPinned, PopLane
<1>2. lane \in Seq(Item) /\ pinned \in Seq(Frames)
  BY DEF Types
<1>3. /\ lane' \in Seq(Item) /\ pinned' \in Seq(Frames) /\ out' \in Frames /\ out'.kind # "data"
      /\ \A k \in 1 .. Len(lane') : /\ lane'[k].frames # <<>>
                                    /\ \A i \in 1 .. Len(lane'[k].frames) : lane'[k].frames[i].kind # "data"
      /\ \A i \in 1 .. Len(pinned') : pinned'[i].kind # "data"
  <2>1. CASE PopPinned
    <3>1. pinned # <<>> /\ out' = Head(pinned) /\ pinned' = Tail(pinned) /\ UNCHANGED lane
      BY <2>1 DEF PopPinned
    <3>2. /\ Head(pinned) = pinned[1] /\ Head(pinned) \in Frames /\ Tail(pinned) \in Seq(Frames)
          /\ Len(pinned) \in Nat \ {0}
          /\ \A i \in 1 .. Len(Tail(pinned)) : i + 1 \in 1 .. Len(pinned) /\ Tail(pinned)[i] = pinned[i + 1]
      BY <1>2, <3>1, Headed
    <3> QED
      BY <1>2, <3>1, <3>2 DEF Kinds
  <2>2. CASE PopLane
    <3> DEFINE s == lane[1].frames
    <3>1. lane # <<>> /\ out' = Head(s) /\ pinned' = Tail(s) /\ lane' = Tail(lane)
      BY <2>2 DEF PopLane
    <3>2. /\ Head(lane) = lane[1] /\ Head(lane) \in Item /\ Tail(lane) \in Seq(Item)
          /\ Len(lane) \in Nat \ {0}
          /\ \A k \in 1 .. Len(Tail(lane)) : k + 1 \in 1 .. Len(lane) /\ Tail(lane)[k] = lane[k + 1]
      BY <1>2, <3>1, Headed
    <3>3. s \in Seq(Frames) /\ s # <<>> /\ \A i \in 1 .. Len(s) : s[i].kind # "data"
      BY <3>2 DEF Item, Kinds
    <3>4. \A k \in 1 .. Len(lane') : /\ lane'[k].frames # <<>>
                                     /\ \A i \in 1 .. Len(lane'[k].frames) : lane'[k].frames[i].kind # "data"
      BY <3>1, <3>2 DEF Kinds
    <3> HIDE DEF s
    <3>5. /\ Head(s) = s[1] /\ Head(s) \in Frames /\ Tail(s) \in Seq(Frames)
          /\ Len(s) \in Nat \ {0}
          /\ \A i \in 1 .. Len(Tail(s)) : i + 1 \in 1 .. Len(s) /\ Tail(s)[i] = s[i + 1]
      BY <3>3, Headed
    <3> QED
      BY <3>1, <3>2, <3>3, <3>4, <3>5
  <2> QED
    BY <2>1, <2>2
<1>4. Waiting' = Waiting /\ \A x \in Ids : skips'[x] \in {0, skips[x]}
  BY <1>1 DEF Waiting
<1>5. bands' \in [Urgencies -> AnyBand] /\ InRings' /\ Turns'
  BY <1>1, <1>4, StayStep
<1>6. Types'
  BY <1>1, <1>3 DEF Types, producers
<1>7. Kinds'
  BY <1>1, <1>3 DEF Kinds
<1>8. SignalsApply'
  BY <1>1, <1>4 DEF SignalsApply, producers
<1> QED
  BY <1>3, <1>5, <1>6, <1>7, <1>8

\* Taking a stream's DATA.
LEMMA TakeIs ==
    ASSUME IInv, NEW id \in Waiting, Take(id)
    PROVE  /\ data' \in [Ids -> Seq(Frames)] /\ out' \in Frames
           /\ out' = data[id][1] /\ out'.kind = "data" /\ out'.id = id
           /\ Len(data[id]) \in Nat \ {0}
           /\ Waiting' = Waiting \ (IF Len(data[id]) > 1 THEN {} ELSE {id})
           /\ Kinds'
<1> USE DEF IInv
<1>1. data \in [Ids -> Seq(Frames)] /\ id \in Ids /\ data[id] # <<>>
  BY DEF Types, Waiting
<1>2. /\ Head(data[id]) = data[id][1] /\ Head(data[id]) \in Frames /\ Tail(data[id]) \in Seq(Frames)
      /\ Len(data[id]) \in Nat \ {0}
      /\ Tail(data[id]) = <<>> <=> ~(Len(data[id]) > 1)
      /\ \A i \in 1 .. Len(Tail(data[id])) : /\ i + 1 \in 1 .. Len(data[id])
                                             /\ Tail(data[id])[i] = data[id][i + 1]
  BY <1>1, Headed
<1>3. out' = Head(data[id]) /\ data' = [data EXCEPT ![id] = Tail(data[id])]
  BY DEF Take
<1>4. data' \in [Ids -> Seq(Frames)] /\ data'[id] = Tail(data[id])
      /\ \A x \in Ids \ {id} : data'[x] = data[x]
  BY <1>1, <1>2, <1>3
<1>5. 1 \in 1 .. Len(data[id])
  BY <1>2
<1>6. \A x \in Ids : \A i \in 1 .. Len(data[x]) : data[x][i].kind = "data" /\ data[x][i].id = x
  BY DEF Kinds
<1>7. \A x \in Ids : \A i \in 1 .. Len(data'[x]) : data'[x][i].kind = "data" /\ data'[x][i].id = x
  <2>1. \A i \in 1 .. Len(data'[id]) : data'[id][i].kind = "data" /\ data'[id][i].id = id
    BY <1>1, <1>2, <1>4, <1>6
  <2>2. ASSUME NEW x \in Ids, x # id
        PROVE  \A i \in 1 .. Len(data'[x]) : data'[x][i].kind = "data" /\ data'[x][i].id = x
    <3>1. data'[x] = data[x]
      BY <1>4, <2>2
    <3> QED
      BY <1>6, <3>1
  <2> QED
    BY <2>1, <2>2
<1>8. Kinds'
  BY <1>7 DEF Kinds, Take
<1>9. Waiting' = Waiting \ (IF Len(data[id]) > 1 THEN {} ELSE {id})
  BY <1>1, <1>2, <1>4 DEF Waiting
<1> QED
  BY <1>1, <1>2, <1>3, <1>4, <1>5, <1>6, <1>8, <1>9

LEMMA OutOfTurnIInv ==
    ASSUME IInv, outOfTurn
    PROVE  /\ IInv'
           /\ lane # <<>> /\ lane[1].stream = out'.id /\ out'.no < lane[1].seq
<1> DEFINE id == lane[1].stream
<1> USE DEF IInv
<1>1. /\ lane # <<>> /\ id \in Waiting /\ data[id] # <<>> /\ Head(data[id]).no < lane[1].seq
      /\ Take(id)
      /\ bands' = IF Len(data[id]) = 1 THEN leave(bands, id, place[id]) ELSE bands
      /\ skips' = [skips EXCEPT ![id] = 0]
  BY DEF outOfTurn, Overdue, Waiting
<1>2. out' = Head(data[id])
  BY <1>1 DEF Take
<1> HIDE DEF id
<1>3. /\ data' \in [Ids -> Seq(Frames)] /\ out' \in Frames
      /\ out'.id = id /\ Len(data[id]) \in Nat \ {0}
      /\ Waiting' = Waiting \ (IF Len(data[id]) > 1 THEN {} ELSE {id})
      /\ Kinds'
  BY <1>1, TakeIs
<1>4. UNCHANGED <<seq, lane, pinned, runs, place, prio, producers>>
  BY <1>1 DEF Take
<1>5. skips \in [Ids -> Nat] /\ id \in Ids
  BY <1>1 DEF Types, Waiting
<1>6. bands' \in [Urgencies -> AnyBand] /\ InRings' /\ Turns'
  <2>1. CASE Len(data[id]) = 1
    <3>1. Waiting' = Waiting \ {id} /\ bands' = leave(bands, id, place[id])
      BY <1>1, <1>3, <2>1
    <3> QED
      BY <1>1, <1>4, <3>1, LeaveStep
  <2>2. CASE Len(data[id]) # 1
    <3>1. Waiting' = Waiting /\ UNCHANGED <<bands, place>>
      <4> DEFINE l == Len(data[id])
      <4>1. l \in Nat \ {0} /\ l # 1
        BY <1>3, <2>2
      <4>2. l > 1
        <5> HIDE DEF l
        <5> QED
          BY <4>1
      <4> QED
        BY <1>1, <1>3, <1>4, <2>2, <4>2
    <3>2. \A x \in Ids : skips'[x] \in {0, skips[x]}
      BY <1>1, <1>5
    <3> QED
      BY <3>1, <3>2, StayStep
  <2> QED
    BY <2>1, <2>2
<1>7. Types'
  BY <1>1, <1>3, <1>4, <1>5, <1>6 DEF Types, producers
<1>8. SignalsApply'
  BY <1>3, <1>4 DEF SignalsApply, producers
<1> QED
  BY <1>1, <1>2, <1>3, <1>6, <1>7, <1>8 DEF id

\* A turn is served.
LEMMA ServeIInv ==
    ASSUME IInv, serve
    PROVE  /\ IInv'
           /\ lane = <<>> /\ out'.id = Served /\ Served \in Waiting
           /\ \A id \in Waiting : place[Served].urgency <= place[id].urgency
<1> USE DEF IInv
<1>1. /\ lane = <<>> /\ \E u \in Urgencies : bands[u].ring # <<>>
      /\ Take(Served)
      /\ bands' = [bands EXCEPT ![Band] = Advanced(@, Served)]
      /\ skips' = [id \in Ids |->
                      IF id = Served THEN 0
                      ELSE IF id \in Waiting /\ place[id].urgency = Band
                      THEN skips[id] + 1 ELSE skips[id]]
  BY DEF serve
<1>2. /\ Band \in Urgencies /\ Served \in Here(Band)
      /\ \A u \in Urgencies : bands[u].ring # <<>> => Band <= u
  BY <1>1, ServedIs
<1>3. Served \in Waiting /\ place[Served].urgency = Band
  BY <1>2 DEF Here
<1>4. /\ data' \in [Ids -> Seq(Frames)] /\ out' \in Frames
      /\ out'.id = Served /\ Len(data[Served]) \in Nat \ {0}
      /\ Waiting' = Waiting \ (IF Len(data[Served]) > 1 THEN {} ELSE {Served})
      /\ Kinds'
  BY <1>1, <1>3, TakeIs
<1>5. UNCHANGED <<seq, lane, pinned, runs, place, prio, producers>>
  BY <1>1 DEF Take
<1>6. bands' \in [Urgencies -> AnyBand] /\ InRings' /\ Turns'
  <2>1. CASE Len(data[Served]) > 1
    <3>1. Waiting' = Waiting \ (IF TRUE THEN {} ELSE {Served}) /\ (TRUE <=> Len(data[Served]) > 1)
      BY <1>4, <2>1
    <3> QED
      BY <1>1, <1>5, <3>1, ServeStep
  <2>2. CASE ~(Len(data[Served]) > 1)
    <3>1. Waiting' = Waiting \ (IF FALSE THEN {} ELSE {Served}) /\ (FALSE <=> Len(data[Served]) > 1)
      BY <1>4, <2>2
    <3> QED
      BY <1>1, <1>5, <3>1, ServeStep
  <2> QED
    BY <2>1, <2>2
<1>7. skips' \in [Ids -> Nat]
  <2>1. skips \in [Ids -> Nat]
    BY DEF Types
  <2> QED
    BY <1>1, <2>1
<1>8. Types'
  BY <1>4, <1>5, <1>6, <1>7 DEF Types, producers
<1>9. SignalsApply'
  BY <1>4, <1>5 DEF SignalsApply, producers
<1>10. ASSUME NEW id \in Waiting PROVE place[Served].urgency <= place[id].urgency
  <2> DEFINE u == place[id].urgency
  <2>1. u \in Urgencies
    BY DEF Types, Waiting, Priority
  <2>2. id \in Here(u) /\ Holds(bands[u], Here(u), Incremental(u)) /\ Incremental(u) \subseteq Here(u)
    BY <2>1 DEF Here, InRings, Incremental
  <2>3. ToSet(bands[u].ring) # {}
    BY <2>2 DEF Holds
  <2>4. ToSet(<<>>) = {}
    BY EmptySeq DEF ToSet
  <2>5. bands[u].ring # <<>>
    BY <2>3, <2>4
  <2> QED
    BY <1>2, <1>3, <2>1, <2>5
<1> QED
  BY <1>1, <1>3, <1>4, <1>6, <1>8, <1>9, <1>10

\* A priority signal: DATA that waits is moved to where the signal says.
LEMMA SetPriorityIInv ==
    ASSUME IInv, NEW id \in Ids, NEW p \in Params, SetPriority(id, p)
    PROVE  IInv'
<1> USE DEF IInv
<1>1. /\ prio' = [prio EXCEPT ![id] = p]
      /\ UNCHANGED <<seq, lane, pinned, runs, data, phase, forgotten, out>>
  BY DEF SetPriority
<1>2. /\ place \in [Ids -> Priority] /\ prio \in [Ids -> Priority] /\ skips \in [Ids -> Nat]
      /\ p \in Priority
  BY SchedulerAssumption DEF Types, Priority
<1>3. Waiting' = Waiting
  BY <1>1 DEF Waiting
<1>4. /\ bands' \in [Urgencies -> AnyBand] /\ InRings' /\ Turns'
      /\ place' \in [Ids -> Priority] /\ skips' \in [Ids -> Nat]
      /\ \A x \in Waiting : place'[x] = IF x = id THEN p ELSE place[x]
  <2>1. CASE id \in Waiting /\ place[id] # p
    <3>1. /\ place' = [place EXCEPT ![id] = p]
          /\ bands' = enter(leave(bands, id, place[id]), id, p)
          /\ skips' = [skips EXCEPT ![id] = 0]
      BY <2>1 DEF SetPriority
    <3>2. bands' \in [Urgencies -> AnyBand] /\ InRings' /\ Turns'
      BY <1>2, <1>3, <2>1, <3>1, MoveStep
    <3> QED
      BY <1>2, <3>1, <3>2 DEF Waiting
  <2>2. CASE ~(id \in Waiting /\ place[id] # p)
    <3>1. UNCHANGED <<place, bands, skips>>
      BY <2>2 DEF SetPriority
    <3>2. \A x \in Ids : skips'[x] \in {0, skips[x]}
      BY <3>1
    <3>3. bands' \in [Urgencies -> AnyBand] /\ InRings' /\ Turns'
      BY <1>3, <3>1, <3>2, StayStep
    <3> QED
      BY <1>2, <2>2, <3>1, <3>3
  <2> QED
    BY <2>1, <2>2
<1>5. Types'
  BY <1>1, <1>2, <1>4 DEF Types
<1>6. Kinds'
  BY <1>1 DEF Kinds
<1>7. SignalsApply'
  BY <1>1, <1>2, <1>3, <1>4 DEF SignalsApply, Waiting
<1> QED
  BY <1>4, <1>5, <1>6, <1>7

LEMMA ForgetIInv ==
    ASSUME IInv, NEW id \in Ids, Forget(id)
    PROVE  IInv'
<1> USE DEF IInv
<1>1. /\ prio' = [prio EXCEPT ![id] = Default] /\ forgotten' = forgotten \cup {id}
      /\ UNCHANGED <<seq, lane, pinned, runs, data, place, bands, phase, out, skips>>
  BY DEF Forget
<1>2. prio \in [Ids -> Priority] /\ Default \in Priority /\ forgotten \subseteq Ids
  BY SchedulerAssumption DEF Types, Priority
<1>3. Waiting' = Waiting /\ \A x \in Ids : skips'[x] \in {0, skips[x]}
  BY <1>1 DEF Waiting
<1>4. bands' \in [Urgencies -> AnyBand] /\ InRings' /\ Turns'
  BY <1>1, <1>3, StayStep
<1>5. Types'
  BY <1>1, <1>2 DEF Types
<1>6. Kinds'
  BY <1>1 DEF Kinds
<1>7. SignalsApply'
  BY <1>1, <1>2, <1>3 DEF SignalsApply, Waiting
<1> QED
  BY <1>4, <1>5, <1>6, <1>7

\* A frame of a section, or a control frame.
LEMMA PushesIInv ==
    ASSUME IInv, NEW id \in Ids \cup {0},
           \/ id \in Ids /\ \E end \in BOOLEAN : Section(id, end) \/ Continue(id, end)
           \/ Control(id)
    PROVE  IInv'
<1>1. phase \in [Ids -> {"start", "inHeaders", "content", "inTrailers", "over"}] /\ seq \in Nat
  BY DEF IInv, Types
<1>2. \A kind \in {"headers", "continuation", "control"} : \A end \in BOOLEAN :
        Frame(id, kind, end) \in Frames /\ Frame(id, kind, end).kind # "data"
  BY <1>1 DEF Frame, Frames
<1>3. CASE Control(id)
  <2>1. Push(Frame(id, "control", FALSE)) /\ phase' = phase
    BY <1>3 DEF Control
  <2>2. Frame(id, "control", FALSE) \in Frames /\ Frame(id, "control", FALSE).kind # "data"
    BY <1>2
  <2> HIDE DEF Frame
  <2> QED
    BY <1>1, <2>1, <2>2, OtherIInv
<1>4. ASSUME id \in Ids, NEW end \in BOOLEAN, Section(id, end) PROVE IInv'
  <2>1. Push(Frame(id, "headers", end))
    BY <1>4 DEF Section
  <2>2. Frame(id, "headers", end) \in Frames /\ Frame(id, "headers", end).kind # "data"
    BY <1>2
  <2>3. phase' \in [Ids -> {"start", "inHeaders", "content", "inTrailers", "over"}]
    BY <1>1, <1>4 DEF Section
  <2> QED
    BY <2>1, <2>2, <2>3, OtherIInv
<1>5. ASSUME id \in Ids, NEW end \in BOOLEAN, Continue(id, end) PROVE IInv'
  <2>1. Push(Frame(id, "continuation", end))
    BY <1>5 DEF Continue
  <2>2. Frame(id, "continuation", end) \in Frames /\ Frame(id, "continuation", end).kind # "data"
    BY <1>2
  <2>3. phase' \in [Ids -> {"start", "inHeaders", "content", "inTrailers", "over"}]
    BY <1>1, <1>5 DEF Continue
  <2> QED
    BY <2>1, <2>2, <2>3, OtherIInv
<1> QED
  BY <1>3, <1>4, <1>5

\* Every step keeps IInv.
LEMMA StepIInv == IInv /\ [Next]_vars => IInv'
<1> SUFFICES ASSUME IInv, [Next]_vars PROVE IInv'
  OBVIOUS
<1>1. ASSUME NEW id \in Ids, NEW end \in BOOLEAN, Section(id, end) \/ Continue(id, end) PROVE IInv'
  BY <1>1, PushesIInv
<1>2. ASSUME NEW id \in Ids, Content(id) PROVE IInv'
  BY <1>2, ContentIInv
<1>3. ASSUME NEW id \in Ids, NEW p \in Params, SetPriority(id, p) PROVE IInv'
  BY <1>3, SetPriorityIInv
<1>4. ASSUME NEW id \in Ids, Forget(id) PROVE IInv'
  BY <1>4, ForgetIInv
<1>5. ASSUME NEW id \in Controlled, Control(id) PROVE IInv'
  BY <1>5, PushesIInv, SchedulerAssumption
<1>6. CASE Pop
  BY <1>6, PopLaneIInv, OutOfTurnIInv, ServeIInv DEF Pop
<1>7. CASE UNCHANGED vars
  <2>1. UNCHANGED <<seq, lane, pinned, runs, data, place, bands, prio, phase, forgotten, out, skips>>
    BY <1>7 DEF vars, producers
  <2>2. Waiting' = Waiting /\ \A x \in Ids : skips'[x] \in {0, skips[x]}
    BY <2>1 DEF Waiting
  <2>3. bands' \in [Urgencies -> AnyBand] /\ InRings' /\ Turns'
    BY <2>1, <2>2, StayStep DEF IInv
  <2>4. Types' /\ Kinds'
    BY <2>1 DEF IInv, Types, Kinds
  <2>5. SignalsApply'
    BY <2>1, <2>2 DEF IInv, SignalsApply
  <2> QED
    BY <2>3, <2>4, <2>5 DEF IInv
<1> QED
  BY <1>1, <1>2, <1>3, <1>4, <1>5, <1>6, <1>7 DEF Next

-----------------------------------------------------------------------------
(***************************************************************************)
(* The scheduler's indexes tell the same: the inductive invariant of every *)
(* behaviour of the scheduler.                                             *)
(***************************************************************************)
THEOREM Inductive == Spec => []IInv
<1>1. Init => IInv
  BY InitIInv
<1>2. IInv /\ [Next]_vars => IInv'
  BY StepIInv
<1> QED
  BY <1>1, <1>2, PTL DEF Spec

(***************************************************************************)
(* The rings and the queues never part, for any number of streams and      *)
(* bands: what removeID's silence could hide (scheduler.go:553).           *)
(***************************************************************************)
THEOREM RingsMatchQueuesCorrect == Spec => [](RingsMatchQueues /\ SignalsApply)
<1>1. ASSUME Types, InRings PROVE RingsMatchQueues
  <2>1. ASSUME NEW u \in Urgencies
        PROVE  LET here == {id \in Waiting : place[id].urgency = u}
                   inc == {id \in here : place[id].inc} IN
               /\ bands[u].nonInc = here \ inc
               /\ ToSet(bands[u].ring) = inc \cup (IF here = inc THEN {} ELSE {nonIncrementalTurn})
               /\ Len(bands[u].ring) = Cardinality(ToSet(bands[u].ring))
    <3>1. Holds(bands[u], Here(u), Incremental(u)) /\ bands[u].ring \in Ring
      BY <1>1 DEF InRings, Types, AnyBand
    <3>2. Cardinality(ToSet(bands[u].ring)) = Len(bands[u].ring)
      BY <3>1, RingLength DEF Holds, Ring
    <3> QED
      BY <3>1, <3>2 DEF Holds, Here, Incremental
  <2> QED
    BY <2>1 DEF RingsMatchQueues
<1>2. IInv => RingsMatchQueues /\ SignalsApply
  BY <1>1 DEF IInv
<1> QED
  BY <1>2, Inductive, PTL

(***************************************************************************)
(* Sharing: an incremental stream never waits through as many turns as     *)
(* there are streams.  The group's turn counts as one, however many        *)
(* streams share it (scheduler.go:116).                                    *)
(***************************************************************************)
THEOREM TurnsComeRoundCorrect == Spec => []TurnsComeRound
<1>1. IInv => TurnsComeRound
  <2> SUFFICES ASSUME IInv, NEW id \in Waiting, place[id].inc
               PROVE  skips[id] < Cardinality(Ids)
    BY DEF TurnsComeRound
  <2> DEFINE u == place[id].urgency
  <2>1. u \in Urgencies /\ skips[id] \in Nat /\ id \in Incremental(u)
    BY DEF IInv, Types, Priority, Waiting, Here, Incremental
  <2>2. Holds(bands[u], Here(u), Incremental(u)) /\ bands[u].ring \in Ring
    BY <2>1 DEF IInv, InRings, Types, AnyBand
  <2>3. PICK i \in 1 .. Len(bands[u].ring) : bands[u].ring[i] = id
    BY <2>1, <2>2, LenProperties DEF Holds, ToSet, Ring
  <2>4. skips[id] + i <= Cardinality(Ids)
    BY <2>3 DEF IInv, Turns
  <2> QED
    BY <2>1, <2>3, <2>4, SchedulerAssumption, FS_CardinalityType
<1> QED
  BY <1>1, Inductive, PTL

(***************************************************************************)
(* Urgency: the DATA that leaves is the most urgent there is, and leaves   *)
(* only when nothing else waits, or ahead of a later frame of its own      *)
(* stream (scheduler.go:25, scheduler.go:399).                             *)
(***************************************************************************)
THEOREM UrgentFirstCorrect == Spec => UrgentFirst
<1> DEFINE A == out'.kind = "data" /\ out' # out =>
        \/ /\ lane = <<>>
           /\ \A id \in Waiting \ forgotten :
                out'.id \in forgotten \/ prio[out'.id].urgency <= prio[id].urgency
        \/ lane # <<>> /\ lane[1].stream = out'.id /\ out'.no < lane[1].seq
<1>1. IInv /\ [Next]_vars => [A]_vars
  <2> SUFFICES ASSUME IInv, Next, out'.kind = "data", out' # out PROVE A
    OBVIOUS
  <2>1. Pop
    BY DEF Next, Section, Continue, Content, Control, Push, SetPriority, Forget
  <2>2. CASE PopPinned \/ PopLane
    BY <2>2, PopLaneIInv
  <2>3. CASE outOfTurn
    BY <2>3, OutOfTurnIInv
  <2>4. CASE serve
    <3>1. /\ lane = <<>> /\ out'.id = Served /\ Served \in Waiting
          /\ \A id \in Waiting : place[Served].urgency <= place[id].urgency
      BY <2>4, ServeIInv
    <3>2. \A id \in Waiting \ forgotten : place[id] = prio[id]
      BY DEF IInv, SignalsApply
    <3> QED
      BY <3>1, <3>2
  <2> QED
    BY <2>1, <2>2, <2>3, <2>4 DEF Pop
<1> QED
  BY <1>1, Inductive, PTL DEF Spec, UrgentFirst

-----------------------------------------------------------------------------
(***************************************************************************)
(* What is held, counted.                                                  *)
(***************************************************************************)
LEMMA SlotsAre ==
    ASSUME NEW q, NEW k, NEW i
    PROVE  <<k, i>> \in Slots(q) <=> k \in DOMAIN q /\ i \in DOMAIN q[k]
  BY DEF Slots

Block(a, l, m) == {a} \X (l + 1 .. l + m)

LEMMA BlockIs ==
    ASSUME NEW a, NEW l \in Nat, NEW m \in Nat
    PROVE  IsFiniteSet(Block(a, l, m)) /\ Cardinality(Block(a, l, m)) = m
<1> DEFINE I == l + 1 .. l + m
<1>1. IsFiniteSet(I) /\ Cardinality(I) = m
  BY FS_Interval
<1>2. IsFiniteSet({a}) /\ Cardinality({a}) = 1
  BY FS_Singleton
<1> HIDE DEF I
<1>3. IsFiniteSet({a} \X I) /\ Cardinality({a} \X I) = Cardinality({a}) * Cardinality(I)
  BY <1>1, <1>2, FS_Product, Zenon
<1>4. Block(a, l, m) = {a} \X I
  BY DEF Block, I
<1>5. 1 * m = m
  OBVIOUS
<1> QED
  BY <1>1, <1>2, <1>3, <1>4, <1>5

\* Two sets apart.
LEMMA Apart ==
    ASSUME NEW S, NEW T, NEW B, NEW m \in Nat,
           IsFiniteSet(B), Cardinality(B) = m, T = S \cup B, S \cap B = {},
           IsFiniteSet(S) \/ IsFiniteSet(T)
    PROVE  /\ IsFiniteSet(S) /\ IsFiniteSet(T)
           /\ Cardinality(S) \in Nat /\ Cardinality(T) = Cardinality(S) + m
<1>1. IsFiniteSet(S)
  <2>1. S \in SUBSET T
    OBVIOUS
  <2> QED
    BY <2>1, FS_Subset, Zenon
<1>2. /\ IsFiniteSet(S \cup B)
      /\ Cardinality(S \cup B) = Cardinality(S) + Cardinality(B) - Cardinality(S \cap B)
  BY <1>1, FS_Union, Zenon
<1>3. Cardinality(S) \in Nat /\ Cardinality(S \cap B) = 0
  BY <1>1, FS_CardinalityType, FS_EmptySet
<1>4. S \cup B = T
  OBVIOUS
<1> DEFINE x == Cardinality(S)
           y == Cardinality(T)
           z == Cardinality(S \cap B)
<1>5. y = x + m - z /\ x \in Nat /\ z = 0
  BY <1>2, <1>3, <1>4
<1>6. y = x + m
  <2> HIDE DEF x, y, z
  <2> QED
    BY <1>5
<1> QED
  BY <1>1, <1>2, <1>3, <1>4, <1>6

\* One queue of r is longer than in q by m, where it may be missing if it was empty.
Longer(q, r, a, l, m) ==
    /\ DOMAIN r = DOMAIN q \cup {a} /\ \A k \in DOMAIN q \ {a} : r[k] = q[k]
    /\ IF a \in DOMAIN q THEN DOMAIN q[a] = 1 .. l ELSE l = 0
    /\ DOMAIN r[a] = 1 .. l + m

LEMMA Grown ==
    ASSUME NEW q, NEW r, NEW a, NEW l \in Nat, NEW m \in Nat, Longer(q, r, a, l, m),
           IsFiniteSet(Slots(q)) \/ IsFiniteSet(Slots(r))
    PROVE  /\ IsFiniteSet(Slots(q)) /\ IsFiniteSet(Slots(r))
           /\ Cardinality(Slots(q)) \in Nat
           /\ Cardinality(Slots(r)) = Cardinality(Slots(q)) + m
<1> DEFINE B == Block(a, l, m)
<1> USE DEF Longer
<1>1. \A i : i \in 1 .. l + m <=> i \in 1 .. l \/ i \in l + 1 .. l + m
  OBVIOUS
<1>2. \A i : ~(i \in 1 .. l /\ i \in l + 1 .. l + m) /\ (l = 0 => i \notin 1 .. l)
  OBVIOUS
<1>3. \A k, i : <<k, i>> \in Slots(r) <=> <<k, i>> \in Slots(q) \/ <<k, i>> \in B
  <2> SUFFICES ASSUME NEW k, NEW i
               PROVE  <<k, i>> \in Slots(r) <=> <<k, i>> \in Slots(q) \/ <<k, i>> \in B
    OBVIOUS
  <2>1. <<k, i>> \in B <=> k = a /\ i \in l + 1 .. l + m
    BY DEF Block
  <2> HIDE DEF B
  <2>2. CASE k = a
    <3>1. <<k, i>> \in Slots(r) <=> i \in 1 .. l + m
      BY <2>2, SlotsAre
    <3>2. <<k, i>> \in Slots(q) <=> i \in 1 .. l
      BY <1>2, <2>2, SlotsAre
    <3> QED
      BY <1>1, <2>1, <2>2, <3>1, <3>2
  <2>3. CASE k # a
    BY <2>1, <2>3, SlotsAre
  <2> QED
    BY <2>2, <2>3
<1>4. \A k, i : ~(<<k, i>> \in Slots(q) /\ <<k, i>> \in B)
  BY <1>2, SlotsAre DEF Block
<1>5. /\ \A x \in Slots(q) : x = <<x[1], x[2]>>
      /\ \A x \in Slots(r) : x = <<x[1], x[2]>>
      /\ \A x \in B : x = <<x[1], x[2]>>
  BY DEF Slots, Block
<1> HIDE DEF B
<1>6. Slots(r) = Slots(q) \cup B
  BY <1>3, <1>5
<1>7. Slots(q) \cap B = {}
  BY <1>4, <1>5
<1>8. IsFiniteSet(Slots(q)) \/ IsFiniteSet(Slots(r))
  OBVIOUS
<1> DEFINE S == Slots(q)
           T == Slots(r)
<1>9. T = S \cup B /\ S \cap B = {} /\ IsFiniteSet(B) /\ Cardinality(B) = m
  BY <1>6, <1>7, BlockIs DEF B
<1>10. IsFiniteSet(S) \/ IsFiniteSet(T)
  BY <1>8
<1> HIDE DEF S, T
<1>11. /\ IsFiniteSet(S) /\ IsFiniteSet(T)
       /\ Cardinality(S) \in Nat /\ Cardinality(T) = Cardinality(S) + m
  BY <1>9, <1>10, Apart, Zenon
<1> QED
  BY <1>11 DEF S, T

\* The first of some queues is gone and the others have moved up.
LEMMA MovedUp ==
    ASSUME NEW q, NEW r, NEW c \in Nat, NEW m \in Nat,
           DOMAIN q = 1 .. c + 1, DOMAIN r = 1 .. c, \A k \in 1 .. c : r[k] = q[k + 1],
           DOMAIN q[1] = 1 .. m, IsFiniteSet(Slots(q))
    PROVE  /\ IsFiniteSet(Slots(r)) /\ Cardinality(Slots(r)) \in Nat
           /\ Cardinality(Slots(q)) = Cardinality(Slots(r)) + m
<1> DEFINE rest == [k \in 2 .. c + 1 |-> q[k]]
<1>1. 2 .. c + 1 = DOMAIN rest /\ DOMAIN q = (2 .. c + 1) \cup {1} /\ 1 \notin 2 .. c + 1
      /\ \A k \in 2 .. c + 1 : rest[k] = q[k]
  OBVIOUS
<1> HIDE DEF rest
<1>2. /\ IsFiniteSet(Slots(rest)) /\ Cardinality(Slots(rest)) \in Nat
      /\ Cardinality(Slots(q)) = Cardinality(Slots(rest)) + m
  <2>1. DOMAIN q[1] = 1 .. 0 + m
    OBVIOUS
  <2>2. \A k \in DOMAIN rest \ {1} : q[k] = rest[k]
    BY <1>1
  <2>3. DOMAIN q = DOMAIN rest \cup {1} /\ 1 \notin DOMAIN rest
    BY <1>1
  <2>4. Longer(rest, q, 1, 0, m)
    BY <2>1, <2>2, <2>3 DEF Longer
  <2> QED
    BY <2>4, Grown
<1> DEFINE up == [x \in Slots(rest) |-> <<x[1] - 1, x[2]>>]
<1>3. \A k, i : <<k, i>> \in Slots(r) <=> k \in 1 .. c /\ <<k + 1, i>> \in Slots(rest)
  <2> SUFFICES ASSUME NEW k, NEW i
               PROVE  <<k, i>> \in Slots(r) <=> k \in 1 .. c /\ <<k + 1, i>> \in Slots(rest)
    OBVIOUS
  <2>1. <<k, i>> \in Slots(r) <=> k \in 1 .. c /\ i \in DOMAIN r[k]
    BY SlotsAre
  <2>2. <<k + 1, i>> \in Slots(rest) <=> k + 1 \in 2 .. c + 1 /\ i \in DOMAIN rest[k + 1]
    BY <1>1, SlotsAre, Zenon
  <2>3. k \in 1 .. c => k + 1 \in 2 .. c + 1 /\ r[k] = rest[k + 1]
    BY <1>1
  <2> QED
    BY <2>1, <2>2, <2>3
<1>4. \A x \in Slots(rest) : x = <<x[1], x[2]>> /\ x[1] \in 2 .. c + 1
  BY <1>1 DEF Slots
<1>5. \A y \in Slots(r) : y = <<y[1], y[2]>>
  BY DEF Slots
<1>6. up \in [Slots(rest) -> Slots(r)]
  <2> SUFFICES ASSUME NEW x \in Slots(rest) PROVE <<x[1] - 1, x[2]>> \in Slots(r)
    OBVIOUS
  <2>1. x[1] - 1 \in 1 .. c /\ (x[1] - 1) + 1 = x[1]
    BY <1>4
  <2> QED
    BY <1>3, <1>4, <2>1
<1>7. \A x, y \in Slots(rest) : up[x] = up[y] => x = y
  <2> SUFFICES ASSUME NEW x \in Slots(rest), NEW y \in Slots(rest), up[x] = up[y] PROVE x = y
    OBVIOUS
  <2>1. x[1] - 1 = y[1] - 1 /\ x[2] = y[2]
    OBVIOUS
  <2>2. x[1] = y[1]
    BY <1>4, <2>1
  <2> QED
    BY <1>4, <2>1, <2>2
<1>8. \A y \in Slots(r) : \E x \in Slots(rest) : up[x] = y
  <2> SUFFICES ASSUME NEW y \in Slots(r) PROVE \E x \in Slots(rest) : up[x] = y
    OBVIOUS
  <2>1. y[1] \in 1 .. c /\ <<y[1] + 1, y[2]>> \in Slots(rest)
    BY <1>3, <1>5
  <2>2. up[<<y[1] + 1, y[2]>>] = <<y[1] + 1 - 1, y[2]>>
    BY <2>1
  <2>3. y[1] + 1 - 1 = y[1]
    BY <2>1
  <2> QED
    BY <1>5, <2>1, <2>2, <2>3
<1> HIDE DEF up
<1>9. ExistsBijection(Slots(rest), Slots(r))
  <2>1. up \in Bijection(Slots(rest), Slots(r))
    BY <1>6, <1>7, <1>8 DEF Bijection, Injection, Surjection, IsInjective
  <2> QED
    BY <2>1 DEF ExistsBijection
<1> QED
  BY <1>2, <1>9, FS_Bijection

(***************************************************************************)
(* One queue of a family changes.                                          *)
(***************************************************************************)
LEMMA OneLonger ==
    ASSUME NEW S, NEW F, NEW q \in [S -> Seq(F)], NEW a \in S, NEW e \in F
    PROVE  Longer(q, [q EXCEPT ![a] = Append(q[a], e)], a, Len(q[a]), 1)
<1> DEFINE r == [q EXCEPT ![a] = Append(q[a], e)]
<1>1. q[a] \in Seq(F)
  OBVIOUS
<1>2. Append(q[a], e) \in Seq(F) /\ Len(Append(q[a], e)) = Len(q[a]) + 1
  BY <1>1, AppendProperties
<1>3. DOMAIN q[a] = 1 .. Len(q[a]) /\ DOMAIN Append(q[a], e) = 1 .. Len(q[a]) + 1
  BY <1>1, <1>2, LenProperties
<1>4. DOMAIN r = S /\ DOMAIN q = S /\ r[a] = Append(q[a], e) /\ \A k \in S \ {a} : r[k] = q[k]
  OBVIOUS
<1> HIDE DEF r
<1>5. Longer(q, r, a, Len(q[a]), 1)
  BY <1>3, <1>4 DEF Longer
<1> QED
  BY <1>5 DEF r

LEMMA OneShorter ==
    ASSUME NEW S, NEW F, NEW q \in [S -> Seq(F)], NEW a \in S, q[a] # <<>>
    PROVE  /\ Len(q[a]) - 1 \in Nat
           /\ Longer([q EXCEPT ![a] = Tail(q[a])], q, a, Len(q[a]) - 1, 1)
<1> DEFINE r == [q EXCEPT ![a] = Tail(q[a])]
           l == Len(q[a])
<1>1. q[a] \in Seq(F) /\ l \in Nat \ {0} /\ DOMAIN q[a] = 1 .. l
  BY LenProperties, EmptySeq
<1>2. Tail(q[a]) \in Seq(F) /\ Len(Tail(q[a])) = l - 1
  BY <1>1, HeadTailProperties
<1>3. DOMAIN Tail(q[a]) = 1 .. l - 1
  BY <1>2, LenProperties
<1>4. DOMAIN r = S /\ DOMAIN q = S /\ r[a] = Tail(q[a]) /\ \A k \in S \ {a} : q[k] = r[k]
  OBVIOUS
<1> HIDE DEF r, l
<1>5. l - 1 + 1 = l /\ l - 1 \in Nat
  BY <1>1
<1>6. Longer(r, q, a, l - 1, 1)
  BY <1>1, <1>3, <1>4, <1>5 DEF Longer
<1> QED
  BY <1>5, <1>6 DEF r, l

LEMMA OneCleared ==
    ASSUME NEW S, NEW F, NEW q \in [S -> Seq(F)], NEW a \in S
    PROVE  Len(q[a]) \in Nat /\ Longer([q EXCEPT ![a] = <<>>], q, a, 0, Len(q[a]))
<1> DEFINE r == [q EXCEPT ![a] = <<>>]
           l == Len(q[a])
<1>1. l \in Nat /\ DOMAIN q[a] = 1 .. l
  BY LenProperties
<1>2. DOMAIN << >> = 1 .. 0
  BY EmptySeq, LenProperties
<1>3. DOMAIN r = S /\ DOMAIN q = S /\ r[a] = <<>> /\ \A k \in S \ {a} : q[k] = r[k]
  OBVIOUS
<1> HIDE DEF r, l
<1>4. 1 .. 0 + l = 1 .. l
  BY <1>1
<1>5. Longer(r, q, a, 0, l)
  BY <1>1, <1>2, <1>3, <1>4 DEF Longer
<1> QED
  BY <1>1, <1>5 DEF r, l

(***************************************************************************)
(* The counters, with the sets they count finite.                          *)
(***************************************************************************)
Counts ==
    /\ IsFiniteSet(Slots(Items)) /\ IsFiniteSet(Slots(data)) /\ IsFiniteSet(Slots(runs))
    /\ CountsAreExact

\* What the counters say once each number has a name.
LEMMA CountsAre ==
    ASSUME Counts
    PROVE  /\ Cardinality(Slots(Items)) \in Nat /\ Cardinality(Slots(data)) \in Nat
           /\ Cardinality(Slots(runs)) \in Nat
           /\ n = Len(pinned) + Cardinality(Slots(Items)) + Cardinality(Slots(data))
           /\ blocked = Cardinality(Slots(runs))
  BY FS_CardinalityType DEF Counts, CountsAreExact

LEMMA CountsStay ==
    ASSUME Counts, UNCHANGED <<lane, pinned, runs, data, n, blocked>>
    PROVE  Counts'
<1>1. Items' = Items /\ Slots(data)' = Slots(data) /\ Slots(runs)' = Slots(runs)
  BY DEF Items, Slots
<1>2. Slots(Items)' = Slots(Items)
  BY <1>1 DEF Slots
<1> QED
  BY <1>1, <1>2 DEF Counts, CountsAreExact

LEMMA ContentCounts ==
    ASSUME IInv, Counts, NEW id \in Ids, Content(id)
    PROVE  Counts'
<1> DEFINE f == Frame(id, "data", FALSE)
<1>1. data \in [Ids -> Seq(Frames)] /\ seq \in Nat /\ pinned \in Seq(Frames)
  BY DEF IInv, Types
<1>2. f \in Frames /\ f.id = id /\ f.kind = "data"
  BY <1>1 DEF Frame, Frames
<1>3. PushData(f) /\ UNCHANGED pinned
  BY <1>2 DEF Content, Push
<1> HIDE DEF f
<1>4. /\ data' = [data EXCEPT ![id] = Append(data[id], f)] /\ n' = n + 1
      /\ UNCHANGED <<lane, runs, blocked>>
  BY <1>2, <1>3 DEF PushData
<1>5. /\ IsFiniteSet(Slots(data')) /\ Cardinality(Slots(data')) = Cardinality(Slots(data)) + 1
  <2>1. Longer(data, data', id, Len(data[id]), 1)
    BY <1>1, <1>2, <1>4, OneLonger
  <2>2. Len(data[id]) \in Nat
    BY <1>1, LenProperties
  <2> QED
    BY <2>1, <2>2, Grown DEF Counts
<1>6. Slots(Items)' = Slots(Items) /\ Slots(runs)' = Slots(runs)
  BY <1>4 DEF Items, Slots
<1>7. Len(pinned) \in Nat
  BY <1>1, LenProperties
<1>8. n' = Len(pinned) + Cardinality(Slots(Items)) + Cardinality(Slots(data'))
  BY <1>4, <1>5, <1>7, CountsAre
<1> QED
  BY <1>3, <1>4, <1>5, <1>6, <1>8 DEF Counts, CountsAreExact

\* A frame that is not DATA opens a block, adds to one, ends one, or stands alone.
LEMMA OtherCounts ==
    ASSUME IInv, Counts, NEW f \in Frames, f.kind # "data", Push(f),
           f.kind = "headers" => f.id \in Ids
    PROVE  Counts'
<1> DEFINE run == IF f.id \in Ids THEN runs[f.id] ELSE <<>>
           whole == Append(run, f)
           item == [frames |-> whole, stream |-> f.id, seq |-> whole[1].no]
           opens == f.kind = "headers" /\ ~f.end
<1>1. PushOther(f) /\ UNCHANGED <<pinned, data>>
  BY DEF Push, PushOther
<1>2. runs \in [Ids -> Seq(Frames)] /\ lane \in Seq(Item) /\ pinned \in Seq(Frames)
  BY DEF IInv, Types
<1>3. \/ /\ (run # <<>> /\ ~f.end) \/ (run = <<>> /\ opens)
         /\ runs' = [runs EXCEPT ![f.id] = whole]
         /\ blocked' = blocked + 1
         /\ UNCHANGED <<lane, n>>
      \/ /\ lane' = Append(lane, item)
         /\ n' = n + Len(whole)
         /\ blocked' = blocked - (IF run = <<>> THEN 0 ELSE Released(run))
         /\ runs' = IF run = <<>> THEN runs ELSE [runs EXCEPT ![f.id] = <<>>]
  BY <1>1 DEF PushOther
<1>4. run \in Seq(Frames) /\ (f.id \in Ids => run = runs[f.id])
  <2>1. <<>> \in Seq(Frames)
    OBVIOUS
  <2> QED
    BY <1>2, <2>1
<1>5. (run # <<>> /\ ~f.end) \/ (run = <<>> /\ opens) => f.id \in Ids
  OBVIOUS
<1>6. run # <<>> => f.id \in Ids
  OBVIOUS
<1> HIDE DEF run, opens
<1>7. whole \in Seq(Frames) /\ Len(whole) \in Nat /\ DOMAIN whole = 1 .. Len(whole)
  <2>1. whole \in Seq(Frames)
    BY <1>4, Appended
  <2> QED
    BY <2>1, LenProperties
<1>8. Slots(data)' = Slots(data) /\ Len(pinned') = Len(pinned) /\ Len(pinned) \in Nat
  BY <1>1, <1>2, LenProperties DEF Slots
<1>9. CASE /\ (run # <<>> /\ ~f.end) \/ (run = <<>> /\ opens)
           /\ runs' = [runs EXCEPT ![f.id] = whole]
           /\ blocked' = blocked + 1
           /\ UNCHANGED <<lane, n>>
  <2>1. f.id \in Ids /\ runs' = [runs EXCEPT ![f.id] = Append(runs[f.id], f)]
    BY <1>4, <1>5, <1>9
  <2>2. IsFiniteSet(Slots(runs')) /\ Cardinality(Slots(runs')) = Cardinality(Slots(runs)) + 1
    <3>1. Longer(runs, runs', f.id, Len(runs[f.id]), 1)
      BY <1>2, <2>1, OneLonger
    <3>2. Len(runs[f.id]) \in Nat
      BY <1>2, <2>1, LenProperties
    <3> QED
      BY <3>1, <3>2, Grown DEF Counts
  <2>3. Slots(Items)' = Slots(Items)
    BY <1>9 DEF Items, Slots
  <2> QED
    BY <1>8, <1>9, <2>2, <2>3 DEF Counts, CountsAreExact
<1>10. CASE /\ lane' = Append(lane, item)
            /\ n' = n + Len(whole)
            /\ blocked' = blocked - (IF run = <<>> THEN 0 ELSE Released(run))
            /\ runs' = IF run = <<>> THEN runs ELSE [runs EXCEPT ![f.id] = <<>>]
  <2> DEFINE w == Len(whole)
             c == Len(lane)
  <2>1. item \in Item /\ item.frames = whole
    <3>1. whole[1] \in Frames
      BY <1>4, <1>7, Appended, ElementOfSeq
    <3> QED
      BY <1>7, <3>1 DEF Item, Frames
  <2> HIDE DEF item
  <2>2. /\ c \in Nat /\ DOMAIN lane = 1 .. c /\ DOMAIN lane' = 1 .. c + 1
        /\ lane'[c + 1] = item /\ \A k \in 1 .. c : lane'[k] = lane[k]
    <3>1. /\ lane' \in Seq(Item) /\ Len(lane') = c + 1
          /\ lane'[c + 1] = item /\ \A k \in 1 .. c : lane'[k] = lane[k]
      BY <1>2, <1>10, <2>1, AppendProperties
    <3> QED
      BY <1>2, <3>1, LenProperties
  <2> HIDE DEF c
  <2>3. /\ IsFiniteSet(Slots(Items')) /\ Cardinality(Slots(Items')) = Cardinality(Slots(Items)) + w
    <3>1. /\ DOMAIN Items = 1 .. c /\ DOMAIN Items' = 1 .. c + 1
          /\ Items'[c + 1] = whole
          /\ \A k \in 1 .. c : Items'[k] = Items[k]
      BY <2>1, <2>2 DEF Items
    <3>2. DOMAIN whole = 1 .. 0 + w
      BY <1>7
    <3>3. 1 .. c + 1 = (1 .. c) \cup {c + 1} /\ c + 1 \notin 1 .. c
      BY <2>2
    <3>4. Longer(Items, Items', c + 1, 0, w)
      BY <3>1, <3>2, <3>3 DEF Longer
    <3> QED
      BY <1>7, <3>4, Grown DEF Counts
  <2>4. IsFiniteSet(Slots(runs')) /\ blocked' = Cardinality(Slots(runs'))
    <3>1. CASE run = <<>>
      BY <1>10, <3>1, CountsAre DEF Counts
    <3>2. CASE run # <<>>
      <4> DEFINE l == Len(runs[f.id])
      <4>1. /\ f.id \in Ids /\ runs' = [runs EXCEPT ![f.id] = <<>>] /\ blocked' = blocked - l
        BY <1>4, <1>6, <1>10, <3>2 DEF Released
      <4>2. l \in Nat /\ Longer(runs', runs, f.id, 0, l)
        BY <1>2, <4>1, OneCleared
      <4> HIDE DEF l
      <4>3. /\ IsFiniteSet(Slots(runs')) /\ Cardinality(Slots(runs')) \in Nat
            /\ Cardinality(Slots(runs)) = Cardinality(Slots(runs')) + l
        BY <4>2, Grown DEF Counts
      <4> QED
        BY <4>1, <4>2, <4>3, CountsAre
    <3> QED
      BY <3>1, <3>2
  <2>5. n' = Len(pinned') + Cardinality(Slots(Items')) + Cardinality(Slots(data'))
    <3>1. n' = n + w /\ w \in Nat
      BY <1>7, <1>10
    <3> HIDE DEF w
    <3> QED
      BY <1>8, <2>3, <3>1, CountsAre
  <2> QED
    BY <1>8, <2>3, <2>4, <2>5 DEF Counts, CountsAreExact
<1> QED
  BY <1>3, <1>9, <1>10

\* Pop takes what is next of the block being written.
LEMMA PinnedCounts ==
    ASSUME IInv, Counts, PopPinned
    PROVE  Counts'
<1>1. /\ pinned # <<>> /\ pinned' = Tail(pinned) /\ n' = n - 1
      /\ UNCHANGED <<lane, runs, data, blocked>>
  BY DEF PopPinned
<1>2. Len(pinned) \in Nat \ {0} /\ Len(pinned') = Len(pinned) - 1
  <2>1. pinned \in Seq(Frames)
    BY DEF IInv, Types
  <2> QED
    BY <1>1, <2>1, LenProperties, EmptySeq, HeadTailProperties
<1>3. Slots(Items)' = Slots(Items) /\ Slots(data)' = Slots(data) /\ Slots(runs)' = Slots(runs)
  BY <1>1 DEF Items, Slots
<1>4. n' = Len(pinned') + Cardinality(Slots(Items)) + Cardinality(Slots(data))
  BY <1>1, <1>2, CountsAre
<1> QED
  BY <1>1, <1>3, <1>4 DEF Counts, CountsAreExact

\* Pop takes the first item of the lane apart.
LEMMA LaneCounts ==
    ASSUME IInv, Counts, PopLane
    PROVE  Counts'
<1> DEFINE s == lane[1].frames
           c == Len(lane) - 1
           m == Len(s)
<1>1. /\ pinned = <<>> /\ lane # <<>> /\ pinned' = Tail(s) /\ lane' = Tail(lane) /\ n' = n - 1
      /\ UNCHANGED <<runs, data, blocked>>
  BY DEF PopLane
<1>2. lane \in Seq(Item)
  BY DEF IInv, Types
<1>3. /\ c \in Nat /\ DOMAIN lane = 1 .. c + 1 /\ DOMAIN lane' = 1 .. c
      /\ \A k \in 1 .. c : lane'[k] = lane[k + 1]
  <2> DEFINE l == Len(lane)
  <2>1. l \in Nat \ {0} /\ DOMAIN lane = 1 .. l
    BY <1>1, <1>2, LenProperties, EmptySeq
  <2>2. /\ lane' \in Seq(Item) /\ Len(lane') = l - 1
        /\ \A k \in 1 .. l - 1 : lane'[k] = lane[k + 1]
    BY <1>1, <1>2, HeadTailProperties
  <2>3. DOMAIN lane' = 1 .. l - 1
    BY <2>2, LenProperties
  <2> HIDE DEF l
  <2>4. c = l - 1
    BY DEF l
  <2> QED
    BY <2>1, <2>2, <2>3, <2>4
<1> HIDE DEF c
<1>4. s \in Seq(Frames) /\ s # <<>>
  <2>1. 1 \in 1 .. c + 1
    BY <1>3
  <2>2. lane[1] \in Item /\ 1 \in 1 .. Len(lane)
    BY <1>2, <1>3, <2>1, LenProperties, ElementOfSeq
  <2> QED
    BY <2>2 DEF Item, IInv, Kinds
<1> HIDE DEF s
<1>5. m \in Nat \ {0} /\ DOMAIN s = 1 .. m /\ Len(pinned') = m - 1
  BY <1>1, <1>4, LenProperties, EmptySeq, HeadTailProperties
<1> HIDE DEF m
<1>6. /\ IsFiniteSet(Slots(Items')) /\ Cardinality(Slots(Items')) \in Nat
      /\ Cardinality(Slots(Items)) = Cardinality(Slots(Items')) + m
  <2>1. DOMAIN Items = 1 .. c + 1 /\ DOMAIN Items' = 1 .. c
    BY <1>3 DEF Items
  <2>2. \A k \in 1 .. c : Items'[k] = Items[k + 1]
    <3>1. \A k \in 1 .. c : k + 1 \in 1 .. c + 1
      BY <1>3
    <3> QED
      BY <1>3, <3>1 DEF Items
  <2>3. DOMAIN Items[1] = 1 .. m
    <3>1. 1 \in 1 .. c + 1
      BY <1>3
    <3> QED
      BY <1>3, <1>5, <3>1 DEF Items, s
  <2>4. IsFiniteSet(Slots(Items)) /\ m \in Nat
    BY <1>5 DEF Counts
  <2> QED
    BY <1>3, <2>1, <2>2, <2>3, <2>4, MovedUp
<1>7. Slots(data)' = Slots(data) /\ Slots(runs)' = Slots(runs) /\ Len(pinned) = 0
  BY <1>1, EmptySeq DEF Slots
<1>8. n' = Len(pinned') + Cardinality(Slots(Items')) + Cardinality(Slots(data))
  BY <1>1, <1>5, <1>6, <1>7, CountsAre
<1> QED
  BY <1>1, <1>6, <1>7, <1>8 DEF Counts, CountsAreExact

\* Pop takes a stream's DATA, in its turn or out of it.
LEMMA TakeCounts ==
    ASSUME IInv, Counts, NEW id \in Waiting, Take(id)
    PROVE  Counts'
<1>1. /\ data \in [Ids -> Seq(Frames)] /\ id \in Ids /\ data[id] # <<>> /\ pinned \in Seq(Frames)
  BY DEF IInv, Types, Waiting
<1>2. /\ data' = [data EXCEPT ![id] = Tail(data[id])] /\ n' = n - 1
      /\ UNCHANGED <<lane, pinned, runs, blocked>>
  BY DEF Take
<1>3. /\ IsFiniteSet(Slots(data')) /\ Cardinality(Slots(data')) \in Nat
      /\ Cardinality(Slots(data)) = Cardinality(Slots(data')) + 1
  <2>1. Len(data[id]) - 1 \in Nat /\ Longer(data', data, id, Len(data[id]) - 1, 1)
    BY <1>1, <1>2, OneShorter
  <2> QED
    BY <2>1, Grown DEF Counts
<1>4. Slots(Items)' = Slots(Items) /\ Slots(runs)' = Slots(runs)
  BY <1>2 DEF Items, Slots
<1>5. Len(pinned) \in Nat
  BY <1>1, LenProperties
<1>6. n' = Len(pinned) + Cardinality(Slots(Items)) + Cardinality(Slots(data'))
  BY <1>2, <1>3, <1>5, CountsAre
<1> QED
  BY <1>2, <1>3, <1>4, <1>6 DEF Counts, CountsAreExact

LEMMA InitCounts == Init => Counts
<1> SUFFICES ASSUME Init PROVE Counts
  OBVIOUS
<1>1. DOMAIN << >> = {} /\ Len(<< >>) = 0
  <2>1. << >> \in Seq(Frames) /\ Len(<< >>) = 0 /\ 1 .. 0 = {}
    BY EmptySeq
  <2> QED
    BY <2>1, LenProperties
<1>2. /\ lane = <<>> /\ pinned = <<>> /\ n = 0 /\ blocked = 0
      /\ runs = [id \in Ids |-> <<>>] /\ data = [id \in Ids |-> <<>>]
  BY DEF Init
<1>3. Slots(Items) = {} /\ Slots(data) = {} /\ Slots(runs) = {}
  <2>1. DOMAIN Items = {}
    BY <1>1, <1>2 DEF Items
  <2>2. DOMAIN data = Ids /\ DOMAIN runs = Ids /\ \A id \in Ids : data[id] = <<>> /\ runs[id] = <<>>
    BY <1>2
  <2>3. Slots(Items) = {}
    BY <2>1 DEF Slots
  <2>4. Slots(data) = {} /\ Slots(runs) = {}
    BY <1>1, <2>2 DEF Slots
  <2> QED
    BY <2>3, <2>4
<1>4. IsFiniteSet({}) /\ Cardinality({}) = 0
  BY FS_EmptySet, Zenon
<1>5. IsFiniteSet(Slots(Items)) /\ IsFiniteSet(Slots(data)) /\ IsFiniteSet(Slots(runs))
  BY <1>3, <1>4
<1>6. Cardinality(Slots(Items)) = 0 /\ Cardinality(Slots(data)) = 0 /\ Cardinality(Slots(runs)) = 0
  BY <1>3, <1>4
<1>7. Len(pinned) = 0 /\ n = 0 /\ blocked = 0
  BY <1>1, <1>2
<1>8. n = Len(pinned) + Cardinality(Slots(Items)) + Cardinality(Slots(data))
  BY <1>6, <1>7
<1>9. CountsAreExact
  BY <1>6, <1>7, <1>8 DEF CountsAreExact
<1> QED
  BY <1>5, <1>9 DEF Counts

LEMMA StepCounts == IInv /\ Counts /\ [Next]_vars => Counts'
<1> SUFFICES ASSUME IInv, Counts, [Next]_vars PROVE Counts'
  OBVIOUS
<1>1. seq \in Nat
  BY DEF IInv, Types
<1>2. ASSUME NEW id \in Ids \cup {0}, NEW end \in BOOLEAN,
             NEW kind \in {"headers", "continuation", "control"},
             Push(Frame(id, kind, end)), kind = "headers" => id \in Ids
      PROVE  Counts'
  <2> DEFINE f == Frame(id, kind, end)
  <2>1. f \in Frames /\ f.kind = kind /\ f.id = id
    BY <1>1 DEF Frame, Frames
  <2> HIDE DEF f
  <2>2. Push(f) /\ f.kind # "data"
    BY <1>2, <2>1 DEF f
  <2> QED
    BY <1>2, <2>1, <2>2, OtherCounts
<1>3. ASSUME NEW id \in Ids, NEW end \in BOOLEAN, Section(id, end) \/ Continue(id, end) PROVE Counts'
  <2>1. Push(Frame(id, "headers", end)) \/ Push(Frame(id, "continuation", end))
    BY <1>3 DEF Section, Continue
  <2> HIDE DEF Frame, Push
  <2> QED
    BY <1>2, <2>1
<1>4. ASSUME NEW id \in Controlled, Control(id) PROVE Counts'
  <2>1. Push(Frame(id, "control", FALSE)) /\ id \in Ids \cup {0}
    BY <1>4, SchedulerAssumption DEF Control
  <2> QED
    BY <1>2, <2>1
<1>5. ASSUME NEW id \in Ids, Content(id) PROVE Counts'
  BY <1>5, ContentCounts
<1>6. ASSUME NEW id \in Ids, (\E p \in Params : SetPriority(id, p)) \/ Forget(id) PROVE Counts'
  <2>1. UNCHANGED <<lane, pinned, runs, data, n, blocked>>
    BY <1>6 DEF SetPriority, Forget
  <2> QED
    BY <2>1, CountsStay
<1>7. CASE Pop
  <2>1. CASE PopPinned
    BY <2>1, PinnedCounts
  <2>2. CASE PopLane
    BY <2>2, LaneCounts
  <2>3. CASE outOfTurn
    <3>1. Take(lane[1].stream) /\ lane[1].stream \in Waiting
      BY <2>3 DEF outOfTurn, Overdue, Waiting
    <3> QED
      BY <3>1, TakeCounts
  <2>4. CASE serve
    <3>1. Take(Served) /\ Served \in Waiting
      BY <2>4, ServeIInv DEF serve
    <3> QED
      BY <3>1, TakeCounts
  <2> QED
    BY <1>7, <2>1, <2>2, <2>3, <2>4 DEF Pop
<1>8. CASE UNCHANGED vars
  BY <1>8, CountsStay DEF vars
<1> QED
  BY <1>3, <1>4, <1>5, <1>6, <1>7, <1>8 DEF Next

\* Where something is held, Pop finds it.
LEMMA FoundIs ==
    ASSUME IInv, Counts
    PROVE  NothingIsStuck
<1>1. /\ pinned \in Seq(Frames) /\ lane \in Seq(Item) /\ data \in [Ids -> Seq(Frames)]
      /\ bands \in [Urgencies -> AnyBand] /\ place \in [Ids -> Priority]
  BY DEF IInv, Types
<1>2. Len(pinned) \in Nat /\ (Len(pinned) = 0 <=> pinned = <<>>)
  BY <1>1, LenProperties, EmptySeq
<1>3. Cardinality(Slots(Items)) = 0 <=> lane = <<>>
  <2>1. Len(lane) \in Nat /\ DOMAIN lane = 1 .. Len(lane) /\ (lane = <<>> <=> Len(lane) = 0)
    BY <1>1, LenProperties, EmptySeq
  <2>2. ASSUME lane # <<>> PROVE <<1, 1>> \in Slots(Items)
    <3>1. 1 \in 1 .. Len(lane)
      BY <2>1, <2>2
    <3>2. lane[1] \in Item /\ lane[1].frames # <<>>
      BY <1>1, <3>1, ElementOfSeq DEF IInv, Kinds
    <3>3. lane[1].frames \in Seq(Frames)
      BY <3>2 DEF Item
    <3> DEFINE s == lane[1].frames
    <3>4. 1 \in DOMAIN s
      <4>1. s \in Seq(Frames) /\ s # <<>>
        BY <3>2, <3>3
      <4> HIDE DEF s
      <4> QED
        BY <4>1, LenProperties, EmptySeq
    <3>5. 1 \in DOMAIN Items /\ Items[1] = s
      BY <2>1, <3>1 DEF Items
    <3> HIDE DEF s
    <3> QED
      BY <3>4, <3>5, SlotsAre
  <2>3. lane = <<>> => Slots(Items) = {}
    <3> SUFFICES ASSUME lane = <<>> PROVE Slots(Items) = {}
      OBVIOUS
    <3>1. DOMAIN lane = {}
      BY <2>1
    <3> QED
      BY <3>1 DEF Items, Slots
  <2> QED
    BY <2>2, <2>3, FS_EmptySet DEF Counts
<1>4. Cardinality(Slots(data)) = 0 <=> Waiting = {}
  <2>1. \A id \in Ids : /\ data[id] = <<>> => DOMAIN data[id] = {}
                        /\ data[id] # <<>> => 1 \in DOMAIN data[id]
    BY <1>1, LenProperties, EmptySeq
  <2>2. Slots(data) = {} <=> Waiting = {}
    <3>1. ASSUME NEW id \in Waiting PROVE <<id, 1>> \in Slots(data)
      BY <1>1, <2>1, SlotsAre DEF Waiting
    <3>2. ASSUME Waiting = {} PROVE Slots(data) = {}
      BY <1>1, <2>1, <3>2 DEF Slots, Waiting
    <3> QED
      BY <3>1, <3>2
  <2> QED
    BY <2>2, FS_EmptySet DEF Counts
<1>5. Waiting = {} <=> \A u \in Urgencies : bands[u].ring = <<>>
  <2>1. ASSUME NEW u \in Urgencies PROVE bands[u].ring = <<>> <=> Here(u) = {}
    <3>1. Holds(bands[u], Here(u), Incremental(u)) /\ bands[u].ring \in Ring
      BY <1>1 DEF IInv, InRings, AnyBand
    <3>2. bands[u].ring = <<>> <=> ToSet(bands[u].ring) = {}
      <4> DEFINE r == bands[u].ring
      <4>1. Len(r) \in Nat /\ DOMAIN r = 1 .. Len(r) /\ (r = <<>> <=> Len(r) = 0)
        BY <3>1, LenProperties, EmptySeq DEF Ring
      <4> HIDE DEF r
      <4>2. (r = <<>> => DOMAIN r = {}) /\ (r # <<>> => 1 \in DOMAIN r)
        BY <4>1
      <4>3. ToSet(r) = {} <=> DOMAIN r = {}
        BY DEF ToSet
      <4>4. r = <<>> <=> ToSet(r) = {}
        BY <4>2, <4>3
      <4> QED
        BY <4>4 DEF r
    <3> QED
      BY <3>1, <3>2 DEF Holds, Incremental
  <2>2. \A id \in Waiting : place[id].urgency \in Urgencies /\ id \in Here(place[id].urgency)
    BY <1>1 DEF Waiting, Here, Priority
  <2>3. \A u \in Urgencies : Here(u) \subseteq Waiting
    BY DEF Here
  <2> QED
    BY <2>1, <2>2, <2>3
<1> DEFINE p == Len(pinned)
           i == Cardinality(Slots(Items))
           d == Cardinality(Slots(data))
<1>6. p \in Nat /\ i \in Nat /\ d \in Nat /\ n = p + i + d
  BY <1>2, CountsAre
<1>7. n > 0 <=> p # 0 \/ i # 0 \/ d # 0
  <2> HIDE DEF p, i, d
  <2> QED
    BY <1>6
<1> QED
  BY <1>2, <1>3, <1>4, <1>5, <1>7 DEF NothingIsStuck

(***************************************************************************)
(* The scheduler's indexes tell the same of the frames it holds, for any   *)
(* finite set of streams, any bands and any signals: rings and queues,     *)
(* places and signals, the counters and the frames they count; and Pop     *)
(* finds a frame exactly while the count says that there is one            *)
(* (scheduler.go:255, scheduler.go:388, scheduler.go:553).                 *)
(***************************************************************************)
THEOREM IndexesAgreeCorrect == Spec => []IndexesAgree
<1>1. Init => Counts
  BY InitCounts
<1>2. IInv /\ Counts /\ [Next]_vars => Counts'
  BY StepCounts
<1>3. Spec => []Counts
  BY <1>1, <1>2, Inductive, PTL DEF Spec
<1>4. Spec => [](seq \in 0 .. MaxPushes)
  <2>1. Init => seq \in 0 .. MaxPushes
    BY SchedulerAssumption DEF Init
  <2>2. seq \in 0 .. MaxPushes /\ [Next]_vars => (seq \in 0 .. MaxPushes)'
    <3> SUFFICES ASSUME seq \in 0 .. MaxPushes, [Next]_vars PROVE seq' \in 0 .. MaxPushes
      OBVIOUS
    <3>1. seq' = seq \/ (seq < MaxPushes /\ seq' = seq + 1)
      BY DEF Next, vars, Section, Continue, Content, Control, Push, SetPriority, Forget, Pop,
             PopPinned, PopLane, outOfTurn, serve, Take
    <3> QED
      BY <3>1, SchedulerAssumption
  <2> QED
    BY <2>1, <2>2, PTL DEF Spec
<1>5. IInv /\ Counts /\ seq \in 0 .. MaxPushes => TypeOK /\ CountsAreExact /\ NothingIsStuck
  <2> SUFFICES ASSUME IInv, Counts, seq \in 0 .. MaxPushes
               PROVE  TypeOK /\ CountsAreExact /\ NothingIsStuck
    OBVIOUS
  <2>1. \A k \in DOMAIN lane : lane[k].frames \in Seq(Frames) /\ lane[k].frames # <<>>
    <3>1. lane \in Seq(Item)
      BY DEF IInv, Types
    <3>2. \A k \in DOMAIN lane : k \in 1 .. Len(lane) /\ lane[k] \in Item
      BY <3>1, LenProperties, ElementOfSeq
    <3> QED
      BY <3>2 DEF IInv, Kinds, Item
  <2>2. \A u \in Urgencies : /\ bands[u].ring \in Seq(Ids \cup {nonIncrementalTurn})
                             /\ bands[u].nonInc \subseteq Ids
    BY DEF IInv, Types, AnyBand, Ring
  <2>3. n \in Nat /\ blocked \in Nat
    <3>1. Len(pinned) \in Nat
      BY LenProperties DEF IInv, Types
    <3> QED
      BY <3>1, CountsAre
  <2> QED
    BY <2>1, <2>2, <2>3, FoundIs DEF TypeOK, IInv, Types, Priority, Counts
<1>6. Spec => [](RingsMatchQueues /\ SignalsApply)
  BY RingsMatchQueuesCorrect
<1>7. (RingsMatchQueues /\ SignalsApply) /\ (TypeOK /\ CountsAreExact /\ NothingIsStuck) => IndexesAgree
  BY DEF IndexesAgree
<1> QED
  BY <1>3, <1>4, <1>5, <1>6, <1>7, Inductive, PTL

-----------------------------------------------------------------------------
(***************************************************************************)
(* The order of the frames of one stream.                                  *)
(*                                                                         *)
(* What may not be interrupted is a piece: piece 0 is what is left of the  *)
(* block that is being written, the others are the items of the lane.      *)
(***************************************************************************)
Ends(f) == f.kind \in {"data", "control"} \/ f.end

Pieces == 0 .. Len(lane)
Piece(k) == IF k = 0 THEN pinned ELSE lane[k].frames
Owner(k) == IF k = 0 THEN (IF pinned = <<>> THEN -1 ELSE pinned[1].id) ELSE lane[k].stream
In(k) == ToSet(Piece(k))
Open(id) == ToSet(runs[id])
Data(id) == ToSet(data[id])

Rising(s) == \A i, j \in 1 .. Len(s) : i < j => s[i].no < s[j].no
Before(S, T) == \A f \in S, g \in T : f.no < g.no

\* Only the last frame of an item promises nothing more.
IsItem(s) == s # <<>> /\ Rising(s) /\ \A i \in 1 .. Len(s) : Ends(s[i]) <=> i = Len(s)
Final(s) == s[Len(s)].no

Owned ==
    /\ \A k \in Pieces : \A f \in In(k) : f.id = Owner(k)
    /\ \A id \in Ids : \A f \in Open(id) : f.id = id

Shapes ==
    /\ \A k \in Pieces : IsItem(Piece(k)) \/ (k = 0 /\ pinned = <<>>)
    /\ \A k \in 1 .. Len(lane) : lane[k].seq = lane[k].frames[1].no
    /\ \A id \in Ids : Rising(runs[id]) /\ Rising(data[id]) /\ \A f \in Open(id) : ~Ends(f)

\* A block is open while its section is being pushed.
Sections ==
    \A id \in Ids : /\ runs[id] # <<>> <=> InSection(id)
                    /\ runs[id] # <<>> => id \in Spanning

Numbered == \A f \in Held : f.no \in 0 .. seq

\* The pieces of one stream follow each other, and all were completed in this order.
InLine ==
    \A k, l \in Pieces : k < l =>
        /\ Owner(k) = Owner(l) => Before(In(k), In(l))
        /\ Piece(k) # <<>> => Final(Piece(k)) < Final(Piece(l))

\* An open block comes after all else of its stream.
Opened ==
    \A id \in Ids : /\ \A k \in Pieces : Owner(k) = id => Before(In(k), Open(id))
                    /\ Before(Data(id), Open(id))

\* DATA was not pushed between the frames of a block, nor before what is left of one.
Interleaved ==
    \A id \in Ids : \A k \in Pieces : Owner(k) = id =>
        \A d \in Data(id) : Before(In(k), {d}) \/ (k # 0 /\ Before({d}, In(k)))

Of(id) == {f \in Held : f.id = id}

Enumerates(q, S) == q \in Seq(Frames) /\ ToSet(q) = S /\ Rising(q)

Queued == \A id \in Ids \cup {0} : Enumerates(InOrder(Of(id)), Of(id))

OInv == Owned /\ Shapes /\ Sections /\ Numbered /\ InLine /\ Opened /\ Interleaved

(***************************************************************************)
(* InOrder: the enumeration of a set by the numbers of its frames.         *)
(***************************************************************************)
LEMMA RisingIsRing ==
    ASSUME NEW q \in Seq(Frames), Rising(q)
    PROVE  /\ IsInjective(q) /\ Len(q) \in Nat /\ DOMAIN q = 1 .. Len(q)
           /\ \A i \in 1 .. Len(q) : q[i] \in Frames /\ q[i].no \in Nat
<1>1. Len(q) \in Nat /\ DOMAIN q = 1 .. Len(q)
  BY LenProperties
<1>2. \A i \in 1 .. Len(q) : q[i] \in Frames
  BY ElementOfSeq
<1>3. \A i \in 1 .. Len(q) : q[i].no \in Nat
  BY <1>2 DEF Frames
<1>4. IsInjective(q)
  BY <1>1, <1>3 DEF IsInjective, Rising
<1> QED
  BY <1>1, <1>2, <1>3, <1>4

\* As many frames of a rising queue have a lower number as stand before it.
LEMMA CountBelow ==
    ASSUME NEW q \in Seq(Frames), Rising(q), NEW k \in 1 .. Len(q)
    PROVE  Cardinality({g \in ToSet(q) : g.no < q[k].no}) = k - 1
<1> DEFINE low == SubSeq(q, 1, k - 1)
<1>1. /\ IsInjective(q) /\ Len(q) \in Nat /\ DOMAIN q = 1 .. Len(q)
      /\ \A i \in 1 .. Len(q) : q[i] \in Frames /\ q[i].no \in Nat
  BY RisingIsRing
<1>2. /\ low \in Seq(Frames) /\ Len(low) = k - 1
      /\ \A i \in 1 .. k - 1 : low[i] = q[i]
  <2>1. \A i \in 1 .. k - 1 : q[i] \in Frames
    BY <1>1
  <2>2. /\ low \in Seq(Frames) /\ Len(low) = IF 1 <= k - 1 THEN k - 1 - 1 + 1 ELSE 0
        /\ \A i \in 1 .. k - 1 - 1 + 1 : low[i] = q[1 + i - 1]
    BY <2>1, <1>1, SubSeqProperties
  <2> QED
    BY <2>2, <1>1
<1> HIDE DEF low
<1>3. DOMAIN low = 1 .. k - 1
  BY <1>2, LenProperties
<1>4. IsInjective(low)
  BY <1>1, <1>2, <1>3 DEF IsInjective
<1>5. Cardinality(ToSet(low)) = k - 1
  BY <1>2, <1>4, RingLength
<1>6. \A i \in 1 .. Len(q) : q[i].no < q[k].no <=> i <= k - 1
  <2>1. ASSUME NEW i \in 1 .. Len(q), i <= k - 1 PROVE q[i].no < q[k].no
    BY <1>1, <2>1 DEF Rising
  <2>2. ASSUME NEW i \in 1 .. Len(q), ~(i <= k - 1) PROVE ~(q[i].no < q[k].no)
    <3>1. i = k \/ k < i
      BY <1>1, <2>2
    <3>2. q[k].no <= q[i].no
      BY <1>1, <3>1 DEF Rising
    <3> QED
      BY <1>1, <3>2
  <2> QED
    BY <2>1, <2>2
<1>7. {g \in ToSet(q) : g.no < q[k].no} = ToSet(low)
  <2>1. \A x : x \in ToSet(q) <=> \E i \in 1 .. Len(q) : x = q[i]
    BY <1>1 DEF ToSet
  <2>2. \A x : x \in ToSet(low) <=> \E i \in 1 .. k - 1 : x = q[i]
    BY <1>2, <1>3 DEF ToSet
  <2>3. \A i \in 1 .. k - 1 : i \in 1 .. Len(q) /\ i <= k - 1
    BY <1>1
  <2>4. \A i \in 1 .. Len(q) : i <= k - 1 => i \in 1 .. k - 1
    BY <1>1
  <2> QED
    BY <1>6, <2>1, <2>2, <2>3, <2>4
<1> QED
  BY <1>5, <1>7

LEMMA InOrderIs ==
    ASSUME NEW S, NEW q, Enumerates(q, S)
    PROVE  InOrder(S) = q /\ IsFiniteSet(S) /\ Cardinality(S) = Len(q)
<1>1. /\ q \in Seq(Frames) /\ ToSet(q) = S /\ Rising(q)
      /\ IsInjective(q) /\ Len(q) \in Nat /\ DOMAIN q = 1 .. Len(q)
  BY RisingIsRing DEF Enumerates
<1>2. IsFiniteSet(S) /\ Cardinality(S) = Len(q)
  BY <1>1, RingLength
<1> DEFINE Below(f) == Cardinality({g \in S : g.no < f.no})
<1>3. \A k \in 1 .. Len(q) : Below(q[k]) = k - 1
  BY <1>1, CountBelow
<1> HIDE DEF Below
<1>4. ASSUME NEW k \in 1 .. Len(q) PROVE (CHOOSE f \in S : Below(f) = k - 1) = q[k]
  <2>1. q[k] \in S /\ Below(q[k]) = k - 1
    BY <1>1, <1>3 DEF ToSet
  <2>2. ASSUME NEW f \in S, Below(f) = k - 1 PROVE f = q[k]
    <3>1. PICK j \in 1 .. Len(q) : f = q[j]
      BY <1>1 DEF ToSet
    <3>2. j - 1 = k - 1
      BY <1>3, <2>2, <3>1
    <3>3. j = k
      BY <1>1, <3>2
    <3> QED
      BY <3>1, <3>3
  <2> QED
    BY <2>1, <2>2
<1>5. InOrder(S) = [k \in 1 .. Len(q) |-> CHOOSE f \in S : Below(f) = k - 1]
  BY <1>2 DEF InOrder, Below
<1>6. q = [k \in 1 .. Len(q) |-> q[k]]
  BY <1>1, LenProperties
<1> QED
  BY <1>2, <1>4, <1>5, <1>6

\* A frame with a higher number than all others goes last.
LEMMA EnumerateMore ==
    ASSUME NEW S, NEW q, Enumerates(q, S), NEW f \in Frames, \A g \in S : g.no < f.no
    PROVE  Enumerates(Append(q, f), S \cup {f})
<1>1. /\ q \in Seq(Frames) /\ ToSet(q) = S /\ Rising(q)
      /\ IsInjective(q) /\ Len(q) \in Nat /\ DOMAIN q = 1 .. Len(q)
      /\ \A i \in 1 .. Len(q) : q[i].no \in Nat
  BY RisingIsRing DEF Enumerates
<1> DEFINE t == Append(q, f)
<1>2. /\ t \in Seq(Frames) /\ Len(t) = Len(q) + 1
      /\ ToSet(t) = S \cup {f}
      /\ \A i \in 1 .. Len(q) : t[i] = q[i]
      /\ t[Len(q) + 1] = f
  BY <1>1, AppendRing
<1> HIDE DEF t
<1>3. \A i \in 1 .. Len(q) : q[i].no < f.no
  BY <1>1 DEF ToSet
<1>4. ASSUME NEW i \in 1 .. Len(t), NEW j \in 1 .. Len(t), i < j PROVE t[i].no < t[j].no
  <2>1. CASE j = Len(q) + 1
    <3>1. i \in 1 .. Len(q)
      BY <1>1, <1>2, <1>4, <2>1
    <3> QED
      BY <1>2, <1>3, <2>1, <3>1
  <2>2. CASE j # Len(q) + 1
    <3>1. i \in 1 .. Len(q) /\ j \in 1 .. Len(q)
      BY <1>1, <1>2, <1>4, <2>2
    <3> QED
      BY <1>1, <1>2, <1>4, <3>1 DEF Rising
  <2> QED
    BY <2>1, <2>2
<1> QED
  BY <1>2, <1>4 DEF Enumerates, Rising, t

\* The frame with the lowest number stands first.
LEMMA EnumerateLess ==
    ASSUME NEW S, NEW q, Enumerates(q, S), NEW f \in S, \A g \in S : f.no <= g.no
    PROVE  q # <<>> /\ Head(q) = f /\ Enumerates(Tail(q), S \ {f})
<1>1. /\ q \in Seq(Frames) /\ ToSet(q) = S /\ Rising(q)
      /\ IsInjective(q) /\ Len(q) \in Nat /\ DOMAIN q = 1 .. Len(q)
      /\ \A i \in 1 .. Len(q) : q[i].no \in Nat
  BY RisingIsRing DEF Enumerates
<1>2. PICK p \in 1 .. Len(q) : q[p] = f
  BY <1>1 DEF ToSet
<1>3. 1 \in 1 .. Len(q) /\ q # <<>>
  BY <1>1, <1>2, EmptySeq
<1>4. p = 1
  <2>1. q[1] \in S
    BY <1>1, <1>3 DEF ToSet
  <2>2. ~(q[1].no < q[p].no)
    BY <1>1, <1>2, <1>3, <2>1
  <2> QED
    BY <1>1, <1>3, <2>2 DEF Rising
<1> DEFINE t == Tail(q)
<1>5. /\ Head(q) = q[1] /\ t \in Seq(Frames) /\ Len(t) = Len(q) - 1
      /\ \A i \in 1 .. Len(q) - 1 : t[i] = q[i + 1]
  BY <1>1, <1>3, HeadTailProperties
<1>6. DOMAIN t = 1 .. Len(q) - 1
  BY <1>5, LenProperties
<1> HIDE DEF t
<1>7. Rising(t)
  <2>1. ASSUME NEW i \in 1 .. Len(t), NEW j \in 1 .. Len(t), i < j PROVE t[i].no < t[j].no
    <3>1. i + 1 \in 1 .. Len(q) /\ j + 1 \in 1 .. Len(q) /\ i + 1 < j + 1
      BY <1>1, <1>5, <2>1
    <3>2. q[i + 1].no < q[j + 1].no
      BY <1>1, <3>1 DEF Rising
    <3> QED
      BY <1>5, <3>2
  <2> QED
    BY <2>1 DEF Rising
<1>8. ToSet(t) = S \ {f}
  <2>1. \A x : x \in S <=> \E i \in 1 .. Len(q) : x = q[i]
    BY <1>1 DEF ToSet
  <2>2. \A x : x \in ToSet(t) <=> \E i \in 1 .. Len(q) - 1 : x = q[i + 1]
    BY <1>5, <1>6 DEF ToSet
  <2>3. ASSUME NEW x \in ToSet(t) PROVE x \in S \ {f}
    <3>1. PICK i \in 1 .. Len(q) - 1 : x = q[i + 1]
      BY <2>2
    <3>2. i + 1 \in 1 .. Len(q) /\ i + 1 # 1
      BY <1>1
    <3> QED
      BY <1>1, <1>2, <1>3, <1>4, <2>1, <3>1, <3>2 DEF IsInjective
  <2>4. ASSUME NEW x \in S, x # f PROVE x \in ToSet(t)
    <3>1. PICK j \in 1 .. Len(q) : x = q[j]
      BY <2>1
    <3>2. j - 1 \in 1 .. Len(q) - 1 /\ (j - 1) + 1 = j
      BY <1>1, <1>2, <1>4, <2>4, <3>1
    <3> QED
      BY <2>2, <3>1, <3>2
  <2> QED
    BY <2>3, <2>4
<1> QED
  BY <1>2, <1>3, <1>4, <1>5, <1>7, <1>8 DEF Enumerates, t

(***************************************************************************)
(* What the scheduler holds, in this state and the next.                   *)
(***************************************************************************)
LEMMA HeldIs ==
    ASSUME lane \in Seq(Item), lane' \in Seq(Item)
    PROVE  /\ \A f : f \in Held <=> \/ \E k \in Pieces : f \in In(k)
                                    \/ \E id \in Ids : f \in Open(id) \/ f \in Data(id)
           /\ \A f : f \in Held' <=> \/ \E k \in Pieces' : f \in In(k)'
                                     \/ \E id \in Ids : f \in Open(id)' \/ f \in Data(id)'
<1>1. /\ Len(lane) \in Nat /\ DOMAIN lane = 1 .. Len(lane)
      /\ Len(lane') \in Nat /\ DOMAIN lane' = 1 .. Len(lane')
  BY LenProperties
<1>2. Pieces = {0} \cup 1 .. Len(lane) /\ \A k \in 1 .. Len(lane) : k # 0
  BY <1>1 DEF Pieces
<1>3. Pieces' = {0} \cup 1 .. Len(lane') /\ \A k \in 1 .. Len(lane') : k # 0
  BY <1>1 DEF Pieces
<1>4. In(0) = ToSet(pinned) /\ \A k \in 1 .. Len(lane) : In(k) = ToSet(lane[k].frames)
  BY <1>2 DEF In, Piece
<1>5. In(0)' = ToSet(pinned') /\ \A k \in 1 .. Len(lane') : In(k)' = ToSet(lane'[k].frames)
  BY <1>3 DEF In, Piece
<1>6. ASSUME NEW f
      PROVE  f \in Held <=> \/ \E k \in Pieces : f \in In(k)
                            \/ \E id \in Ids : f \in Open(id) \/ f \in Data(id)
  <2>1. f \in Held <=> \/ f \in In(0) \/ \E k \in 1 .. Len(lane) : f \in In(k)
                       \/ \E id \in Ids : f \in Open(id) \/ f \in Data(id)
    <3>1. f \in Held <=> \/ f \in ToSet(pinned) \/ \E k \in DOMAIN lane : f \in ToSet(lane[k].frames)
                         \/ \E id \in Ids : f \in ToSet(runs[id]) \/ f \in ToSet(data[id])
      BY DEF Held
    <3> QED
      BY <1>1, <1>4, <3>1, Zenon DEF Open, Data
  <2> QED
    BY <1>2, <2>1, Zenon
<1>7. ASSUME NEW f
      PROVE  f \in Held' <=> \/ \E k \in Pieces' : f \in In(k)'
                             \/ \E id \in Ids : f \in Open(id)' \/ f \in Data(id)'
  <2>1. f \in Held' <=> \/ f \in In(0)' \/ \E k \in 1 .. Len(lane') : f \in In(k)'
                        \/ \E id \in Ids : f \in Open(id)' \/ f \in Data(id)'
    <3>1. f \in Held' <=> \/ f \in ToSet(pinned') \/ \E k \in DOMAIN lane' : f \in ToSet(lane'[k].frames)
                          \/ \E id \in Ids : f \in ToSet(runs'[id]) \/ f \in ToSet(data'[id])
      BY DEF Held
    <3> QED
      BY <1>1, <1>5, <3>1, Zenon DEF Open, Data
  <2> QED
    BY <1>3, <2>1, Zenon
<1> QED
  BY <1>6, <1>7

(***************************************************************************)
(* Steps that push nothing: what is left of the pieces stays in order.     *)
(* Piece k of the next state is what is left of piece m[k].                *)
(***************************************************************************)
LEMMA FewerOInv ==
    ASSUME Types, OInv, lane' \in Seq(Item), UNCHANGED <<runs, phase, seq>>,
           NEW m \in [Pieces' -> Pieces],
           \A k, l \in Pieces' : k < l => m[k] < m[l],
           \A k \in Pieces' :
             \/ k = 0 /\ pinned' = <<>> /\ In(k)' = {}
             \/ /\ In(k)' \subseteq In(m[k]) /\ Owner(k)' = Owner(m[k])
                /\ IsItem(Piece(k)') /\ Final(Piece(k)') = Final(Piece(m[k]))
                /\ Piece(m[k]) # <<>>,
           \A k \in 1 .. Len(lane') : lane'[k].seq = lane'[k].frames[1].no,
           \A id \in Ids : Data(id)' \subseteq Data(id) /\ Rising(data'[id]),
           Held' \subseteq Held,
           m[0] # 0 => \A id \in Ids : Owner(0)' = id => Before(In(0)', Data(id)')
    PROVE  OInv'
<1>1. /\ Pieces \subseteq Nat /\ Pieces' \subseteq Nat /\ 0 \in Pieces'
      /\ \A k \in Pieces' : m[k] \in Pieces
  <2>1. Len(lane) \in Nat /\ Len(lane') \in Nat
    BY LenProperties DEF Types
  <2>2. Pieces \subseteq Nat /\ Pieces' \subseteq Nat /\ 0 \in Pieces'
    BY <2>1 DEF Pieces
  <2> QED
    BY <2>2
<1>2. \A id \in Ids : Open(id)' = Open(id)
  BY DEF Open
<1>3. \A k \in Pieces' : In(k)' # {} => In(k)' \subseteq In(m[k]) /\ Owner(k)' = Owner(m[k])
  OBVIOUS
<1>4. Owned'
  <2>1. \A k \in Pieces' : \A f \in In(k)' : f.id = Owner(k)'
    BY <1>1, <1>3 DEF OInv, Owned
  <2> QED
    BY <1>2, <2>1 DEF OInv, Owned
<1>5. Shapes'
  <2>1. \A k \in Pieces' : IsItem(Piece(k)') \/ (k = 0 /\ pinned' = <<>>)
    OBVIOUS
  <2> QED
    BY <1>2, <2>1 DEF OInv, Shapes
<1>6. Sections'
  BY DEF OInv, Sections, InSection
<1>7. Numbered'
  BY DEF OInv, Numbered
<1>8. InLine'
  <2> SUFFICES ASSUME NEW k \in Pieces', NEW l \in Pieces', k < l
               PROVE  /\ Owner(k)' = Owner(l)' => Before(In(k)', In(l)')
                      /\ Piece(k)' # <<>> => Final(Piece(k)') < Final(Piece(l)')
    BY DEF InLine
  <2>1. l # 0 /\ m[k] < m[l] /\ m[k] \in Pieces /\ m[l] \in Pieces
    BY <1>1
  <2>2. /\ Owner(m[k]) = Owner(m[l]) => Before(In(m[k]), In(m[l]))
        /\ Piece(m[k]) # <<>> => Final(Piece(m[k])) < Final(Piece(m[l]))
    BY <2>1 DEF OInv, InLine
  <2>3. CASE k = 0 /\ pinned' = <<>> /\ In(k)' = {}
    BY <2>3 DEF Before, Piece
  <2>4. CASE ~(k = 0 /\ pinned' = <<>> /\ In(k)' = {})
    <3>1. /\ In(k)' \subseteq In(m[k]) /\ Owner(k)' = Owner(m[k])
          /\ Final(Piece(k)') = Final(Piece(m[k])) /\ Piece(m[k]) # <<>>
      BY <2>4
    <3>2. /\ In(l)' \subseteq In(m[l]) /\ Owner(l)' = Owner(m[l])
          /\ Final(Piece(l)') = Final(Piece(m[l]))
      BY <2>1
    <3> QED
      BY <2>2, <3>1, <3>2 DEF Before
  <2> QED
    BY <2>3, <2>4
<1>9. Opened'
  <2>1. \A id \in Ids : \A k \in Pieces' : Owner(k)' = id => Before(In(k)', Open(id)')
    BY <1>1, <1>2, <1>3 DEF OInv, Opened, Before
  <2>2. \A id \in Ids : Before(Data(id)', Open(id)')
    BY <1>2 DEF OInv, Opened, Before
  <2> QED
    BY <2>1, <2>2 DEF Opened
<1>10. Interleaved'
  <2> SUFFICES ASSUME NEW id \in Ids, NEW k \in Pieces', Owner(k)' = id, NEW d \in Data(id)'
               PROVE  Before(In(k)', {d}) \/ (k # 0 /\ Before({d}, In(k)'))
    BY DEF Interleaved
  <2>1. CASE In(k)' = {}
    BY <2>1 DEF Before
  <2>2. CASE In(k)' # {} /\ k = 0 /\ m[0] # 0
    <3>1. Before(In(0)', Data(id)')
      BY <2>2
    <3> QED
      BY <2>2, <3>1 DEF Before
  <2>3. CASE In(k)' # {} /\ ~(k = 0 /\ m[0] # 0)
    <3>1. In(k)' \subseteq In(m[k]) /\ Owner(m[k]) = id /\ m[k] \in Pieces /\ d \in Data(id)
      BY <1>1, <1>3, <2>3
    <3>2. Before(In(m[k]), {d}) \/ (m[k] # 0 /\ Before({d}, In(m[k])))
      BY <3>1 DEF OInv, Interleaved
    <3>3. k = 0 => m[k] = 0
      BY <2>3
    <3>4. Before(In(m[k]), {d}) => Before(In(k)', {d})
      BY <3>1 DEF Before
    <3>5. Before({d}, In(m[k])) => Before({d}, In(k)')
      BY <3>1 DEF Before
    <3> QED
      BY <3>2, <3>3, <3>4, <3>5
  <2> QED
    BY <2>1, <2>2, <2>3
<1> QED
  BY <1>4, <1>5, <1>6, <1>7, <1>8, <1>9, <1>10 DEF OInv

(***************************************************************************)
(* Steps that push: the new frame has a higher number than all others.     *)
(***************************************************************************)
LEMMA PiecesKept ==
    ASSUME UNCHANGED <<lane, pinned>>
    PROVE  /\ Pieces' = Pieces
           /\ \A k \in Pieces : Piece(k)' = Piece(k) /\ Owner(k)' = Owner(k) /\ In(k)' = In(k)
  BY DEF Pieces, Piece, Owner, In

LEMMA AllBelow ==
    ASSUME Types, OInv, lane' \in Seq(Item), NEW f, f.no = seq + 1
    PROVE  /\ \A g \in Held : g.no < f.no
           /\ \A k \in Pieces : Before(In(k), {f})
           /\ \A id \in Ids : Before(Open(id), {f}) /\ Before(Data(id), {f})
<1>1. lane \in Seq(Item) /\ seq \in Nat
  BY DEF Types
<1>2. \A g \in Held : g.no \in 0 .. seq
  BY DEF OInv, Numbered
<1>3. \A g \in Held : g.no < f.no
  BY <1>1, <1>2
<1>4. /\ \A k \in Pieces : In(k) \subseteq Held
      /\ \A id \in Ids : Open(id) \subseteq Held /\ Data(id) \subseteq Held
  BY <1>1, HeldIs
<1> QED
  BY <1>3, <1>4 DEF Before

LEMMA AppendRising ==
    ASSUME NEW s \in Seq(Frames), Rising(s), NEW f \in Frames, Before(ToSet(s), {f})
    PROVE  /\ Append(s, f) \in Seq(Frames) /\ Rising(Append(s, f))
           /\ ToSet(Append(s, f)) = ToSet(s) \cup {f}
<1>1. Enumerates(s, ToSet(s))
  BY DEF Enumerates
<1>2. Enumerates(Append(s, f), ToSet(s) \cup {f})
  BY <1>1, EnumerateMore DEF Before
<1> QED
  BY <1>2 DEF Enumerates

\* DATA comes after everything of its stream, and no block of it is open.
LEMMA ContentOInv ==
    ASSUME IInv, OInv, NEW id \in Ids, NEW f \in Frames, f.no = seq + 1, seq' = seq + 1,
           data' = [data EXCEPT ![id] = Append(data[id], f)],
           UNCHANGED <<lane, pinned, runs, phase>>, phase[id] = "content"
    PROVE  OInv' /\ Held' = Held \cup {f}
<1>1. Types /\ lane \in Seq(Item) /\ data \in [Ids -> Seq(Frames)] /\ seq \in Nat
  BY DEF IInv, Types
<1>2. /\ Pieces' = Pieces
      /\ \A k \in Pieces : Piece(k)' = Piece(k) /\ Owner(k)' = Owner(k) /\ In(k)' = In(k)
  BY PiecesKept
<1>3. /\ \A g \in Held : g.no < f.no
      /\ \A k \in Pieces : Before(In(k), {f})
      /\ \A x \in Ids : Before(Open(x), {f}) /\ Before(Data(x), {f})
  BY <1>1, AllBelow
<1>4. /\ Append(data[id], f) \in Seq(Frames) /\ Rising(Append(data[id], f))
      /\ ToSet(Append(data[id], f)) = Data(id) \cup {f}
  BY <1>1, <1>3, AppendRising DEF Data, OInv, Shapes
<1>5. Data(id)' = Data(id) \cup {f} /\ Rising(data'[id])
  BY <1>1, <1>4 DEF Data
<1>6. \A x \in Ids \ {id} : data'[x] = data[x] /\ Data(x)' = Data(x)
  BY <1>1 DEF Data
<1>7. \A x \in Ids : Open(x)' = Open(x)
  BY DEF Open
<1>8. Open(id) = {}
  <2>1. runs[id] = <<>>
    BY DEF OInv, Sections, InSection
  <2>2. ToSet(<<>>) = {}
    BY EmptySeq DEF ToSet
  <2> QED
    BY <2>1, <2>2 DEF Open
<1>9. Held' = Held \cup {f}
  <2>1. \A g : g \in Held <=> \/ \E k \in Pieces : g \in In(k)
                              \/ \E x \in Ids : g \in Open(x) \/ g \in Data(x)
    BY <1>1, HeldIs
  <2>2. \A g : g \in Held' <=> \/ \E k \in Pieces : g \in In(k)
                               \/ \E x \in Ids : g \in Open(x) \/ g \in Data(x)'
    BY <1>1, <1>2, <1>7, HeldIs
  <2>3. \A g : (\E x \in Ids : g \in Data(x)') <=> (\E x \in Ids : g \in Data(x)) \/ g = f
    BY <1>5, <1>6
  <2> QED
    BY <2>1, <2>2, <2>3
<1>10. Owned'
  BY <1>2, <1>7 DEF OInv, Owned
<1>11. Shapes'
  <2>1. \A k \in Pieces' : IsItem(Piece(k)') \/ (k = 0 /\ pinned' = <<>>)
    BY <1>2 DEF OInv, Shapes
  <2>2. \A x \in Ids : Rising(data'[x])
    BY <1>5, <1>6 DEF OInv, Shapes
  <2> QED
    BY <1>7, <2>1, <2>2 DEF OInv, Shapes
<1>12. Sections'
  BY DEF OInv, Sections, InSection
<1>13. Numbered'
  <2>1. \A g \in Held : g.no \in 0 .. seq
    BY DEF OInv, Numbered
  <2>2. \A g \in Held : g.no \in 0 .. seq'
    BY <1>1, <2>1
  <2>3. f.no \in 0 .. seq'
    BY <1>1
  <2> QED
    BY <1>9, <2>2, <2>3 DEF Numbered
<1>14. InLine'
  BY <1>2 DEF OInv, InLine
<1>15. Opened'
  <2>1. \A x \in Ids : \A k \in Pieces' : Owner(k)' = x => Before(In(k)', Open(x)')
    BY <1>2, <1>7 DEF OInv, Opened
  <2>2. \A x \in Ids : Before(Data(x)', Open(x)')
    BY <1>6, <1>7, <1>8 DEF OInv, Opened, Before
  <2> QED
    BY <2>1, <2>2 DEF Opened
<1>16. Interleaved'
  <2> SUFFICES ASSUME NEW x \in Ids, NEW k \in Pieces, Owner(k) = x, NEW d \in Data(x)'
               PROVE  Before(In(k), {d}) \/ (k # 0 /\ Before({d}, In(k)))
    BY <1>2 DEF Interleaved
  <2>1. CASE d \in Data(x)
    BY <2>1 DEF OInv, Interleaved
  <2>2. CASE d = f
    BY <1>3, <2>2
  <2> QED
    BY <1>5, <1>6, <2>1, <2>2
<1> QED
  BY <1>9, <1>10, <1>11, <1>12, <1>13, <1>14, <1>15, <1>16 DEF OInv

\* A frame that promises a CONTINUATION joins the open block of its stream.
LEMMA OpenOInv ==
    ASSUME IInv, OInv, NEW id \in Spanning, NEW f \in Frames, f.no = seq + 1, seq' = seq + 1,
           f.id = id, ~Ends(f), runs' = [runs EXCEPT ![id] = Append(runs[id], f)],
           UNCHANGED <<lane, pinned, data>>,
           InSection(id)', \A x \in Ids \ {id} : phase'[x] = phase[x]
    PROVE  OInv' /\ Held' = Held \cup {f}
<1>1. /\ Types /\ lane \in Seq(Item) /\ runs \in [Ids -> Seq(Frames)] /\ seq \in Nat
      /\ id \in Ids
  BY SchedulerAssumption DEF IInv, Types
<1>2. /\ Pieces' = Pieces
      /\ \A k \in Pieces : Piece(k)' = Piece(k) /\ Owner(k)' = Owner(k) /\ In(k)' = In(k)
  BY PiecesKept
<1>3. /\ \A g \in Held : g.no < f.no
      /\ \A k \in Pieces : Before(In(k), {f})
      /\ \A x \in Ids : Before(Open(x), {f}) /\ Before(Data(x), {f})
  BY <1>1, AllBelow
<1>4. /\ Append(runs[id], f) \in Seq(Frames) /\ Rising(Append(runs[id], f))
      /\ ToSet(Append(runs[id], f)) = Open(id) \cup {f}
  BY <1>1, <1>3, AppendRising DEF Open, OInv, Shapes
<1>5. Open(id)' = Open(id) \cup {f} /\ Rising(runs'[id]) /\ runs'[id] # <<>>
  <2>1. Append(runs[id], f) # <<>>
    BY <1>1, Appended
  <2> QED
    BY <1>1, <1>4, <2>1 DEF Open
<1>6. \A x \in Ids \ {id} : runs'[x] = runs[x] /\ Open(x)' = Open(x)
  BY <1>1 DEF Open
<1>7. \A x \in Ids : Data(x)' = Data(x)
  BY DEF Data
<1>9. Held' = Held \cup {f}
  <2>1. \A g : g \in Held <=> \/ \E k \in Pieces : g \in In(k)
                              \/ \E x \in Ids : g \in Open(x) \/ g \in Data(x)
    BY <1>1, HeldIs
  <2>2. \A g : g \in Held' <=> \/ \E k \in Pieces : g \in In(k)
                               \/ \E x \in Ids : g \in Open(x)' \/ g \in Data(x)
    BY <1>1, <1>2, <1>7, HeldIs
  <2>3. \A g : (\E x \in Ids : g \in Open(x)') <=> (\E x \in Ids : g \in Open(x)) \/ g = f
    BY <1>1, <1>5, <1>6
  <2> QED
    BY <2>1, <2>2, <2>3
<1>10. Owned'
  <2>1. \A x \in Ids : \A g \in Open(x)' : g.id = x
    BY <1>5, <1>6 DEF OInv, Owned
  <2> QED
    BY <1>2, <2>1 DEF OInv, Owned
<1>11. Shapes'
  <2>1. \A k \in Pieces' : IsItem(Piece(k)') \/ (k = 0 /\ pinned' = <<>>)
    BY <1>2 DEF OInv, Shapes
  <2>2. \A x \in Ids : Rising(runs'[x]) /\ \A g \in Open(x)' : ~Ends(g)
    BY <1>5, <1>6 DEF OInv, Shapes
  <2> QED
    BY <2>1, <2>2 DEF OInv, Shapes
<1>12. Sections'
  BY <1>5, <1>6 DEF OInv, Sections, InSection
<1>13. Numbered'
  <2>1. \A g \in Held : g.no \in 0 .. seq
    BY DEF OInv, Numbered
  <2>2. \A g \in Held : g.no \in 0 .. seq'
    BY <1>1, <2>1
  <2>3. f.no \in 0 .. seq'
    BY <1>1
  <2> QED
    BY <1>9, <2>2, <2>3 DEF Numbered
<1>14. InLine'
  BY <1>2 DEF OInv, InLine
<1>15. Opened'
  <2>1. \A x \in Ids : \A k \in Pieces : Owner(k) = x => Before(In(k), Open(x)')
    BY <1>3, <1>5, <1>6 DEF OInv, Opened, Before
  <2>2. \A x \in Ids : Before(Data(x), Open(x)')
    BY <1>3, <1>5, <1>6 DEF OInv, Opened, Before
  <2> QED
    BY <1>2, <1>7, <2>1, <2>2 DEF Opened
<1>16. Interleaved'
  BY <1>2, <1>7 DEF OInv, Interleaved
<1> QED
  BY <1>9, <1>10, <1>11, <1>12, <1>13, <1>14, <1>15, <1>16 DEF OInv

LEMMA PieceType ==
    ASSUME Types
    PROVE  \A k \in Pieces : Piece(k) \in Seq(Frames)
<1>1. Len(lane) \in Nat /\ \A k \in 1 .. Len(lane) : lane[k] \in Item
  BY LenProperties, ElementOfSeq DEF Types
<1>2. \A k \in Pieces : k # 0 => k \in 1 .. Len(lane)
  BY <1>1 DEF Pieces
<1> QED
  BY <1>1, <1>2 DEF Piece, Item, Types

LEMMA EmptySet == ToSet(<<>>) = {}
  BY EmptySeq DEF ToSet

\* The block of a stream, whole now, or a control frame, joins the lane.
LEMMA ItemOInv ==
    ASSUME IInv, OInv, NEW id \in Ids \cup {0}, NEW f \in Frames, f.no = seq + 1, seq' = seq + 1,
           f.id = id, Ends(f), NEW run \in Seq(Frames),
           run = IF id \in Ids THEN runs[id] ELSE <<>>,
           NEW item \in Item, item.frames = Append(run, f), item.stream = id,
           item.seq = item.frames[1].no, lane' = Append(lane, item),
           UNCHANGED <<pinned, data>>,
           \A x \in Ids : runs'[x] = IF x = id THEN <<>> ELSE runs[x],
           \A x \in Ids : InSection(x)' <=> InSection(x) /\ x # id
    PROVE  OInv' /\ Held' = Held \cup {f}
<1> DEFINE whole == Append(run, f)
<1>1. /\ Types /\ lane \in Seq(Item) /\ seq \in Nat /\ Len(lane) \in Nat
  BY LenProperties DEF IInv, Types
<1>0. PICK N \in Nat : N = Len(lane) + 1
  BY <1>1
<1>2. /\ lane' \in Seq(Item) /\ Len(lane') = N /\ lane'[N] = item
      /\ \A k \in 1 .. Len(lane) : lane'[k] = lane[k]
  BY <1>0, <1>1, AppendProperties
<1>3. /\ Pieces' = Pieces \cup {N} /\ N \notin Pieces /\ N # 0 /\ N \in Nat
      /\ \A k \in Pieces : k \in Nat /\ k < N /\ (k # 0 => k \in 1 .. Len(lane))
  BY <1>0, <1>1, <1>2 DEF Pieces
<1>4. /\ Piece(N)' = whole /\ Owner(N)' = id
      /\ \A k \in Pieces : Piece(k)' = Piece(k) /\ Owner(k)' = Owner(k) /\ In(k)' = In(k)
  BY <1>2, <1>3 DEF Piece, Owner, In
<1>5. /\ \A g \in Held : g.no < f.no
      /\ \A k \in Pieces : Before(In(k), {f})
      /\ \A x \in Ids : Before(Open(x), {f}) /\ Before(Data(x), {f})
  BY <1>1, <1>2, AllBelow
<1>6. ToSet(run) = IF id \in Ids THEN Open(id) ELSE {}
  BY EmptySet DEF Open
<1>7. Rising(run) /\ \A g \in ToSet(run) : ~Ends(g) /\ g.id = id
  <2>1. Rising(<<>>)
    BY EmptySeq DEF Rising
  <2> QED
    BY <1>6, <2>1 DEF OInv, Shapes, Owned
<1>8. /\ whole \in Seq(Frames) /\ Rising(whole) /\ ToSet(whole) = ToSet(run) \cup {f}
  <2>1. Before(ToSet(run), {f})
    BY <1>5, <1>6 DEF Before
  <2> QED
    BY <1>7, <2>1, AppendRising
<1>9. IsItem(whole) /\ Final(whole) = f.no
  <2>1. /\ Len(whole) = Len(run) + 1 /\ whole[Len(run) + 1] = f /\ Len(run) \in Nat
        /\ \A i \in 1 .. Len(run) : whole[i] = run[i]
    BY AppendProperties, LenProperties
  <2>2. whole # <<>>
    BY Appended
  <2> HIDE DEF whole
  <2>3. \A i \in 1 .. Len(run) : ~Ends(whole[i])
    BY <1>7, <2>1, LenProperties DEF ToSet
  <2>4. ASSUME NEW i \in 1 .. Len(whole) PROVE Ends(whole[i]) <=> i = Len(whole)
    <3>1. CASE i = Len(whole)
      BY <2>1, <3>1
    <3>2. CASE i # Len(whole)
      <4>1. i \in 1 .. Len(run)
        BY <2>1, <3>2
      <4> QED
        BY <2>3, <3>2, <4>1
    <3> QED
      BY <3>1, <3>2
  <2> QED
    BY <1>8, <2>1, <2>2, <2>4 DEF IsItem, Final
<1> HIDE DEF whole
<1>10. In(N)' = ToSet(run) \cup {f}
  BY <1>4, <1>8 DEF In
<1>11. /\ \A x \in Ids : Data(x)' = Data(x)
       /\ \A x \in Ids : Open(x)' = IF x = id THEN {} ELSE Open(x)
  BY EmptySet DEF Data, Open
<1>12. Held' = Held \cup {f}
  <2>1. \A g : g \in Held <=> \/ \E k \in Pieces : g \in In(k)
                              \/ \E x \in Ids : g \in Open(x) \/ g \in Data(x)
    BY <1>1, <1>2, HeldIs
  <2>2. \A g : g \in Held' <=> \/ \E k \in Pieces' : g \in In(k)'
                               \/ \E x \in Ids : g \in Open(x)' \/ g \in Data(x)
    BY <1>1, <1>2, <1>11, HeldIs
  <2>3. \A g : (\E k \in Pieces' : g \in In(k)') <=> (\E k \in Pieces : g \in In(k)) \/ g \in ToSet(run) \/ g = f
    BY <1>3, <1>4, <1>10
  <2>4. \A g : (\E x \in Ids : g \in Open(x)) <=> (\E x \in Ids : g \in Open(x)') \/ g \in ToSet(run)
    BY <1>6, <1>11
  <2> QED
    BY <2>1, <2>2, <2>3, <2>4
<1>13. Owned'
  <2>1. \A x \in Ids : \A g \in Open(x)' : g.id = x
    BY <1>11 DEF OInv, Owned
  <2>2. \A g \in In(N)' : g.id = Owner(N)'
    BY <1>4, <1>7, <1>10
  <2>3. \A k \in Pieces : \A g \in In(k)' : g.id = Owner(k)'
    BY <1>4 DEF OInv, Owned
  <2> QED
    BY <1>3, <2>1, <2>2, <2>3 DEF Owned
<1>14. Shapes'
  <2>1. \A k \in Pieces' : IsItem(Piece(k)') \/ (k = 0 /\ pinned' = <<>>)
    BY <1>3, <1>4, <1>9 DEF OInv, Shapes
  <2>2. \A x \in Ids : Rising(runs'[x]) /\ \A g \in Open(x)' : ~Ends(g)
    <3>1. Rising(<<>>)
      BY EmptySeq DEF Rising
    <3> QED
      BY <1>11, <3>1 DEF OInv, Shapes
  <2>3. ASSUME NEW k \in 1 .. Len(lane') PROVE lane'[k].seq = lane'[k].frames[1].no
    <3>1. CASE k = N
      BY <1>2, <3>1
    <3>2. CASE k # N
      <4>1. k \in 1 .. Len(lane)
        BY <1>0, <1>1, <1>2, <3>2
      <4> QED
        BY <1>2, <4>1 DEF OInv, Shapes
    <3> QED
      BY <3>1, <3>2
  <2>4. \A x \in Ids : Rising(data'[x])
    BY DEF OInv, Shapes
  <2> QED
    BY <2>1, <2>2, <2>3, <2>4 DEF Shapes
<1>15. Sections'
  BY DEF OInv, Sections
<1>16. Numbered'
  <2>1. \A g \in Held : g.no \in 0 .. seq
    BY DEF OInv, Numbered
  <2>2. \A g \in Held : g.no \in 0 .. seq'
    BY <1>1, <2>1
  <2>3. f.no \in 0 .. seq'
    BY <1>1
  <2> QED
    BY <1>12, <2>2, <2>3 DEF Numbered
<1>17. InLine'
  <2> SUFFICES ASSUME NEW k \in Pieces', NEW l \in Pieces', k < l
               PROVE  /\ Owner(k)' = Owner(l)' => Before(In(k)', In(l)')
                      /\ Piece(k)' # <<>> => Final(Piece(k)') < Final(Piece(l)')
    BY DEF InLine
  <2>1. k \in Pieces
    <3>1. ~(N < l)
      BY <1>3
    <3> QED
      BY <1>3, <3>1
  <2>2. CASE l \in Pieces
    BY <1>4, <2>1, <2>2 DEF OInv, InLine
  <2>3. CASE l = N
    <3>1. Owner(k) = id => Before(In(k), ToSet(run) \cup {f})
      BY <1>5, <1>6, <2>1 DEF OInv, Opened, Before
    <3>2. Piece(k) # <<>> => Final(Piece(k)) < f.no
      <4>1. Piece(k) \in Seq(Frames)
        BY <1>1, <2>1, PieceType
      <4>2. Piece(k) # <<>> => Piece(k)[Len(Piece(k))] \in In(k)
        BY <4>1, LenProperties, EmptySeq DEF In, ToSet
      <4> QED
        BY <1>5, <2>1, <4>2 DEF Before, Final
    <3> QED
      BY <1>4, <1>9, <1>10, <2>1, <2>3, <3>1, <3>2
  <2> QED
    BY <1>3, <2>2, <2>3
<1>18. Opened'
  <2>1. \A x \in Ids : \A k \in Pieces : Owner(k) = x => Before(In(k), Open(x)')
    BY <1>11 DEF OInv, Opened, Before
  <2>2. \A x \in Ids : Before(Data(x), Open(x)')
    BY <1>11 DEF OInv, Opened, Before
  <2>3. Before(In(N)', {})
    BY DEF Before
  <2>4. Owner(N)' = id /\ \A x \in Ids : x = id => Open(x)' = {}
    BY <1>4, <1>11
  <2>5. \A x \in Ids : \A k \in Pieces' : Owner(k)' = x => Before(In(k)', Open(x)')
    <3> SUFFICES ASSUME NEW x \in Ids, NEW k \in Pieces', Owner(k)' = x
                 PROVE  Before(In(k)', Open(x)')
      OBVIOUS
    <3>1. CASE k = N
      <4>1. Open(x)' = {}
        BY <2>4, <3>1
      <4> QED
        BY <4>1 DEF Before
    <3>2. CASE k # N
      <4>1. k \in Pieces /\ Owner(k) = x /\ In(k)' = In(k)
        BY <1>3, <1>4, <3>2
      <4> QED
        BY <2>1, <4>1
    <3> QED
      BY <3>1, <3>2
  <2>6. \A x \in Ids : Before(Data(x)', Open(x)')
    BY <2>2, <1>11
  <2> QED
    BY <2>5, <2>6 DEF Opened
<1>19. Interleaved'
  <2> SUFFICES ASSUME NEW x \in Ids, NEW k \in Pieces', Owner(k)' = x, NEW d \in Data(x)
               PROVE  Before(In(k)', {d}) \/ (k # 0 /\ Before({d}, In(k)'))
    BY <1>11 DEF Interleaved
  <2>1. CASE k \in Pieces
    BY <1>4, <2>1 DEF OInv, Interleaved
  <2>2. CASE k = N
    <3>1. x = id
      BY <1>4, <2>2
    <3>2. Before({d}, ToSet(run) \cup {f})
      BY <1>5, <1>6, <3>1 DEF OInv, Opened, Before
    <3> QED
      BY <1>3, <1>10, <2>2, <3>2
  <2> QED
    BY <1>3, <2>1, <2>2
<1> QED
  BY <1>12, <1>13, <1>14, <1>15, <1>16, <1>17, <1>18, <1>19 DEF OInv

(***************************************************************************)
(* Frames that leave: f leaves now, and e ends the item it belongs to.     *)
(***************************************************************************)
Leaves(f, e) ==
    /\ f \in Held /\ e \in Held /\ e.id = f.id /\ Ends(e)
    /\ Held' = Held \ {f} /\ out' = f
    /\ \A g \in Held : g.id = f.id => f.no <= g.no
    /\ Owner(0) \in {-1, f.id} /\ Owner(0)' = IF Ends(f) THEN -1 ELSE f.id
    /\ f.kind = "data" \/ \A g \in Held : Ends(g) /\ g.kind # "data" => e.no <= g.no

\* The numbers of what is held are numbers.
LEMMA HeldParts ==
    ASSUME Types, OInv
    PROVE  /\ \A g \in Held : g.no \in Nat
           /\ \A k \in Pieces : In(k) \subseteq Held
           /\ \A id \in Ids : Open(id) \subseteq Held /\ Data(id) \subseteq Held
           /\ \A g \in Held : \/ \E k \in Pieces : g \in In(k)
                              \/ \E id \in Ids : g \in Open(id) \/ g \in Data(id)
           /\ seq \in Nat /\ Pieces \subseteq Nat /\ 0 \in Pieces
<1>1. \A f : f \in Held <=> \/ \E k \in Pieces : f \in In(k)
                            \/ \E id \in Ids : f \in Open(id) \/ f \in Data(id)
  <2>1. Len(lane) \in Nat /\ DOMAIN lane = 1 .. Len(lane)
    BY LenProperties DEF Types
  <2>2. Pieces = {0} \cup 1 .. Len(lane) /\ \A k \in 1 .. Len(lane) : k # 0
    BY <2>1 DEF Pieces
  <2>3. In(0) = ToSet(pinned) /\ \A k \in 1 .. Len(lane) : In(k) = ToSet(lane[k].frames)
    BY <2>2 DEF In, Piece
  <2>4. ASSUME NEW f
        PROVE  f \in Held <=> \/ \E k \in Pieces : f \in In(k)
                              \/ \E id \in Ids : f \in Open(id) \/ f \in Data(id)
    <3>1. f \in Held <=> \/ f \in ToSet(pinned) \/ \E k \in DOMAIN lane : f \in ToSet(lane[k].frames)
                         \/ \E id \in Ids : f \in ToSet(runs[id]) \/ f \in ToSet(data[id])
      BY DEF Held
    <3>2. f \in Held <=> \/ f \in In(0) \/ \E k \in 1 .. Len(lane) : f \in In(k)
                         \/ \E id \in Ids : f \in Open(id) \/ f \in Data(id)
      BY <2>1, <2>3, <3>1, Zenon DEF Open, Data
    <3> QED
      BY <2>2, <3>2, Zenon
  <2> QED
    BY <2>4
<1>2. seq \in Nat /\ \A g \in Held : g.no \in 0 .. seq
  BY DEF Types, OInv, Numbered
<1>3. Pieces \subseteq Nat /\ 0 \in Pieces
  BY LenProperties DEF Types, Pieces
<1> QED
  BY <1>1, <1>2, <1>3

\* The first frame of what is left of a block, or of the lane when it is its turn.
LEMMA PieceFirst ==
    ASSUME IInv, OInv, NEW p \in Pieces, Piece(p) # <<>>, p \in {0, 1},
           p = 1 => pinned = <<>> /\ ~Overdue
    PROVE  LET f == Piece(p)[1]
               e == Piece(p)[Len(Piece(p))] IN
           /\ f \in In(p) /\ e \in In(p) /\ f.id = Owner(p) /\ e.id = Owner(p) /\ Ends(e)
           /\ e.no = Final(Piece(p))
           /\ \A i \in 1 .. Len(Piece(p)) : i # 1 => f.no < Piece(p)[i].no
           /\ \A k \in Pieces : k # p => \A g \in In(k) : g.id = f.id => f.no < g.no
           /\ \A id \in Ids : \A g \in Open(id) \cup Data(id) : g.id = f.id => f.no < g.no
           /\ \A id \in Ids : Owner(p) = id => Before(In(p), Data(id))
           /\ \A g \in Held : Ends(g) /\ g.kind # "data" => e.no <= g.no
<1> DEFINE s == Piece(p)
           f == s[1]
           e == s[Len(s)]
<1>1. /\ Types /\ Kinds /\ s \in Seq(Frames) /\ IsItem(s)
      /\ Len(s) \in Nat /\ DOMAIN s = 1 .. Len(s) /\ 1 \in 1 .. Len(s) /\ Len(s) \in 1 .. Len(s)
  <2>1. Types /\ Kinds
    BY DEF IInv
  <2>2. s \in Seq(Frames) /\ s # <<>>
    BY <2>1, PieceType
  <2>3. IsItem(s)
    BY <2>2 DEF OInv, Shapes, Piece
  <2> HIDE DEF s
  <2> QED
    BY <2>1, <2>2, <2>3, LenProperties, EmptySeq
<1>2. \A g : g \in In(p) <=> \E i \in 1 .. Len(s) : g = s[i]
  BY <1>1 DEF In, ToSet
<1>3. f \in In(p) /\ e \in In(p)
  <2> HIDE DEF s
  <2> QED
    BY <1>1, <1>2
<1>4. /\ \A g \in Held : g.no \in Nat
      /\ \A k \in Pieces : In(k) \subseteq Held
      /\ \A id \in Ids : Open(id) \subseteq Held /\ Data(id) \subseteq Held
      /\ \A g \in Held : \/ \E k \in Pieces : g \in In(k)
                         \/ \E id \in Ids : g \in Open(id) \/ g \in Data(id)
      /\ Pieces \subseteq Nat
  BY <1>1, HeldParts
<1>5. \A k \in Pieces : \A g \in In(k) : g.id = Owner(k)
  BY DEF OInv, Owned
<1>6. /\ \A id \in Ids : \A g \in Open(id) \cup Data(id) : g.id = id
      /\ \A id \in Ids : \A g \in Data(id) : g.kind = "data"
  <2>1. \A id \in Ids : \A g \in Data(id) : g.id = id /\ g.kind = "data"
    BY <1>1, LenProperties DEF Types, Kinds, Data, ToSet
  <2> QED
    BY <2>1 DEF OInv, Owned
<1>7. Ends(e) /\ e.no = Final(s)
  <2> HIDE DEF s
  <2> QED
    BY <1>1 DEF IsItem, Final
<1>8. ASSUME NEW i \in 1 .. Len(s), i # 1 PROVE f.no < s[i].no
  <2> HIDE DEF s
  <2>1. 1 < i
    BY <1>1, <1>8
  <2> QED
    BY <1>1, <2>1 DEF IsItem, Rising
<1> HIDE DEF s, e, f
<1>9. \A k \in Pieces : k < p => In(k) = {} /\ Piece(k) = <<>>
  <2>1. ASSUME NEW k \in Pieces, k < p PROVE k = 0 /\ pinned = <<>>
    BY <1>4, <2>1
  <2> QED
    BY <2>1, EmptySet DEF In, Piece
<1>10. \A k \in Pieces : k # p => k < p \/ p < k
  BY <1>4
<1>11. ASSUME NEW k \in Pieces, k # p, NEW g \in In(k), g.id = f.id PROVE f.no < g.no
  <2>1. p < k /\ Owner(k) = Owner(p)
    BY <1>3, <1>5, <1>9, <1>10, <1>11
  <2> QED
    BY <1>3, <2>1 DEF OInv, InLine, Before
<1>12. ASSUME NEW id \in Ids, Owner(p) = id PROVE Before(In(p), Data(id))
  <2>1. CASE p = 0
    BY <1>12, <2>1 DEF OInv, Interleaved, Before
  <2>2. CASE p = 1
    <3>1. s = lane[1].frames /\ id = lane[1].stream /\ f.no = lane[1].seq
      <4>1. 1 \in 1 .. Len(lane)
        BY <1>1, <2>2, LenProperties DEF Pieces, Types
      <4> QED
        BY <1>12, <2>2, <4>1 DEF s, f, Piece, Owner, OInv, Shapes
    <3>2. ASSUME NEW d \in Data(id) PROVE ~Before({d}, In(p))
      <4> DEFINE q == data[id]
      <4>1. q \in Seq(Frames) /\ Rising(q)
        BY <1>1 DEF Types, OInv, Shapes
      <4>2. PICK i \in 1 .. Len(q) : d = q[i]
        BY <4>1, <3>2, LenProperties DEF Data, ToSet
      <4>3. q # <<>> /\ 1 \in 1 .. Len(q) /\ Head(q) = q[1]
        BY <4>1, <4>2, LenProperties, EmptySeq, HeadTailProperties
      <4>4. ~(q[1].no < f.no)
        BY <2>2, <3>1, <4>3 DEF Overdue
      <4>5. q[1] \in Data(id) /\ q[1].no \in Nat /\ d.no \in Nat
        BY <1>4, <4>1, <4>3, LenProperties DEF Data, ToSet
      <4>6. f.no \in Nat
        BY <1>3, <1>4
      <4> HIDE DEF q
      <4>7. i = 1 \/ q[1].no < q[i].no
        BY <4>1, <4>2, <4>3, LenProperties DEF Rising
      <4>8. ~(d.no < f.no)
        BY <4>2, <4>4, <4>5, <4>6, <4>7
      <4> QED
        BY <1>3, <4>8 DEF Before
    <3>3. \A d \in Data(id) : Before(In(p), {d})
      BY <1>12, <3>2 DEF OInv, Interleaved
    <3> QED
      BY <3>3 DEF Before
  <2> QED
    BY <2>1, <2>2
<1>13. ASSUME NEW id \in Ids, NEW g \in Open(id) \cup Data(id), g.id = f.id PROVE f.no < g.no
  <2>1. Owner(p) = id
    BY <1>3, <1>5, <1>6, <1>13
  <2>2. Before(In(p), Open(id)) /\ Before(In(p), Data(id))
    BY <1>12, <2>1 DEF OInv, Opened
  <2> QED
    BY <1>3, <2>2 DEF Before
<1>14. ASSUME NEW g \in Held, Ends(g), g.kind # "data" PROVE e.no <= g.no
  <2>1. \A id \in Ids : g \notin Open(id)
    BY <1>14 DEF OInv, Shapes
  <2>2. \A id \in Ids : g \notin Data(id)
    BY <1>6, <1>14
  <2>3. PICK k \in Pieces : g \in In(k)
    BY <1>4, <2>1, <2>2
  <2>4. Piece(k) \in Seq(Frames)
    BY <1>1, PieceType
  <2>5. Piece(k) # <<>>
    BY <2>3, EmptySet DEF In
  <2>6. IsItem(Piece(k))
    BY <2>5 DEF OInv, Shapes, Piece
  <2>7. PICK i \in 1 .. Len(Piece(k)) : g = Piece(k)[i]
    BY <2>3, <2>4, LenProperties DEF In, ToSet
  <2>8. g.no = Final(Piece(k))
    BY <1>14, <2>6, <2>7 DEF IsItem, Final
  <2>9. k = p \/ p < k
    BY <1>9, <1>10, <2>3
  <2>10. Final(s) <= g.no
    <3>1. CASE k = p
      <4>1. g.no = Final(s) /\ g.no \in Nat
        BY <1>4, <2>8, <3>1 DEF s
      <4> QED
        BY <4>1
    <3>2. CASE p < k
      <4>1. Final(s) < g.no
        BY <2>8, <3>2 DEF OInv, InLine, s
      <4>2. Final(s) \in Nat /\ g.no \in Nat
        BY <1>3, <1>4, <1>7
      <4> QED
        BY <4>1, <4>2
    <3> QED
      BY <2>9, <3>1, <3>2
  <2> QED
    BY <1>7, <2>10
<1> QED
  BY <1>3, <1>5, <1>7, <1>8, <1>11, <1>12, <1>13, <1>14 DEF s, e, f

LEMMA TailRising ==
    ASSUME NEW s \in Seq(Frames), Rising(s), s # <<>>
    PROVE  /\ Head(s) = s[1] /\ s[1] \in ToSet(s) /\ s[1] \in Frames
           /\ Tail(s) \in Seq(Frames) /\ Rising(Tail(s)) /\ ToSet(Tail(s)) = ToSet(s) \ {s[1]}
           /\ Len(Tail(s)) = Len(s) - 1 /\ \A i \in 1 .. Len(s) - 1 : Tail(s)[i] = s[i + 1]
           /\ \A g \in ToSet(s) : g # s[1] => s[1].no < g.no
<1>1. /\ Len(s) \in Nat /\ DOMAIN s = 1 .. Len(s) /\ 1 \in 1 .. Len(s)
      /\ \A i \in 1 .. Len(s) : s[i] \in Frames /\ s[i].no \in Nat
  BY RisingIsRing, EmptySeq
<1>2. /\ Head(s) = s[1] /\ Len(Tail(s)) = Len(s) - 1
      /\ \A i \in 1 .. Len(s) - 1 : Tail(s)[i] = s[i + 1]
  BY <1>1, HeadTailProperties
<1>3. s[1] \in ToSet(s)
  BY <1>1 DEF ToSet
<1>4. ASSUME NEW g \in ToSet(s), g # s[1] PROVE s[1].no < g.no
  <2>1. PICK i \in 1 .. Len(s) : g = s[i]
    BY <1>1 DEF ToSet
  <2>2. i # 1
    BY <1>4, <2>1
  <2>3. 1 < i
    BY <1>1, <2>2
  <2> QED
    BY <1>1, <2>1, <2>3 DEF Rising
<1>5. ASSUME NEW g \in ToSet(s) PROVE s[1].no <= g.no
  <2>1. s[1].no \in Nat /\ g.no \in Nat
    BY <1>1 DEF ToSet
  <2>2. g = s[1] \/ s[1].no < g.no
    BY <1>4
  <2> QED
    BY <2>1, <2>2
<1>6. Enumerates(Tail(s), ToSet(s) \ {s[1]})
  <2>1. Enumerates(s, ToSet(s))
    BY DEF Enumerates
  <2> QED
    BY <1>3, <1>5, <2>1, EnumerateLess
<1> QED
  BY <1>1, <1>2, <1>3, <1>4, <1>6 DEF Enumerates

\* What is left of an item is an item that ends as it did.
LEMMA TailItem ==
    ASSUME NEW s \in Seq(Frames), IsItem(s)
    PROVE  \/ Tail(s) = <<>> /\ Ends(s[1])
           \/ /\ IsItem(Tail(s)) /\ Final(Tail(s)) = Final(s) /\ ~Ends(s[1])
              /\ Tail(s)[1] \in ToSet(s)
<1> DEFINE t == Tail(s)
           l == Len(s)
<1>1. /\ s # <<>> /\ Rising(s) /\ l \in Nat /\ DOMAIN s = 1 .. l /\ 1 \in 1 .. l
      /\ \A i \in 1 .. l : Ends(s[i]) <=> i = l
  BY RisingIsRing, EmptySeq DEF IsItem
<1>2. /\ t \in Seq(Frames) /\ Rising(t) /\ Len(t) = l - 1
      /\ \A i \in 1 .. l - 1 : t[i] = s[i + 1]
  BY <1>1, TailRising
<1> HIDE DEF t, l
<1>3. CASE l = 1
  <2>1. t = <<>>
    BY <1>1, <1>2, <1>3, EmptySeq
  <2>2. Ends(s[1])
    BY <1>1, <1>3
  <2> QED
    BY <2>1, <2>2 DEF t
<1>4. CASE l # 1
  <2>1. l - 1 \in 1 .. l - 1 /\ 1 \in 1 .. l - 1 /\ 1 + 1 \in 1 .. l /\ (l - 1) + 1 = l
    BY <1>1, <1>4
  <2>2. t # <<>>
    BY <1>2, <2>1, EmptySeq
  <2>3. Final(t) = Final(s)
    BY <1>2, <2>1 DEF Final, l
  <2>4. ASSUME NEW i \in 1 .. Len(t) PROVE Ends(t[i]) <=> i = Len(t)
    <3>1. i \in 1 .. l - 1 /\ i + 1 \in 1 .. l /\ (i + 1 = l <=> i = l - 1)
      BY <1>1, <1>2
    <3>2. Ends(s[i + 1]) <=> i + 1 = l
      BY <1>1, <3>1
    <3> QED
      BY <1>2, <3>1, <3>2
  <2>5. ~Ends(s[1])
    BY <1>1, <1>4
  <2>6. t[1] \in ToSet(s)
    BY <1>1, <1>2, <2>1 DEF ToSet
  <2> QED
    BY <1>2, <2>2, <2>3, <2>4, <2>5, <2>6 DEF IsItem, t
<1> QED
  BY <1>3, <1>4

\* What leaves when the next piece does: p is 0 within a block, and 1 otherwise.
LEMMA PopPiece ==
    ASSUME IInv, OInv, NEW p \in Pieces, Piece(p) # <<>>, p \in {0, 1},
           p = 1 => pinned = <<>> /\ ~Overdue,
           out' = Head(Piece(p)), pinned' = Tail(Piece(p)),
           lane' \in Seq(Item), Len(lane') = Len(lane) - p,
           \A k \in 1 .. Len(lane) - p : lane'[k] = lane[k + p],
           UNCHANGED <<runs, data, phase, seq>>
    PROVE  OInv' /\ \E e : Leaves(out', e)
<1> DEFINE s == Piece(p)
           f == s[1]
           e == s[Len(s)]
<1>1. /\ f \in In(p) /\ e \in In(p) /\ f.id = Owner(p) /\ e.id = Owner(p) /\ Ends(e)
      /\ \A k \in Pieces : k # p => \A g \in In(k) : g.id = f.id => f.no < g.no
      /\ \A id \in Ids : \A g \in Open(id) \cup Data(id) : g.id = f.id => f.no < g.no
      /\ \A id \in Ids : Owner(p) = id => Before(In(p), Data(id))
      /\ \A g \in Held : Ends(g) /\ g.kind # "data" => e.no <= g.no
  BY PieceFirst
<1>2. /\ Types /\ lane \in Seq(Item) /\ Len(lane) \in Nat /\ p \in Nat
      /\ s \in Seq(Frames) /\ IsItem(s) /\ In(p) = ToSet(s)
  <2>1. Types /\ lane \in Seq(Item) /\ Len(lane) \in Nat /\ p \in Nat
    <3>1. Types /\ lane \in Seq(Item)
      BY DEF IInv, Types
    <3>2. Len(lane) \in Nat
      BY <3>1, LenProperties
    <3> QED
      BY <3>1, <3>2
  <2>2. s \in Seq(Frames)
    BY <2>1, PieceType
  <2>3. IsItem(s)
    BY DEF OInv, Shapes, Piece
  <2> QED
    BY <2>1, <2>2, <2>3 DEF In
<1>3. /\ \A g \in Held : g.no \in Nat
      /\ \A k \in Pieces : In(k) \subseteq Held
      /\ \A g \in Held : \/ \E k \in Pieces : g \in In(k)
                         \/ \E id \in Ids : g \in Open(id) \/ g \in Data(id)
  BY <1>2, HeldParts
<1> HIDE DEF s, e
<1>4. /\ out' = f /\ pinned' = Tail(s) /\ ToSet(Tail(s)) = In(p) \ {f}
      /\ \A g \in In(p) : g # f => f.no < g.no
  BY <1>2, TailRising DEF IsItem, s
<1>5. \/ Tail(s) = <<>> /\ Ends(f)
      \/ /\ IsItem(Tail(s)) /\ Final(Tail(s)) = Final(s) /\ ~Ends(f)
         /\ Tail(s)[1] \in In(p)
  BY <1>2, TailItem
<1> HIDE DEF f
<1>6. \A k \in Pieces : \A g \in In(k) : g.id = Owner(k)
  BY DEF OInv, Owned
<1>7. /\ Pieces' = 0 .. Len(lane) - p /\ 0 \in Pieces'
      /\ \A k \in Pieces' : /\ k \in Nat /\ k + p \in Pieces
                            /\ k # 0 => k \in 1 .. Len(lane) - p /\ k + p # 0 /\ k + p # p
  <2>1. p <= Len(lane)
    BY <1>2 DEF Pieces
  <2> QED
    BY <1>2, <2>1 DEF Pieces
<1>8. \A k \in Pieces' : k # 0 => Piece(k)' = Piece(k + p) /\ Owner(k)' = Owner(k + p)
                                  /\ In(k)' = In(k + p)
  BY <1>7 DEF Piece, Owner, In
<1>9. Piece(0)' = Tail(s) /\ In(0)' = In(p) \ {f}
  BY <1>4 DEF Piece, In
<1>10. Owner(0)' = IF Ends(f) THEN -1 ELSE f.id
  <2>1. CASE Ends(f)
    <3>1. Tail(s) = <<>>
      BY <1>5, <2>1
    <3> QED
      BY <1>4, <2>1, <3>1 DEF Owner
  <2>2. CASE ~Ends(f)
    <3>1. IsItem(Tail(s)) /\ Tail(s)[1] \in In(p)
      BY <1>5, <2>2
    <3>2. Tail(s) # <<>> /\ Tail(s)[1].id = f.id
      BY <1>1, <1>6, <3>1 DEF IsItem
    <3> QED
      BY <1>4, <2>2, <3>2 DEF Owner
  <2> QED
    BY <2>1, <2>2
<1>11. \A id \in Ids : Open(id)' = Open(id) /\ Data(id)' = Data(id)
  BY DEF Open, Data
<1>12. \A k \in Pieces : f \in In(k) => k = p
  <2> SUFFICES ASSUME NEW k \in Pieces, f \in In(k), k # p PROVE FALSE
    OBVIOUS
  <2>1. f.no < f.no /\ f.no \in Nat
    BY <1>1, <1>3
  <2> QED
    BY <2>1
<1>13. \A id \in Ids : f \notin Open(id) /\ f \notin Data(id)
  <2> SUFFICES ASSUME NEW id \in Ids, f \in Open(id) \cup Data(id) PROVE FALSE
    OBVIOUS
  <2>1. f.no < f.no /\ f.no \in Nat
    BY <1>1, <1>3
  <2> QED
    BY <2>1
<1>14. \A k \in Pieces : k # p => (k = 0 /\ In(k) = {}) \/ (k - p \in Pieces' /\ k - p # 0)
  <2> SUFFICES ASSUME NEW k \in Pieces, k # p
               PROVE  (k = 0 /\ In(k) = {}) \/ (k - p \in Pieces' /\ k - p # 0)
    OBVIOUS
  <2>1. CASE k = 0
    <3>1. pinned = <<>>
      BY <2>1
    <3> QED
      BY <2>1, <3>1, EmptySet DEF In, Piece
  <2>2. CASE k # 0
    BY <1>2, <1>7, <2>2 DEF Pieces
  <2> QED
    BY <2>1, <2>2
<1>15. ASSUME NEW g
       PROVE  (\E k \in Pieces' : g \in In(k)') <=> (\E k \in Pieces : g \in In(k)) /\ g # f
  <2>1. ASSUME NEW k \in Pieces', g \in In(k)' PROVE (\E l \in Pieces : g \in In(l)) /\ g # f
    <3>1. CASE k = 0
      BY <1>9, <2>1, <3>1
    <3>2. CASE k # 0
      <4>1. k + p \in Pieces /\ k + p # p /\ g \in In(k + p)
        BY <1>7, <1>8, <2>1, <3>2
      <4> QED
        BY <1>12, <4>1
    <3> QED
      BY <3>1, <3>2
  <2>2. ASSUME NEW k \in Pieces, g \in In(k), g # f PROVE \E l \in Pieces' : g \in In(l)'
    <3>1. CASE k = p
      BY <1>7, <1>9, <2>2, <3>1
    <3>2. CASE k # p
      <4>1. k - p \in Pieces' /\ k - p # 0
        BY <1>14, <2>2, <3>2
      <4>2. (k - p) + p = k
        BY <1>2, <1>7 DEF Pieces
      <4> QED
        BY <1>8, <2>2, <4>1, <4>2
    <3> QED
      BY <3>1, <3>2
  <2> QED
    BY <2>1, <2>2
<1>16. Held' = Held \ {f}
  <2>1. \A g : g \in Held <=> \/ \E k \in Pieces : g \in In(k)
                              \/ \E x \in Ids : g \in Open(x) \/ g \in Data(x)
    BY <1>2, HeldIs
  <2>2. \A g : g \in Held' <=> \/ \E k \in Pieces' : g \in In(k)'
                               \/ \E x \in Ids : g \in Open(x) \/ g \in Data(x)
    BY <1>2, <1>11, HeldIs
  <2> QED
    BY <1>13, <1>15, <2>1, <2>2
<1>17. OInv'
  <2> DEFINE m == [k \in 0 .. Len(lane) - p |-> k + p]
  <2>1. m \in [Pieces' -> Pieces] /\ \A k \in Pieces' : m[k] = k + p
    BY <1>7
  <2> HIDE DEF m
  <2>2. \A k, l \in Pieces' : k < l => m[k] < m[l]
    BY <1>2, <1>7, <2>1
  <2>3. ASSUME NEW k \in Pieces'
        PROVE  \/ k = 0 /\ pinned' = <<>> /\ In(k)' = {}
               \/ /\ In(k)' \subseteq In(m[k]) /\ Owner(k)' = Owner(m[k])
                  /\ IsItem(Piece(k)') /\ Final(Piece(k)') = Final(Piece(m[k]))
                  /\ Piece(m[k]) # <<>>
    <3>1. CASE k = 0 /\ Ends(f)
      BY <1>4, <1>5, <1>9, <3>1, EmptySet
    <3>2. CASE k = 0 /\ ~Ends(f)
      <4>1. m[k] = p
        BY <1>2, <2>1, <3>2
      <4>2. IsItem(Tail(s)) /\ Final(Tail(s)) = Final(s)
        BY <1>5, <3>2
      <4> QED
        BY <1>1, <1>9, <1>10, <3>2, <4>1, <4>2 DEF s
    <3>3. CASE k # 0
      <4>1. m[k] = k + p /\ k + p \in Pieces /\ k + p # 0
        BY <1>7, <2>1, <3>3
      <4>2. IsItem(Piece(k + p))
        BY <4>1 DEF OInv, Shapes
      <4> QED
        BY <1>8, <3>3, <4>1, <4>2 DEF IsItem
    <3> QED
      BY <3>1, <3>2, <3>3
  <2>4. \A k \in 1 .. Len(lane') : lane'[k].seq = lane'[k].frames[1].no
    <3>1. \A k \in 1 .. Len(lane) - p : k + p \in 1 .. Len(lane)
      BY <1>2
    <3> QED
      BY <3>1 DEF OInv, Shapes
  <2>5. \A id \in Ids : Data(id)' \subseteq Data(id) /\ Rising(data'[id])
    BY <1>11 DEF OInv, Shapes
  <2>6. m[0] # 0 => \A id \in Ids : Owner(0)' = id => Before(In(0)', Data(id)')
    <3>1. ASSUME NEW id \in Ids, Owner(0)' = id PROVE Before(In(0)', Data(id))
      <4>1. id # -1
        BY <3>1, SchedulerAssumption
      <4>2. Owner(p) = id
        BY <1>1, <1>10, <3>1, <4>1
      <4> QED
        BY <1>1, <1>9, <4>2 DEF Before
    <3> QED
      BY <1>11, <3>1
  <2> QED
    BY <1>2, <1>16, <2>1, <2>2, <2>3, <2>4, <2>5, <2>6, FewerOInv
<1>18. Leaves(out', e)
  <2>1. \A g \in Held : g.id = f.id => f.no <= g.no
    <3> SUFFICES ASSUME NEW g \in Held, g.id = f.id PROVE f.no <= g.no
      OBVIOUS
    <3>1. f = g \/ f.no < g.no
      BY <1>1, <1>3, <1>4
    <3>2. f.no \in Nat /\ g.no \in Nat
      BY <1>1, <1>3
    <3> QED
      BY <3>1, <3>2
  <2>2. Owner(0) \in {-1, f.id}
    <3>1. p = 1 => Owner(0) = -1
      BY DEF Owner
    <3> QED
      BY <1>1, <3>1
  <2>3. f \in Held /\ e \in Held /\ e.id = f.id
    BY <1>1, <1>3
  <2> QED
    BY <1>1, <1>4, <1>10, <1>16, <2>1, <2>2, <2>3 DEF Leaves
<1> QED
  BY <1>17, <1>18

LEMMA KindsHere ==
    ASSUME Types, Kinds
    PROVE  /\ \A k \in Pieces : \A g \in In(k) : g.kind # "data"
           /\ \A id \in Ids : \A g \in Open(id) : g.kind # "data"
           /\ \A id \in Ids : \A g \in Data(id) : g.kind = "data" /\ g.id = id
<1>1. Len(lane) \in Nat /\ \A k \in Pieces : k # 0 => k \in 1 .. Len(lane)
  BY LenProperties DEF Types, Pieces
<1>2. ASSUME NEW k \in Pieces, NEW g \in In(k) PROVE g.kind # "data"
  <2>1. Piece(k) \in Seq(Frames)
    BY PieceType
  <2>2. PICK i \in 1 .. Len(Piece(k)) : g = Piece(k)[i]
    BY <1>2, <2>1, LenProperties DEF In, ToSet
  <2>3. CASE k = 0
    BY <2>2, <2>3 DEF Kinds, Piece
  <2>4. CASE k # 0
    BY <1>1, <2>2, <2>4 DEF Kinds, Piece
  <2> QED
    BY <2>3, <2>4
<1>3. \A id \in Ids : \A g \in Open(id) : g.kind # "data"
  BY LenProperties DEF Types, Kinds, Open, ToSet
<1>4. \A id \in Ids : \A g \in Data(id) : g.kind = "data" /\ g.id = id
  BY LenProperties DEF Types, Kinds, Data, ToSet
<1> QED
  BY <1>2, <1>3, <1>4

\* DATA that leaves, in its turn or before a later item of its stream.
LEMMA TakeOInv ==
    ASSUME IInv, OInv, NEW id \in Waiting, Take(id), pinned = <<>>,
           lane = <<>> \/ (lane # <<>> /\ lane[1].stream = id /\ Head(data[id]).no < lane[1].seq)
    PROVE  OInv' /\ \E e : Leaves(out', e)
<1> DEFINE q == data[id]
           f == q[1]
<1>1. /\ Types /\ Kinds /\ lane \in Seq(Item) /\ id \in Ids
      /\ data \in [Ids -> Seq(Frames)] /\ q \in Seq(Frames) /\ q # <<>> /\ Rising(q)
  BY DEF IInv, Types, Waiting, OInv, Shapes
<1>2. Len(lane) \in Nat
  BY <1>1, LenProperties
<1>3. /\ data' = [data EXCEPT ![id] = Tail(q)] /\ out' = Head(q)
      /\ UNCHANGED <<lane, pinned, runs, phase, seq>>
  BY DEF Take, producers
<1> HIDE DEF q
<1>4. /\ Head(q) = f /\ f \in ToSet(q) /\ f \in Frames
      /\ Tail(q) \in Seq(Frames) /\ Rising(Tail(q)) /\ ToSet(Tail(q)) = ToSet(q) \ {f}
      /\ \A g \in ToSet(q) : g # f => f.no < g.no
  BY <1>1, TailRising
<1> HIDE DEF f
<1>5. Data(id) = ToSet(q) /\ Data(id)' = Data(id) \ {f} /\ Rising(data'[id])
  BY <1>1, <1>3, <1>4 DEF Data, q
<1>6. \A x \in Ids \ {id} : Data(x)' = Data(x) /\ data'[x] = data[x]
  BY <1>1, <1>3 DEF Data
<1>7. /\ Pieces' = Pieces /\ \A x \in Ids : Open(x)' = Open(x)
      /\ \A k \in Pieces : Piece(k)' = Piece(k) /\ Owner(k)' = Owner(k) /\ In(k)' = In(k)
  BY <1>3, PiecesKept DEF Open
<1>8. /\ \A k \in Pieces : \A g \in In(k) : g.kind # "data"
      /\ \A x \in Ids : \A g \in Open(x) : g.kind # "data"
      /\ \A x \in Ids : \A g \in Data(x) : g.kind = "data" /\ g.id = x
  BY <1>1, KindsHere
<1>9. f \in Data(id) /\ f.kind = "data" /\ f.id = id /\ Ends(f)
  <2>1. f \in Data(id)
    BY <1>4, <1>5
  <2>2. f.kind = "data" /\ f.id = id
    BY <1>1, <1>8, <2>1
  <2> QED
    BY <2>1, <2>2 DEF Ends
<1>10. Held' = Held \ {f}
  <2>1. \A g : g \in Held <=> \/ \E k \in Pieces : g \in In(k)
                              \/ \E x \in Ids : g \in Open(x) \/ g \in Data(x)
    BY <1>1, <1>3, HeldIs
  <2>2. \A g : g \in Held' <=> \/ \E k \in Pieces : g \in In(k)
                               \/ \E x \in Ids : g \in Open(x) \/ g \in Data(x)'
    BY <1>1, <1>3, <1>7, HeldIs
  <2>3. ASSUME NEW g, g # f PROVE \A x \in Ids : g \in Data(x)' <=> g \in Data(x)
    BY <1>5, <1>6, <2>3
  <2>4. /\ \A k \in Pieces : f \notin In(k)
        /\ \A x \in Ids : f \notin Open(x) /\ f \notin Data(x)'
    BY <1>5, <1>6, <1>8, <1>9
  <2> QED
    BY <1>1, <1>9, <2>1, <2>2, <2>3, <2>4
<1>11. /\ \A g \in Held : g.no \in Nat
       /\ \A k \in Pieces : In(k) \subseteq Held
       /\ \A x \in Ids : Open(x) \subseteq Held /\ Data(x) \subseteq Held
       /\ \A g \in Held : \/ \E k \in Pieces : g \in In(k)
                          \/ \E x \in Ids : g \in Open(x) \/ g \in Data(x)
  BY <1>1, HeldParts
<1>12. OInv'
  <2> DEFINE m == [k \in Pieces |-> k]
  <2>1. m \in [Pieces' -> Pieces] /\ \A k \in Pieces' : m[k] = k
    BY <1>7
  <2> HIDE DEF m
  <2>2. \A k, l \in Pieces' : k < l => m[k] < m[l]
    BY <2>1
  <2>3. ASSUME NEW k \in Pieces'
        PROVE  \/ k = 0 /\ pinned' = <<>> /\ In(k)' = {}
               \/ /\ In(k)' \subseteq In(m[k]) /\ Owner(k)' = Owner(m[k])
                  /\ IsItem(Piece(k)') /\ Final(Piece(k)') = Final(Piece(m[k]))
                  /\ Piece(m[k]) # <<>>
    <3>1. CASE k = 0
      <4>1. In(0) = {}
        BY EmptySet DEF In, Piece
      <4> QED
        BY <1>3, <1>7, <3>1, <4>1
    <3>2. CASE k # 0
      <4>1. IsItem(Piece(k))
        BY <1>7, <3>2 DEF OInv, Shapes
      <4> QED
        BY <1>7, <2>1, <4>1 DEF IsItem
    <3> QED
      BY <3>1, <3>2
  <2>4. \A k \in 1 .. Len(lane') : lane'[k].seq = lane'[k].frames[1].no
    BY <1>3 DEF OInv, Shapes
  <2>5. \A x \in Ids : Data(x)' \subseteq Data(x) /\ Rising(data'[x])
    BY <1>5, <1>6 DEF OInv, Shapes
  <2>6. m[0] = 0
    BY <1>2, <2>1, <1>7 DEF Pieces
  <2> QED
    BY <1>1, <1>3, <1>10, <2>1, <2>2, <2>3, <2>4, <2>5, <2>6, FewerOInv
<1>13. ASSUME NEW k \in Pieces, NEW g \in In(k), g.id = id PROVE f.no < g.no
  <2>1. Owner(k) = id
    BY <1>13 DEF OInv, Owned
  <2>2. In(0) = {}
    BY EmptySet DEF In, Piece
  <2>3. k # 0 /\ lane # <<>>
    <3>1. k # 0
      BY <1>13, <2>2
    <3> QED
      BY <1>2, <3>1, EmptySeq DEF Pieces
  <2>4. 1 \in Pieces /\ 1 \in 1 .. Len(lane) /\ (k = 1 \/ 1 < k)
    BY <1>2, <2>3 DEF Pieces
  <2>5. Piece(1) = lane[1].frames /\ Owner(1) = id /\ f.no < lane[1].seq
    BY <1>4, <2>3 DEF Piece, Owner, q
  <2>6. Piece(1)[1] \in In(1) /\ f.no < Piece(1)[1].no
    <3>1. Piece(1) \in Seq(Frames) /\ Piece(1) # <<>>
      BY <1>1, <2>4, PieceType DEF OInv, Shapes, IsItem
    <3>2. Piece(1)[1] \in In(1)
      BY <3>1, LenProperties, EmptySeq DEF In, ToSet
    <3> QED
      BY <2>4, <2>5, <3>2 DEF OInv, Shapes
  <2>7. Before({f}, In(1))
    <3>1. ~Before(In(1), {f})
      <4>1. f.no \in Nat /\ Piece(1)[1].no \in Nat
        BY <1>1, <1>9, <1>11, <2>4, <2>6
      <4> QED
        BY <2>6, <4>1 DEF Before
    <3> QED
      BY <1>1, <1>9, <2>4, <2>5, <3>1 DEF OInv, Interleaved
  <2>8. CASE k = 1
    BY <1>13, <2>7, <2>8 DEF Before
  <2>9. CASE 1 < k
    <3>1. Piece(1)[1].no < g.no
      BY <1>13, <2>1, <2>4, <2>5, <2>6, <2>9 DEF OInv, InLine, Before
    <3>2. f.no \in Nat /\ Piece(1)[1].no \in Nat /\ g.no \in Nat
      BY <1>1, <1>9, <1>11, <1>13, <2>4, <2>6
    <3> QED
      BY <2>6, <3>1, <3>2
  <2> QED
    BY <2>4, <2>8, <2>9
<1>14. ASSUME NEW g \in Held, g.id = id PROVE f.no <= g.no
  <2>1. f.no \in Nat /\ g.no \in Nat
    BY <1>1, <1>9, <1>11
  <2>2. CASE \E k \in Pieces : g \in In(k)
    BY <1>13, <1>14, <2>1, <2>2
  <2>3. ASSUME NEW x \in Ids, g \in Open(x) PROVE f.no < g.no
    <3>1. x = id
      BY <1>14, <2>3 DEF OInv, Owned
    <3> QED
      BY <1>9, <2>3, <3>1 DEF OInv, Opened, Before
  <2>4. ASSUME NEW x \in Ids, g \in Data(x) PROVE f = g \/ f.no < g.no
    BY <1>4, <1>5, <1>8, <1>14, <2>4
  <2> QED
    BY <1>11, <2>1, <2>2, <2>3, <2>4
<1>15. Owner(0) = -1 /\ Owner(0)' = -1
  BY <1>3 DEF Owner
<1>16. f \in Held
  BY <1>1, <1>9, <1>11
<1>17. Leaves(out', f)
  BY <1>3, <1>4, <1>9, <1>10, <1>14, <1>15, <1>16 DEF Leaves
<1> QED
  BY <1>12, <1>17

LEMMA QuietOInv ==
    ASSUME OInv, UNCHANGED <<seq, lane, pinned, runs, data, phase>>
    PROVE  OInv' /\ Held' = Held
<1>1. /\ Pieces' = Pieces
      /\ \A k \in Pieces : Piece(k)' = Piece(k) /\ Owner(k)' = Owner(k) /\ In(k)' = In(k)
  BY PiecesKept
<1>2. \A id \in Ids : Open(id)' = Open(id) /\ Data(id)' = Data(id)
  BY DEF Open, Data
<1>3. Held' = Held
  BY DEF Held
<1>4. Owned' /\ Shapes'
  BY <1>1, <1>2 DEF OInv, Owned, Shapes
<1>5. Sections' /\ Numbered'
  BY <1>3 DEF OInv, Sections, Numbered, InSection
<1>6. InLine' /\ Opened'
  BY <1>1, <1>2 DEF OInv, InLine, Opened
<1>7. Interleaved'
  BY <1>1, <1>2 DEF OInv, Interleaved
<1> QED
  BY <1>3, <1>4, <1>5, <1>6, <1>7 DEF OInv

LEMMA PopOInv ==
    ASSUME IInv, OInv, Pop
    PROVE  OInv' /\ \E e : Leaves(out', e)
<1>1. lane \in Seq(Item) /\ Len(lane) \in Nat /\ Types
  BY LenProperties DEF IInv, Types
<1>2. CASE PopPinned
  <2>1. /\ Piece(0) = pinned /\ 0 \in Pieces
        /\ pinned # <<>> /\ out' = Head(pinned) /\ pinned' = Tail(pinned)
        /\ UNCHANGED <<lane, runs, data, phase, seq>>
    BY <1>1, <1>2 DEF PopPinned, Piece, Pieces, producers
  <2>2. Len(lane) - 0 = Len(lane) /\ \A k \in 1 .. Len(lane) - 0 : k + 0 = k
    BY <1>1
  <2>3. /\ lane' \in Seq(Item) /\ Len(lane') = Len(lane) - 0
        /\ \A k \in 1 .. Len(lane) - 0 : lane'[k] = lane[k + 0]
    BY <1>1, <2>1, <2>2
  <2> QED
    BY <2>1, <2>3, PopPiece
<1>3. CASE PopLane
  <2>1. /\ lane # <<>> /\ pinned = <<>> /\ ~Overdue
        /\ out' = Head(lane[1].frames) /\ pinned' = Tail(lane[1].frames) /\ lane' = Tail(lane)
        /\ UNCHANGED <<runs, data, phase, seq>>
    BY <1>3 DEF PopLane, producers
  <2>2. Len(lane) \in Nat \ {0}
    BY <1>1, <2>1, EmptySeq
  <2>3. 1 \in Pieces /\ 1 \in 1 .. Len(lane) /\ Piece(1) = lane[1].frames
    BY <2>2 DEF Pieces, Piece
  <2>4. Piece(1) # <<>>
    BY <2>3 DEF IInv, Kinds
  <2>5. /\ lane' \in Seq(Item) /\ Len(lane') = Len(lane) - 1
        /\ \A k \in 1 .. Len(lane) - 1 : lane'[k] = lane[k + 1]
    BY <1>1, <2>1, HeadTailProperties
  <2> QED
    BY <2>1, <2>3, <2>4, <2>5, PopPiece
<1>4. CASE outOfTurn
  <2>1. /\ pinned = <<>> /\ lane # <<>> /\ lane[1].stream \in Waiting /\ Take(lane[1].stream)
        /\ Head(data[lane[1].stream]).no < lane[1].seq
    BY <1>4 DEF outOfTurn, Overdue, Waiting
  <2> QED
    BY <2>1, TakeOInv
<1>5. CASE serve
  <2>1. pinned = <<>> /\ lane = <<>> /\ Take(Served)
    BY <1>5 DEF serve
  <2>2. Served \in Waiting
    BY <1>5, ServeIInv
  <2> QED
    BY <2>1, <2>2, TakeOInv
<1> QED
  BY <1>2, <1>3, <1>4, <1>5 DEF Pop

\* A frame that promises a CONTINUATION is pushed.
LEMMA WaitsOInv ==
    ASSUME IInv, OInv, NEW id \in Spanning, NEW f \in Frames, f.no = seq + 1, f.id = id,
           f.kind \in {"headers", "continuation"}, ~f.end, Push(f),
           runs[id] # <<>> \/ f.kind = "headers",
           InSection(id)', \A x \in Ids \ {id} : phase'[x] = phase[x]
    PROVE  OInv' /\ Held' = Held \cup {f}
<1>1. /\ PushOther(f) /\ seq' = seq + 1 /\ UNCHANGED pinned
  BY DEF Push
<1>2. id \in Ids
  BY SchedulerAssumption
<1>3. runs' = [runs EXCEPT ![id] = Append(runs[id], f)] /\ UNCHANGED <<lane, data>>
  BY <1>1, <1>2 DEF PushOther
<1>4. ~Ends(f)
  BY DEF Ends
<1> QED
  BY <1>1, <1>3, <1>4, OpenOInv

\* A frame that completes a block, or is a control frame, is pushed.
LEMMA CompletesOInv ==
    ASSUME IInv, OInv, NEW id \in Ids \cup {0}, NEW f \in Frames, f.no = seq + 1, f.id = id,
           f.kind # "data", Push(f),
           f.end \/ (f.kind = "control" /\ (id \in Ids => runs[id] = <<>>)),
           \A x \in Ids : InSection(x)' <=> InSection(x) /\ x # id
    PROVE  OInv' /\ Held' = Held \cup {f}
<1> DEFINE run == IF id \in Ids THEN runs[id] ELSE <<>>
           whole == Append(run, f)
           item == [frames |-> whole, stream |-> id, seq |-> whole[1].no]
<1>1. PushOther(f) /\ seq' = seq + 1 /\ UNCHANGED pinned
  BY DEF Push
<1>2. UNCHANGED data
  BY <1>1 DEF PushOther
<1>3. f.end \/ (f.kind = "control" /\ run = <<>>)
  OBVIOUS
<1>4. /\ lane' = Append(lane, item)
      /\ runs' = IF run = <<>> THEN runs ELSE [runs EXCEPT ![id] = <<>>]
  <2>1. CASE f.end
    BY <1>1, <2>1 DEF PushOther
  <2>2. CASE f.kind = "control" /\ run = <<>> /\ ~f.end
    BY <1>1, <2>2 DEF PushOther
  <2> QED
    BY <1>3, <2>1, <2>2
<1>5. Ends(f)
  BY <1>3 DEF Ends
<1>6. runs \in [Ids -> Seq(Frames)] /\ run \in Seq(Frames) /\ seq \in Nat
  <2>1. runs \in [Ids -> Seq(Frames)] /\ seq \in Nat
    BY DEF IInv, Types
  <2>2. <<>> \in Seq(Frames)
    BY EmptySeq
  <2> QED
    BY <2>1, <2>2
<1>7. \A x \in Ids : runs'[x] = IF x = id THEN <<>> ELSE runs[x]
  BY <1>4, <1>6
<1> HIDE DEF run
<1>8. /\ whole \in Seq(Frames) /\ whole[1] \in Frames
  <2>1. whole \in Seq(Frames) /\ 1 \in 1 .. Len(whole)
    BY <1>6, Appended
  <2> QED
    BY <2>1, ElementOfSeq
<1> HIDE DEF whole
<1>9. item \in Item /\ item.frames = whole /\ item.stream = id /\ item.seq = whole[1].no
  BY <1>8 DEF Item, Frames
<1> HIDE DEF item
<1> QED
  BY <1>1, <1>2, <1>4, <1>5, <1>6, <1>7, <1>9, ItemOInv DEF run, whole

(***************************************************************************)
(* Every step pushes one frame, or takes one, or does neither.             *)
(***************************************************************************)
Joins(f) ==
    /\ f \in Frames /\ Held' = Held \cup {f} /\ \A g \in Held : g.no < f.no
    /\ f.kind = "continuation" <=> f.id \in Ids /\ runs[f.id] # <<>>
    /\ UNCHANGED <<pinned, out>>

\* A control frame is not pushed into an open block.
ControlStaysOut == Controlled \cap Spanning = {}

LEMMA PushOInv ==
    ASSUME IInv, OInv, ControlStaysOut, NEW id \in Ids \cup {0}, NEW end \in BOOLEAN,
           \/ id \in Ids /\ (Section(id, end) \/ Continue(id, end) \/ Content(id))
           \/ id \in Controlled /\ Control(id)
    PROVE  OInv' /\ \E f : Joins(f)
<1>1. /\ Types /\ lane \in Seq(Item) /\ seq \in Nat
      /\ phase \in [Ids -> {"start", "inHeaders", "content", "inTrailers", "over"}]
  BY DEF IInv, Types
<1>2. /\ \A x \in Ids : /\ runs[x] # <<>> <=> InSection(x)
                        /\ runs[x] # <<>> => x \in Spanning
      /\ 0 \notin Ids
  BY TurnIsNoId DEF OInv, Sections, nonIncrementalTurn
<1>3. ASSUME NEW kind \in {"data", "headers", "continuation", "control"}, NEW last \in BOOLEAN,
             Push(Frame(id, kind, last))
      PROVE  /\ Frame(id, kind, last) \in Frames
             /\ Frame(id, kind, last).id = id /\ Frame(id, kind, last).no = seq + 1
             /\ Frame(id, kind, last).kind = kind
             /\ Frame(id, kind, last).end = last
             /\ \A g \in Held : g.no < Frame(id, kind, last).no
             /\ UNCHANGED <<pinned, out>> /\ seq' = seq + 1
  <2>1. /\ Frame(id, kind, last) \in Frames
        /\ Frame(id, kind, last).id = id /\ Frame(id, kind, last).no = seq + 1
        /\ Frame(id, kind, last).kind = kind
    BY <1>1 DEF Frame, Frames
  <2>2. Frame(id, kind, last).end = last
    BY DEF Frame
  <2>3. UNCHANGED <<pinned, out>> /\ seq' = seq + 1
    BY <1>3 DEF Push
  <2>4. \A g \in Held : g.no < Frame(id, kind, last).no
    <3>1. \A g \in Held : g.no \in 0 .. seq
      BY DEF OInv, Numbered
    <3> QED
      BY <1>1, <2>1, <3>1
  <2> QED
    BY <2>1, <2>2, <2>3, <2>4
<1>4. ASSUME id \in Ids, Section(id, end) PROVE OInv' /\ \E f : Joins(f)
  <2> DEFINE f == Frame(id, "headers", end)
  <2>1. /\ phase[id] \in {"start", "content"} /\ \A x \in Ids : ~InSection(x)
        /\ end \/ id \in Spanning
        /\ Push(f)
        /\ phase' = [phase EXCEPT ![id] =
                      IF phase[id] = "start" THEN (IF end THEN "content" ELSE "inHeaders")
                      ELSE (IF end THEN "over" ELSE "inTrailers")]
    BY <1>4 DEF Section
  <2>2. /\ f \in Frames /\ f.id = id /\ f.no = seq + 1 /\ f.kind = "headers" /\ f.end = end
        /\ \A g \in Held : g.no < f.no
        /\ UNCHANGED <<pinned, out>>
    BY <1>3, <2>1
  <2> HIDE DEF f
  <2>3. \A x \in Ids \ {id} : phase'[x] = phase[x]
    BY <1>1, <2>1
  <2>4. OInv' /\ Held' = Held \cup {f}
    <3>1. CASE end
      <4>1. phase'[id] \in {"content", "over"}
        BY <1>1, <1>4, <2>1, <3>1
      <4>2. \A x \in Ids : InSection(x)' <=> InSection(x) /\ x # id
        BY <2>1, <2>3, <4>1 DEF InSection
      <4>3. f.end
        BY <2>2, <3>1
      <4> QED
        BY <2>1, <2>2, <4>2, <4>3, CompletesOInv
    <3>2. CASE ~end
      <4>1. InSection(id)'
        BY <1>1, <1>4, <2>1, <3>2 DEF InSection
      <4>2. ~f.end /\ id \in Spanning
        BY <2>1, <2>2, <3>2
      <4> QED
        BY <2>1, <2>2, <2>3, <4>1, <4>2, WaitsOInv
    <3> QED
      BY <3>1, <3>2
  <2>5. f.kind # "continuation" /\ runs[f.id] = <<>>
    BY <1>2, <1>4, <2>1, <2>2
  <2> QED
    BY <2>2, <2>4, <2>5 DEF Joins
<1>5. ASSUME id \in Ids, Continue(id, end) PROVE OInv' /\ \E f : Joins(f)
  <2> DEFINE f == Frame(id, "continuation", end)
  <2>1. /\ InSection(id) /\ Push(f)
        /\ phase' = [phase EXCEPT ![id] = IF ~end THEN phase[id]
                       ELSE IF phase[id] = "inHeaders" THEN "content" ELSE "over"]
    BY <1>5 DEF Continue
  <2>2. /\ f \in Frames /\ f.id = id /\ f.no = seq + 1 /\ f.kind = "continuation" /\ f.end = end
        /\ \A g \in Held : g.no < f.no
        /\ UNCHANGED <<pinned, out>>
    BY <1>3, <2>1
  <2> HIDE DEF f
  <2>3. \A x \in Ids \ {id} : phase'[x] = phase[x]
    BY <1>1, <2>1
  <2>4. runs[id] # <<>> /\ id \in Spanning
    BY <1>2, <1>5, <2>1
  <2>5. OInv' /\ Held' = Held \cup {f}
    <3>1. CASE end
      <4>1. phase'[id] \in {"content", "over"}
        BY <1>1, <1>5, <2>1, <3>1
      <4>2. \A x \in Ids : InSection(x)' <=> InSection(x) /\ x # id
        BY <2>1, <2>3, <4>1 DEF InSection
      <4>3. f.end
        BY <2>2, <3>1
      <4> QED
        BY <2>1, <2>2, <4>2, <4>3, CompletesOInv
    <3>2. CASE ~end
      <4>1. InSection(id)'
        BY <1>1, <1>5, <2>1, <3>2 DEF InSection
      <4>2. ~f.end
        BY <2>2, <3>2
      <4> QED
        BY <2>1, <2>2, <2>3, <2>4, <4>1, <4>2, WaitsOInv
    <3> QED
      BY <3>1, <3>2
  <2> QED
    BY <1>5, <2>2, <2>4, <2>5 DEF Joins
<1>6. ASSUME id \in Ids, Content(id) PROVE OInv' /\ \E f : Joins(f)
  <2> DEFINE f == Frame(id, "data", FALSE)
  <2>1. phase[id] = "content" /\ Push(f) /\ UNCHANGED phase
    BY <1>6 DEF Content
  <2>2. /\ f \in Frames /\ f.id = id /\ f.no = seq + 1 /\ f.kind = "data"
        /\ \A g \in Held : g.no < f.no
        /\ UNCHANGED <<pinned, out>> /\ seq' = seq + 1
    BY <1>3, <2>1
  <2> HIDE DEF f
  <2>3. data' = [data EXCEPT ![id] = Append(data[id], f)] /\ UNCHANGED <<lane, runs>>
    BY <2>1, <2>2 DEF Push, PushData
  <2>4. OInv' /\ Held' = Held \cup {f}
    BY <1>6, <2>1, <2>2, <2>3, ContentOInv
  <2>5. runs[id] = <<>>
    BY <1>2, <1>6, <2>1 DEF InSection
  <2> QED
    BY <2>2, <2>4, <2>5 DEF Joins
<1>7. ASSUME id \in Controlled, Control(id) PROVE OInv' /\ \E f : Joins(f)
  <2> DEFINE f == Frame(id, "control", FALSE)
  <2>1. Push(f) /\ UNCHANGED phase
    BY <1>7 DEF Control
  <2>2. /\ f \in Frames /\ f.id = id /\ f.no = seq + 1 /\ f.kind = "control"
        /\ \A g \in Held : g.no < f.no
        /\ UNCHANGED <<pinned, out>>
    BY <1>3, <2>1
  <2> HIDE DEF f
  <2>3. id \in Ids => runs[id] = <<>>
    BY <1>2, <1>7 DEF ControlStaysOut
  <2>4. \A x \in Ids : InSection(x)' <=> InSection(x) /\ x # id
    BY <1>2, <2>1, <2>3 DEF InSection
  <2>5. OInv' /\ Held' = Held \cup {f}
    BY <2>1, <2>2, <2>3, <2>4, CompletesOInv
  <2> QED
    BY <2>2, <2>3, <2>5 DEF Joins
<1> QED
  BY <1>4, <1>5, <1>6, <1>7

LEMMA InitOInv ==
    ASSUME Init PROVE OInv /\ Held = {}
<1> USE DEF Init
<1>1. /\ lane = <<>> /\ pinned = <<>> /\ Len(lane) = 0
      /\ \A id \in Ids : runs[id] = <<>> /\ data[id] = <<>> /\ Open(id) = {} /\ Data(id) = {}
  BY EmptySeq, EmptySet DEF Open, Data
<1>2. Pieces = {0} /\ In(0) = {} /\ Piece(0) = <<>>
  <2>1. Pieces = {0}
    BY <1>1 DEF Pieces
  <2> QED
    BY <1>1, <2>1, EmptySet DEF In, Piece
<1>3. Held = {}
  <2>1. DOMAIN lane = {}
    BY <1>1, LenProperties
  <2> QED
    BY <1>1, <2>1, EmptySet DEF Held
<1>4. Rising(<<>>)
  BY EmptySeq DEF Rising
<1>5. Owned /\ Shapes
  BY <1>1, <1>2, <1>4 DEF Owned, Shapes
<1>6. Sections /\ Numbered
  BY <1>1, <1>3 DEF Sections, InSection, Numbered
<1>7. InLine /\ Opened /\ Interleaved
  BY <1>1, <1>2 DEF InLine, Opened, Interleaved, Before
<1> QED
  BY <1>3, <1>5, <1>6, <1>7 DEF OInv

(***************************************************************************)
(* The queues of Outbox: each step pushes at one end or takes at the other.*)
(***************************************************************************)
Queue(id) == InOrder(Of(id))

LEMMA HeldType ==
    ASSUME Types
    PROVE  \A g \in Held : g \in Frames
<1>1. Len(lane) \in Nat /\ DOMAIN lane = 1 .. Len(lane)
      /\ \A k \in 1 .. Len(lane) : lane[k].frames \in Seq(Frames)
  <2>1. lane \in Seq(Item)
    BY DEF Types
  <2>2. \A k \in 1 .. Len(lane) : lane[k] \in Item
    BY <2>1, ElementOfSeq
  <2> QED
    BY <2>1, <2>2, LenProperties DEF Item
<1>2. \A s \in Seq(Frames) : ToSet(s) \subseteq Frames
  BY LenProperties, ElementOfSeq DEF ToSet
<1>3. \A id \in Ids : runs[id] \in Seq(Frames) /\ data[id] \in Seq(Frames)
  BY DEF Types
<1>4. pinned \in Seq(Frames)
  BY DEF Types
<1> QED
  BY <1>1, <1>2, <1>3, <1>4 DEF Held

LEMMA QueueMore ==
    ASSUME Queued, NEW f, Joins(f)
    PROVE  /\ Queued'
           /\ \A id \in Ids \cup {0} :
                Queue(id)' = IF id = f.id THEN Append(Queue(id), f) ELSE Queue(id)
<1>1. /\ f \in Frames /\ Held' = Held \cup {f} /\ \A g \in Held : g.no < f.no
      /\ f.id \in Ids \cup {0}
  BY DEF Joins, Frames
<1>2. ASSUME NEW id \in Ids \cup {0}
      PROVE  /\ Enumerates(InOrder(Of(id)'), Of(id)')
             /\ InOrder(Of(id)') = IF id = f.id THEN Append(Queue(id), f) ELSE Queue(id)
  <2>1. Enumerates(Queue(id), Of(id))
    BY DEF Queued, Queue
  <2>2. CASE id = f.id
    <3>1. Of(id)' = Of(id) \cup {f}
      BY <1>1, <2>2 DEF Of
    <3>2. \A g \in Of(id) : g.no < f.no
      BY <1>1 DEF Of
    <3>3. Enumerates(Append(Queue(id), f), Of(id) \cup {f})
      BY <1>1, <2>1, <3>2, EnumerateMore
    <3>4. InOrder(Of(id) \cup {f}) = Append(Queue(id), f)
      BY <3>3, InOrderIs
    <3> QED
      BY <2>2, <3>1, <3>3, <3>4
  <2>3. CASE id # f.id
    <3>1. Of(id)' = Of(id)
      BY <1>1, <2>3 DEF Of
    <3> QED
      BY <2>1, <2>3, <3>1 DEF Queue
  <2> QED
    BY <2>2, <2>3
<1> QED
  BY <1>2 DEF Queued, Queue

LEMMA QueueLess ==
    ASSUME Queued, NEW f, f \in Held, f.id \in Ids \cup {0}, Held' = Held \ {f},
           \A g \in Held : g.id = f.id => f.no <= g.no
    PROVE  /\ Queued' /\ Queue(f.id) # <<>> /\ Head(Queue(f.id)) = f
           /\ \A id \in Ids \cup {0} :
                Queue(id)' = IF id = f.id THEN Tail(Queue(id)) ELSE Queue(id)
<1>1. ASSUME NEW id \in Ids \cup {0}
      PROVE  /\ Enumerates(InOrder(Of(id)'), Of(id)')
             /\ InOrder(Of(id)') = IF id = f.id THEN Tail(Queue(id)) ELSE Queue(id)
             /\ id = f.id => Queue(id) # <<>> /\ Head(Queue(id)) = f
  <2>1. Enumerates(Queue(id), Of(id))
    BY DEF Queued, Queue
  <2>2. CASE id = f.id
    <3>1. Of(id)' = Of(id) \ {f} /\ f \in Of(id)
      BY <2>2 DEF Of
    <3>2. \A g \in Of(id) : f.no <= g.no
      BY <2>2 DEF Of
    <3>3. /\ Queue(id) # <<>> /\ Head(Queue(id)) = f
          /\ Enumerates(Tail(Queue(id)), Of(id) \ {f})
      BY <2>1, <3>1, <3>2, EnumerateLess
    <3>4. InOrder(Of(id) \ {f}) = Tail(Queue(id))
      BY <3>3, InOrderIs
    <3> QED
      BY <2>2, <3>1, <3>3, <3>4
  <2>3. CASE id # f.id
    <3>1. Of(id)' = Of(id)
      BY <2>3 DEF Of
    <3> QED
      BY <2>1, <2>3, <3>1 DEF Queue
  <2> QED
    BY <2>2, <2>3
<1> QED
  BY <1>1 DEF Queued, Queue

\* A block of a stream is open in Outbox when it is in the scheduler.
LEMMA OpenIs ==
    ASSUME IInv, OInv, Queued, NEW id \in Ids \cup {0}
    PROVE  /\ Queue(id) \in Seq(Frames)
           /\ Promise!OpenBlock(Queue(id)) <=> id \in Ids /\ runs[id] # <<>>
<1> DEFINE q == Queue(id)
           g == q[Len(q)]
<1>1. q \in Seq(Frames) /\ ToSet(q) = Of(id) /\ Rising(q)
  BY DEF Queued, Queue, Enumerates
<1>2. Types /\ Kinds
  BY DEF IInv
<1>3. /\ \A h \in Held : h.no \in Nat
      /\ \A k \in Pieces : In(k) \subseteq Held
      /\ \A x \in Ids : Open(x) \subseteq Held /\ Data(x) \subseteq Held
      /\ \A h \in Held : \/ \E k \in Pieces : h \in In(k)
                         \/ \E x \in Ids : h \in Open(x) \/ h \in Data(x)
  BY <1>2, HeldParts
<1>4. Promise!OpenBlock(q) <=> q # <<>> /\ ~Ends(g)
  BY DEF Promise!OpenBlock, Promise!EndsItem, Ends
<1> HIDE DEF q
<1>5. ASSUME q # <<>> PROVE g \in Of(id) /\ \A h \in Of(id) : h # g => h.no < g.no
  <2>1. Len(q) \in Nat /\ DOMAIN q = 1 .. Len(q) /\ Len(q) \in 1 .. Len(q)
    BY <1>1, <1>5, LenProperties, EmptySeq
  <2>2. g \in Of(id)
    BY <1>1, <2>1 DEF ToSet
  <2>3. ASSUME NEW h \in Of(id), h # g PROVE h.no < g.no
    <3>1. PICK i \in 1 .. Len(q) : h = q[i]
      BY <1>1, <2>1 DEF ToSet
    <3>2. i # Len(q)
      BY <2>3, <3>1
    <3>3. i < Len(q)
      <4> DEFINE l == Len(q)
      <4>1. l \in Nat /\ i \in 1 .. l /\ i # l
        BY <2>1, <3>2
      <4> HIDE DEF l
      <4>2. i < l
        BY <4>1
      <4> QED
        BY <4>2 DEF l
    <3> QED
      BY <1>1, <2>1, <3>1, <3>3 DEF Rising
  <2> QED
    BY <2>2, <2>3
<1>6. ASSUME NEW h \in Of(id) PROVE q # <<>>
  BY <1>1, EmptySet
<1> HIDE DEF g
<1>7. /\ \A k \in Pieces : \A h \in In(k) : h.id = Owner(k)
      /\ \A x \in Ids : \A h \in Open(x) : h.id = x /\ ~Ends(h)
      /\ \A x \in Ids : \A h \in Data(x) : h.id = x /\ Ends(h)
  <2>1. \A x \in Ids : \A h \in Data(x) : h.id = x /\ h.kind = "data"
    BY <1>2, KindsHere
  <2>2. \A h : h.kind = "data" => Ends(h)
    BY DEF Ends
  <2> QED
    BY <2>1, <2>2 DEF OInv, Owned, Shapes
<1>8. ASSUME id \in Ids, runs[id] # <<>> PROVE q # <<>> /\ ~Ends(g)
  <2>1. PICK r : r \in Open(id)
    <3>1. runs[id] \in Seq(Frames)
      BY <1>2, <1>8 DEF Types
    <3>2. runs[id][1] \in Open(id)
      BY <1>8, <3>1, LenProperties, EmptySeq DEF Open, ToSet
    <3> QED
      BY <3>2
  <2>2. r \in Of(id)
    BY <1>3, <1>7, <1>8, <2>1 DEF Of
  <2>3. q # <<>> /\ g \in Of(id) /\ (r # g => r.no < g.no)
    BY <1>5, <1>6, <2>2
  <2>4. g \in Held /\ g.id = id /\ g.no \in Nat /\ r.no \in Nat
    BY <1>3, <2>2, <2>3 DEF Of
  <2>5. r.no <= g.no
    BY <2>3, <2>4
  <2>6. ASSUME NEW k \in Pieces, g \in In(k) PROVE FALSE
    <3>1. Owner(k) = id
      BY <1>7, <2>4, <2>6
    <3>2. g.no < r.no
      BY <1>8, <2>1, <2>6, <3>1 DEF OInv, Opened, Before
    <3> QED
      BY <2>4, <2>5, <3>2
  <2>7. ASSUME NEW x \in Ids, g \in Data(x) PROVE FALSE
    <3>1. x = id
      BY <1>7, <2>4, <2>7
    <3>2. g.no < r.no
      BY <2>1, <2>7, <3>1 DEF OInv, Opened, Before
    <3> QED
      BY <2>4, <2>5, <3>2
  <2>8. PICK x \in Ids : g \in Open(x)
    BY <1>3, <2>4, <2>6, <2>7
  <2> QED
    BY <1>7, <2>3, <2>8
<1>9. ASSUME q # <<>>, ~Ends(g) PROVE id \in Ids /\ runs[id] # <<>>
  <2>1. g \in Of(id) /\ \A h \in Of(id) : h # g => h.no < g.no
    BY <1>5, <1>9
  <2>2. g \in Held /\ g.id = id /\ g.no \in Nat
    BY <1>3, <2>1 DEF Of
  <2>3. ASSUME NEW k \in Pieces, g \in In(k) PROVE FALSE
    <3> DEFINE s == Piece(k)
               e == s[Len(s)]
    <3>1. s \in Seq(Frames) /\ s # <<>>
      BY <1>2, <2>3, PieceType, EmptySet DEF In
    <3>2. IsItem(s)
      BY <3>1 DEF OInv, Shapes, Piece
    <3>3. In(k) = ToSet(s)
      BY DEF In
    <3> HIDE DEF s
    <3>4. Len(s) \in Nat /\ DOMAIN s = 1 .. Len(s) /\ Len(s) \in 1 .. Len(s)
      BY <3>1, LenProperties, EmptySeq
    <3>5. e \in In(k) /\ Ends(e)
      BY <3>2, <3>3, <3>4 DEF IsItem, ToSet
    <3>6. e \in Of(id) /\ e # g /\ e.no \in Nat
      BY <1>3, <1>7, <1>9, <2>2, <2>3, <3>5 DEF Of
    <3>7. e.no < g.no
      BY <2>1, <3>6
    <3>8. PICK i \in 1 .. Len(s) : g = s[i]
      BY <2>3, <3>3, <3>4 DEF ToSet
    <3>9. i # Len(s)
      BY <3>6, <3>8
    <3>10. i < Len(s)
      <4> DEFINE l == Len(s)
      <4>1. l \in Nat /\ i \in 1 .. l /\ i # l
        BY <3>4, <3>9
      <4> HIDE DEF l
      <4>2. i < l
        BY <4>1
      <4> QED
        BY <4>2 DEF l
    <3>11. g.no < e.no
      BY <3>2, <3>4, <3>8, <3>10 DEF IsItem, Rising
    <3> QED
      BY <2>2, <3>6, <3>7, <3>11
  <2>4. PICK x \in Ids : g \in Open(x)
    BY <1>3, <1>7, <1>9, <2>2, <2>3
  <2>5. x = id
    BY <1>7, <2>2, <2>4
  <2> QED
    BY <2>4, <2>5, EmptySet DEF Open
<1> QED
  BY <1>1, <1>4, <1>8, <1>9 DEF q

(***************************************************************************)
(* Every step is a step of Outbox, or leaves its variables alone.          *)
(***************************************************************************)
queueOf == [id \in Ids \cup {0} |-> Queue(id)]

\* A frame that is pushed is put in.
LEMMA JoinMaps ==
    ASSUME IInv, OInv, Queued, NEW f, Joins(f)
    PROVE  Promise!OutboxNext
<1> DEFINE id == f.id
<1>1. f \in Frames /\ UNCHANGED <<pinned, out>> /\ id \in Ids \cup {0}
  BY DEF Joins, Frames
<1>2. \A x \in Ids \cup {0} : Queue(x)' = IF x = id THEN Append(Queue(x), f) ELSE Queue(x)
  BY QueueMore
<1>3. /\ Queue(id) \in Seq(Frames)
      /\ Promise!OpenBlock(Queue(id)) <=> id \in Ids /\ runs[id] # <<>>
  BY <1>1, OpenIs
<1>4. f.kind = "continuation" <=> Promise!OpenBlock(Queue(id))
  BY <1>3 DEF Joins
<1>5. /\ Len(Append(Queue(id), f)) = Len(Queue(id)) + 1
      /\ Append(Queue(id), f)[Len(Queue(id)) + 1] = f
      /\ Len(Queue(id)) \in Nat
  BY <1>1, <1>3, AppendProperties, LenProperties
<1>6. queueOf' = [queueOf EXCEPT ![id] = Append(@, f)] /\ queueOf[id] = Queue(id)
      /\ queueOf'[id] = Append(Queue(id), f)
  BY <1>1, <1>2 DEF queueOf
<1>7. Len(queueOf'[id]) > Len(queueOf[id]) /\ queueOf'[id][Len(queueOf'[id])] = f
  <2> DEFINE l == Len(Queue(id))
  <2>1. l \in Nat /\ Len(queueOf'[id]) = l + 1 /\ Len(queueOf[id]) = l
    BY <1>5, <1>6
  <2> HIDE DEF l
  <2>2. l + 1 > l
    BY <2>1
  <2>3. Len(queueOf'[id]) > Len(queueOf[id])
    BY <2>1, <2>2
  <2>4. queueOf'[id][l + 1] = f
    BY <1>5, <1>6 DEF l
  <2> QED
    BY <2>1, <2>3, <2>4
<1>8. (IF pinned = <<>> THEN -1 ELSE pinned[1].id)' = IF pinned = <<>> THEN -1 ELSE pinned[1].id
  BY <1>1
<1>9. Promise!Put(queueOf'[id][Len(queueOf'[id])])
  <2>1. f.kind = "continuation" <=> Promise!OpenBlock(queueOf[f.id])
    BY <1>4, <1>6
  <2>2. queueOf' = [queueOf EXCEPT ![f.id] = Append(@, f)] /\ out' = out
    BY <1>1, <1>6
  <2>3. Promise!Put(f)
    BY <1>8, <2>1, <2>2 DEF Promise!Put, queueOf, Queue, Of
  <2> QED
    BY <2>3, <1>7
<1> HIDE DEF id
<1> QED
  BY <1>1, <1>7, <1>9 DEF Promise!OutboxNext, queueOf, Queue, Of

\* A frame that leaves is got, in its turn.
LEMMA LeaveMaps ==
    ASSUME IInv, OInv, Queued, NEW e, Leaves(out', e)
    PROVE  Queued' /\ Promise!OutboxNext
<1>1. PICK f : f = out'
  OBVIOUS
<1>2. /\ f \in Held /\ e \in Held /\ e.id = f.id /\ Ends(e) /\ Held' = Held \ {f} /\ out' = f
      /\ \A g \in Held : g.id = f.id => f.no <= g.no
      /\ Owner(0) \in {-1, f.id} /\ Owner(0)' = IF Ends(f) THEN -1 ELSE f.id
      /\ f.kind = "data" \/ \A g \in Held : Ends(g) /\ g.kind # "data" => e.no <= g.no
  BY <1>1 DEF Leaves
<1>3. PICK id \in Ids \cup {0} : id = f.id
  BY <1>2, HeldType DEF IInv, Frames
<1>4. /\ Queued' /\ Queue(id) # <<>> /\ Head(Queue(id)) = f
      /\ \A x \in Ids \cup {0} : Queue(x)' = IF x = id THEN Tail(Queue(x)) ELSE Queue(x)
  BY <1>2, <1>3, QueueLess
<1>5. \A x \in Ids \cup {0} : /\ Queue(x) \in Seq(Frames) /\ ToSet(Queue(x)) = Of(x)
                              /\ Rising(Queue(x)) /\ queueOf[x] = Queue(x)
  BY DEF Queued, Queue, Enumerates, queueOf
<1>6. queueOf' = [queueOf EXCEPT ![id] = Tail(@)]
  BY <1>4, <1>5 DEF queueOf
<1>7. \A g \in Held : g.no \in Nat
  BY HeldParts DEF IInv
<1>8. PICK m \in 1 .. Len(Queue(id)) : Queue(id)[m] = e
  <2>1. e \in ToSet(Queue(id))
    BY <1>2, <1>3, <1>5 DEF Of
  <2> QED
    BY <1>5, <2>1, LenProperties DEF ToSet
<1>9. \A x \in Ids \cup {0} : DOMAIN Queue(x) = 1 .. Len(Queue(x)) /\ Len(Queue(x)) \in Nat
                              /\ \A i \in 1 .. Len(Queue(x)) : Queue(x)[i] \in Held
  BY <1>5, LenProperties DEF ToSet, Of
<1>10. \A x \in Ids \cup {0} : \A i \in 1 .. Len(Queue(x)) :
         /\ Queue(x)[i] \in Held /\ Queue(x)[i].no \in Nat
         /\ Promise!EndsItem(Queue(x)[i]) <=> Ends(Queue(x)[i])
  BY <1>7, <1>9 DEF Promise!EndsItem, Ends
<1>11. Promise!Whole(queueOf[id])
  BY <1>2, <1>5, <1>8, <1>9, <1>10 DEF Promise!Whole
<1>12. Owner(0) \in {Promise!NoStream, id}
  BY <1>2, <1>3 DEF Promise!NoStream
<1>13. Owner(0)' = IF Promise!EndsItem(Head(queueOf[id])) THEN Promise!NoStream ELSE id
  BY <1>2, <1>3, <1>4, <1>5 DEF Promise!NoStream, Promise!EndsItem, Ends
<1>14. out' = Head(queueOf[id])
  BY <1>2, <1>4, <1>5
<1>15. ASSUME f.kind # "data", NEW i \in DOMAIN queueOf[id], NEW other \in Ids \cup {0},
              \A j \in 1 .. i - 1 : ~Promise!EndsItem(queueOf[id][j]),
              NEW no \in Promise!Completions(queueOf[other])
       PROVE  queueOf[id][i].no <= no
  <2>1. i \in 1 .. Len(Queue(id)) /\ queueOf[id] = Queue(id) /\ queueOf[other] = Queue(other)
    BY <1>5, <1>9, <1>15
  <2>2. PICK h \in Held : no = h.no /\ h.kind # "data" /\ Ends(h)
    BY <1>9, <1>10, <1>15, <2>1 DEF Promise!Completions
  <2>3. e.no <= no
    BY <1>2, <1>15, <2>2
  <2>4. ~(m < i)
    <3>1. m < i => m \in 1 .. i - 1
      BY <2>1
    <3>2. Promise!EndsItem(Queue(id)[m])
      BY <1>2, <1>8, <1>10
    <3> QED
      BY <1>15, <2>1, <3>1, <3>2
  <2>5. i = m \/ i < m
    BY <2>1, <2>4
  <2>6. Queue(id)[i].no \in Nat /\ e.no \in Nat /\ no \in Nat
    BY <1>2, <1>7, <1>10, <2>1, <2>2
  <2>7. i = m \/ Queue(id)[i].no < e.no
    BY <1>5, <1>8, <2>1, <2>5 DEF Rising
  <2> QED
    BY <1>8, <2>1, <2>3, <2>6, <2>7
<1>16. Promise!InTurn(id)
  <2>1. CASE f.kind = "data"
    BY <1>4, <1>5, <2>1 DEF Promise!InTurn, queueOf, Queue, Of
  <2>2. CASE f.kind # "data"
    BY <1>15, <2>2 DEF Promise!InTurn, queueOf, Queue, Of
  <2> QED
    BY <2>1, <2>2
<1>17. Promise!GetInTurn(id)
  BY <1>6, <1>11, <1>12, <1>13, <1>14, <1>16
     DEF Promise!GetInTurn, Promise!Get, Promise!Ready, Promise!Shift, queueOf, Queue, Of, Owner
<1> QED
  BY <1>4, <1>17 DEF Promise!OutboxNext

LEMMA InitQueued ==
    ASSUME Init
    PROVE  Queued /\ \A id \in Ids \cup {0} : Queue(id) = <<>>
<1>1. Enumerates(<<>>, {})
  BY EmptySeq, EmptySet DEF Enumerates, Rising
<1>2. InOrder({}) = <<>>
  BY <1>1, InOrderIs
<1>3. \A id \in Ids \cup {0} : Of(id) = {}
  BY InitOInv DEF Of
<1> QED
  BY <1>1, <1>2, <1>3 DEF Queued, Queue

OrderInv == IInv /\ OInv /\ Queued
Mapped == <<queueOf, Owner(0), out>>

LEMMA StepMaps ==
    ASSUME ControlStaysOut, OrderInv, [Next]_vars
    PROVE  OrderInv' /\ (Promise!OutboxNext \/ UNCHANGED Mapped)
<1> USE DEF OrderInv
<1>1. IInv'
  BY StepIInv
<1>2. ASSUME OInv' /\ \E f : Joins(f) PROVE Queued' /\ Promise!OutboxNext
  BY <1>2, JoinMaps, QueueMore
<1>3. ASSUME NEW id \in Ids, NEW end \in BOOLEAN, Section(id, end) \/ Continue(id, end)
      PROVE  OInv' /\ Queued' /\ Promise!OutboxNext
  BY <1>2, <1>3, PushOInv
<1>4. ASSUME NEW id \in Ids, Content(id) PROVE OInv' /\ Queued' /\ Promise!OutboxNext
  BY <1>2, <1>4, PushOInv
<1>5. ASSUME NEW id \in Controlled, Control(id) PROVE OInv' /\ Queued' /\ Promise!OutboxNext
  <2>1. id \in Ids \cup {0}
    BY SchedulerAssumption
  <2> QED
    BY <1>2, <1>5, <2>1, PushOInv
<1>6. CASE Pop
  <2>1. PICK e : OInv' /\ Leaves(out', e)
    BY <1>6, PopOInv
  <2> QED
    BY <1>1, <2>1, LeaveMaps
<1>7. ASSUME UNCHANGED <<seq, lane, pinned, runs, data, phase, out>>
      PROVE  OInv' /\ Queued' /\ UNCHANGED Mapped
  <2>1. OInv' /\ Held' = Held
    BY <1>7, QuietOInv
  <2>2. \A id \in Ids \cup {0} : Of(id)' = Of(id)
    BY <2>1 DEF Of
  <2>3. Queued' /\ queueOf' = queueOf
    BY <2>2 DEF Queued, queueOf, Queue
  <2> QED
    BY <1>7, <2>1, <2>3 DEF Mapped, Owner
<1>8. ASSUME NEW id \in Ids, NEW p \in Params, SetPriority(id, p)
      PROVE  OInv' /\ Queued' /\ UNCHANGED Mapped
  BY <1>7, <1>8 DEF SetPriority
<1>9. ASSUME NEW id \in Ids, Forget(id) PROVE OInv' /\ Queued' /\ UNCHANGED Mapped
  BY <1>7, <1>9 DEF Forget
<1>10. CASE UNCHANGED vars
  <2>1. UNCHANGED <<seq, lane, pinned, runs, data, phase, out>>
    BY <1>10 DEF vars, producers
  <2> QED
    BY <1>1, <1>7, <2>1
<1> QED
  BY <1>1, <1>3, <1>4, <1>5, <1>6, <1>8, <1>9, <1>10 DEF Next

(***************************************************************************)
(* The order of frames: each stream's leave in the order pushed, a field   *)
(* block leaves whole and uninterrupted, and blocks and control frames     *)
(* leave in the order completed (scheduler.go:44, writer.go:191), so long  *)
(* as no control frame is pushed for a stream while a block of it is open. *)
(***************************************************************************)
THEOREM KeepsOutboxPromiseCorrect == ControlStaysOut => (Spec => KeepsOutboxPromise)
<1> SUFFICES ASSUME ControlStaysOut PROVE Spec => KeepsOutboxPromise
  OBVIOUS
<1>1. Init => OrderInv /\ Promise!OutboxInit
  <2> SUFFICES ASSUME Init PROVE OrderInv /\ Promise!OutboxInit
    OBVIOUS
  <2>1. OrderInv
    BY InitIInv, InitOInv, InitQueued DEF OrderInv
  <2>2. queueOf = [id \in Ids \cup {0} |-> <<>>]
    BY InitQueued DEF queueOf
  <2>3. pinned = <<>> /\ out = Promise!NoFrame
    BY DEF Init, NoFrame, Promise!NoFrame
  <2> QED
    BY <2>1, <2>2, <2>3 DEF Promise!OutboxInit, Promise!NoStream, queueOf, Queue, Of
<1>2. OrderInv /\ [Next]_vars => OrderInv'
  BY StepMaps
<1>3. OrderInv /\ [Next]_vars
        => [Promise!OutboxNext]_<<[id \in Ids \cup {0} |-> InOrder({f \in Held : f.id = id})],
                                  IF pinned = <<>> THEN -1 ELSE pinned[1].id, out>>
  <2> SUFFICES ASSUME OrderInv, [Next]_vars, ~Promise!OutboxNext
               PROVE  UNCHANGED <<[id \in Ids \cup {0} |-> InOrder({f \in Held : f.id = id})],
                                  IF pinned = <<>> THEN -1 ELSE pinned[1].id, out>>
    OBVIOUS
  <2>1. UNCHANGED Mapped
    BY StepMaps
  <2> QED
    BY <2>1 DEF Mapped, queueOf, Queue, Of, Owner
<1> QED
  BY <1>1, <1>2, <1>3, PTL DEF Spec, KeepsOutboxPromise, Promise!OutboxSpec
=============================================================================
