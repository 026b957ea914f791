--------------------------- MODULE MCStreamTable ---------------------------
(* Values for checking StreamTable, and the times at which its bucket is asked. *)
EXTENDS StreamTable, Bucket, SequencesExt

MCIds == {1, 2, 3}
MCLengths == {NoContentLength, 1}
MCFlaws == {"malformed", "undecodable", "selfDependent", "overConnection",
            "overStream", "overflow"}

-----------------------------------------------------------------------------
\* The bucket has no state but its own: it is checked once, where the exploration starts.
AtStart == frames = 0 /\ reader = "reading" /\ handler = [id \in Ids |-> "none"]

\* The times of calls, which may run backwards, on buckets made at time 0.
Times == UNION {[1..n -> -1..7] : n \in 1..4}
Buckets == {NewBucket(burst, rate, 0) : burst \in 0..2, rate \in {1, 2, 5}}

\* What a bucket answers to each of some calls.
Answers(b, times) ==
    FoldLeft(LAMBDA s, t : LET a == AllowAt(s.bucket, t) IN
                           [bucket |-> a.bucket, ok |-> Append(s.ok, a.ok)],
             [bucket |-> b, ok |-> <<>>], times).ok

\* A bucket that counts time instead of tokens and is full at its burst: at each call it
\* has what it had and the time since the latest call.
ExactAnswers(b, times) ==
    FoldLeft(LAMBDA s, t :
                 LET later == IF t > s.last THEN t ELSE s.last
                     all == s.level + later - s.last
                     level == IF all > b.burst * b.interval THEN b.burst * b.interval ELSE all
                     ok == level >= b.interval IN
                 [level |-> IF ok THEN level - b.interval ELSE level, last |-> later,
                  ok |-> Append(s.ok, ok)],
             [level |-> b.burst * b.interval, last |-> b.last, ok |-> <<>>], times).ok

Count(ok, i, j) == Cardinality({k \in i..j : ok[k]})
Latest(times, i) == CHOOSE t \in {0} \cup {times[k] : k \in 1..i} : \A k \in 1..i : times[k] <= t /\ 0 <= t

(***************************************************************************)
(* A burst and then a rate, however often the bucket is asked: over any    *)
(* calls it allows no more than the burst and one for every interval       *)
(* begun since, from its making no more than one for every whole interval, *)
(* and never less, in all, than a bucket that counts time exactly. A clock *)
(* that runs backwards earns nothing (bucket.go:92, bucket.go:118).        *)
(***************************************************************************)
RateIsHeld == AtStart =>
    \A b \in Buckets, times \in Times :
        LET ok == Answers(b, times)
            exact == ExactAnswers(b, times)
            Since(i, j) == Latest(times, j) - Latest(times, i) IN
        \A j \in DOMAIN times :
            /\ Count(ok, 1, j) <= b.burst + Latest(times, j) \div b.interval
            /\ \A i \in 1..j :
                Count(ok, i, j) <= b.burst + (Since(i, j) + b.interval - 1) \div b.interval
            /\ Latest(times, j) <= MaxDuration => Count(ok, 1, j) >= Count(exact, 1, j)

\* bucket.go:134: "a full bucket has no unspent fraction to carry". It carries one when the
\* call that spends from it comes less than an interval after last.
FullBucketsBankNothing == AtStart =>
    \A b \in Buckets, times \in Times : Answers(b, times) = ExactAnswers(b, times)
=============================================================================
