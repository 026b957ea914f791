-------------------------------- MODULE Bucket --------------------------------
(***************************************************************************)
(* The limiter of stream resets (internal/limits/bucket.go), as operators  *)
(* on a bucket. Times and intervals are in the unit of time.Duration.      *)
(***************************************************************************)
EXTENDS Integers

CONSTANTS
    Second,        \* time.Second
    MaxDuration    \* the longest time.Duration, at which Time.Sub stops

ASSUME BucketAssumption == Second \in Nat \ {0} /\ MaxDuration \in Nat

AtLeastOne(n) == IF n < 1 THEN 1 ELSE n

\* NewBucket: full, and no rate is too fast for the unit.
NewBucket(burst, refillPerSecond, now) ==
    [burst |-> AtLeastOne(burst), tokens |-> AtLeastOne(burst), last |-> now,
     interval |-> AtLeastOne(Second \div AtLeastOne(refillPerSecond))]

Sub(now, last) == IF now - last > MaxDuration THEN MaxDuration ELSE now - last

\* Time that earns no whole token is left for later, and time that runs backwards is
\* not earned; a bucket that fills up keeps nothing of what is over. \div rounds down
\* and Go's division to zero, which are alike above zero.
Filled(b, now) == [b EXCEPT !.tokens = b.burst, !.last = now]

Credited(b, earned) == [b EXCEPT !.tokens = @ + earned, !.last = @ + earned * b.interval]

\* Mutant: the time of the refill is the time of the call.
M_refill(b, now) ==
    LET earned == Sub(now, b.last) \div b.interval IN
    IF earned <= 0 THEN [b EXCEPT !.last = now]
    ELSE IF earned >= b.burst - b.tokens THEN Filled(b, now)
    ELSE Credited(b, earned)

refill(b, now) ==
    LET earned == Sub(now, b.last) \div b.interval IN
    IF earned <= 0 THEN b
    ELSE IF earned >= b.burst - b.tokens THEN Filled(b, now)
    ELSE Credited(b, earned)

\* Bucket.Allow, as the bucket it leaves and its answer.
AllowAt(b, now) ==
    LET r == refill(b, now) IN
    [ok |-> r.tokens > 0,
     bucket |-> IF r.tokens > 0 THEN [r EXCEPT !.tokens = @ - 1] ELSE r]
=============================================================================
