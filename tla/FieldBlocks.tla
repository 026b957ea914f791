---------------------------- MODULE FieldBlocks -----------------------------
(***************************************************************************)
(* What the frame reader promises the stream table about header blocks     *)
(* (internal/frame/reader.go, and RFC 9113 section 6.10): a block that is  *)
(* open is continued by CONTINUATION frames of its own stream and by       *)
(* nothing else, a CONTINUATION comes only to an open block, and no block, *)
(* its last frame included, is larger than the limit or spread over more   *)
(* frames than the limit.                                                  *)
(*                                                                         *)
(* FrameReader implements this specification; StreamTable is built on it.  *)
(***************************************************************************)
EXTENDS Integers

CONSTANTS
    Limit,   \* octets of one block
    Spread   \* CONTINUATION frames of one block

VARIABLES
    open,    \* the stream whose block is open, 0 for none
    size,    \* its octets so far
    frames,  \* its CONTINUATION frames so far
    given    \* the frame in the caller's hands, or Nothing

Nothing == [kind |-> "none", stream |-> 0, n |-> 0, end |-> FALSE]

BlocksInit == open = 0 /\ size = 0 /\ frames = 0 /\ given = Nothing

\* The block after f has joined it with total octets over spread frames.
Grow(f, total, spread) ==
    /\ total <= Limit /\ spread <= Spread
    /\ open' = IF f.end THEN 0 ELSE f.stream
    /\ size' = IF f.end THEN 0 ELSE total
    /\ frames' = IF f.end THEN 0 ELSE spread

Give(f) ==
    /\ given = Nothing /\ given' = f
    /\ \/ f.kind = "opening" /\ open = 0 /\ f.stream # 0 /\ Grow(f, f.n, 0)
       \/ f.kind = "continuation" /\ open # 0 /\ f.stream = open /\ Grow(f, size + f.n, frames + 1)
       \/ f.kind = "other" /\ open = 0 /\ UNCHANGED <<open, size, frames>>

Take == given # Nothing /\ given' = Nothing /\ UNCHANGED <<open, size, frames>>

BlocksNext == Take \/ Give(given')

BlocksSpec == BlocksInit /\ [][BlocksNext]_<<open, size, frames, given>>
=============================================================================
