\* Two request streams and an even identifier, one stream allowed at a time,
\* and a peer that breaks every rule the table checks; buckets of up to two tokens with
\* intervals of four, two and one.
SPECIFICATION FairSpec
CONSTANTS
    Ids <- MCIds
    MaxConcurrent = 1
    ResetBurst = 1
    Lengths <- MCLengths
    Flaws <- MCFlaws
    MaxFrames = 5
    Second = 4
    MaxDuration = 6
INVARIANTS
    TableIsSound
    NoStrandedHandler
    BlocksAreHonoured
    RateIsHeld
PROPERTIES
    ClosedForGood
    EndReleasesHandlers
CHECK_DEADLOCK FALSE
