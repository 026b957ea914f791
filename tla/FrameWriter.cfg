\* Three goroutines and a queue of one frame: control frames, a field block of
\* two frames, and content that fills the frames of a peer that changes its mind.
SPECIFICATION FairSpec
CONSTANTS
    Lanes <- MCLanes
    Script <- MCScript
    Depth = 1
    HighWater = 2
    Caps <- MCCaps
INVARIANTS
    StopsEndWhole
    WaitsAreRight
PROPERTY EnqueueReturns
CHECK_DEADLOCK FALSE
