\* Two streams; windows of at most 4 with initial size 2, so that two of the three
\* SETTINGS values leave a deficit or overflow, and three credit frames.
SPECIFICATION FairSpec
CONSTANTS
    Streams <- MCStreams
    InitialWindowSize = 2
    MaxWindowSize = 4
    Increments <- MCIncrements
    Sizes <- MCSizes
    Wants <- MCWants
    Reasons <- MCReasons
    MaxFrames = 3
INVARIANTS
    Ledger
    WindowsAreSound
    NoLostWakeup
PROPERTIES
    WritersAreServed
CHECK_DEADLOCK FALSE
