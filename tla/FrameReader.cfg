\* Frames of up to 13 octets, enough for two settings or a padded HEADERS with
\* priority; blocks of up to 15 octets over at most two CONTINUATIONs.
SPECIFICATION Spec
CONSTANTS
    MaxWindowSize = 7
    DefaultMaxFrameSize = 4
    MaxLength = 9
    MaxFrameSize = 13
    MaxHeaderBlockSize = 15
    MaxContinuationFrames = 2
    StreamIds <- MCStreamIds
    Settings <- MCSettings
INVARIANTS
    FramesAreWhole
    FramesRoundTrip
PROPERTY KeepsBlocksPromise
CHECK_DEADLOCK FALSE
