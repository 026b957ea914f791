\* A preface and three frames of any kind, over a queue of one frame.
SPECIFICATION FairSpec
CONSTANTS
    TLS = TRUE
    Frames <- MCFrames
    MaxFrames = 4
    MaxInbox = 1
    QueueDepth = 1
    TLSHandshake = 1
    Preface = 1
    SettingsAck = 1
    Idle = 2
    DrainGrace = 1
INVARIANTS
    DeadlinesAreTrue
    SaysWhatItMust
    HandlersAreTold
PROPERTY ShutdownEnds
CHECK_DEADLOCK FALSE
