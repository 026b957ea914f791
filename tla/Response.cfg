\* Two responses of four calls together, blocks of two frames, a queue of one frame and
\* one SETTINGS; a table of two entries.
SPECIFICATION Spec
CONSTANTS
    Static <- MCStatic
    Overhead = 1
    TableSize = 9
    Lanes <- MCLanes
    Sections <- MCSections
    SettingsFrames <- MCSettings
    MaxEncoderTableSize = 9
    MaxFrameSize = 1
    DefaultMaxFrameSize = 2
    Depth = 1
    MaxCalls = 4
    MaxSettings = 1
INVARIANTS
    PeerUnderstands
    ResponsesAreMessages
    SensitiveStaysOut
    WaitsEnd
CHECK_DEADLOCK FALSE
