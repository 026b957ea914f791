\* The handler goes on after the peer's limit refused its header section.
SPECIFICATION Spec
CONSTANTS
    Static <- MCStatic
    Overhead = 1
    TableSize = 9
    Lanes <- MCLanes
    Sections <- MCSections
    SettingsFrames <- MCSettings
    MaxEncoderTableSize = 9
    MaxFrameSize = 1
    DefaultMaxFrameSize = 2
    Depth = 1
    MaxCalls = 2
    MaxSettings = 1
INVARIANT BodyHasItsHeader
CHECK_DEADLOCK FALSE
