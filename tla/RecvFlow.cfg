\* Two uploads over windows of five octets with a threshold of two, the ratio
\* of 65535 to 32767; one is abandoned, one handler may stop reading early.
SPECIFICATION RecvSpec
CONSTANTS
    Streams <- MCStreams
    InitialWindowSize = 5
    ReplenishThreshold = 2
    Payloads <- MCLargePayloads
    Pads <- MCNoPads
    Buffers <- MCBuffers
    Resets <- MCOneStream
    Patient <- MCOneStream
    MaxOctets = 6
INVARIANTS
    CreditIsConserved
    HalfWindowOnHand
CHECK_DEADLOCK FALSE
