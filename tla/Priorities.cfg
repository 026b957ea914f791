\* Four streams, two at a time, with header blocks that span frames
\* and a peer that sends PRIORITY frames too.
SPECIFICATION Spec
CONSTANTS
    Ids <- MCIds
    Values <- MCValues
    MaxConcurrent = 2
INVARIANTS
    NothingIsKept
    LastSignalCounts
CHECK_DEADLOCK FALSE
