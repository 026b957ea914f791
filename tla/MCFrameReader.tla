--------------------------- MODULE MCFrameReader ----------------------------
(* Values for checking FrameReader.                                        *)
EXTENDS FrameReader

MCStreamIds == {0, 1, 3}

\* Both sides of each bound that validateSetting knows, and a setting it does not.
MCSettings ==
    {[id |-> "ENABLE_PUSH", value |-> v] : v \in {1, 2}}
    \cup {[id |-> "INITIAL_WINDOW_SIZE", value |-> v] : v \in {MaxWindowSize, MaxWindowSize + 1}}
    \cup {[id |-> "MAX_FRAME_SIZE", value |-> v] :
            v \in {DefaultMaxFrameSize - 1, DefaultMaxFrameSize, MaxLength, MaxLength + 1}}
    \cup {[id |-> "NO_RFC7540_PRIORITIES", value |-> v] : v \in {1, 2}}
    \cup {[id |-> "UNKNOWN", value |-> 3]}
=============================================================================
