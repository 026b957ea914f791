\* Two responses, one with sections of several frames, and control frames for
\* the connection and for the other; two bands, one signal.
SPECIFICATION Spec
CONSTANTS
    Ids <- MCIds
    Spanning <- MCFirst
    Controlled <- MCOthers
    Urgencies <- MCUrgencies
    Default <- MCDefault
    Params <- MCParams
    MaxPushes = 5
    MaxSignals = 1
INVARIANTS
    IndexesAgree
    TurnsComeRound
PROPERTIES
    UrgentFirst
    KeepsOutboxPromise
CHECK_DEADLOCK FALSE
