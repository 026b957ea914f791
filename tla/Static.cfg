\* Two clients of three requests together, two files, one of them written once.
SPECIFICATION StaticSpec
CONSTANTS
    NoTag <- MCNoTag
    Second = 2
    maxRanges = 3
    MaxInt64 = 5
    Unsafe = {"!"}
    Clients = {c1, c2}
    Targets <- MCTargets
    Probed <- MCProbed
    RangeSets <- MCRangeSets
    FileNames <- MCFileNames
    Directories <- MCDirectories
    MaxTargetLength = 4
    Window = 1
    limit = 1
    Sizes = {1, 2}
    MaxClock = 2
    MaxContents = 3
    MaxFaults = 1
    MaxRequests = 3
    MaxPause = 0
INVARIANTS
    CacheIsTrue
    ClientsKeepTheTruth
    AnswersFollowTheRules
    RequestsAreJudged
SYMMETRY Symmetry
CHECK_DEADLOCK FALSE
