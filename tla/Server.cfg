\* Two connections, which need never end, over two slots; Shutdown and Close may overlap.
SPECIFICATION FairSpec
CONSTANTS
    l1 = l1
    c1 = c1
    c2 = c2
    Listeners <- MCListeners
    Conns <- MCConns
    MaxConns = 2
INVARIANTS
    NothingLeaks
    StopSeesEveryConn
    NilIsTrue
PROPERTIES
    StopsEnd
CHECK_DEADLOCK FALSE
