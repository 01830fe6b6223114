\* Expected to fail: a Ping or a clean Close is yielded as Err.
\* Sessions end, so deadlock checking is off.
CONSTANTS
    c1 = c1
    c2 = c2
    Conns <- MCConns
    MaxFrames <- MCMaxFrames
SPECIFICATION FairSpec
INVARIANTS OnlyMalformedFaults
CHECK_DEADLOCK FALSE
