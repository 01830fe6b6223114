\* Frames are read in order and none is lost, over every interleaving of
\* two sessions, and every session whose peer closes or resets ends under
\* the fairness tokio gives the task.  A session ends once its peer is
\* gone, so deadlock checking is off.
CONSTANTS
    c1 = c1
    c2 = c2
    Conns <- MCConns
    MaxFrames <- MCMaxFrames
SPECIFICATION FairSpec
INVARIANTS NoFrameLost
PROPERTIES StreamEnds
CHECK_DEADLOCK FALSE
