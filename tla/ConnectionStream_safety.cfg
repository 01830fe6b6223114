CONSTANTS
    p1 = p1
    p2 = p2
    p3 = p3
    Peers <- MCPeers
    NoConn = NoConn
    Slow <- MCSlowNone
SPECIFICATION FairSpec
INVARIANTS
    NoLostWakeup
    NextNotCompleted
PROPERTIES
    AcceptInOrder
\* The server idles once every peer has been served: it waits for a
\* connection that never comes.
CHECK_DEADLOCK FALSE
