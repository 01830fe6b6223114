------------------------ MODULE MC_ConnectionStream ------------------------
(* Model-checking instance of ConnectionStream: three peers. *)
EXTENDS ConnectionStream

CONSTANTS p1, p2, p3

\* Every peer eventually sends its upgrade request or closes.
MCPeers == {p1, p2, p3}

MCSlowNone == {}

\* One peer may open a TCP connection and never send its upgrade request.
MCSlowOne == {p1}

=============================================================================
