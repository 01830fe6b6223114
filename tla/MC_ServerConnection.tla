------------------------ MODULE MC_ServerConnection ------------------------
(* Model-checking instance of ServerConnection: two sessions, up to three *)
(* frames from each peer: a call and a Ping or a malformed message before *)
(* the Close or the reset, on each connection at once.                    *)
EXTENDS ServerConnection

CONSTANTS c1, c2

MCConns == {c1, c2}

MCMaxFrames == 3

=============================================================================
