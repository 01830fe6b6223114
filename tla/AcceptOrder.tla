---------------------------- MODULE AcceptOrder ----------------------------
(***************************************************************************)
(* What the devtools server's connection stream promises its consumer      *)
(* (`while let Some(c) = stream.next().await` in Server::run), without    *)
(* the listener, the upgrade futures or the wakers: connections are        *)
(* yielded one at a time, in the order the peers connected, each exactly  *)
(* once, as Ok(ServerConnection) or as Err.                                *)
(***************************************************************************)
EXTENDS Sequences

CONSTANTS
    Peers       \* the clients that may connect

VARIABLES
    conn,       \* conn[p]: "idle", "waiting", "served" or "failed"
    waiting     \* the connected peers not yet yielded, oldest first

vars == <<conn, waiting>>

Init ==
    /\ conn = [p \in Peers |-> "idle"]
    /\ waiting = <<>>

\* Peer p connects and joins the end of the line.
Arrive(p) ==
    /\ conn[p] = "idle"
    /\ conn' = [conn EXCEPT ![p] = "waiting"]
    /\ waiting' = Append(waiting, p)

\* The stream yields the oldest waiting connection, as Ok or as Err.
Yield ==
    /\ waiting # <<>>
    /\ conn[Head(waiting)] = "waiting"
    /\ \E r \in {"served", "failed"} :
          conn' = [conn EXCEPT ![Head(waiting)] = r]
    /\ waiting' = Tail(waiting)

Next ==
    \/ \E p \in Peers : Arrive(p)
    \/ Yield

Spec == Init /\ [][Next]_vars

=============================================================================
