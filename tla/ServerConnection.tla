-------------------------- MODULE ServerConnection --------------------------
(***************************************************************************)
(* One devtools session: ServerConnection in                               *)
(* crates/devtools_server/src/lib.rs, the Stream of inbound CDP method     *)
(* calls over a tokio-tungstenite WebSocketStream, and `reply` / `send`.   *)
(*                                                                         *)
(* The peer (a devtools front end) is the environment: it sends frames     *)
(* and finally a Close frame, or its TCP connection is reset.  The         *)
(* websocket library hands every data and control frame it reads to        *)
(* poll_next (tungstenite returns Ping and Close to the reader, queuing    *)
(* the Pong or Close reply itself); after a Close, or after the transport  *)
(* failed, its next read reports the end of the stream.  The task that     *)
(* owns the connection is a `while let Some(r) = conn.next().await` loop   *)
(* that answers every method call with `reply`.                            *)
(***************************************************************************)
EXTENDS Naturals, Sequences, Functions

CONSTANTS
    Conns,      \* the accepted connections
    MaxFrames   \* frames a peer sends in one behaviour

ASSUME ServerConnectionAssumption ==
    /\ Conns # {}
    /\ MaxFrames \in Nat

\* What the peer puts on the wire: a Text message holding a well-formed
\* MethodCall, a message that is not one, a Ping, its Close frame, and the
\* reset of its TCP connection (seen by the reader after the bytes before it).
Frames == {"call", "junk", "ping", "close", "reset"}

\* What ServerConnection::poll_next yields: Some(Ok(call)), Some(Err(_)),
\* None.
Items == {"call", "err", "end"}

\* The websocket: reading frames, or its next read reports the end
\* (a Close was read or the transport failed), or it has returned None.
WsStates == {"open", "closed", "ended"}

VARIABLES
    wire,      \* wire[c]: frames the peer sent that the websocket has not read
    peerLog,   \* peerLog[c]: every frame the peer sent, in order
    read,      \* read[c]: the frames poll_next has taken from the websocket
    items,     \* items[c]: what poll_next has yielded, in order
    ws,        \* ws[c] \in WsStates
    task,      \* task[c]: the owning task polls, replies, or has finished
    replies    \* replies[c]: responses the peer has received

vars == <<wire, peerLog, read, items, ws, task, replies>>

TypeOK ==
    /\ wire \in [Conns -> Seq(Frames)]
    /\ peerLog \in [Conns -> Seq(Frames)]
    /\ read \in [Conns -> Seq(Frames)]
    /\ items \in [Conns -> Seq(Items)]
    /\ ws \in [Conns -> WsStates]
    /\ task \in [Conns -> {"poll", "reply", "done"}]
    /\ replies \in [Conns -> Nat]

\* The peer has sent its Close or its connection was reset: it sends no
\* more.
PeerGone(c) == Range(peerLog[c]) \cap {"close", "reset"} # {}

-----------------------------------------------------------------------------

\* ConnectionStream yielded Ok(ServerConnection::new(wss)) with an open
\* websocket and nothing read yet.
Init ==
    /\ wire = [c \in Conns |-> <<>>]
    /\ peerLog = [c \in Conns |-> <<>>]
    /\ read = [c \in Conns |-> <<>>]
    /\ items = [c \in Conns |-> <<>>]
    /\ ws = [c \in Conns |-> "open"]
    /\ task = [c \in Conns |-> "poll"]
    /\ replies = [c \in Conns |-> 0]

\* The item poll_next makes of a frame the websocket read: `res?` yields
\* the transport error, `serde_json::from_slice(&msg.into_data())?` yields
\* Err for anything but a MethodCall (for Ping and Close, into_data is the
\* control frame's payload), and a MethodCall is yielded as Ok.
Item(f) == IF f = "call" THEN "call" ELSE "err"

\* Mutant: the Ready(None) arm returns Pending, so a finished websocket
\* is never reported as the end of the stream.
PollNextNoEnd(c) ==
    /\ task[c] = "poll"
    /\ \/ /\ ws[c] = "open"
          /\ wire[c] # <<>>
          /\ read' = [read EXCEPT ![c] = Append(@, Head(wire[c]))]
          /\ items' = [items EXCEPT ![c] = Append(@, Item(Head(wire[c])))]
          /\ wire' = [wire EXCEPT ![c] = Tail(@)]
          /\ ws' = [ws EXCEPT ![c] = IF Head(wire[c]) \in {"close", "reset"} THEN "closed" ELSE "open"]
          /\ task' = [task EXCEPT ![c] = IF Head(wire[c]) = "call" THEN "reply" ELSE "poll"]
    /\ UNCHANGED <<peerLog, replies>>

\* Mutant: a frame that fails to decode is consumed and Pending is
\* returned, so the error is never yielded.
PollNextSwallowErr(c) ==
    /\ task[c] = "poll"
    /\ \/ /\ ws[c] = "closed"
          /\ ws' = [ws EXCEPT ![c] = "ended"]
          /\ items' = [items EXCEPT ![c] = Append(@, "end")]
          /\ task' = [task EXCEPT ![c] = "done"]
          /\ UNCHANGED <<wire, read>>
       \/ /\ ws[c] = "open"
          /\ wire[c] # <<>>
          /\ read' = [read EXCEPT ![c] = Append(@, Head(wire[c]))]
          /\ items' = IF Head(wire[c]) = "call"
                      THEN [items EXCEPT ![c] = Append(@, "call")] ELSE items
          /\ wire' = [wire EXCEPT ![c] = Tail(@)]
          /\ ws' = [ws EXCEPT ![c] = IF Head(wire[c]) \in {"close", "reset"} THEN "closed" ELSE "open"]
          /\ task' = [task EXCEPT ![c] = IF Head(wire[c]) = "call" THEN "reply" ELSE "poll"]
    /\ UNCHANGED <<peerLog, replies>>

\* ServerConnection::poll_next, when the websocket is Ready (a Pending
\* poll changes nothing): Ready(None) once the websocket has ended, which
\* ends the owning task's loop; otherwise the next frame is turned into an
\* item.  A Close or a transport error leaves the websocket reporting the
\* end on its next read.
PollNext(c) ==
    /\ task[c] = "poll"
    /\ \/ /\ ws[c] = "closed"
          /\ ws' = [ws EXCEPT ![c] = "ended"]
          /\ items' = [items EXCEPT ![c] = Append(@, "end")]
          /\ task' = [task EXCEPT ![c] = "done"]
          /\ UNCHANGED <<wire, read>>
       \/ /\ ws[c] = "open"
          /\ wire[c] # <<>>
          /\ read' = [read EXCEPT ![c] = Append(@, Head(wire[c]))]
          /\ items' = [items EXCEPT ![c] = Append(@, Item(Head(wire[c])))]
          /\ wire' = [wire EXCEPT ![c] = Tail(@)]
          /\ ws' = [ws EXCEPT ![c] = IF Head(wire[c]) \in {"close", "reset"} THEN "closed" ELSE "open"]
          /\ task' = [task EXCEPT ![c] = IF Head(wire[c]) = "call" THEN "reply" ELSE "poll"]
    /\ UNCHANGED <<peerLog, replies>>

\* reply(id, result) -> send(Response): serde_json::to_vec, then
\* wss.send(Text(..)).await?.  The write fails once the peer's connection
\* was reset, whether or not the reader has seen the reset yet; the error
\* is returned to the task, which polls on.
Reply(c) ==
    /\ task[c] = "reply"
    /\ replies' = [replies EXCEPT ![c] = IF "reset" \in Range(peerLog[c]) THEN @ ELSE @ + 1]
    /\ task' = [task EXCEPT ![c] = "poll"]
    /\ UNCHANGED <<wire, peerLog, read, items, ws>>

\* The peer sends frame f (a reset ends its side of the connection).
PeerSend(c, f) ==
    /\ ~PeerGone(c)
    /\ Len(peerLog[c]) < MaxFrames
    /\ wire' = [wire EXCEPT ![c] = Append(@, f)]
    /\ peerLog' = [peerLog EXCEPT ![c] = Append(@, f)]
    /\ UNCHANGED <<read, items, ws, task, replies>>

Next ==
    \E c \in Conns :
        \/ PollNext(c)
        \/ Reply(c)
        \/ \E f \in Frames : PeerSend(c, f)

\* tokio runs the task whenever the websocket has something for it.
Fairness == \A c \in Conns : WF_vars(PollNext(c)) /\ WF_vars(Reply(c))

Spec == Init /\ [][Next]_vars

FairSpec == Spec /\ Fairness

-----------------------------------------------------------------------------
(* Properties                                                              *)

\* Every frame the peer sent is either still on the wire or has been
\* turned into exactly one item, in the order it was sent: poll_next
\* neither drops, duplicates nor reorders frames, and a frame that fails
\* to decode is reported rather than skipped.
NoFrameLost ==
    \A c \in Conns :
        /\ peerLog[c] = read[c] \o wire[c]
        /\ Len(items[c]) >= Len(read[c])
        /\ \A k \in DOMAIN read[c] : items[c][k] = Item(read[c][k])

\* A peer that closes its websocket, or whose connection breaks, sees the
\* server's stream end: poll_next eventually returns Ready(None) and the
\* task owning the connection finishes.
StreamEnds ==
    \A c \in Conns : PeerGone(c) ~> task[c] = "done"

\* The stream fails only on malformed input or a transport fault (the
\* spec's contract for the devtools connection: "fails with a
\* deserialization fault on malformed input, ends the stream on peer
\* disconnect"): a Ping or a clean Close is never yielded as an error.
OnlyMalformedFaults ==
    \A c \in Conns : \A k \in DOMAIN read[c] :
        items[c][k] = "err" => read[c][k] \in {"junk", "reset"}

=============================================================================
