-------------------------- MODULE ConnectionStream --------------------------
(***************************************************************************)
(* The devtools server's accept loop: ConnectionStream::poll_next in       *)
(* crates/devtools_server/src/lib.rs.  The stream accepts one TCP          *)
(* connection, stores its websocket upgrade future in `next`, and polls   *)
(* that future until it completes before it looks at the listener again.  *)
(*                                                                         *)
(* The tokio task that polls the stream is modelled with its wakers: a     *)
(* Pending return registers the task's waker with the resource that was   *)
(* polled last (the listening socket, "accept", or the socket the upgrade  *)
(* future reads, "upgrade"); the task runs again only when a registered    *)
(* resource becomes ready.  Peers are the environment: each connects at   *)
(* most once and later sends its upgrade request (or garbage / a close).  *)
(***************************************************************************)
EXTENDS Naturals, Sequences

CONSTANTS
    Peers,    \* the clients that may connect to the devtools port
    NoConn,   \* `next` is None: no upgrade future is stored
    Slow      \* peers that may connect and never send their upgrade request

ASSUME PeersAssumption ==
    /\ NoConn \notin Peers
    /\ Slow \subseteq Peers

\* What a peer's socket has delivered to the upgrade future: nothing yet,
\* a well-formed websocket upgrade request, or bytes that make it fail.
HsStates == {"none", "ok", "err"}

\* Where a peer's connection is: not connected, in the kernel's accept
\* queue, owned by the pending upgrade future, yielded as
\* Ok(ServerConnection), or yielded as Err.
PeerStates == {"idle", "queued", "accepted", "served", "failed"}

Sources == {"accept", "upgrade"}

VARIABLES
    peer,     \* peer[p] \in PeerStates
    hs,       \* hs[p] \in HsStates
    backlog,  \* the listening socket's accept queue, oldest first
    next,     \* ConnectionStream.next: the peer whose upgrade is pending
    wakers,   \* resources holding the task's waker
    awake     \* the task is scheduled to poll the stream

vars == <<peer, hs, backlog, next, wakers, awake>>

TypeOK ==
    /\ peer \in [Peers -> PeerStates]
    /\ hs \in [Peers -> HsStates]
    /\ backlog \in Seq(Peers)
    /\ next \in Peers \cup {NoConn}
    /\ wakers \subseteq Sources
    /\ awake \in BOOLEAN

-----------------------------------------------------------------------------
(* The stream                                                              *)

\* ConnectionStream::new: bound listener, next = None.  The consumer's
\* `while let Some(c) = stream.next().await` polls it first.
Init ==
    /\ peer = [p \in Peers |-> "idle"]
    /\ hs = [p \in Peers |-> "none"]
    /\ backlog = <<>>
    /\ next = NoConn
    /\ wakers = {}
    /\ awake = TRUE

\* Mutant: the `r?` runs before `next` is reset, so a failed upgrade
\* future stays stored and is polled again after it completed.
PollUpgradeKeepOnErr(p) ==
    \/ /\ hs[p] = "ok"
       /\ peer' = [peer EXCEPT ![p] = "served"]
       /\ next' = NoConn
       /\ UNCHANGED <<wakers, awake>>
    \/ /\ hs[p] = "err"
       /\ peer' = [peer EXCEPT ![p] = "failed"]
       /\ next' = p
       /\ UNCHANGED <<wakers, awake>>
    \/ /\ hs[p] = "none"
       /\ peer' = [peer EXCEPT ![p] = "accepted"]
       /\ next' = p
       /\ wakers' = wakers \cup {"upgrade"}
       /\ awake' = FALSE

\* Mutant: a hand-rolled future returns Pending without registering the
\* task's waker with its socket.
PollUpgradeNoWaker(p) ==
    \/ /\ hs[p] # "none"
       /\ peer' = [peer EXCEPT ![p] = IF hs[p] = "ok" THEN "served" ELSE "failed"]
       /\ next' = NoConn
       /\ UNCHANGED <<wakers, awake>>
    \/ /\ hs[p] = "none"
       /\ peer' = [peer EXCEPT ![p] = "accepted"]
       /\ next' = p
       /\ awake' = FALSE
       /\ UNCHANGED wakers

\* Future::poll of p's upgrade future.  Ready: `next` is reset to None and
\* then `r?` yields Err, or Ok(ServerConnection::new(wss)) is yielded; the
\* consumer polls again.  Pending: the future registers the waker with p's
\* socket and poll_next returns Pending.
PollUpgrade(p) ==
    \/ /\ hs[p] # "none"
       /\ peer' = [peer EXCEPT ![p] = IF hs[p] = "ok" THEN "served" ELSE "failed"]
       /\ next' = NoConn
       /\ UNCHANGED <<wakers, awake>>
    \/ /\ hs[p] = "none"
       /\ peer' = [peer EXCEPT ![p] = "accepted"]
       /\ next' = p
       /\ wakers' = wakers \cup {"upgrade"}
       /\ awake' = FALSE

\* next is Some: poll the stored upgrade future.
PollPending ==
    /\ next # NoConn
    /\ PollUpgrade(next)
    /\ UNCHANGED backlog

\* Mutant: return Pending right after storing the upgrade future instead
\* of `continue` (the case the comment in poll_next warns about).
PollAcceptReadyNoContinue ==
    /\ next = NoConn
    /\ backlog # <<>>
    /\ backlog' = Tail(backlog)
    /\ peer' = [peer EXCEPT ![Head(backlog)] = "accepted"]
    /\ next' = Head(backlog)
    /\ awake' = FALSE
    /\ UNCHANGED wakers

\* next is None and poll_accept is Ready: store accept_async(stream) in
\* next and `continue`, so the new future is polled in the same call.
PollAcceptReady ==
    /\ next = NoConn
    /\ backlog # <<>>
    /\ backlog' = Tail(backlog)
    /\ PollUpgrade(Head(backlog))

\* next is None and poll_accept is Pending: the listener holds the waker.
PollAcceptPending ==
    /\ next = NoConn
    /\ backlog = <<>>
    /\ wakers' = wakers \cup {"accept"}
    /\ awake' = FALSE
    /\ UNCHANGED <<peer, backlog, next>>

\* One call of ConnectionStream::poll_next by the woken task.
PollNext ==
    /\ awake
    /\ \/ PollPending
       \/ PollAcceptReady
       \/ PollAcceptPending
    /\ UNCHANGED hs

-----------------------------------------------------------------------------
(* The environment: peers and the I/O driver                               *)

\* Firing the waker held by resource `src`, if it holds one.
Wake(src) ==
    IF src \in wakers
    THEN /\ wakers' = wakers \ {src}
         /\ awake' = TRUE
    ELSE UNCHANGED <<wakers, awake>>

\* Peer p's TCP connection completes and joins the accept queue.
Connect(p) ==
    /\ peer[p] = "idle"
    /\ peer' = [peer EXCEPT ![p] = "queued"]
    /\ backlog' = Append(backlog, p)
    /\ Wake("accept")
    /\ UNCHANGED <<hs, next>>

\* Peer p's upgrade request (or a malformed request / a close) arrives on
\* its socket; it wakes the task only if p's upgrade future is the one
\* that registered the waker.
Handshake(p) ==
    /\ peer[p] # "idle"
    /\ hs[p] = "none"
    /\ \E r \in {"ok", "err"} : hs' = [hs EXCEPT ![p] = r]
    /\ IF next = p THEN Wake("upgrade") ELSE UNCHANGED <<wakers, awake>>
    /\ UNCHANGED <<peer, backlog, next>>

Next ==
    \/ PollNext
    \/ \E p \in Peers : Connect(p) \/ Handshake(p)

\* The tokio scheduler runs a woken task; a peer that is not Slow sends
\* its request or closes.  Connecting is never forced.
Fairness ==
    /\ WF_vars(PollNext)
    /\ \A p \in Peers \ Slow : WF_vars(Handshake(p))

Spec == Init /\ [][Next]_vars

FairSpec == Spec /\ Fairness

-----------------------------------------------------------------------------
(* Properties                                                              *)

\* No lost wakeup: whenever the task sleeps, the work it would do next is
\* guarded by a registered waker.  If an upgrade is pending, its socket
\* holds the waker and has not yet delivered the request; otherwise the
\* listener holds it and the accept queue is empty.  This is what the
\* `continue` after storing the upgrade future in poll_next is for.
NoLostWakeup ==
    ~awake =>
        IF next # NoConn
        THEN "upgrade" \in wakers /\ hs[next] = "none"
        ELSE "accept" \in wakers /\ backlog = <<>>

\* The stored upgrade future is never one that has already completed:
\* poll_next resets `next` to None before `r?` can return an Err, so a
\* failed upgrade is never polled again.
NextNotCompleted ==
    next # NoConn => peer[next] = "accepted"

\* Every peer whose upgrade request has arrived while it waits in the
\* accept queue is eventually yielded as a ServerConnection: a pending
\* upgrade must not keep new connections from being accepted.
AcceptProgress ==
    \A p \in Peers :
        (peer[p] = "queued" /\ hs[p] = "ok") ~> (peer[p] = "served")


\* The connections in the order the stream will yield them: the one whose
\* upgrade is pending, then the kernel's accept queue.
Line == IF next = NoConn THEN backlog ELSE <<next>> \o backlog

\* A connection that is queued or owned by the upgrade future is waiting.
Conn == [p \in Peers |-> IF peer[p] \in {"queued", "accepted"}
                         THEN "waiting" ELSE peer[p]]

Accept == INSTANCE AcceptOrder WITH conn <- Conn, waiting <- Line

\* The accept loop implements AcceptOrder: poll_next yields connections
\* one at a time, in the order they reached the accept queue, each once.
\* Storing the upgrade future, registering wakers and receiving upgrade
\* requests are stutters; a ready upgrade future is a Yield of the oldest
\* waiting peer.
AcceptInOrder == Accept!Spec

=============================================================================
