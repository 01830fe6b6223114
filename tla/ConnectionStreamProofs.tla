----------------------- MODULE ConnectionStreamProofs -----------------------
(***************************************************************************)
(* Proofs about the devtools accept loop (ConnectionStream), for every     *)
(* set of peers.  The invariant NoLostWakeup is inductive together with   *)
(* TypeOK: every step that puts the task to sleep registers the waker of   *)
(* the resource it waited on, and every step that makes that resource     *)
(* ready fires the registered waker.                                       *)
(***************************************************************************)
EXTENDS ConnectionStream, SequenceTheorems, TLAPS

\* The inductive invariant.
IInv == TypeOK /\ NoLostWakeup

-----------------------------------------------------------------------------
(* Lemmas                                                                  *)

\* Polling p's upgrade future keeps the types and never sleeps without the
\* upgrade waker registered on a socket that has delivered nothing.
LEMMA PollUpgradeStep ==
    ASSUME TypeOK, awake, NEW p \in Peers, PollUpgrade(p),
           backlog' \in Seq(Peers), hs' = hs
    PROVE  TypeOK' /\ NoLostWakeup'
<1>1. CASE hs[p] # "none" /\ peer' = [peer EXCEPT ![p] = IF hs[p] = "ok" THEN "served" ELSE "failed"]
              /\ next' = NoConn /\ UNCHANGED <<wakers, awake>>
  BY <1>1 DEF TypeOK, NoLostWakeup, PeerStates
<1>2. CASE hs[p] = "none" /\ peer' = [peer EXCEPT ![p] = "accepted"]
              /\ next' = p /\ wakers' = wakers \cup {"upgrade"} /\ awake' = FALSE
  BY <1>2, PeersAssumption DEF TypeOK, NoLostWakeup, PeerStates, Sources
<1>3. QED
  BY <1>1, <1>2 DEF PollUpgrade

-----------------------------------------------------------------------------
(* Theorems                                                                *)

\* The initial state satisfies the inductive invariant.
LEMMA InitIInv == Init => IInv
BY PeersAssumption DEF Init, IInv, TypeOK, NoLostWakeup, PeerStates, HsStates

\* Every step of the accept loop and of its environment preserves it.
LEMMA NextIInv == IInv /\ [Next]_vars => IInv'
<1> SUFFICES ASSUME IInv, [Next]_vars PROVE IInv'
  OBVIOUS
<1>1. TypeOK
  BY DEF IInv
<1>2. CASE PollPending /\ awake /\ UNCHANGED hs
  BY <1>1, <1>2, PollUpgradeStep, PeersAssumption DEF PollPending, IInv, TypeOK
<1>3. CASE PollAcceptReady /\ awake /\ UNCHANGED hs
  <2>1. Head(backlog) \in Peers /\ Tail(backlog) \in Seq(Peers)
    BY <1>1, <1>3 DEF PollAcceptReady, TypeOK
  <2>2. QED
    BY <1>1, <1>3, <2>1, PollUpgradeStep DEF PollAcceptReady, IInv
<1>4. CASE PollAcceptPending /\ awake /\ UNCHANGED hs
  BY <1>1, <1>4 DEF PollAcceptPending, IInv, TypeOK, NoLostWakeup, Sources
<1>5. ASSUME NEW p \in Peers, Connect(p)
  PROVE IInv'
  <2>1. TypeOK'
    <3>1. CASE "accept" \in wakers
      <4>1. wakers' = wakers \ {"accept"} /\ awake' = TRUE
        BY <1>5, <3>1 DEF Connect, Wake
      <4>2. QED
        BY <1>1, <1>5, <4>1 DEF Connect, TypeOK, PeerStates
    <3>2. CASE "accept" \notin wakers
      BY <1>1, <1>5, <3>2 DEF Connect, Wake, TypeOK, PeerStates
    <3>3. QED
      BY <3>1, <3>2
  <2>2. NoLostWakeup'
    <3>1. CASE "accept" \in wakers
      BY <1>5, <3>1 DEF Connect, Wake, NoLostWakeup
    <3>2. CASE "accept" \notin wakers
      BY <1>5, <3>2 DEF Connect, Wake, IInv, NoLostWakeup
    <3>3. QED
      BY <3>1, <3>2
  <2>3. QED
    BY <2>1, <2>2 DEF IInv
<1>6. ASSUME NEW p \in Peers, Handshake(p)
  PROVE IInv'
  <2>1. PICK r \in {"ok", "err"} : hs' = [hs EXCEPT ![p] = r]
    BY <1>6 DEF Handshake
  <2>2. TypeOK'
    BY <1>1, <1>6, <2>1 DEF Handshake, Wake, TypeOK, HsStates
  <2>3. NoLostWakeup'
    BY <1>1, <1>6, <2>1 DEF Handshake, Wake, IInv, TypeOK, NoLostWakeup
  <2>4. QED
    BY <2>2, <2>3 DEF IInv
<1>7. CASE UNCHANGED vars
  BY <1>7 DEF vars, IInv, TypeOK, NoLostWakeup
<1>8. QED
  BY <1>2, <1>3, <1>4, <1>5, <1>6, <1>7 DEF Next, PollNext

\* The accept loop's variables always have their types.
THEOREM TypeCorrect == Spec => []TypeOK
BY InitIInv, NextIInv, PTL DEF Spec, IInv

\* The task never sleeps with its pending work unguarded by a waker: the
\* `continue` after poll_accept and the waker each Pending registers are
\* enough for every number of peers and every interleaving.
THEOREM NoLostWakeupInvariant == Spec => []NoLostWakeup
BY InitIInv, NextIInv, PTL DEF Spec, IInv


-----------------------------------------------------------------------------
(* The stored upgrade future                                               *)

\* Every step keeps the stored future one that has not completed: each
\* Ready result resets `next` before yielding, each Pending stores the
\* future of a peer whose upgrade is still running, and a peer that
\* connects is not the one whose future is stored.
LEMMA NextNotCompletedStep ==
    TypeOK /\ NextNotCompleted /\ [Next]_vars => NextNotCompleted'
<1> SUFFICES ASSUME TypeOK, NextNotCompleted, [Next]_vars PROVE NextNotCompleted'
  OBVIOUS
<1>1. ASSUME NEW p \in Peers, PollUpgrade(p) PROVE NextNotCompleted'
  BY <1>1 DEF PollUpgrade, NextNotCompleted, TypeOK
<1>2. CASE PollPending
  BY <1>2, <1>1 DEF PollPending, TypeOK
<1>3. CASE PollAcceptReady
  <2>1. Head(backlog) \in Peers
    BY <1>3 DEF PollAcceptReady, TypeOK
  <2>2. QED
    BY <1>3, <1>1, <2>1 DEF PollAcceptReady
<1>4. CASE PollAcceptPending
  BY <1>4 DEF PollAcceptPending, NextNotCompleted
<1>5. ASSUME NEW p \in Peers, Connect(p) PROVE NextNotCompleted'
  <2>1. next # p
    BY <1>5, PeersAssumption DEF Connect, NextNotCompleted
  <2>2. QED
    BY <1>5, <2>1 DEF Connect, NextNotCompleted, TypeOK
<1>6. ASSUME NEW p \in Peers, Handshake(p) PROVE NextNotCompleted'
  BY <1>6 DEF Handshake, NextNotCompleted
<1>7. CASE UNCHANGED vars
  BY <1>7 DEF vars, NextNotCompleted
<1>8. QED
  BY <1>2, <1>3, <1>4, <1>5, <1>6, <1>7 DEF Next, PollNext

\* A completed upgrade future is never polled again, for every number of
\* peers: poll_next sets `next = None` before `r?` returns a failed
\* upgrade's error, and before it yields a served connection.
THEOREM NextNotCompletedInvariant == Spec => []NextNotCompleted
<1>1. Init => IInv /\ NextNotCompleted
  BY InitIInv DEF Init, NextNotCompleted
<1>2. IInv /\ NextNotCompleted /\ [Next]_vars => IInv' /\ NextNotCompleted'
  BY NextIInv, NextNotCompletedStep DEF IInv
<1>3. QED
  BY <1>1, <1>2, PTL DEF Spec


-----------------------------------------------------------------------------
(* The order in which connections are yielded                              *)

\* The accept queue holds only connections that wait there, each once.
BacklogOK ==
    /\ \A i \in DOMAIN backlog : peer[backlog[i]] = "queued"
    /\ \A i, j \in DOMAIN backlog : i # j => backlog[i] # backlog[j]

\* The invariant the refinement rests on.
RInv == IInv /\ NextNotCompleted /\ BacklogOK

\* A line with a peer in front of it starts with that peer.
LEMMA ConsFacts ==
    ASSUME NEW x \in Peers, NEW s \in Seq(Peers)
    PROVE  /\ <<x>> \o s # <<>>
           /\ Head(<<x>> \o s) = x
           /\ Tail(<<x>> \o s) = s
<1>1. <<x>> \in Seq(Peers) /\ Len(<<x>>) = 1
  OBVIOUS
<1>2. /\ <<x>> \o s \in Seq(Peers)
      /\ Len(<<x>> \o s) = 1 + Len(s)
      /\ \A i \in 1 .. 1 + Len(s) : (<<x>> \o s)[i] = IF i <= 1 THEN x ELSE s[i - 1]
  BY <1>1, ConcatProperties
<1>3. <<x>> \o s # <<>> /\ Head(<<x>> \o s) = x
  BY <1>2
<1>4. /\ Tail(<<x>> \o s) \in Seq(Peers)
      /\ Len(Tail(<<x>> \o s)) = Len(s)
      /\ \A i \in 1 .. Len(s) : Tail(<<x>> \o s)[i] = s[i]
  BY <1>2, <1>3, HeadTailProperties
<1>5. Tail(<<x>> \o s) = s
  BY <1>4, SeqEqual
<1>6. QED
  BY <1>3, <1>5

\* Putting a non-empty line's head back in front of its tail gives the line.
LEMMA ConsHeadTail ==
    ASSUME NEW s \in Seq(Peers), s # <<>>
    PROVE  <<Head(s)>> \o Tail(s) = s
<1>1. Head(s) \in Peers /\ Tail(s) \in Seq(Peers) /\ Len(Tail(s)) = Len(s) - 1
      /\ \A i \in 1 .. Len(Tail(s)) : Tail(s)[i] = s[i+1]
  BY HeadTailProperties
<1>2. /\ <<Head(s)>> \o Tail(s) \in Seq(Peers)
      /\ Len(<<Head(s)>> \o Tail(s)) = Len(s)
      /\ \A i \in 1 .. Len(s) : (<<Head(s)>> \o Tail(s))[i] = s[i]
  <2>1. <<Head(s)>> \in Seq(Peers) /\ Len(<<Head(s)>>) = 1
    BY <1>1
  <2>2. /\ <<Head(s)>> \o Tail(s) \in Seq(Peers)
        /\ Len(<<Head(s)>> \o Tail(s)) = 1 + Len(Tail(s))
        /\ \A i \in 1 .. 1 + Len(Tail(s)) : (<<Head(s)>> \o Tail(s))[i] =
                 IF i <= 1 THEN Head(s) ELSE Tail(s)[i - 1]
    BY <1>1, <2>1, ConcatProperties
  <2>3. Len(s) \in Nat /\ Len(s) # 0
    BY EmptySeq, LenProperties
  <2>4. QED
    BY <1>1, <2>2, <2>3
<1>3. QED
  BY <1>2, SeqEqual

\* A peer joining the accept queue joins the end of the whole line.
LEMMA ConsAppend ==
    ASSUME NEW x \in Peers, NEW s \in Seq(Peers), NEW p \in Peers
    PROVE  <<x>> \o Append(s, p) = Append(<<x>> \o s, p)
<1>1. <<x>> \in Seq(Peers) /\ <<p>> \in Seq(Peers)
  OBVIOUS
<1>2. Append(s, p) = s \o <<p>>
  BY AppendIsConcat
<1>3. <<x>> \o s \in Seq(Peers)
  BY <1>1, ConcatProperties
<1>4. Append(<<x>> \o s, p) = (<<x>> \o s) \o <<p>>
  BY <1>3, AppendIsConcat
<1>5. (<<x>> \o s) \o <<p>> = <<x>> \o (s \o <<p>>)
  BY <1>1, ConcatAssociative
<1>6. QED
  BY <1>2, <1>4, <1>5


\* Every step keeps the accept queue a list of distinct waiting peers: a
\* connect appends a peer that was idle, and poll_accept takes the head,
\* which no later entry repeats.
LEMMA BacklogStep ==
    TypeOK /\ NextNotCompleted /\ BacklogOK /\ [Next]_vars => BacklogOK'
<1> SUFFICES ASSUME TypeOK, NextNotCompleted, BacklogOK, [Next]_vars PROVE BacklogOK'
  OBVIOUS
<1>1. ASSUME NEW h \in Peers, PollUpgrade(h)
      PROVE  \A q \in Peers \ {h} : peer'[q] = peer[q]
  BY <1>1 DEF PollUpgrade, TypeOK
<1>2. CASE PollPending
  <2>1. next \in Peers /\ peer[next] = "accepted"
    BY <1>2 DEF PollPending, NextNotCompleted, TypeOK
  <2>2. \A i \in DOMAIN backlog : backlog[i] # next
    BY <2>1 DEF BacklogOK
  <2>3. \A q \in Peers \ {next} : peer'[q] = peer[q]
    BY <1>2, <2>1, <1>1 DEF PollPending
  <2>4. QED
    BY <1>2, <2>2, <2>3 DEF PollPending, BacklogOK, TypeOK
<1>3. CASE PollAcceptReady
  <2>1. backlog \in Seq(Peers) /\ backlog # <<>> /\ backlog' = Tail(backlog)
    BY <1>3 DEF PollAcceptReady, TypeOK
  <2>2. /\ Head(backlog) \in Peers
        /\ Len(Tail(backlog)) = Len(backlog) - 1
        /\ \A i \in 1 .. Len(Tail(backlog)) : Tail(backlog)[i] = backlog[i+1]
    BY <2>1, HeadTailProperties
  <2>3. Head(backlog) = backlog[1] /\ Len(backlog) \in Nat /\ Len(backlog) # 0
    BY <2>1, EmptySeq, LenProperties
  <2>4. \A q \in Peers \ {Head(backlog)} : peer'[q] = peer[q]
    BY <1>3, <2>2, <1>1 DEF PollAcceptReady
  <2>5. DOMAIN backlog = 1 .. Len(backlog) /\ DOMAIN backlog' = 1 .. Len(backlog) - 1
    BY <2>1, <2>2, HeadTailProperties
  <2>6. \A i \in DOMAIN backlog' : backlog'[i] = backlog[i+1] /\ backlog[i+1] # Head(backlog)
        /\ backlog[i+1] \in Peers
    BY <2>1, <2>2, <2>3, <2>5 DEF BacklogOK
  <2>7. \A i \in DOMAIN backlog' : peer'[backlog'[i]] = "queued"
    BY <2>4, <2>5, <2>6 DEF BacklogOK
  <2>8. \A i, j \in DOMAIN backlog' : i # j => backlog'[i] # backlog'[j]
    BY <2>5, <2>6 DEF BacklogOK
  <2>9. QED
    BY <2>7, <2>8 DEF BacklogOK
<1>4. CASE PollAcceptPending
  BY <1>4 DEF PollAcceptPending, BacklogOK
<1>5. ASSUME NEW p \in Peers, Connect(p) PROVE BacklogOK'
  <2>1. backlog \in Seq(Peers) /\ backlog' = Append(backlog, p) /\ peer[p] = "idle"
    BY <1>5 DEF Connect, TypeOK
  <2>2. \A i \in DOMAIN backlog : backlog[i] # p
    BY <2>1 DEF BacklogOK
  <2>3. /\ Len(backlog') = Len(backlog) + 1
        /\ \A i \in 1 .. Len(backlog) : backlog'[i] = backlog[i]
        /\ backlog'[Len(backlog) + 1] = p
        /\ DOMAIN backlog = 1 .. Len(backlog)
        /\ DOMAIN backlog' = 1 .. Len(backlog) + 1
    BY <2>1, AppendProperties
  <2>4. peer' = [peer EXCEPT ![p] = "queued"]
    BY <1>5 DEF Connect
  <2>5. \A i \in DOMAIN backlog' : peer'[backlog'[i]] = "queued"
    BY <2>2, <2>3, <2>4 DEF BacklogOK, TypeOK
  <2>6. \A i, j \in DOMAIN backlog' : i # j => backlog'[i] # backlog'[j]
    BY <2>2, <2>3 DEF BacklogOK
  <2>7. QED
    BY <2>5, <2>6 DEF BacklogOK
<1>6. ASSUME NEW p \in Peers, Handshake(p) PROVE BacklogOK'
  BY <1>6 DEF Handshake, BacklogOK
<1>7. CASE UNCHANGED vars
  BY <1>7 DEF vars, BacklogOK
<1>8. QED
  BY <1>2, <1>3, <1>4, <1>5, <1>6, <1>7 DEF Next, PollNext


\* A ready upgrade future of the peer at the head of the line is a Yield:
\* the peer is yielded as Ok or Err and leaves the line.
LEMMA YieldStep ==
    ASSUME TypeOK, NEW h \in Peers, peer[h] \in {"queued", "accepted"},
           hs[h] # "none",
           peer' = [peer EXCEPT ![h] = IF hs[h] = "ok" THEN "served" ELSE "failed"],
           Line # <<>>, Head(Line) = h, Line' = Tail(Line)
    PROVE  Accept!Yield
<1>1. Conn[h] = "waiting"
  BY DEF Conn
<1>2. Conn' = [Conn EXCEPT ![h] = IF hs[h] = "ok" THEN "served" ELSE "failed"]
  BY DEF Conn, TypeOK
<1>3. QED
  BY <1>1, <1>2 DEF Accept!Yield

\* Polling the stored upgrade future is a Yield when it is ready and
\* leaves the line alone when it is pending.
LEMMA PollPendingMaps ==
    ASSUME TypeOK, NextNotCompleted, PollPending
    PROVE  Accept!Yield \/ UNCHANGED <<Conn, Line>>
<1>1. next \in Peers /\ peer[next] = "accepted" /\ backlog \in Seq(Peers)
  BY DEF PollPending, NextNotCompleted, TypeOK
<1>2. Line = <<next>> \o backlog /\ Line # <<>> /\ Head(Line) = next /\ Tail(Line) = backlog
  <2>1. Line = <<next>> \o backlog
    BY <1>1, PeersAssumption DEF Line
  <2>2. QED
    BY <1>1, <2>1, ConsFacts
<1>3. CASE hs[next] # "none"
  <2>1. next' = NoConn /\ backlog' = backlog
        /\ peer' = [peer EXCEPT ![next] = IF hs[next] = "ok" THEN "served" ELSE "failed"]
    BY <1>3 DEF PollPending, PollUpgrade
  <2>2. Line' = Tail(Line)
    BY <1>2, <2>1 DEF Line
  <2>3. QED
    BY <1>1, <1>2, <1>3, <2>1, <2>2, YieldStep
<1>4. CASE hs[next] = "none"
  <2>1. next' = next /\ backlog' = backlog /\ peer' = peer
    BY <1>1, <1>4 DEF PollPending, PollUpgrade, TypeOK
  <2>2. QED
    BY <2>1 DEF Line, Conn
<1>5. QED
  BY <1>3, <1>4

\* poll_accept's new connection is a Yield when its upgrade future is
\* ready at once; stored as `next`, it keeps its place at the front.
LEMMA PollAcceptReadyMaps ==
    ASSUME TypeOK, BacklogOK, PollAcceptReady
    PROVE  Accept!Yield \/ UNCHANGED <<Conn, Line>>
<1> DEFINE h == Head(backlog)
<1>1. backlog \in Seq(Peers) /\ backlog # <<>> /\ next = NoConn /\ backlog' = Tail(backlog)
  BY DEF PollAcceptReady, TypeOK
<1>2. h \in Peers /\ Tail(backlog) \in Seq(Peers) /\ h = backlog[1] /\ 1 \in DOMAIN backlog
  BY <1>1, HeadTailProperties, EmptySeq, LenProperties
<1>3. peer[h] = "queued"
  BY <1>2 DEF BacklogOK
<1>4. Line = backlog
  BY <1>1 DEF Line
<1>5. CASE hs[h] # "none"
  <2>1. next' = NoConn
        /\ peer' = [peer EXCEPT ![h] = IF hs[h] = "ok" THEN "served" ELSE "failed"]
    BY <1>5 DEF PollAcceptReady, PollUpgrade
  <2>2. Line' = Tail(Line)
    BY <1>1, <1>4, <2>1 DEF Line
  <2>3. QED
    BY <1>1, <1>2, <1>3, <1>4, <1>5, <2>1, <2>2, YieldStep
<1>6. CASE hs[h] = "none"
  <2>1. next' = h /\ peer' = [peer EXCEPT ![h] = "accepted"]
    BY <1>6 DEF PollAcceptReady, PollUpgrade
  <2>2. Line' = <<h>> \o Tail(backlog)
    BY <1>1, <1>2, <2>1, PeersAssumption DEF Line
  <2>3. Line' = Line
    BY <1>1, <1>4, <2>2, ConsHeadTail
  <2>4. Conn' = Conn
    BY <1>3, <2>1 DEF Conn, TypeOK
  <2>5. QED
    BY <2>3, <2>4
<1>7. QED
  BY <1>5, <1>6

\* A peer's connection reaching the accept queue is an Arrive.
LEMMA ConnectMaps ==
    ASSUME TypeOK, NEW p \in Peers, Connect(p)
    PROVE  Accept!Arrive(p)
<1>1. backlog \in Seq(Peers) /\ backlog' = Append(backlog, p) /\ next' = next
  BY DEF Connect, TypeOK
<1>2. Line' = Append(Line, p)
  <2>1. CASE next = NoConn
    BY <1>1, <2>1 DEF Line
  <2>2. CASE next # NoConn
    <3>1. next \in Peers
      BY <2>2 DEF TypeOK
    <3>2. QED
      BY <1>1, <2>2, <3>1, ConsAppend DEF Line
  <2>3. QED
    BY <2>1, <2>2
<1>3. Conn[p] = "idle" /\ Conn' = [Conn EXCEPT ![p] = "waiting"]
  BY DEF Connect, Conn, TypeOK
<1>4. QED
  BY <1>2, <1>3 DEF Accept!Arrive

\* Every step of the accept loop and of its environment is a step of
\* AcceptOrder or leaves the line and the connections' states alone.
LEMMA AcceptStep ==
    TypeOK /\ NextNotCompleted /\ BacklogOK /\ [Next]_vars
        => [Accept!Next]_Accept!vars
<1> SUFFICES ASSUME TypeOK, NextNotCompleted, BacklogOK, [Next]_vars
             PROVE  Accept!Next \/ UNCHANGED <<Conn, Line>>
  BY DEF Accept!vars
<1>1. CASE PollPending
  BY <1>1, PollPendingMaps DEF Accept!Next
<1>2. CASE PollAcceptReady
  BY <1>2, PollAcceptReadyMaps DEF Accept!Next
<1>3. CASE PollAcceptPending
  BY <1>3 DEF PollAcceptPending, Conn, Line
<1>4. ASSUME NEW p \in Peers, Connect(p) PROVE Accept!Next
  BY <1>4, ConnectMaps DEF Accept!Next
<1>5. ASSUME NEW p \in Peers, Handshake(p) PROVE UNCHANGED <<Conn, Line>>
  BY <1>5 DEF Handshake, Conn, Line
<1>6. CASE UNCHANGED vars
  BY <1>6 DEF vars, Conn, Line
<1>7. QED
  BY <1>1, <1>2, <1>3, <1>4, <1>5, <1>6 DEF Next, PollNext

\* The accept loop implements AcceptOrder for every set of peers: poll_next
\* yields connections one at a time, in the order they reached the
\* accept queue, each exactly once, because the stored upgrade future is
\* always the oldest waiting connection and is dropped when it completes.
THEOREM AcceptInOrderRefinement == Spec => AcceptInOrder
<1>1. Init => RInv
  BY InitIInv, PeersAssumption DEF Init, RInv, NextNotCompleted, BacklogOK
<1>2. RInv /\ [Next]_vars => RInv'
  BY NextIInv, NextNotCompletedStep, BacklogStep DEF RInv, IInv
<1>3. Init => Accept!Init
  BY DEF Init, Accept!Init, Conn, Line
<1>4. RInv /\ [Next]_vars => [Accept!Next]_Accept!vars
  BY AcceptStep DEF RInv, IInv
<1>5. QED
  BY <1>1, <1>2, <1>3, <1>4, PTL DEF Spec, AcceptInOrder, Accept!Spec

=============================================================================
