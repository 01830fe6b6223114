----------------------- MODULE ServerConnectionProofs -----------------------
(***************************************************************************)
(* Proofs about a devtools session (ServerConnection), for every set of    *)
(* connections and every frame bound.                                      *)
(*                                                                         *)
(* NoFrameLost is not inductive by itself: the frame poll_next reads next  *)
(* is appended at position Len(read) + 1 of `items`, so the invariant also *)
(* needs that `items` holds exactly one item per frame read, plus the      *)
(* final None once the stream has ended.                                   *)
(***************************************************************************)
EXTENDS ServerConnection, SequenceTheorems, TLAPS

\* One item per frame read, and one more (the None) once the stream ended.
ItemsAligned ==
    \A c \in Conns :
        Len(items[c]) = Len(read[c]) + (IF ws[c] = "ended" THEN 1 ELSE 0)

\* The inductive invariant.
IInv == TypeOK /\ NoFrameLost /\ ItemsAligned

-----------------------------------------------------------------------------
(* Lemmas about the sequences                                              *)

\* Moving the head of the wire to the end of what was read keeps their
\* concatenation.
LEMMA MoveHead ==
    ASSUME NEW S, NEW r \in Seq(S), NEW w \in Seq(S), w # <<>>
    PROVE  Append(r, Head(w)) \o Tail(w) = r \o w
<1>1. Head(w) \in S /\ Tail(w) \in Seq(S) /\ Len(Tail(w)) = Len(w) - 1
  BY HeadTailProperties
<1>2. Append(r, Head(w)) \in Seq(S) /\ Len(Append(r, Head(w))) = Len(r) + 1
  BY <1>1, AppendProperties
<1>3. Len(Append(r, Head(w)) \o Tail(w)) = Len(r \o w)
  BY <1>1, <1>2, ConcatProperties
<1>4. \A i \in 1..Len(r \o w) : (Append(r, Head(w)) \o Tail(w))[i] = (r \o w)[i]
  BY <1>1, <1>2, ConcatProperties, AppendProperties, HeadTailProperties
<1>5. QED
  BY <1>1, <1>2, <1>3, <1>4, ConcatProperties, SeqEqual

\* A frame appended to the wire is appended to the concatenation.
LEMMA AppendWire ==
    ASSUME NEW S, NEW r \in Seq(S), NEW w \in Seq(S), NEW f \in S
    PROVE  r \o Append(w, f) = Append(r \o w, f)
<1>1. Append(w, f) = w \o <<f>> /\ Append(r \o w, f) = (r \o w) \o <<f>>
  BY AppendIsConcat, ConcatProperties
<1>2. <<f>> \in Seq(S)
  OBVIOUS
<1>3. QED
  BY <1>1, <1>2, ConcatAssociative

-----------------------------------------------------------------------------
(* The invariant                                                           *)

LEMMA InitIInv == Init => IInv
BY DEF Init, IInv, TypeOK, NoFrameLost, ItemsAligned, WsStates

\* The invariant's part about one connection.
ConnOK(d) ==
    /\ peerLog[d] = read[d] \o wire[d]
    /\ Len(items[d]) >= Len(read[d])
    /\ \A k \in DOMAIN read[d] : items[d][k] = Item(read[d][k])
    /\ Len(items[d]) = Len(read[d]) + (IF ws[d] = "ended" THEN 1 ELSE 0)

LEMMA ConnOKSplit == TypeOK => (NoFrameLost /\ ItemsAligned <=> \A d \in Conns : ConnOK(d))
BY DEF NoFrameLost, ItemsAligned, ConnOK

\* poll_next on connection c keeps the invariant: Ready(None) adds the
\* final item; reading a frame moves it from the wire to `read` and adds
\* its item at the matching position.  Other connections are untouched.
LEMMA PollNextIInv ==
    ASSUME IInv, NEW c \in Conns, PollNext(c), UNCHANGED <<peerLog, replies>>
    PROVE  IInv'
<1>0. TypeOK /\ \A d \in Conns : ConnOK(d)
  BY ConnOKSplit DEF IInv
<1>1. CASE /\ ws[c] = "closed"
           /\ ws' = [ws EXCEPT ![c] = "ended"]
           /\ items' = [items EXCEPT ![c] = Append(@, "end")]
           /\ task' = [task EXCEPT ![c] = "done"]
           /\ UNCHANGED <<wire, read>>
  <2>1. TypeOK'
    BY <1>0, <1>1, AppendProperties DEF TypeOK, Items, WsStates
  <2>2. ConnOK(c)'
    <3>1. items'[c] = Append(items[c], "end") /\ ws'[c] = "ended" /\ read'[c] = read[c]
          /\ wire'[c] = wire[c] /\ peerLog'[c] = peerLog[c]
      BY <1>0, <1>1 DEF TypeOK
    <3>2. items[c] \in Seq(Items) /\ "end" \in Items /\ read[c] \in Seq(Frames)
      BY <1>0 DEF TypeOK, Items
    <3>3. Len(items'[c]) = Len(items[c]) + 1 /\ \A k \in 1..Len(items[c]) : items'[c][k] = items[c][k]
      BY <3>1, <3>2, AppendProperties
    <3>4. ConnOK(c)
      BY <1>0
    <3>5. QED
      BY <1>1, <3>1, <3>2, <3>3, <3>4 DEF ConnOK
  <2>3. ASSUME NEW d \in Conns, d # c PROVE ConnOK(d)'
    BY <1>0, <1>1, <2>3 DEF TypeOK, ConnOK
  <2>4. \A d \in Conns : ConnOK(d)'
    BY <2>2, <2>3
  <2>5. QED
    BY <2>1, <2>4 DEF IInv, NoFrameLost, ItemsAligned, ConnOK
<1>2. CASE /\ ws[c] = "open"
           /\ wire[c] # <<>>
           /\ read' = [read EXCEPT ![c] = Append(@, Head(wire[c]))]
           /\ items' = [items EXCEPT ![c] = Append(@, Item(Head(wire[c])))]
           /\ wire' = [wire EXCEPT ![c] = Tail(@)]
           /\ ws' = [ws EXCEPT ![c] = IF Head(wire[c]) \in {"close", "reset"} THEN "closed" ELSE "open"]
           /\ task' = [task EXCEPT ![c] = IF Head(wire[c]) = "call" THEN "reply" ELSE "poll"]
  <2> DEFINE h == Head(wire[c])
  <2>1. read[c] \in Seq(Frames) /\ wire[c] \in Seq(Frames) /\ items[c] \in Seq(Items)
    BY <1>0 DEF TypeOK
  <2>2. h \in Frames /\ Tail(wire[c]) \in Seq(Frames) /\ Item(h) \in Items
    BY <1>2, <2>1, HeadTailProperties DEF Item, Items
  <2>3. /\ read'[c] = Append(read[c], h)
        /\ items'[c] = Append(items[c], Item(h))
        /\ wire'[c] = Tail(wire[c])
        /\ ws'[c] # "ended"
        /\ peerLog'[c] = peerLog[c]
    BY <1>0, <1>2 DEF TypeOK
  <2>4. TypeOK'
    BY <1>0, <1>2, <2>2, AppendProperties DEF TypeOK, WsStates
  <2>5. ConnOK(c)'
    <3>1. Append(read[c], h) \o Tail(wire[c]) = read[c] \o wire[c]
      BY <1>2, <2>1, MoveHead
    <3>2. ConnOK(c)
      BY <1>0
    <3>6. Len(items[c]) = Len(read[c])
      BY <1>2, <2>1, <3>2 DEF ConnOK
    <3>3. /\ read'[c] \in Seq(Frames)
          /\ Len(read'[c]) = Len(read[c]) + 1
          /\ \A k \in 1..Len(read[c]) : read'[c][k] = read[c][k]
          /\ read'[c][Len(read[c]) + 1] = h
      BY <2>1, <2>2, <2>3, AppendProperties
    <3>7. /\ items'[c] \in Seq(Items)
          /\ Len(items'[c]) = Len(items[c]) + 1
          /\ \A k \in 1..Len(items[c]) : items'[c][k] = items[c][k]
          /\ items'[c][Len(items[c]) + 1] = Item(h)
      BY <2>1, <2>2, <2>3, AppendProperties
    <3>4. \A k \in DOMAIN read'[c] : items'[c][k] = Item(read'[c][k])
      <4>1. \A k \in 1..Len(read[c]) : items[c][k] = Item(read[c][k])
        BY <2>1, <3>2 DEF ConnOK
      <4>2. SUFFICES ASSUME NEW k \in DOMAIN read'[c] PROVE items'[c][k] = Item(read'[c][k])
        OBVIOUS
      <4>3. k \in 1..Len(read[c]) \/ k = Len(read[c]) + 1
        BY <2>1, <3>3
      <4>4. CASE k \in 1..Len(read[c])
        BY <3>3, <3>6, <3>7, <4>1, <4>4
      <4>5. CASE k = Len(read[c]) + 1
        BY <3>3, <3>6, <3>7, <4>5
      <4>6. QED
        BY <4>3, <4>4, <4>5
    <3>8. Len(items'[c]) = Len(read'[c]) + (IF ws'[c] = "ended" THEN 1 ELSE 0)
      BY <2>1, <2>3, <3>3, <3>6, <3>7
    <3>9. peerLog'[c] = read'[c] \o wire'[c]
      BY <2>3, <3>1, <3>2 DEF ConnOK
    <3>10. Len(items'[c]) >= Len(read'[c])
      BY <2>1, <3>3, <3>6, <3>7
    <3>5. QED
      BY <3>4, <3>8, <3>9, <3>10 DEF ConnOK
  <2>6. ASSUME NEW d \in Conns, d # c PROVE ConnOK(d)'
    BY <1>0, <1>2, <2>6 DEF TypeOK, ConnOK
  <2>7. \A d \in Conns : ConnOK(d)'
    BY <2>5, <2>6
  <2>8. QED
    BY <2>4, <2>7 DEF IInv, NoFrameLost, ItemsAligned, ConnOK
<1>3. QED
  BY <1>1, <1>2 DEF PollNext

\* Every step keeps the invariant.
LEMMA NextIInv == IInv /\ [Next]_vars => IInv'
<1> SUFFICES ASSUME IInv, [Next]_vars PROVE IInv'
  OBVIOUS
<1>1. ASSUME NEW c \in Conns, PollNext(c) PROVE IInv'
  BY <1>1, PollNextIInv DEF PollNext
<1>2. ASSUME NEW c \in Conns, Reply(c) PROVE IInv'
  BY <1>2 DEF Reply, IInv, TypeOK, NoFrameLost, ItemsAligned
<1>3. ASSUME NEW c \in Conns, NEW f \in Frames, PeerSend(c, f) PROVE IInv'
  <2>1. read[c] \o wire'[c] = Append(read[c] \o wire[c], f)
    BY <1>3, AppendWire DEF PeerSend, IInv, TypeOK
  <2>2. QED
    BY <1>3, <2>1, AppendProperties DEF PeerSend, IInv, TypeOK, NoFrameLost, ItemsAligned
<1>4. CASE UNCHANGED vars
  BY <1>4 DEF vars, IInv, TypeOK, NoFrameLost, ItemsAligned
<1>5. QED
  BY <1>1, <1>2, <1>3, <1>4 DEF Next

\* poll_next neither drops, duplicates nor reorders a frame, and reports
\* every frame that fails to decode, for every number of connections and
\* every interleaving of peers and tasks.
THEOREM NoFrameLostInvariant == Spec => []NoFrameLost
BY InitIInv, NextIInv, PTL DEF Spec, IInv
=============================================================================
