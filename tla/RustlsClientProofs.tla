------------------------- MODULE RustlsClientProofs -------------------------
(***************************************************************************)
(* Proofs about the rustls client model (RustlsClient), for every budget,  *)
(* write size, packet overhead and MTU bound.                              *)
(*                                                                         *)
(* TypeOK is not inductive by itself: `sent` stays within the ticket      *)
(* limit only because what check_write hands out is taken from `left`,    *)
(* which enable() sets to max_data while nothing has been sent yet         *)
(* (EarlyBudget).  EarlyOnlyBeforeFinished needs that the enabled states   *)
(* occur only before the server's Finished.                                *)
(***************************************************************************)
EXTENDS RustlsClient, TLAPS

\* TypeOK in two halves, the numbers and the tags, which the SMT backend
\* handles better one at a time.
NumOK ==
    /\ mtu \in (0..MaxMtu) \cup {None}
    /\ connMtu \in (0..MaxMtu) \cup {None}
    /\ left \in 0..MaxEarly
    /\ sent \in 0..MaxEarly
    /\ maxEarly \in 0..MaxEarly

TagOK ==
    /\ phase \in Phases
    /\ ed \in EarlyDataStates
    /\ writer \in BOOLEAN
    /\ panicked \in BOOLEAN

\* Once early data is enabled with max_data, the bytes handed to
\* send_early_plaintext and the bytes check_write still allows add up to
\* max_data.
EarlyBudget ==
    ed # "Disabled" => left + sent = maxEarly

\* Nothing is sent while early data is disabled; early data is Ready only
\* between ClientHello and EncryptedExtensions, and Accepted only between
\* EncryptedExtensions and the server's Finished.
EarlyPhase ==
    /\ ed = "Disabled" => sent = 0
    /\ ed = "Ready" => phase = "hello"
    /\ ed = "Accepted" => phase = "ee"

\* The inductive invariant.
IInv == NumOK /\ TagOK /\ EarlyBudget /\ EarlyPhase

-----------------------------------------------------------------------------

LEMMA TypeOKSplit == TypeOK <=> NumOK /\ TagOK
BY DEF TypeOK, NumOK, TagOK

\* The initial state, a default ClientConfig before any connection,
\* satisfies the inductive invariant.
LEMMA InitIInv == Init => IInv
<1> SUFFICES ASSUME Init PROVE IInv
  OBVIOUS
<1>1. NumOK
  BY ConstantsAssumption DEF Init, NumOK
<1>2. TagOK
  BY DEF Init, TagOK, Phases, EarlyDataStates
<1>3. EarlyBudget /\ EarlyPhase
  BY DEF Init, EarlyBudget, EarlyPhase
<1>4. QED
  BY <1>1, <1>2, <1>3 DEF IInv

\* Every step keeps the budget, the types and the phase of early data.
LEMMA NextIInv == IInv /\ [Next]_vars => IInv'
<1> SUFFICES ASSUME IInv, [Next]_vars PROVE IInv'
  OBVIOUS
<1> USE ConstantsAssumption DEF IInv, NumOK, TagOK, EarlyBudget, EarlyPhase, Phases, EarlyDataStates
<1>1. ASSUME NEW x \in 0..MaxMtu, SetMtu(x) PROVE IInv'
  <2>1. CASE DebugAssertions /\ ~(x > PacketOverhead)
    BY <1>1, <2>1 DEF SetMtu
  <2>2. CASE ~(DebugAssertions /\ ~(x > PacketOverhead))
    <3>1. mtu' = CheckedSub(x, PacketOverhead) /\ UNCHANGED <<connMtu, phase, ed, left, sent, maxEarly, writer, panicked>>
      BY <1>1, <2>2 DEF SetMtu
    <3>2. CheckedSub(x, PacketOverhead) \in (0..MaxMtu) \cup {None}
      BY DEF CheckedSub
    <3>3. QED
      BY <3>1, <3>2
  <2>3. QED
    BY <2>1, <2>2
<1>2. CASE ResetMtu
  BY <1>2 DEF ResetMtu
<1>3. CASE NewConnection
  <2>1. CASE UNCHANGED <<ed, left, maxEarly, panicked>>
    BY <1>3, <2>1 DEF NewConnection
  <2>2. ASSUME NEW m \in 0..MaxEarly, Enable(m) PROVE IInv'
    <3>1. CASE ed = "Disabled"
      <4>1. ed' = "Ready" /\ left' = m /\ maxEarly' = m /\ UNCHANGED panicked
        BY <2>2, <3>1 DEF Enable
      <4>2. phase' = "hello" /\ UNCHANGED <<mtu, sent, writer>> /\ connMtu' = mtu
        BY <1>3 DEF NewConnection
      <4>3. QED
        BY <3>1, <4>1, <4>2
    <3>2. CASE ed # "Disabled"
      <4>1. panicked' = TRUE /\ UNCHANGED <<ed, left, maxEarly>>
        BY <2>2, <3>2 DEF Enable
      <4>2. phase' = "hello" /\ UNCHANGED <<mtu, sent, writer>> /\ connMtu' = mtu
        BY <1>3 DEF NewConnection
      <4>3. phase = "config"
        BY <1>3 DEF NewConnection
      <4>4. QED
        BY <3>2, <4>1, <4>2, <4>3
    <3>3. QED
      BY <3>1, <3>2
  <2>3. QED
    BY <1>3, <2>1, <2>2 DEF NewConnection
<1>4. CASE OpenEarlyData
  BY <1>4 DEF OpenEarlyData
<1>5. ASSUME NEW sz \in 1..MaxWrite, WriteEarly(sz) PROVE IInv'
  <2>1. CASE ed \in {"Ready", "Accepted"}
    <3>1. CheckWriteTake(sz) \in 0..left
      BY DEF CheckWriteTake
    <3>2. left' = left - CheckWriteTake(sz) /\ sent' = sent + CheckWriteTake(sz)
          /\ UNCHANGED <<mtu, connMtu, phase, ed, maxEarly, writer, panicked>>
      BY <1>5, <2>1 DEF WriteEarly
    <3>3. QED
      BY <2>1, <3>1, <3>2
  <2>2. CASE ed \in {"Rejected", "AcceptedFinished"}
    BY <1>5, <2>2 DEF WriteEarly
  <2>3. CASE ed = "Disabled"
    BY <1>5, <2>3 DEF WriteEarly
  <2>4. QED
    BY <2>1, <2>2, <2>3 DEF EarlyDataStates
<1>6. CASE CloseEarlyData
  BY <1>6 DEF CloseEarlyData
<1>7. CASE RetryRequest
  BY <1>7 DEF RetryRequest, HandshakeStep, IsEnabled, Rejected
<1>8. CASE EncryptedExtensions
  BY <1>8 DEF EncryptedExtensions, HandshakeStep, IsEnabled, Rejected, Accepted
<1>9. CASE ServerFinished
  BY <1>9 DEF ServerFinished, HandshakeStep, IsAccepted, Finished
<1>10. CASE UNCHANGED vars
  BY <1>10 DEF vars
<1>11. QED
  BY <1>1, <1>2, <1>3, <1>4, <1>5, <1>6, <1>7, <1>8, <1>9, <1>10 DEF Next

\* No early data is written once the server's Finished has been processed
\* or early data was rejected: a write that sends bytes happens only in
\* the Ready or Accepted state, which exist only before Finished.
THEOREM EarlyOnlyBeforeFinishedHolds == Spec => EarlyOnlyBeforeFinished
<1>1. IInv /\ [Next]_vars => [sent' # sent => phase \in {"hello", "ee"} /\ ed \in {"Ready", "Accepted"}]_vars
  <2> SUFFICES ASSUME IInv, Next, sent' # sent
               PROVE phase \in {"hello", "ee"} /\ ed \in {"Ready", "Accepted"}
    BY DEF vars
  <2>1. ed \in {"Ready", "Accepted"}
    <3>1. ASSUME NEW sz \in 1..MaxWrite, WriteEarly(sz) PROVE ed \in {"Ready", "Accepted"}
      BY <3>1 DEF WriteEarly, IInv, TagOK, EarlyDataStates
    <3>2. ~\E x \in 0..MaxMtu : SetMtu(x)
      BY DEF SetMtu
    <3>3. QED
      BY <3>1, <3>2 DEF Next, ResetMtu, NewConnection, OpenEarlyData, CloseEarlyData,
           RetryRequest, EncryptedExtensions, ServerFinished
  <2>2. QED
    BY <2>1 DEF IInv, EarlyPhase
<1>2. QED
  BY InitIInv, NextIInv, <1>1, PTL DEF Spec, EarlyOnlyBeforeFinished

\* The client's variables always have their types.
THEOREM TypeCorrect == Spec => []TypeOK
<1>1. IInv => TypeOK
  BY TypeOKSplit DEF IInv
<1>2. QED
  BY InitIInv, NextIInv, <1>1, PTL DEF Spec
=============================================================================
