---------------------------- MODULE RustlsClient ----------------------------
(***************************************************************************)
(* The client side of the vendored rustls (rustls/src/client/mod.rs) that  *)
(* the TLS layer uses: ClientConfig::set_mtu, the EarlyData state machine *)
(* for TLS 1.3 0-RTT data, and the ClientConnection entry points that     *)
(* drive it (new_inner, early_data, WriteEarlyData::write).               *)
(*                                                                         *)
(* The handshake code that calls EarlyData's transitions (hs.rs,           *)
(* tls13.rs) is not in this tree; it is the environment here and calls    *)
(* them at the points of a TLS 1.3 handshake: the server's HelloRetry-     *)
(* Request, EncryptedExtensions and Finished.  A WriteEarlyData holds      *)
(* &mut ClientConnection, so no handshake step runs while it is alive.     *)
(* An assert_eq!, panic! or unreachable! in the code sets `panicked`.      *)
(***************************************************************************)
EXTENDS Naturals

CONSTANTS
    MaxEarly,         \* largest max_early_data_size a ticket offers
    MaxWrite,         \* largest buffer the application writes at once
    PacketOverhead,   \* fragmenter::PACKET_OVERHEAD, the TLS record header
    MaxMtu,           \* largest MTU the application configures
    None,             \* Option::None
    DebugAssertions   \* the build evaluates debug_assert! (debug, not test)

ASSUME ConstantsAssumption ==
    /\ MaxEarly \in Nat
    /\ MaxWrite \in Nat \ {0}
    /\ PacketOverhead \in Nat
    /\ MaxMtu \in Nat
    /\ None \notin Nat
    /\ DebugAssertions \in BOOLEAN

\* enum EarlyDataState
EarlyDataStates == {"Disabled", "Ready", "Accepted", "AcceptedFinished", "Rejected"}

\* Where the handshake is: configuring, ClientHello sent (0-RTT allowed),
\* EncryptedExtensions processed, traffic keys installed.
Phases == {"config", "hello", "ee", "traffic"}

VARIABLES
    mtu,        \* ClientConfig.mtu: fragment size or None
    connMtu,    \* the mtu the connection was created with
    phase,      \* handshake progress (environment)
    ed,         \* ClientConnectionData.early_data.state
    left,       \* ClientConnectionData.early_data.left
    sent,       \* early plaintext bytes handed to send_early_plaintext
    maxEarly,   \* the max_data early data was enabled with
    writer,     \* a WriteEarlyData borrow is alive
    panicked

vars == <<mtu, connMtu, phase, ed, left, sent, maxEarly, writer, panicked>>

TypeOK ==
    /\ mtu \in (0..MaxMtu) \cup {None}
    /\ connMtu \in (0..MaxMtu) \cup {None}
    /\ phase \in Phases
    /\ ed \in EarlyDataStates
    /\ left \in 0..MaxEarly
    /\ sent \in 0..MaxEarly
    /\ maxEarly \in 0..MaxEarly
    /\ writer \in BOOLEAN
    /\ panicked \in BOOLEAN

-----------------------------------------------------------------------------
(* ClientConfig                                                            *)

\* checked_sub on usize: None when it would underflow.
CheckedSub(x, y) == IF x >= y THEN x - y ELSE None

\* ClientConfig::set_mtu(&Some(x)): the debug_assert! fires first in a
\* debug build; otherwise x - PACKET_OVERHEAD, or None (with a warning)
\* when x is smaller than the overhead.
SetMtu(x) ==
    /\ phase = "config"
    /\ ~panicked
    /\ IF DebugAssertions /\ ~(x > PacketOverhead)
       THEN panicked' = TRUE /\ UNCHANGED mtu
       ELSE mtu' = CheckedSub(x, PacketOverhead) /\ UNCHANGED panicked
    /\ UNCHANGED <<connMtu, phase, ed, left, sent, maxEarly, writer>>

\* ClientConfig::set_mtu(&None).
ResetMtu ==
    /\ phase = "config"
    /\ ~panicked
    /\ mtu' = None
    /\ UNCHANGED <<connMtu, phase, ed, left, sent, maxEarly, writer, panicked>>

-----------------------------------------------------------------------------
(* EarlyData                                                               *)

IsEnabled == ed \in {"Ready", "Accepted"}

IsAccepted == ed \in {"Accepted", "AcceptedFinished"}

Init ==
    /\ mtu = None
    /\ connMtu = None
    /\ phase = "config"
    /\ ed = "Disabled"
    /\ left = 0
    /\ sent = 0
    /\ maxEarly = 0
    /\ writer = FALSE
    /\ panicked = FALSE

\* EarlyData::enable(max_data): asserts Disabled, then Ready with max_data.
Enable(m) ==
    IF ed = "Disabled"
    THEN /\ ed' = "Ready"
         /\ left' = m
         /\ maxEarly' = m
         /\ UNCHANGED panicked
    ELSE panicked' = TRUE /\ UNCHANGED <<ed, left, maxEarly>>

\* EarlyData::rejected().
Rejected == ed' = "Rejected"

\* EarlyData::accepted(): asserts Ready.
Accepted ==
    IF ed = "Ready" THEN ed' = "Accepted" /\ UNCHANGED panicked
                    ELSE panicked' = TRUE /\ UNCHANGED ed

\* Mutant: finished() leaves the state Accepted.
FinishedStaysAccepted ==
    IF ed = "Accepted" THEN UNCHANGED <<ed, panicked>>
                       ELSE panicked' = TRUE /\ UNCHANGED ed

\* EarlyData::finished(): Accepted becomes AcceptedFinished; any other
\* state panics ("bad EarlyData state").
Finished ==
    IF ed = "Accepted" THEN ed' = "AcceptedFinished" /\ UNCHANGED panicked
                       ELSE panicked' = TRUE /\ UNCHANGED ed

\* ClientConnection::new_inner: ConnectionCommon::new(config.mtu, ..),
\* EarlyData::new(), then hs::start_handshake, which calls
\* EarlyData::enable(max_data) when it resumes a ticket allowing early
\* data (`enable` asserts the state is Disabled).
NewConnection ==
    /\ phase = "config"
    /\ ~panicked
    /\ connMtu' = mtu
    /\ phase' = "hello"
    /\ \/ UNCHANGED <<ed, left, maxEarly, panicked>>
       \/ \E m \in 0..MaxEarly : Enable(m)
    /\ UNCHANGED <<mtu, sent, writer>>

\* Mutant: check_write takes sz without comparing it with `left`, so
\* `self.left -= sz` underflows.
CheckWriteTakeUnclamped(sz) == sz

\* EarlyData::check_write(sz): take what is left of the budget, at most sz.
CheckWriteTake(sz) == IF left < sz THEN left ELSE sz

\* ClientConnection::early_data(): Some(WriteEarlyData) when enabled.
OpenEarlyData ==
    /\ ~panicked
    /\ ~writer
    /\ IsEnabled
    /\ writer' = TRUE
    /\ UNCHANGED <<mtu, connMtu, phase, ed, left, sent, maxEarly, panicked>>

\* WriteEarlyData::write -> write_early_data -> check_write, then
\* send_early_plaintext of the bytes taken; Err(InvalidInput) once early
\* data is rejected or finished; unreachable! when Disabled.
WriteEarly(sz) ==
    /\ ~panicked
    /\ writer
    /\ CASE ed \in {"Ready", "Accepted"} ->
              /\ left' = left - CheckWriteTake(sz)
              /\ sent' = sent + CheckWriteTake(sz)
              /\ UNCHANGED panicked
         [] ed \in {"Rejected", "AcceptedFinished"} ->
              UNCHANGED <<left, sent, panicked>>
         [] ed = "Disabled" ->
              panicked' = TRUE /\ UNCHANGED <<left, sent>>
    /\ UNCHANGED <<mtu, connMtu, phase, ed, maxEarly, writer>>

\* The WriteEarlyData is dropped, ending the borrow.
CloseEarlyData ==
    /\ writer
    /\ writer' = FALSE
    /\ UNCHANGED <<mtu, connMtu, phase, ed, left, sent, maxEarly, panicked>>

-----------------------------------------------------------------------------
(* The handshake (environment) calling EarlyData's transitions             *)

\* A step of process_new_packets; it needs &mut self.
HandshakeStep == ~panicked /\ ~writer

\* HelloRetryRequest: EarlyData::rejected(); a new ClientHello follows.
RetryRequest ==
    /\ HandshakeStep
    /\ phase = "hello"
    /\ IsEnabled
    /\ Rejected
    /\ UNCHANGED <<mtu, connMtu, phase, left, sent, maxEarly, writer, panicked>>

\* EncryptedExtensions: when early data is enabled, EarlyData::accepted()
\* (it asserts Ready) if the server took it, EarlyData::rejected() if not.
EncryptedExtensions ==
    /\ HandshakeStep
    /\ phase = "hello"
    /\ phase' = "ee"
    /\ \/ /\ ~IsEnabled
          /\ UNCHANGED <<ed, panicked>>
       \/ /\ IsEnabled
          /\ Rejected
          /\ UNCHANGED panicked
       \/ /\ IsEnabled
          /\ Accepted
    /\ UNCHANGED <<mtu, connMtu, left, sent, maxEarly, writer>>

\* Server Finished: EndOfEarlyData and EarlyData::finished() (it panics
\* unless Accepted) when early data was accepted; traffic starts.
ServerFinished ==
    /\ HandshakeStep
    /\ phase = "ee"
    /\ phase' = "traffic"
    /\ IF IsAccepted
       THEN Finished
       ELSE UNCHANGED <<ed, panicked>>
    /\ UNCHANGED <<mtu, connMtu, left, sent, maxEarly, writer>>

Next ==
    \/ \E x \in 0..MaxMtu : SetMtu(x)
    \/ ResetMtu
    \/ NewConnection
    \/ OpenEarlyData
    \/ \E sz \in 1..MaxWrite : WriteEarly(sz)
    \/ CloseEarlyData
    \/ RetryRequest
    \/ EncryptedExtensions
    \/ ServerFinished

Spec == Init /\ [][Next]_vars

-----------------------------------------------------------------------------
(* Properties                                                              *)

\* Early data is written only before the handshake has finished: a write
\* that hands bytes to send_early_plaintext happens while the server's
\* Finished is still outstanding and early data is not rejected.
EarlyOnlyBeforeFinished ==
    [][sent' # sent => phase \in {"hello", "ee"} /\ ed \in {"Ready", "Accepted"}]_vars

\* The connection's fragment size is never zero: set_mtu leaves the
\* default (None) for an MTU with no room past the record header, as its
\* doc comment ("If Some(x) then x must be greater than 5 bytes") and its
\* warning ("MTU must be greater than 5 bytes") promise.
MtuContract ==
    connMtu # None => connMtu > 0

=============================================================================
