# Formal models of clipper's devtools bridge and TLS client

TLA+ models of the source under `src/`, with TLC configurations that check
them on small instances and TLAPS proofs for every value of the constants.

## 1. Inventory

The repository tree holds four files.

| Part | Source | State | Operations | Modelled |
|---|---|---|---|---|
| Listener abstraction, `TypeMap`, flow identity and timing | `crates/net_decode/src/listener.rs` 15-84 | `TypeMap<V>(BTreeMap<TypeId, V>)`, `TimingInfo`, `MessageMeta` | trait declarations, `get`, `insert` | no (§5) |
| Reference listeners | listener.rs 86-122 | none | print or discard | no (§5) |
| Devtools accept loop | `crates/devtools_server/src/lib.rs` 29-83 | a bound `TcpListener` and `next: Option<upgrade future>` | `ConnectionStream::new`, `poll_next` | `ConnectionStream` |
| Devtools connection | lib.rs 85-141 | a `WebSocketStream` | `reply`, `send`, `poll_next` (decodes JSON method calls) | `ServerConnection` |
| TLS client config | `rustls/src/client/mod.rs` 80-192 | `ClientConfig` (mtu, versions, suites, ...) | `set_mtu`; `supports_version`, `find_cipher_suite` | `set_mtu` only |
| TLS 0-RTT state | mod.rs 216-296 | `EarlyData { state, left }` | `enable`, `accepted`, `rejected`, `finished`, `check_write` | `RustlsClient` |
| TLS client connection | mod.rs 297-549 | `common`, `state: Option<NextState>`, `data` | `new_inner`, `early_data`, `write_early_data`, the `Connection` delegations | the 0-RTT entry points |
| h2 client tests | `tests/stream_states.rs` | none | tests of an h2 client library that is not in this tree | no |

**How the parts interact.** The devtools bridge is a tokio `Stream` of
connections, polled by a task that the runtime wakes through wakers; each
accepted connection becomes a `ServerConnection`, itself a `Stream` of
method calls. rustls is a library: its `EarlyData` state is driven by the
handshake code, which is not in this tree, and by the application's writes.

**What is hard.**
- The waker protocol of the hand-rolled `poll_next`. One `Pending` returned
  without a registered waker hangs the server.
- `poll_next` serialises accept and upgrade. The spec (§4.4(1), §9) asks that
  a pending upgrade not hold up new accepts.
- The order of `next = None` and `r?` when an upgrade fails.
- Frames of a session before and after a Close or a reset.
- The 0-RTT byte budget over partial writes, and when early data may be sent.
- The `set_mtu` boundary at `PACKET_OVERHEAD`.

## 2. Modules

| Module | Models | Kind |
|---|---|---|
| `ConnectionStream` | the accept loop, lib.rs 29-83 | state machine |
| `AcceptOrder` | what the accept loop promises its consumer: connections yielded in arrival order, each once | abstract specification |
| `ServerConnection` | one devtools session, lib.rs 85-140 | state machine |
| `RustlsClient` | `set_mtu`, `EarlyData` and the connection's 0-RTT entry points, mod.rs | state machine |
| `MC_*` | instances for TLC | |
| `*Proofs` | TLAPS proofs | |

### `ConnectionStream` (lib.rs 29-83)
**Variables.**
- `next`: `ConnectionStream.next`, the peer whose upgrade future is stored,
  or `NoConn`.
- `backlog`: the kernel's accept queue.
- `wakers`: the resources holding the task's waker, `"accept"` and/or
  `"upgrade"`.
- `awake`: the task is scheduled.
- `peer[p]` and `hs[p]`: each peer's connection state and what its socket has
  delivered.

**Actions.**
- `PollNext` is one whole call of `poll_next`. It has three branches:
  `PollPending` (lines 60-68), `PollAcceptReady` (accept, store
  `accept_async`, `continue`, then poll the new future: lines 70-76) and
  `PollAcceptPending` (lines 70, 78).
- `PollUpgrade(p)` is `Future::poll` of the upgrade future. On Ready it
  resets `next` and then yields Ok or Err. On Pending it registers the
  waker.
- `Connect` and `Handshake` are the environment. They are a peer and the I/O
  driver, and each fires the waker registered with it.

### `AcceptOrder` and the accept-loop refinement
`AcceptOrder` is the stream as its consumer sees it. A peer connects and
joins the end of a line (`Arrive`). The stream yields the oldest waiting
connection as Ok or Err, and it leaves the line (`Yield`). `ConnectionStream`
implements it through `Accept == INSTANCE AcceptOrder WITH conn <- Conn,
waiting <- Line`:
- `Line` is the peer in `next` (if any) followed by the accept queue;
- `Conn` maps "queued" and "accepted" to "waiting".

Under this mapping:
- `Connect` is an `Arrive`;
- a Ready upgrade future, in `PollPending` or `PollAcceptReady`, is a `Yield`
  of the head of the line;
- a Pending one, `PollAcceptPending`, `Handshake` and the wakers are
  stutters.

### `AcceptOrder` and the accept-loop refinement
`AcceptOrder` is the stream as its consumer sees it. A peer connects and
joins the end of a line (`Arrive`). The stream yields the oldest waiting
connection as Ok or Err, and it leaves the line (`Yield`). `ConnectionStream`
implements it through `Accept == INSTANCE AcceptOrder WITH conn <- Conn,
waiting <- Line`:
- `Line` is the peer in `next` (if any) followed by the accept queue;
- `Conn` maps "queued" and "accepted" to "waiting".

Under this mapping:
- `Connect` is an `Arrive`;
- a Ready upgrade future, in `PollPending` or `PollAcceptReady`, is a `Yield`
  of the head of the line;
- a Pending one, `PollAcceptPending`, `Handshake` and the wakers are
  stutters.

### `ServerConnection` (lib.rs 85-140)
One websocket per accepted connection, each owned by a task that runs
`while let Some(r) = conn.next().await` and answers method calls with `reply`
(that loop is not in this tree; the model takes it as the environment).

**Variables.**
- `wire[c]`: frames the peer sent that the websocket has not read.
- `peerLog[c]`: every frame the peer sent.
- `read[c]` and `items[c]`: the frames `poll_next` took and what it yielded.
- `ws[c]`: open, closed (a Close was read or the transport failed), or ended.
- `task[c]`: polling, replying, or done.
- `replies[c]`: responses the peer received.

**Actions.**
- `PollNext(c)` is a Ready `poll_next`. The websocket reporting its end
  gives `None` and ends the task. A frame gives `Item(f)`: `Ok` for a
  method call, `Err` for anything else. This includes a Ping or a Close, whose
  payload `from_slice` cannot parse.
- `Reply(c)` is `reply` / `send`. The write fails once the peer reset its
  connection, and the task polls on.
- `PeerSend(c, f)` is the peer: a call, junk, a Ping, its Close, or a reset.

### `RustlsClient` (mod.rs)
**Config and EarlyData.**
- `SetMtu` and `ResetMtu` model `set_mtu`, including the `debug_assert!` (a
  `DebugAssertions` constant for the build) and `checked_sub`.
- `Enable`, `Accepted`, `Rejected`, `Finished` and `CheckWriteTake` model the
  `EarlyData` methods. Their `assert_eq!`, `panic!` and `unreachable!` set
  `panicked`.

**Connection entry points.** `NewConnection` is `new_inner`.
`OpenEarlyData` is `early_data()`. `WriteEarly` is `write_early_data`
through `check_write`. `CloseEarlyData` is dropping the `WriteEarlyData`
borrow.

**Environment.** The handshake code that calls the EarlyData transitions
(`hs.rs`, `tls13.rs`) is not in the tree, so it is modelled as the
environment: `RetryRequest`, `EncryptedExtensions` and `ServerFinished`
follow the TLS 1.3 handshake. These steps need `&mut ClientConnection`, so
none of them runs while a `WriteEarlyData` is alive.

## 3. Runs

| Run | Checks | Shows |
|---|---|---|
| `cs_safety` (`ConnectionStream_safety.cfg`) | NoLostWakeup, NextNotCompleted, AcceptInOrder | The task never sleeps on unguarded work, and a completed upgrade is never polled again. The loop implements `AcceptOrder`: connections are yielded one at a time, in arrival order, each once. |
| `cs_live` (`ConnectionStream_live.cfg`) | AcceptProgress | With peers that all eventually send (or close), every connection whose request has arrived is served. |
| `cs_stall` (`ConnectionStream_stall.cfg`, violation) | AcceptProgress | One peer that connects and never sends its upgrade request keeps every later peer from being accepted. |
| `sc_session` (`ServerConnection_session.cfg`) | NoFrameLost, StreamEnds | Every frame the peer sent is still on the wire or has become exactly one item, in order; an undecodable frame is reported. A peer that closes or resets sees the task end. |
| `sc_faults` (`ServerConnection_faults.cfg`, violation) | OnlyMalformedFaults | A Ping or a clean Close is yielded as `Some(Err)`. |
| `rustls_debug` (`RustlsClient_debug.cfg`) | TypeOK, EarlyOnlyBeforeFinished | The bytes sent as early data never exceed the ticket's limit (`sent` stays in `0..max_data`, which a `check_write` that does not clamp to `left` breaks), and no early data is sent after the server's Finished or a rejection. |
| `rustls_release` (`RustlsClient_release.cfg`, violation) | MtuContract | In a release or test build, `set_mtu(Some(5))` stores `Some(0)`. |

**Findings.**
- `cs_stall`: `poll_next` serialises accept and upgrade, against spec §4.4(1)
  and §9.
- `sc_faults`: tungstenite hands Ping and Close frames to the reader, and
  `from_slice` fails on their payloads. A clean Close therefore reaches the
  consumer as an error before the end of the stream. The spec (§6, §7) says
  the stream fails only on malformed input and ends on disconnect.
- `rustls_release`: without debug assertions, `set_mtu` accepts an MTU equal
  to the record header and stores a zero fragment size.

**Bounds.**
- Three peers are enough for a served peer, a stalled peer in `next` and a
  peer waiting behind it.
- Two connections with three frames each give every frame before and after a
  Close or a reset on both connections (112k states).
- A budget of 3 early bytes with writes of 1 or 2 bytes exercises both
  branches of `check_write`, including the exact-fit case (`left == sz`).
- MTUs 0..7 straddle `PACKET_OVERHEAD` = 5.

**Fairness.**
- `WF(PollNext)`: tokio runs a woken task.
- For each peer not in `Slow`, `WF(Handshake(p))`: a live client sends its
  request, or its socket closes. Connecting is never forced. `accept_async`
  has no timeout, so a peer in `Slow` may stall forever.
- In `ServerConnection`, `WF(PollNext(c))` and `WF(Reply(c))`: the task is
  runnable while its websocket has a frame or an end to report, and `reply`
  completes or fails. The peer is never forced to send.

**Deadlock.** Deadlock checking is off in every run, and each cfg says why:
the server waits for connections that never come; a TLS connection stops
once traffic starts (and a debug build at a failed `debug_assert!`); a
session ends.

## 4. Proofs

Each proof is in a `*Proofs` module that extends its model and TLAPS. The
only assumptions are the ones on the constants (`PeersAssumption`,
`ConstantsAssumption`, `ServerConnectionAssumption`).
Each invariant theorem `Spec => []P`, and each action property
`Spec => [][A]_vars`, rests on an inductive invariant `IInv` with
`Init => IInv` and `IInv /\ [Next]_vars => IInv'`. There is one proof step per
action.

**`ConnectionStreamProofs`.** It proves `TypeCorrect` and
`NoLostWakeupInvariant`. `NoLostWakeup` is inductive together with `TypeOK`:
- a Pending return registers the waker of what it waited on;
- `Connect` and `Handshake` on the awaited resource fire that waker.

The lemma `PollUpgradeStep` covers both outcomes of polling an upgrade
future.

The same module proves `NextNotCompletedInvariant`: the upgrade future
stored in `next` is never one that has already completed. The step lemma
`NextNotCompletedStep` has one case per action:
- each Ready result clears `next` before it yields;
- each Pending stores the future of a peer whose upgrade is still running;
- a peer that connects is never the one whose future is stored, which
  needs `PeersAssumption`.

The proof carries `IInv` (with `NoLostWakeup`) along, for the types of the
next state.

The module also proves `AcceptInOrderRefinement`, `Spec => AcceptInOrder`:
the accept loop implements `AcceptOrder` for every set of peers. It rests on
`RInv == IInv /\ NextNotCompleted /\ BacklogOK`. `BacklogOK` says the accept
queue holds distinct peers, all "queued". It is needed for two reasons:
- the head that `PollAcceptReady` takes must still be waiting;
- no later entry may repeat the head, or one step would change two
  entries of the line.

`BacklogStep` proves `BacklogOK` is preserved. The step lemmas
`PollPendingMaps`, `PollAcceptReadyMaps` and `ConnectMaps` show each action
is a `Yield`, an `Arrive` or a stutter of `AcceptOrder`. They rest on three
sequence lemmas from `SequenceTheorems` facts:
- `ConsFacts`: the head and tail of `<<x>> \o s`;
- `ConsHeadTail`: `<<Head(s)>> \o Tail(s) = s`;
- `ConsAppend`: appending commutes with putting `next` in front.

**`RustlsClientProofs`.** It proves `TypeCorrect` and
`EarlyOnlyBeforeFinishedHolds`. `TypeOK` is not inductive: `sent` stays in
`0..max_data` only because what `check_write` hands out is taken from
`left`. The invariant therefore adds `EarlyBudget` (`left + sent` equals the
ticket's limit once early data is enabled) and `EarlyPhase`, which ties the
early-data state to the handshake phase:
- `Disabled` means nothing was sent;
- `Ready` only before EncryptedExtensions;
- `Accepted` only before Finished.

Without `EarlyPhase`, a `ServerFinished` step could seem to leave `Accepted`
in the traffic phase. The type invariant is split into its numeric and its
tag halves (`NumOK`, `TagOK`) so that each step's obligations stay small.

**`ServerConnectionProofs`.** It proves `NoFrameLostInvariant`. The
strengthening `ItemsAligned` says that `items` holds one entry per frame read,
plus one for the end. Without it, the frame read next could be paired with
an item at the wrong position. The lemmas `MoveHead` and `AppendWire` state
how a frame moving from the wire to `read`, or a new frame, changes the
concatenation. `ConnOK` is the invariant for one connection, and the
`poll_next` step proves it for the polled connection and for the others.

**Left to TLC.**
- Liveness (`AcceptProgress`, `StreamEnds`): TLAPS does not prove liveness
  under fairness here.
- Nothing else: every safety invariant and action property a passing run
  checks has a theorem above, for all values of the constants. The model has
  no recursive definition, so no result depends on induction over data.
- The runs that expect a violation (`cs_stall`, `rustls_release`,
  `sc_faults`) are counterexamples found by TLC and are not theorems.

## 5. Not modelled
- `listener.rs`: the `Listener` and `SideData` traits, `TypeMap`,
  `IPTarget`, `TimingInfo`, `MessageMeta` and the three reference listeners.
  No code in this tree builds a chain of listeners or calls `TypeMap`; the
  reference listeners hold no state and only print or discard; `on_data`
  and `on_side_data` take `&mut self`, so the borrow checker already makes
  every call exclusive. A model of a dispatch chain would describe the
  protocol layers of the spec, which are not in this tree, rather than this
  code. `TypeMap::insert` is `BTreeMap::insert`, and overwrites.
- `SideData::as_any`: the footgun (called on a `Box`, it returns the Box's
  `TypeId`) is at the type level.
- `supports_version` and `new_quic`: pure checks over a configuration that
  change no state; a property of them would restate their guard.
- `find_cipher_suite`: nothing in the tree calls it.
- The `Connection` delegations, `send_some_plaintext` and `write_vectored` in
  `mod.rs`: the `ConnectionCommon` they call is not in the tree.
- The QUIC methods of `QuicExt`, which delegate to `quic.rs` (not in the
  tree).
- The consumer loops of the devtools streams, which are not in this tree.
- The h2 tests: the library under test is absent.

## 6. Plan for later sittings
1. Compose `ConnectionStream` with `ServerConnection`: an upgraded peer
   starts a session.
