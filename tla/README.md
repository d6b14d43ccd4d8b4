# Verification of repe-rs

repe-rs is a Rust implementation of REPE, a JSON-pointer-addressed RPC protocol:
clients and servers over TCP, WebSocket and UDP, a router with middleware and
registries, served structs, fleets of nodes, plugins, a REST gateway, and two
ways of streaming large payloads. This directory holds TLA+ models of its parts,
the TLC configurations that check them on small instances, and TLAPS proofs of
the properties that matter most for every instance. `PROJECT.json` is the
machine-readable index: components, runs, mutants, the map from definitions to
source lines, findings, hazards and theorems.

## 1. The system and its models

Paths are relative to the crate (`src/src/` in the index) unless they start with
another crate's name.

| Part | Source | Modules | Checked by |
|---|---|---|---|
| Push streaming | `stream.rs` | `ReplayRing`, `TransferControl`, `StreamTransfer`, `WindowedFlow`, `MCStreams`; proofs in `StreamTransferProofs`, `StreamTheorems` | `stream_safety`, `stream_progress`, `ack_race` |
| Async TCP client | `async_client.rs`, `async_io.rs` | `AsyncClient`, `AsyncClientProofs` | `async_calls`, `clients` |
| Blocking, WebSocket and browser clients | `client.rs`, `websocket_client.rs`, `websocket_limits.rs`, `wasm_client.rs`, `notify_slot.rs` | `BlockingClient`, `WebSocketClient`, `WasmClient`, `MCClients` | `clients` |
| Peers and WebSocket server | `peer.rs`, `websocket_server.rs` | `PeerRegistry`, `WebSocketServer`, `MCWebSocketServer`; proofs in `WebSocketServerTypes`, `WebSocketServerLives`, `WebSocketServerTheorems` | `ws_server`, `stalled_drain` |
| Pull streaming | `value_stream.rs` | `ValueStream`, `PullStream`, `MCPullStream`; proofs in `PullStreamSteps`, `PullStreamTheorems` | `pull_stream`, `abandoned_pull` |
| Fleets | `fleet.rs`, `async_fleet.rs`, `uniudp_fleet.rs`, `udp_client.rs` | `Fleet`, `UdpFleet`, `MCFleets` | `fleets`, `dead_client` |
| Wire format | `header.rs`, `message.rs`, `io.rs`, `async_io.rs` | `Message` | `requests` |
| Pointers and registry | `json_pointer.rs`, `registry.rs` | `JsonPointer` | `requests` |
| Router and dispatch | `server.rs`, `server_request.rs` | `Router` | `requests` |
| Served structs | `repe-core/src/structs.rs`, `repe-derive/src/lib.rs`, `server.rs` | `StructDispatch`, `ServedStruct`, `StructCases` | `requests` |
| TCP servers | `server.rs`, `async_server.rs` | `TcpServer` | `requests` |
| REST gateway | `rest.rs` | `RestGateway` | `requests` |
| Plugins | `plugin.rs`, `plugin/host.rs` | `Plugin` | `requests` |

The parts meet as follows. A client writes a framed message on a connection and
parks in its pending map; the server's connection loop decodes it, routes it
through middleware to a handler and writes the response with the same id. A
WebSocket server also hands each connection's `PeerHandle` to its handlers and
lists it in a registry; through it push streaming sends notifies the client did
not ask for. Pull streaming is an ordinary handler that keeps sessions. A fleet
is a table of clients with retries. The REST gateway and a plugin put the same
registry and the same router behind another door.

Composition follows the code. `WebSocketServer` extends `PeerRegistry`,
`PullStream` extends `ValueStream`, `StreamTransfer` extends `TransferControl`
and `ReplayRing`; `Router`, `TcpServer`, `RestGateway` and `Plugin` use `Message`
or `JsonPointer` for what they share.

## 2. How the models are run

| Run | Module | Distinct states | Asks |
|---|---|---|---|
| `stream_safety` | `StreamTransfer` | 1,212,447 | is flow control sound and does it implement `WindowedFlow` |
| `stream_progress` | `MCStreams` | 193,183 | does a transfer survive drops, and does everything in it end |
| `async_calls` | `AsyncClient` | 33,450 | who gets which answer, what is left behind, does a call end |
| `clients` | `MCClients` | 170,169 | the same of the other clients, and subscriptions, batches, `Drop` |
| `ws_server` | `MCWebSocketServer` | 119,385 | hooks, registry, answers, permits and the drain |
| `pull_stream` | `MCPullStream` | 45,956 | are files and values whole, are sessions freed |
| `fleets` | `MCFleets` | 240,535 | sharing, retries, removal, healing, order |
| `requests` | `MCRequests` | 153,593 | is a request understood and answered the same way everywhere |
| `ack_race`, `stalled_drain`, `abandoned_pull`, `dead_client` | | | disagreements between code and documentation (section 8) |

Most modules take a set of *scenarios*: a record that says what the environment of
one behaviour may do (how many requests, which faults, which calls have a
timeout). It is chosen in `Init` and never changes. Scenarios keep each behaviour
small and let faults that do not interact be checked apart; within one, all steps
interleave freely. The modules `MCClients`, `MCFleets`, `MCRequests` and
`MCStreams` put several components side by side: a behaviour belongs to one of
them and the variables of the others are `None`.

Deadlock is not checked: clients, transfers, pulls and requests come to an end.
That nothing stops too early is a liveness property in each run instead. Fairness
is weak fairness throughout, of steps that the code's own threads, tasks and
callbacks take once they can; it never asks the environment for an answer, a
crash, a timeout that is not configured, or a read by a peer that the scenario
stalls.

Numbers keep their width where it matters: in `Message` u64 and usize are the
integers up to `U64_MAX = 15` and `USIZE_MAX = 11`, so that sums of lengths
overflow both; elsewhere counters are bounded by the number of requests, pushes,
ids or crashes a scenario allows.

## 3. Push streaming

### Modules

`ReplayRing` is the ring as a sequence of chunks and the operators of
`ReplayRing::{push, covers, replay_from, highest_end_offset}`. A body is its
length: `data_len` logical bytes and `Overhead` more on the wire.

`TransferControl` is the control block. A variable is a field of
`TransferControlInner`, with its name; a method is an action, as each runs under
the one mutex. The two blocking waits are split where their loops release the
mutex: into the evaluation that returns and the one that goes to sleep. `parked`
is the producer asleep on the condvar, `notify_all` wakes it. The timestamps
`last_chunk_at` and `last_ack_at` are only read as the time since the later of
the two, which is `idle`, in ticks up to `IdleTimeout`.

`StreamTransfer` drives the control block the way the module's Lifecycle and the
producer of `examples/stream_pull_vs_push.rs` do. Each lock acquisition of the
producer is one step (`pc`), so that handlers, watchdog and network run between
any two. A connection is `unused`, `up`, `broken` (the peer is gone, but
`try_send` on the outbound queue still succeeds and the frame is lost) or
`closed` (`Disconnected`). The receiver keeps chunks that arrive in order, ACKs
cumulatively per chunk, and after a drop reconnects and asks to resume at the
byte it stands at. ACKs may be reordered and lost, chunks of one connection
arrive in order. `watchdog_loop` is two steps, since it releases the lock between
reading the timestamps and `cancel`.

Producer, receiver and connections belong to the embedder. What the
documentation leaves open is a constant: `RecordReplayed` (does the producer call
`record_sent` for what it re-emits), `Deadlines` (may the waits time out). A resume may
be handled at any time, also before the producer has noticed the drop. While it waits for the receiver's "file complete" the producer also
polls `wait_for_reconnect`; otherwise a drop of the last chunk could never be
repaired. A `Full` outbound queue is "application policy" and not modelled.

`WindowedFlow` is what a transfer promises: per file, sent, acknowledged and
received offsets that only grow, a window between the first two, and no file
left before it has arrived. `StreamTransfer` implements it under
`sent <- sent_offset`, `acked <- acked_offset`, `received <- Received`.

### Runs

`stream_safety` checks `Spec` with expiring deadlines: `CreditWindow`,
`AckedIsReceived`, `NoMissedWakeup` and the refinement `FlowControl`. A file is longer
than window and ring, so that the producer waits and the ring evicts. Chunks of one or two bytes and a window of two
give a grant for one chunk, for two, and for a chunk as large as the window.

`stream_progress` checks four transfers side by side (`MCStreams`):
- *resume* (window 2, ring 4, overhead 1, two files, three connections): `NothingLost`
  and `Delivery` (files arrive, accepted resumes are replayed). Files have the window's
  size, two chunks or one: enough for a lost chunk with a later one behind it, and
  never a wait for credit, which a drop would leave to its deadline. Three
  connections give a drop during a replay, two files late ACKs and stale resumes
  across `advance_to_file`;
- *evict* (the same window and ring, one file of 3, three connections): `NothingLost`
  where the ring drops its oldest chunk while the receiver drops and resumes;
- *credit* (window 4, one file of 6, one connection): `CreditReturns`; credit
  really runs out;
- *watchdog* (window 1, one file of 2, two connections): `SilentTransfersEnd` (silence
  is noticed, and a cancelled transfer is left); the producer waits after each chunk.

`NothingLost` has two parts. `WindowReplayable`: the ring covers the byte the receiver
stands at, wherever the connection breaks. `NothingForgotten`: as long as a live
receiver misses an emitted byte, the chunk it needs is on its connection, is about to be
re-emitted on it, or a resume waits to be taken up. Newer chunks may go out first, if
the resume is handled between two chunks of the producer; the receiver drops them and
the replay sends them again. Both parts assume that the ring has room for a window of
the smallest chunks with their envelopes (`RingFitsWindow`), which the crate's defaults do
not give (section 9).

`IdleTimeout = 1` is enough for the watchdog, which only compares against it. The
last connection never breaks, which is the usual "drops are finite" needed for
liveness. Fairness is weak fairness of the producer thread, of the handlers for
what has arrived, of delivery, teardown and reconnection, and of watchdog and
clock: OS threads run, and a connection that is up delivers. Nothing forces a
break, a client's cancel or a deadline.

The producer sketched in `docs/streaming.md` does not `record_sent` what it
re-emits. With `RecordReplayed = FALSE` a grant after a replay can exceed the
window and `CreditWindow` fails, which is why the runs and proofs set it.

### Proofs

`StreamTransferProofs` (the ring's operators, the invariant, the producer's steps)
and `StreamTheorems` (handlers, watchdog, network, and the results) hold for every window, ring capacity, overhead, file and chunk length and
number of files and connections, with the constants' assumptions (`RingAssumption`,
`ControlAssumption`, `StreamAssumption`) and, except for `NoLostWakeup`, with
`RecordReplayed`.

The inductive invariant `IInv` is `TypeOK` and `AckedIsReceived` with
- `RingInv`: chunks abut and ascend; `sent_offset` is the end of the ring or the
  start of its newest chunk, so at most one chunk is pushed and not counted;
- `ProducerInv`: where the producer stands relative to ring and `sent_offset` at
  each `pc`, and that a grant is still valid at `push`;
- `ReplayInv`: what is left to re-emit is a suffix of the ring;
- `WindowInv`: the window bounds the *ring's end* (not only `sent_offset`), which
  is what survives a failed send followed by a replay;
- `ReceiverInv`: no frame, ACK or staged resume is ahead of what was emitted.

`CreditWindow` alone is not inductive: the grant is checked at one step and used
three steps later. `WindowInv` carries it from `push_replay` to `record_sent`,
and `MoreAcked` shows that ACKs and resumes in between only help. From `IInv`
follow `TypeCorrect`, `WindowRespected`, `CreditIsEarned` and `RingContiguous`,
and, one lemma per kind of abstract step, the refinement `ImplementsFlow`.
`NoMissedWakeup` is inductive by itself (`NoLostWakeup`).

Only model-checked: `WindowReplayable` and `NothingForgotten` (the bytes a ring holds are
a sum, which needs induction over data), and every liveness property (fairness and
`ENABLED` are outside the prover).

## 4. The async TCP client

### Module

`AsyncClient` models `src/async_client.rs`. Each member of `Calls` is one call
future, whatever method made it (a worker of `batch_json` too); `Notifies` get no
response and `Forwarded` ones (`forward_message`) keep the id they came with.

| Model | Code |
|---|---|
| `next_id`, `pending` | the fields of `AsyncClientInner`; an entry is the call whose oneshot sender it holds |
| `chan` | that call's oneshot channel: empty, a response, `"failed"`, or `"closed"` when its sender was dropped |
| `writer`, `shut` | the writer's async mutex and its write half |
| `torn` | part of a frame was written by a future that was dropped or failed |
| `TakeId`, `Forward`, `Register` | `next_request_id`, `forward_message`, `PendingRequestGuard::register` with its duplicate check |
| `LockWriter`, `Transmit`, `Flushed`, `WriteFails` | `write_request`, a step per await |
| `Receive`, `Timeout`, `Cancel` | the `oneshot` wait with `validate_response`, `timeout()`, and the future dropped at an await; each ends with what `PendingRequestGuard::drop` does (`GuardDrop`: it removes by id) |
| `ReadMessage`, `SendMatched` | `spawn_response_loop`: take the entry, release the lock, send |
| `ReadFails`, `ShutdownWriter`, `DrainPending`, `SendError` | the loop's fatal error and `fail_all_pending`, a step per lock |
| `DropClient`, `LoopShutdown` | the last clone dropped; `shutdown_rx` or a failed `upgrade` |

The server and the network are external: a request that reached the server whole
is answered at most once, in any order, at any time or never. Bodies, queries
and error codes are abstracted to whose request a response answers.

### Runs

`async_calls` checks `FairSpec` with a timed call, a cancellable one and a cancellable
forwarded notify over one connection, every race of two registered calls with a third
writer: `AnswerIsOwn`, `NoLeakedEntry`, `WaiterIsServed` and `LoopFailureEndsCalls`.
The run `clients` adds a call and a forwarded request whose id may be the one
`next_id` hands out (part of `EntriesSound` and `CallsEnd`). `MaxId` lets every call take an id. Calls only meet
in the table, the mutex and the loop, where two calls for the same resource and
one more to disturb them give each interleaving. The counter does not wrap: 2^64
ids are out of reach.

Fairness: woken tasks are polled, tokio's mutex is fair, timers fire, the loop
continues once it has something to do, and a write completes or fails, which TCP
gives when the peer reads or is gone. The server need not answer.

### Proofs

`AsyncClientProofs` assumes `ClientAssumption` (the sets of calls are what their
names say, and results are told apart from calls) and holds for any number of
calls of each kind. The inductive invariant `ClientInv` adds to `TypeOK` and
`NoLeakedEntry`
- `Placed` and `Locked`: started calls have ids, notifies do not register, the
  mutex is held by the call that writes;
- `Once`: a sender is in one place, so a call that received something has no
  entry left to leak when its guard is disarmed;
- `Dispatching` and `Owned`: the sender of a registered call with an empty
  channel is in the table, in the loop's hands or among the drained;
- `Closing`: after the writer is shut down no call passes from writing to
  waiting, so that the drain finds every call that waits.

`EntriesDoNotLeak` and `WaitersAreServed` follow. `WaiterIsServed` alone is not
inductive: a call that is still writing must not reach `wait` after the drain, and
only `Closing` says why. With `Forwarded = {}` ids are unique (`OwnInv`), a
dropped guard never removes another call's entry, and `OwnAnswers` proves
`AnswerIsOwn` and `SenderNeverDropped`; the late answer of section 9 shows that the
hypothesis is needed. `LoopFailureEndsCalls` is only model-checked.

## 5. The other clients

`BlockingClient` (`client.rs`) is the same table with threads: callers that share a
`BufWriter` behind a mutex (so part of a frame may stay in the buffer and leave with
the next flush), the workers of `batch_json`, the response thread with
`fail_all_pending`, and `Drop` of the last clone. `WebSocketClient` adds the notify
slot (`notify_slot.rs`): a subscription is a numbered channel, and taking the slot,
clearing a stale one and ending it with the connection are the steps the code takes
under its lock; the size check of `websocket_limits.rs` comes before the writer.
`WasmClient` runs on one thread, where what interleaves is callbacks: `stack` and
`borrowed` model a consumer that is woken synchronously inside a callback and comes
back into the client while a `RefCell` may be borrowed.

The servers are external: they answer at most once, in any order or never, push
notifies, send frames that do not decode, stop reading, or close.

| Property | Says |
|---|---|
| `EntriesSound` | no entry of any client outlives its call, none is gone while its waiter needs it, a push with the id of a request in flight is not taken for its answer, and a batch has one result per request in request order, whatever workers panic |
| `SubscriptionsSound` | what a subscription receives is an unbroken run of the pushes, no late clean-up takes its slot, and in the browser a woken consumer may resubscribe on the spot |
| `SubscriberLearns` | a stream ends with its connection, even if the writer is stuck |
| `CallsEnd` | a call whose write has returned ends: with a timeout, when its time is up; without one, when the server is gone, even if it registered while the others were being failed. The response thread ends after the last clone |

Seven scenarios for the WebSocket client, five for the blocking one, four for the
browser and one for the async client: two calls of different kinds each (three in
the batch), at most two subscriptions, three pushes and two clones. Two calls are
enough to collide in the table, on the writer and with the failing loop. A third
push shows a gap in the middle of a run. Writes are fair unless the scenario stalls them.

Two kinds of call hang in the code and are outside `CallsEnd`. One whose write the peer
does not take: timeouts start after the write, and only the blocking client has a write
timeout. And one without a timeout that is made in the browser after the socket closed:
`write_request` still succeeds on a closed socket, and `fail_all_pending` has already run.
The scenarios have both, so that the other calls are checked beside them.

The batch of both threaded clients is checked with workers that panic before they send
and while they decode the answer. A synchronous wake in the browser runs with whatever
borrow its caller holds: `SubscriptionsSound` fails if `unsubscribe` drops the sender while
the slot is borrowed.

## 6. Servers, streams and fleets

**WebSocket server.** `PeerRegistry` is the registry's two tables; each method holds
one mutex and is one action. `WebSocketServer` composes it with the accept loop and
its graceful drain, and for each connection the task that runs the hooks, the
reader, the writer with its bounded queue, and the blocking handlers behind their
semaphore. The n-th request of a connection has id n, pushes have id 0. A peer may
go away, and a stalled one never reads. Five scenarios: two requests at one permit and
a queue of one; a push and a request on a peer that may stall; the same without a
drain; two connections that share the registry and outlive the listener; an adopted
connection. Smaller queues and pools than these do not exist, and larger ones only
delay the moment they are full. Checked: `AliasesInverse`, `RegistryIsLive`, `DisconnectOnce` (hooks run
once, however a connection ends, and before a drain returns), `OneAnswer`,
`PermitsConserved`, `QueuedIsFlushed` (an answer queued before the shutdown signal reaches
a peer that reads, through the biased select and the final drain), `DrainReturns`,
`Answered` (with the permits that come back). Fair are the steps of accept loop, connection, handler threads and
writer, and the end of a send to a peer that is not stalled.

The first five are proved for every set of connections, keys and scenarios, every
capacity, limit and number of requests, with `PeerAssumption` and `ServerAssumption`.
`WebSocketServerTypes` sorts the steps into groups with the same effect (`NextCases`),
shows that they keep the types and what the registry's methods do;
`WebSocketServerLives` has one lemma per group for the life of a connection and for its
answers; `WebSocketServerTheorems` counts permits and concludes. Except for
`AliasesInverse`, none of the properties is inductive. `ServerInv` is made of
- `RegistryInv`: the tables' types and `AliasesInverse`. Each method keeps it
  (`AliasKeeps`, `RemoveKeeps`, `InsertKeeps`); what `Vec::retain` leaves is given by
  where its elements were, so no induction over lists is needed (`RetainFacts`);
- `Handoffs`: a reader in `send` and a writer that sends hold a message, which is how
  the types survive a step that passes it on;
- `LivesInv`: what a task's place says of its id, its place in the registry, its
  hooks and its token (`LifeOf`), that a registered id is some connection's, and no
  two have the same. `RegistryIsLive` and `DisconnectOnce` follow. The id is minted two
  steps before it is registered and kept after it is removed, so neither says enough
  of the steps in between;
- `AnswersInv`: an answer is in one stage at a time (held by the reader, a handler's
  reply, queued, with the writer, on the wire), and requests still running are
  numbered up to `nread` and have none (`BooksIn`). Each step gives a stage at most one
  answer, a new one or one that leaves another stage. `OneAnswer` follows;
- `PermitsInv`: `PermitsConserved` as a sum of cardinalities. A handler that ends turns
  its permit into a reply; that this is not a reply already there is `OneAnswer`.

`QueuedIsFlushed`, `DrainReturns` and `Answered` are liveness and only model-checked.

**Pull streaming.** `ValueStream` is the session table of the router, the producer
threads with their sink and bounded channel, and the `next` and `cancel` handlers that
lock a session. `PullStream` adds the pullers of both clients, from the open request
to the rename of the part file. A body is the numbers 1..n, cut into chunks; a file
is an inode that a writer keeps whatever happens to its name. Scenarios: every kind
of pull without a fault over lengths, chunk sizes and depths; each fault (body, panic,
connection, consumer, part file, rename, digest, a killed process); refusals; a second
client on the same stream, a repeated pull, a dropped future. Checked:
`CommittedComplete` (no truncated file ever has the final name, no pull succeeds with
less than the whole), `ChunksInOrder`, `PullsEnd` (and without a fault they succeed),
`NothingLeft` (sessions, producers and part files; its comment names the three early
returns it excepts). The scenarios repeat a pull of one path after the first has ended,
and drop a future without repeating it; pulls of one path that overlap are in section 9. Fair are the handlers, producers and consumers, and the client's
own steps.

`ChunksInOrder` is proved for any number of pullers, every body length, chunk size and
channel depth, with a second client on the stream and every fault of the model
(`PullsInOrder`); the assumption (`StreamAssumption` of `ValueStream`) is that pullers are
finitely many, that the rival is none of them, that `None` is no caller and no data, and
that chunks have at least one byte. What was handed out does not say what comes next, so the
property is not inductive. `PullInv` is made of
- `Streams`: what was handed out, the chunk held back, the channel and the producer's
  buffer are consecutive stretches of the body; a marker is last in its channel, and
  `End` comes after the whole body (`StreamOK`, `Chain`, `Ahead`). The chunk held back is
  the session's `lookahead` or, while a `next` handler runs, the one in that handler's
  hands (`Hand`), which is where a chunk could be lost or handed out twice;
- `Locks`: a handler between lock and unlock is the holder of its session's lock and of
  no other, and a session that is done has no holder. Two clients on one stream are
  kept apart by this alone;
- `ServerTypes` and `OneRequest`: types, which streams exist and which requests name
  them, and that a puller that reads has no request in flight;
- `Opens`: the ids given out and the pullers that have not opened yet are together no more
  than the pullers. A new stream therefore finds an unused id, by counting.

`StreamOK` is about one stream, so there is one lemma per kind of step on values
(`StreamSends`, `StreamTakes`, `StreamHands`, `StreamEnds` and others) and one per handler
that puts the stream back into the table (`ProducerStepKeeps`, `PullStepKeeps`,
`QuietStepKeeps`). Chunks are compared by position, which needs no induction over
sequences. `PullStreamSteps` has the server's steps, `PullStreamTheorems` opening, the
clients, the faults and the results. Only model-checked: `CommittedComplete`
(it does not hold for every scenario the constants allow: a rival that takes chunks from
under a file pull leaves a file with a gap), and the liveness properties.

**Fleets.** `Fleet` has nodes behind a read-write lock, each with a client behind a lock
of its own, and up to three operations, each with a worker per node it targets:
calls, broadcasts, health checks, reconnects, node changes. Sync and async fleet
differ in what they hold while they wait. Nodes `na` and `nb` are registered; `nc` has
the name of `na`, so that a node can be replaced under a running broadcast. Servers
crash once and restart. `UdpFleet` has the sockets and the ids. Checked:
`OneClientPerNode`, `CallsSound` (`RetryDiscipline`, `ResultPresent`,
`FaultlessSucceeds`, `HealthCheckHeals`), `IdsInOrder` (and an id that was reported was
sent), `OpsEnd`. An operation's own steps are fair; connecting and waiting end, with an error if need
be. A write is not: a server may be *deaf*, accept the connection and not read. The
caller then holds the client's writer mutex (the node's lock has been released, a clone
of the client is used) until the connection ends. `OpsEnd` says that every operation
returns unless one of its own writes, or a write it queues behind, hangs like that; node
changes, disconnects and queries still return.

## 7. The path of a request

The run `requests` covers what happens to a request from bytes to answer. Its
properties join those of the parts: `AddressesAgree` (pointers, mounts, URLs),
`FramesSound`, `RoutingSound`, `StructsSound`, `OwnAnswers` (TCP clients and plugin
hosts), `GatewaySound`, `EffectsContained`, `RequestsEnd`.

- `JsonPointer`: parsing, escaping, canonical keys, mounts, over every string of up to
  four of the five characters that matter and every mount of up to two: `RoundTrips`,
  `FoundByTokens`, `MountTakesItsPaths`, `SegmentsAreTokens`.
- `Message`: builders, all writers, all readers. Bytes carry what they are, so that a
  header is recognised only whole and in its place. `FrameReadsBack`, `AlignedInFrame`;
  `ParseIsSafe` over every header with lengths up to 15.
- `Router`: each registrar is an action, taken in any order; dispatch is an operator on
  the router it leaves, checked against a reference definition that only looks at what
  is registered: `AnswersAsConfigured`, `BlockingStaysOff`, `TransportsAgree`,
  `PeerReaches`.
- `StructDispatch` is what the derive macro and the `methods` attribute generate, under
  both borrows; `ServedStruct` runs it behind the lock of `RegisteredStruct` for
  concurrent requests; `StructCases` holds the types and requests. `AnswersAlike`,
  `RunsOnce`, `BodyWellFormed`, `GuardsFollowAttempts`, `ArgsAlike`, `ListingComplete`,
  `WriteStaysPut`, `PanicIsQuarantined`.
- `TcpServer`: read, dispatch, write and flush of a connection in both servers, with a
  buffer of two pieces and a socket of one, so that a large response fills both:
  `FramesInOrder`, and responses settle if the client reads or a write timeout is set.
- `RestGateway`: paths, verbs, negotiation, conditional requests; and the accept loop
  with one slot or two for two connections, HTTP/1 or HTTP/2: `PathNamesItsKey`,
  `SameAddress`, `AllowIsTrue`, `Revalidation`, `PermitsConserved`, and a backlog that is
  served (with a request timeout, if the connections are HTTP/1 and clients read their
  responses). A function that panics ends its HTTP/1 connection and only its stream of an
  HTTP/2 one; either way the slot is accounted for.
- `Plugin`: the runtime behind the exported symbols (a router built on first use, a
  response buffer per thread that a reentrant call must not overwrite, panics caught,
  shutdown) and the host that loads, initialises and forwards, for two threads that use
  one library: `RootClaims`, `OwnAnswer`, `ServedOnceBuilt`, `BuiltOnce`, and calls that
  return.

JSON and BEVE are external: an encoding of a value reads back as that value and as
nothing else. So are hyper and the system's loader.

## 8. Findings

1. `ack_race` (code). The chunk is sent before `record_sent`, and `record_ack` caps to
   `sent_offset`. An ACK handled in between releases nothing. With a window of one
   chunk no further ACK comes and `wait_for_credit` runs into its deadline. The credit
   part of `stream_progress` shows that a window of twice the largest chunk is enough.
2. `stalled_drain`. `SHUTDOWN_DRAIN_TIMEOUT` bounds the writer's final drain, not a send
   of its main loop. A peer that stops reading holds the connection task there.
3. `abandoned_pull`. Nothing removes the sessions of a connection that is gone: the
   session stays in the table and its producer in `send`.
4. `dead_client`. `is_retryable_error` does not list `BrokenPipe`, which is what a write
   through a client with a dead connection gives. The call is not retried and the dead
   client stays cached until a health check or a disconnect.

## 9. Other disagreements and known limits

Met while modelling; the models follow the code, and no run is devoted to them. Some are
at odds with a document or a comment, others only bound what the properties say.
Where a definition is named in parentheses, TLC finds it violated in the setting
described.

- *Early resume.* `request_resume` (`stream.rs:426`) swaps the peer whether or not the
  producer has noticed the drop; its next chunk then goes through the new peer before
  the ring tail. `docs/streaming.md:7`: "after which the producer replays the ring tail and
  continues." A receiver that drops what it does not expect loses nothing (`NothingLost`),
  one that takes chunks as they come sees a hole. In `wait_for_credit` the same resume
  wakes the producer in vain.
- *Ring sizing.* `push` (`stream.rs:87`) charges wire bytes, the window logical bytes, and both
  default to the same number; `stream.rs:84-86`: "sized so a brief WS drop can replay the
  whole window." (The conclusion of `WindowReplayable` with `RingCapacity = WindowBytes`, `Overhead > 0`.)
- *Watchdog.* `stream.rs:729` compares, releases the lock, then cancels; a resume in between
  is cancelled; `stream.rs:430-431`: "so the watchdog doesn't fire immediately after a long
  disconnect."
- *Late answers.* `async_client.rs:791` matches by id alone and a forwarded request keeps its
  originator's id, so the late response of a timed-out request can answer the next one
  with its id; `docs/client.md:106` says late responses are dropped.
  (`AnswerIsOwn` with `Forwarded` requests.)
- *Stalled writes.* `async_client.rs:605`: `timeout()` wraps the wait for the response, not
  `write_request`; a timed call behind a peer that does not read stays.
  `docs/client.md:106` recommends `*_with_timeout` "for bounded latency". (Under `StallSpec`
  such a call never ends.) The WebSocket client is the same. A fleet's blocking clients
  could have a write timeout, but `ensure_connected` (`fleet.rs:767`) sets none: a write to a
  server that does not read blocks its operation and every later call of that client,
  whatever `NodeConfig::timeout` says.
- *Late browser calls.* A call without a timeout that starts after the socket's `close` event
  registers, writes into a socket that discards it and waits for ever
  (`wasm_client.rs:478-495`); nothing fails the table a second time.
- *Malformed frames.* `websocket_client.rs:693` ends the notify stream;
  `websocket_client.rs:197-198`: "A malformed inbound frame does not end the stream on its
  own."
- *Readonly members.* A write of the whole object (`repe-derive/src/lib.rs:289`) reads into
  readonly members too; `docs/server.md:305`: "*this subtree is not writable*, recursively".
- *Plugin errors.* The runtime's frames for a panic, a shutdown or a failed constructor have
  id 0 and `plugin/host.rs:822` forwards them unchanged, so that the client cannot match
  them; `host.rs:756-759`: "it gets an answer either way."
- *Plugin constructor.* "Runs exactly once" does not hold for a caller that was already
  waiting when the constructor panicked: it runs it again. Two concurrent loads may both
  be `Mapped`, and the one that says `AlreadyResident` may be the one that runs `init`.
- *Plugin root.* `plugin/host.rs:481` accepts the root "/", which `claims`
  (`host.rs:590-599`) strips to what must again begin with "/": such a plugin is handed "/"
  and "//x", but not "/x". `host.rs:457-460` refuses roots "no query could ever match", and
  `host.rs:572` describes a root as "Absolute and free of a trailing separator, or empty".
  `RootClaims` excepts it.
- *Doubled slash.* The REST path "//" below the mount becomes the pointer "/", which the
  registry takes for its root; `rest.rs:1665-1669`: "`//` is a pointer to the empty key
  beneath the mount, not the mount itself". The test's 404 comes from the root being
  unregistered, which it always is. `PathNamesItsKey` excepts it.
- *HTTP/2 slots.* `header_read_timeout` is set on `.http1()` only (`rest.rs:935-940`), and the
  listener serves HTTP/2 too (`rest.rs:862`): an HTTP/2 connection without a request under
  way keeps its slot as long as it stays open. `rest.rs:873-877`: the cap "is only as good as
  the bound on how long one connection can hold its slot, which is
  `RestConfig::request_timeout`".
- *Overlapping pulls.* Pulls into one path share one part file (`temp_sibling`,
  `value_stream.rs:1244-1251`), which each truncates on start and removes on failure. The
  consumer of a dropped future runs on in its blocking thread, so a retry right after the
  drop overlaps with it and may commit a file with a hole. (`CommittedComplete` with two
  pulls of one path, the first dropped.) No document says that pulls of a path may overlap.
- *Pointers.* `with_segments("/")` is one empty token where `json_pointer::parse` has none;
  `canonical` spells the root "/" also for ""; `RegisteredStruct::new` does not strip a
  trailing separator, `Registry` mounts do.
- *Servers.* `Server::stop` cannot be called while `serve` runs; `AsyncServer` drops the
  result of a write that timed out (`async_server.rs:89-93`); the REST gateway never gives up
  accepting although `rest.rs:1032` mentions a limit, its request timeout does not cover a
  slow reader of the response, and `max_connections = 0` never serves.
- *Structs.* A lock poisoned by a panic answers `ParseError` from then on; tokio and
  parking_lot locks do not poison, and what the panic left there is served
  (`PanicIsQuarantined` is about the std locks). A hand-written child that promises through
  `repe_listing_declines` not to decline and then does has its getters run twice, as
  `repe-core/src/structs.rs:422-426` says (`RunsOnce` is about derived types).
- *Fleets.* `FleetOptions::default_timeout` (`docs/fleet.md:13`) is validated and never used.

## 10. What is proved and what is only checked

Proved with TLAPS for every value of the constants, under the named assumptions:
flow control, ring, wakeups and the refinement of push streaming (section 3), the
pending table of the async client (section 4), registry, hooks, answers and permits of
the WebSocket server and the order of the chunks of pull streaming (section 6). Everything else is checked by TLC on the instances described. Outside the
prover: every liveness property (fairness and `ENABLED`), and the pure operators of
`requests` and other recursive definitions, which need induction over data. The other
clients and the fleets have safety invariants of the same kind as those proved; for
them there is no proof yet.

Every property of a passing run has a mutant in the index: a definition changed the
way a plausible bug would, under which TLC reports that property.

## 11. Not modelled

- The command line (`bin/repe.rs`): one blocking call between parsing and printing.
- `constants.rs`, `error.rs`, `lib.rs`: enumerations, conversions and re-exports. The one
  conversion a property depends on, `to_error_code`, is in `Router`.
- How the macros of `repe-derive` parse their input and report errors at compile time;
  what they generate is modelled.
- JSON, BEVE and zstd as encodings; TLS and the HTTP upgrade (one step that succeeds or
  fails); hyper, tungstenite, uniudp and the dynamic loader.
- `proxy_connection`: a sequential loop of `forward_message`, which `AsyncClient` has,
  and `frame_outbound`, which `WebSocketServer` has.
- Values inside a registered JSON value; a registry is modelled by its functions.
- Several transfers in one `TransferRegistry`: they share a map and nothing else.
- A `Full` outbound queue in a transfer's producer, which the documentation leaves to the
  application.
- Concurrent streams of one HTTP/2 connection: its requests are taken one at a time.
- Pulls of one path that overlap (section 9).
