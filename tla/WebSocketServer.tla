--------------------------- MODULE WebSocketServer ---------------------------
(***************************************************************************)
(* The WebSocket server (src/websocket_server.rs): the accept loop with    *)
(* its graceful drain, and per connection the connection task with its     *)
(* reader, the writer task, the handlers on blocking threads, and the      *)
(* hooks that keep the PeerRegistry.                                       *)
(*                                                                         *)
(* The n-th request a connection reads has id n; id 0 is a notify pushed   *)
(* by the server.  What a peer sends, whether it reads, and how handlers   *)
(* end are external.                                                       *)
(***************************************************************************)
EXTENDS PeerRegistry, FiniteSets

CONSTANTS
    Conns,              \* connections
    Scenarios,          \* how the server is used and what may arrive
    outbound_capacity,
    offreader_limit,    \* 0: no semaphore
    MaxRequests         \* bound: requests a connection reads in any scenario

(***************************************************************************)
(* A scenario: the connections that arrive; those the embedder serves with *)
(* a serve_connection method rather than an accept loop; those served with *)
(* their captured handshake, and those whose token is a child of the       *)
(* ShutdownToken; those whose peer may stop reading for ever, or read too  *)
(* slowly for the writer's last drain; whether the loop is                 *)
(* serve_with_graceful_drain or serve_with_shutdown; and two bounds, the   *)
(* requests read and the notifies that handlers and broadcasts start.      *)
(***************************************************************************)
Scenario == [conns : SUBSET Conns, adopted : SUBSET Conns, captured : SUBSET Conns,
             child : SUBSET Conns, stalled : SUBSET Conns, graceful : BOOLEAN,
             requests : 0 .. MaxRequests, pushes : Nat]

Requests == 1 .. MaxRequests
Msg == [id : 0 .. MaxRequests, code : {"ok", "big", "InternalError", "ResourceExhausted", "hello"}]

ASSUME ServerAssumption ==
    /\ MaxRequests \in Nat
    /\ None \notin Msg
    /\ Scenarios \subseteq Scenario
    /\ outbound_capacity \in Nat \ {0}
    /\ offreader_limit \in Nat

VARIABLES
    scenario,  \* the one under way
    srv,       \* the accept loop
    parent,    \* the ShutdownToken, of the drain or the embedder, is cancelled
    task,      \* connection task, see TaskStates
    ending,    \* how the task leaves its reader
    peer_id,   \* id minted for the connection, or None
    token,     \* the connection's CancellationToken is cancelled
    nread,     \* requests read
    expects,   \* ids read that are not notifies
    held,      \* response the reader is sending, or None
    outbound,  \* messages in the bounded channel
    writer,    \* writer task, see WriterStates
    wmsg,      \* message the writer is sending, or None
    shutdown,  \* the writer's oneshot: sent, or its sender dropped
    aborted,   \* AbortOnDrop has aborted the writer
    permits,   \* free permits of the off-reader semaphore
    running,   \* off-reader requests whose handler runs
    replies,   \* responses off-reader threads are sending
    gone,      \* the peer's end is closed
    wire,      \* messages that reached the peer
    hooks,     \* times the disconnect hooks ran
    pushes,    \* pushes started
    cast       \* connections a broadcast has yet to serve

connVars == <<task, ending, peer_id, token, nread, expects, held>>
writerVars == <<writer, wmsg, shutdown, aborted, wire>>
offVars == <<permits, running, replies>>
pushVars == <<pushes, cast>>
vars == <<registryVars, scenario, srv, parent, connVars, outbound, writerVars, offVars, gone, hooks,
          pushVars>>

Response(n, code) == [id |-> n, code |-> code]
Notify(code) == [id |-> 0, code |-> code]

TaskStates == {"none", "handshake", "upgraded", "connect", "hello", "handshake_hooks", "read", "send",
               "leaving", "join", "done"}
WriterStates == {"none", "recv", "sending", "drain", "drain_send", "closing", "exited"}
Endings == {"exit", "panic", "abort"}

ServerTypeOK ==
    /\ scenario \in Scenarios
    /\ srv \in {"accepting", "draining", "aborting", "returned"}
    /\ parent \in BOOLEAN
    /\ task \in [Conns -> TaskStates]
    /\ ending \in [Conns -> Endings]
    /\ peer_id \in [Conns -> PeerIds \cup {None}]
    /\ token \in [Conns -> BOOLEAN]
    /\ nread \in [Conns -> 0 .. MaxRequests]
    /\ expects \in [Conns -> SUBSET Requests]
    /\ held \in [Conns -> Msg \cup {None}]
    /\ outbound \in [Conns -> Seq(Msg)]
    /\ \A c \in Conns : Len(outbound[c]) <= outbound_capacity
    /\ writer \in [Conns -> WriterStates]
    /\ wmsg \in [Conns -> Msg \cup {None}]
    /\ shutdown \in [Conns -> BOOLEAN]
    /\ aborted \in [Conns -> BOOLEAN]
    /\ permits \in [Conns -> Nat]
    /\ running \in [Conns -> SUBSET Requests]
    /\ replies \in [Conns -> SUBSET Msg]
    /\ gone \in [Conns -> BOOLEAN]
    /\ wire \in [Conns -> Seq(Msg)]
    /\ hooks \in [Conns -> Nat]
    /\ pushes \in 0 .. scenario.pushes
    /\ cast \subseteq Conns

\* Types of the server's state and its registry's; no semaphore has more
\* permits than it started with.
TypeOK ==
    /\ RegistryTypeOK
    /\ ServerTypeOK
    /\ \A c \in Conns : permits[c] <= offreader_limit

Init ==
    /\ RegistryInit
    /\ scenario \in Scenarios
    /\ srv = "accepting"
    /\ parent = FALSE
    /\ task = [c \in Conns |-> "none"]
    /\ ending = [c \in Conns |-> "exit"]
    /\ peer_id = [c \in Conns |-> None]
    /\ held = [c \in Conns |-> None]
    /\ wmsg = [c \in Conns |-> None]
    /\ token = [c \in Conns |-> FALSE]
    /\ shutdown = [c \in Conns |-> FALSE]
    /\ aborted = [c \in Conns |-> FALSE]
    /\ gone = [c \in Conns |-> FALSE]
    /\ nread = [c \in Conns |-> 0]
    /\ hooks = [c \in Conns |-> 0]
    /\ expects = [c \in Conns |-> {}]
    /\ running = [c \in Conns |-> {}]
    /\ replies = [c \in Conns |-> {}]
    /\ outbound = [c \in Conns |-> <<>>]
    /\ wire = [c \in Conns |-> <<>>]
    /\ writer = [c \in Conns |-> "none"]
    /\ permits = [c \in Conns |-> offreader_limit]
    /\ pushes = 0
    /\ cast = {}

-----------------------------------------------------------------------------
(* The outbound channel: send waits for room, try_send does not, and both  *)
(* fail once the writer has dropped the receiver.                          *)

is_closed(c) == writer[c] \in {"none", "exited"}
HasRoom(c) == ~is_closed(c) /\ Len(outbound[c]) < outbound_capacity

send_notify(c, m) ==
    outbound' = IF HasRoom(c) THEN [outbound EXCEPT ![c] = Append(@, m)] ELSE outbound

InLoop(c) == c \notin scenario.adopted
is_cancelled(c) == token[c] \/ (parent /\ c \in scenario.child)
Hooking(c) == task[c] \in {"connect", "hello", "handshake_hooks"}
Reading(c) == task[c] \in {"read", "send"}

(* The task, the registry, a thread and a broadcast hold a sender each. *)
HasSender(c) ==
    \/ Hooking(c) \/ Reading(c)
    \/ peer_id[c] \in peers
    \/ running[c] # {} \/ replies[c] # {}
    \/ c \in cast

-----------------------------------------------------------------------------
(* The accept loops. *)

GoTo(c, state) == task' = [task EXCEPT ![c] = state]

Accept(c) ==
    /\ c \in scenario.conns
    /\ task[c] = "none"
    /\ InLoop(c) => srv = "accepting"
    /\ GoTo(c, "handshake")
    /\ UNCHANGED <<registryVars, scenario, srv, parent, ending, peer_id, token, nread, expects, held,
                   outbound, writerVars, offVars, gone, hooks, pushVars>>

(* Another HTTP stack has answered the upgrade. *)
adopt_upgraded(c) ==
    /\ c \in scenario.conns \cap scenario.adopted
    /\ task[c] = "none"
    /\ GoTo(c, "upgraded")
    /\ UNCHANGED <<registryVars, scenario, srv, parent, ending, peer_id, token, nread, expects,
                   held, outbound, writerVars, offVars, gone, hooks, pushVars>>

accept_repe_websocket(c) ==
    /\ task[c] = "handshake"
    /\ \E ok \in BOOLEAN : GoTo(c, IF ok THEN "upgraded" ELSE "done")
    /\ UNCHANGED <<registryVars, scenario, srv, parent, ending, peer_id, token, nread, expects,
                   held, outbound, writerVars, offVars, gone, hooks, pushVars>>

(* An embedder with its own accept loop cancels its ShutdownToken. *)
CancelShutdownToken ==
    /\ scenario.adopted \cap scenario.child # {}
    /\ ~parent
    /\ parent' = TRUE
    /\ UNCHANGED <<registryVars, scenario, srv, connVars, outbound, writerVars, offVars, gone,
                   hooks, pushVars>>

(* serve_listener_with_shutdown returns at once and detaches its tasks. *)
Shutdown ==
    /\ srv = "accepting"
    /\ parent' = (parent \/ scenario.graceful)
    /\ srv' = IF scenario.graceful THEN "draining" ELSE "returned"
    /\ UNCHANGED <<registryVars, scenario, connVars, outbound, writerVars, offVars, gone, hooks, pushVars>>

AllJoined == \A c \in Conns : InLoop(c) => task[c] \in {"none", "done"}

DrainDeadline ==
    /\ srv = "draining"
    /\ ~AllJoined
    /\ srv' = "aborting"
    /\ UNCHANGED <<registryVars, scenario, parent, connVars, outbound, writerVars, offVars, gone, hooks,
                   pushVars>>

DrainEnds ==
    /\ srv \in {"draining", "aborting"}
    /\ AllJoined
    /\ srv' = "returned"
    /\ UNCHANGED <<registryVars, scenario, parent, connVars, outbound, writerVars, offVars, gone, hooks,
                   pushVars>>

-----------------------------------------------------------------------------
(* The connection task: it mints the id, spawns the writer and builds the  *)
(* disconnect guard, then runs the connect hooks, then reads.              *)

handle_connection_with_config(c) ==
    /\ task[c] = "upgraded"
    /\ next_id < MaxPeer
    /\ GoTo(c, "connect")
    /\ peer_id' = [peer_id EXCEPT ![c] = next_id]
    /\ next_peer_id
    /\ writer' = [writer EXCEPT ![c] = "recv"]
    /\ UNCHANGED <<peers, aliases, alias_index, scenario, srv, parent, ending, token, nread, expects,
                   held, outbound, wmsg, shutdown, aborted, wire, offVars, gone, hooks,
                   pushVars>>

(* The hook with_peer_registry installs. *)
RegistryHook(c) ==
    /\ task[c] = "connect"
    /\ insert(peer_id[c])
    /\ GoTo(c, "hello")
    /\ UNCHANGED <<next_id, aliases, alias_index, scenario, srv, parent, ending, peer_id, token, nread,
                   expects, held, outbound, writerVars, offVars, gone, hooks, pushVars>>

(* A hook that greets the peer. *)
on_peer_connect(c) ==
    /\ task[c] = "hello"
    /\ send_notify(c, Notify("hello"))
    /\ GoTo(c, IF c \in scenario.captured THEN "handshake_hooks" ELSE "read")
    /\ UNCHANGED <<registryVars, scenario, srv, parent, ending, peer_id, token, nread, expects, held,
                   writerVars, offVars, gone, hooks, pushVars>>

(* A hook that names the peer after its upgrade request. *)
on_peer_connect_with_handshake(c) ==
    /\ task[c] = "handshake_hooks"
    /\ \E k \in Keys : alias(peer_id[c], k)
    /\ GoTo(c, "read")
    /\ UNCHANGED <<scenario, srv, parent, ending, peer_id, token, nread, expects, held, outbound,
                   writerVars, offVars, gone, hooks, pushVars>>

(* Every exit from the guarded block drops the guard: it cancels first. *)
Leave(c, how) ==
    /\ GoTo(c, "leaving")
    /\ ending' = [ending EXCEPT ![c] = how]
    /\ token' = [token EXCEPT ![c] = TRUE]
    /\ held' = [held EXCEPT ![c] = None]
    /\ UNCHANGED <<registryVars, scenario, srv, parent, peer_id, nread, expects, outbound, writerVars,
                   offVars, gone, hooks, pushVars>>

PanicLosesGuard(c) ==
    /\ Hooking(c) \/ task[c] = "read"
    /\ GoTo(c, "done")
    /\ ending' = [ending EXCEPT ![c] = "panic"]
    /\ aborted' = [aborted EXCEPT ![c] = TRUE]
    /\ UNCHANGED <<registryVars, scenario, srv, parent, peer_id, token, nread, expects, held, outbound,
                   writer, wmsg, shutdown, wire, offVars, gone, hooks, pushVars>>

(* A connect hook or an inline handler unwinds the task. *)
TaskPanics(c) == (Hooking(c) \/ task[c] = "read") /\ Leave(c, "panic")

Frames == {"binary", "ping", "text", "close"}

decode_request_payload(frame) ==
    CASE frame = "binary" -> "bytes"
      [] frame = "ping" -> "continue"
      [] frame = "close" -> "close"
      [] OTHER -> "error"

(* End of stream, a transport error, or a frame that is not a request. *)
StreamEnds(c) ==
    /\ task[c] = "read"
    /\ \/ Leave(c, "exit")
       \/ \E frame \in Frames :
             decode_request_payload(frame) \in {"close", "error"} /\ Leave(c, "exit")

(* The select's other arm, or a send to a writer that has exited. *)
ReaderCancelled(c) ==
    /\ Reading(c)
    /\ is_cancelled(c) \/ (task[c] = "send" /\ is_closed(c))
    /\ Leave(c, "exit")

(* The task holds its writer in a guard that aborts it unless awaited. *)
AbortOnDrop(c, dropped) == aborted' = [aborted EXCEPT ![c] = dropped]

GuardSkipsHooksOnAbort(c) ==
    /\ task[c] = "leaving"
    /\ IF ending[c] = "abort"
       THEN UNCHANGED <<peers, aliases, alias_index, hooks>>
       ELSE remove(peer_id[c]) /\ hooks' = [hooks EXCEPT ![c] = @ + 1]
    /\ GoTo(c, IF ending[c] = "exit" THEN "join" ELSE "done")
    /\ shutdown' = [shutdown EXCEPT ![c] = TRUE]
    /\ AbortOnDrop(c, ending[c] # "exit")
    /\ UNCHANGED <<next_id, scenario, srv, parent, ending, peer_id, token, nread, expects, held, outbound,
                   writer, wmsg, wire, offVars, gone, pushVars>>

(* The guard's hooks run, then the writer is told to drain, or aborted.    *)
DisconnectGuard(c) ==
    /\ task[c] = "leaving"
    /\ remove(peer_id[c])
    /\ hooks' = [hooks EXCEPT ![c] = @ + 1]
    /\ GoTo(c, IF ending[c] = "exit" THEN "join" ELSE "done")
    /\ shutdown' = [shutdown EXCEPT ![c] = TRUE]
    /\ AbortOnDrop(c, ending[c] # "exit")
    /\ UNCHANGED <<next_id, scenario, srv, parent, ending, peer_id, token, nread, expects, held, outbound,
                   writer, wmsg, wire, offVars, gone, pushVars>>

WriterJoined(c) ==
    /\ task[c] = "join"
    /\ writer[c] = "exited"
    /\ GoTo(c, "done")
    /\ UNCHANGED <<registryVars, scenario, srv, parent, ending, peer_id, token, nread, expects, held,
                   outbound, writerVars, offVars, gone, hooks, pushVars>>

AbortSparesJoin(c) == srv = "aborting" /\ InLoop(c) /\ Reading(c) /\ Leave(c, "abort")

(* JoinSet::shutdown: a straggler is dropped at its await point. *)
AbortStraggler(c) ==
    /\ srv = "aborting"
    /\ InLoop(c)
    /\ \/ Reading(c) /\ Leave(c, "abort")
       \/ /\ task[c] \in {"handshake", "join"}
          /\ GoTo(c, "done")
          /\ AbortOnDrop(c, task[c] = "join")
          /\ UNCHANGED <<registryVars, scenario, srv, parent, ending, peer_id, token, nread, expects,
                         held, outbound, writer, wmsg, shutdown, wire, offVars, gone, hooks,
                         pushVars>>

-----------------------------------------------------------------------------
(* The reader.  It answers rejects, saturation and inline handlers through *)
(* the outbound channel, and waits there when the channel is full.         *)

Read(c, notify) ==
    /\ task[c] = "read"
    /\ nread[c] < scenario.requests
    /\ nread' = [nread EXCEPT ![c] = @ + 1]
    /\ expects' = IF notify THEN expects ELSE [expects EXCEPT ![c] = @ \cup {nread'[c]}]

(* Answer request nread'[c] unless it is a notify. *)
Answer(c, notify, code) ==
    IF notify THEN UNCHANGED <<task, held>>
    ELSE GoTo(c, "send") /\ held' = [held EXCEPT ![c] = Response(nread'[c], code)]

AnswersNotifies(c, notify) ==
    /\ Read(c, notify)
    /\ \E code \in {"ok", "big"} : Answer(c, FALSE, code)
    /\ UNCHANGED <<registryVars, scenario, srv, parent, ending, peer_id, token, outbound, writerVars,
                   offVars, gone, hooks, pushVars>>

(* A reject, or an inline handler: it runs on the reader. *)
ReadInline(c, notify) ==
    /\ Read(c, notify)
    /\ \E code \in {"ok", "big"} : Answer(c, notify, code)
    /\ UNCHANGED <<registryVars, scenario, srv, parent, ending, peer_id, token, outbound, writerVars,
                   offVars, gone, hooks, pushVars>>

try_acquire(c) == offreader_limit = 0 \/ permits[c] > 0

SaturationDrops(c, notify) ==
    /\ Read(c, notify)
    /\ IF try_acquire(c)
       THEN /\ permits' = IF offreader_limit = 0 THEN permits ELSE [permits EXCEPT ![c] = @ - 1]
            /\ running' = [running EXCEPT ![c] = @ \cup {nread'[c]}]
       ELSE UNCHANGED <<permits, running>>
    /\ UNCHANGED <<registryVars, scenario, srv, parent, task, ending, peer_id, token, held,
                   outbound, writerVars, replies, gone, hooks, pushVars>>

spawn_off_reader(c, notify) ==
    /\ Read(c, notify)
    /\ IF try_acquire(c)
       THEN /\ permits' = IF offreader_limit = 0 THEN permits ELSE [permits EXCEPT ![c] = @ - 1]
            /\ running' = [running EXCEPT ![c] = @ \cup {nread'[c]}]
            /\ UNCHANGED <<task, held>>
       ELSE /\ Answer(c, notify, "ResourceExhausted")
            /\ UNCHANGED <<permits, running>>
    /\ UNCHANGED <<registryVars, scenario, srv, parent, ending, peer_id, token, outbound, writerVars,
                   replies, gone, hooks, pushVars>>

ReaderSends(c) ==
    /\ task[c] = "send"
    /\ HasRoom(c)
    /\ outbound' = [outbound EXCEPT ![c] = Append(@, held[c])]
    /\ held' = [held EXCEPT ![c] = None]
    /\ GoTo(c, "read")
    /\ UNCHANGED <<registryVars, scenario, srv, parent, ending, peer_id, token, nread, expects,
                   writerVars, offVars, gone, hooks, pushVars>>

-----------------------------------------------------------------------------
(* Handlers on blocking threads.  They outlive the connection.             *)

ReleasePermit(c) ==
    permits' = IF offreader_limit = 0 THEN permits ELSE [permits EXCEPT ![c] = @ + 1]

PanicLeaksPermit(c, n) ==
    /\ n \in running[c]
    /\ running' = [running EXCEPT ![c] = @ \ {n}]
    /\ IF n \in expects[c]
       THEN \E code \in {"ok", "big", "InternalError"} :
               replies' = [replies EXCEPT ![c] = @ \cup {Response(n, code)}]
       ELSE UNCHANGED replies
    /\ UNCHANGED <<registryVars, scenario, srv, parent, connVars, outbound, writerVars, gone, hooks,
                   pushVars, permits>>

HandlerEnds(c, n) ==
    /\ n \in running[c]
    /\ running' = [running EXCEPT ![c] = @ \ {n}]
    /\ IF n \in expects[c]
       THEN /\ \E code \in {"ok", "big", "InternalError"} :
                  replies' = [replies EXCEPT ![c] = @ \cup {Response(n, code)}]
            /\ UNCHANGED permits
       ELSE ReleasePermit(c) /\ UNCHANGED replies
    /\ UNCHANGED <<registryVars, scenario, srv, parent, connVars, outbound, writerVars, gone, hooks,
                   pushVars>>

(* blocking_send waits for room and fails once the receiver is dropped. *)
HandlerReplies(c, m) ==
    /\ m \in replies[c]
    /\ HasRoom(c) \/ is_closed(c)
    /\ send_notify(c, m)
    /\ replies' = [replies EXCEPT ![c] = @ \ {m}]
    /\ ReleasePermit(c)
    /\ UNCHANGED <<registryVars, scenario, srv, parent, connVars, writerVars, running, gone, hooks,
                   pushVars>>

(* A running handler pushes to its caller, or renames it. *)
HandlerPushes(c) ==
    /\ running[c] # {}
    /\ pushes < scenario.pushes
    /\ pushes' = pushes + 1
    /\ \E code \in {"ok", "big"} : send_notify(c, Notify(code))
    /\ UNCHANGED <<registryVars, scenario, srv, parent, connVars, writerVars, offVars, gone, hooks, cast>>

HandlerAliases(c) ==
    /\ running[c] # {}
    /\ \E k \in Keys : alias(peer_id[c], k)
    /\ UNCHANGED <<scenario, srv, parent, connVars, outbound, writerVars, offVars, gone, hooks, pushVars>>

(* A broadcast snapshots the handles under the lock, then sends to each.   *)
broadcast_each ==
    /\ cast = {}
    /\ pushes < scenario.pushes
    /\ pushes' = pushes + 1
    /\ cast' = {c \in Conns : peer_id[c] \in peers}
    /\ UNCHANGED <<registryVars, scenario, srv, parent, connVars, outbound, writerVars, offVars, gone,
                   hooks>>

BroadcastTo(c) ==
    /\ c \in cast
    /\ cast' = cast \ {c}
    /\ send_notify(c, Notify("ok"))
    /\ UNCHANGED <<registryVars, scenario, srv, parent, connVars, writerVars, offVars, gone, hooks, pushes>>

-----------------------------------------------------------------------------
(* The writer task. *)

(* What goes on the wire for m, or None: an oversized response becomes an  *)
(* error with its id, an oversized notify is dropped.                      *)
frame_outbound(m) ==
    IF m.code # "big" THEN m
    ELSE IF m.id = 0 THEN None
    ELSE Response(m.id, "InternalError")

WriterMoves(c, state) == writer' = [writer EXCEPT ![c] = state]

(* Take the head of the channel; with nothing to send, stay in this loop.  *)
TakeFrom(c, sending) ==
    LET framed == frame_outbound(Head(outbound[c]))
    IN  /\ outbound[c] # <<>>
        /\ outbound' = [outbound EXCEPT ![c] = Tail(@)]
        /\ wmsg' = [wmsg EXCEPT ![c] = framed]
        /\ IF framed = None THEN UNCHANGED writer ELSE WriterMoves(c, sending)
        /\ UNCHANGED <<registryVars, scenario, srv, parent, connVars, shutdown, aborted, wire, offVars,
                       gone, hooks, pushVars>>

Recv(c) == writer[c] = "recv" /\ TakeFrom(c, "sending")
TryRecv(c) == writer[c] = "drain" /\ TakeFrom(c, "drain_send")

WriterStops(c, state) ==
    /\ WriterMoves(c, state)
    /\ wmsg' = [wmsg EXCEPT ![c] = None]
    /\ UNCHANGED <<registryVars, scenario, srv, parent, connVars, outbound, shutdown, aborted, wire,
                   offVars, gone, hooks, pushVars>>

(* recv returns None: nothing is queued and nobody is left to queue it. *)
ChannelOver(c) == outbound[c] = <<>> /\ ~HasSender(c)

ShutdownSkipsDrain(c) ==
    writer[c] = "recv" /\ (ChannelOver(c) \/ shutdown[c]) /\ WriterStops(c, "closing")

(* recv is polled before the shutdown signal, but a message may be queued  *)
(* after the one poll and before the other.                                *)
RecvYields(c) ==
    /\ writer[c] = "recv"
    /\ \/ ChannelOver(c) /\ WriterStops(c, "closing")
       \/ ~ChannelOver(c) /\ shutdown[c] /\ WriterStops(c, "drain")

DrainedQueue(c) == writer[c] = "drain" /\ outbound[c] = <<>> /\ WriterStops(c, "closing")

(* A send completes; to a closed peer it may still look as if it had. *)
Sent(c) ==
    /\ writer[c] \in {"sending", "drain_send"}
    /\ wire' = IF gone[c] THEN wire ELSE [wire EXCEPT ![c] = Append(@, wmsg[c])]
    /\ WriterMoves(c, IF writer[c] = "sending" THEN "recv" ELSE "drain")
    /\ wmsg' = [wmsg EXCEPT ![c] = None]
    /\ UNCHANGED <<registryVars, scenario, srv, parent, connVars, outbound, shutdown, aborted, offVars,
                   gone, hooks, pushVars>>

SendFails(c) ==
    /\ writer[c] \in {"sending", "drain_send"}
    /\ gone[c]
    /\ WriterStops(c, "closing")

(* SHUTDOWN_DRAIN_TIMEOUT bounds the drain's sends and the closing ones.   *)
SendTimesOut(c) ==
    c \in scenario.stalled /\ writer[c] = "drain_send" /\ WriterStops(c, "closing")

WriterExits(c) ==
    /\ writer[c] = "closing" \/ (aborted[c] /\ ~is_closed(c))
    /\ WriterMoves(c, "exited")
    /\ wmsg' = [wmsg EXCEPT ![c] = None]
    /\ outbound' = [outbound EXCEPT ![c] = <<>>]
    /\ UNCHANGED <<registryVars, scenario, srv, parent, connVars, shutdown, aborted, wire, offVars, gone,
                   hooks, pushVars>>

PeerGone(c) ==
    /\ ~is_closed(c)
    /\ ~gone[c]
    /\ gone' = [gone EXCEPT ![c] = TRUE]
    /\ UNCHANGED <<registryVars, scenario, srv, parent, connVars, outbound, writerVars, offVars, hooks,
                   pushVars>>

-----------------------------------------------------------------------------
ConnectionStep(c) ==
    \/ handle_connection_with_config(c)
    \/ RegistryHook(c) \/ on_peer_connect(c) \/ on_peer_connect_with_handshake(c)
    \/ ReaderSends(c) \/ ReaderCancelled(c) \/ AbortStraggler(c)
    \/ DisconnectGuard(c) \/ WriterJoined(c)

ThreadStep(c) ==
    \/ \E n \in Requests : HandlerEnds(c, n)
    \/ \E m \in replies[c] : HandlerReplies(c, m)
    \/ BroadcastTo(c)

WriterStep(c) ==
    Recv(c) \/ TryRecv(c) \/ RecvYields(c) \/ DrainedQueue(c) \/ SendTimesOut(c) \/ WriterExits(c)

ServerStep == DrainDeadline \/ DrainEnds

(* Steps the code's callers, peers and handlers choose to take. *)
Environment ==
    \/ Shutdown \/ CancelShutdownToken \/ broadcast_each
    \/ \E c \in Conns :
          \/ Accept(c) \/ adopt_upgraded(c) \/ accept_repe_websocket(c)
          \/ StreamEnds(c) \/ TaskPanics(c) \/ PeerGone(c)
          \/ HandlerPushes(c) \/ HandlerAliases(c)
          \/ \E notify \in BOOLEAN : ReadInline(c, notify) \/ spawn_off_reader(c, notify)

Next ==
    \/ ServerStep \/ Environment
    \/ \E c \in Conns :
          \/ ConnectionStep(c) \/ ThreadStep(c) \/ WriterStep(c)
          \/ Sent(c) \/ SendFails(c)

(***************************************************************************)
(* The runtime runs every ready task and thread, handlers end, and a send  *)
(* ends unless the peer is one that stalls with its connection open.       *)
(***************************************************************************)
Fairness ==
    /\ WF_vars(ServerStep)
    /\ \A c \in Conns :
          /\ WF_vars(ConnectionStep(c))
          /\ WF_vars(ThreadStep(c))
          /\ WF_vars(WriterStep(c))
          /\ WF_vars((c \in scenario.stalled => gone[c]) /\ (Sent(c) \/ SendFails(c)))

Spec == Init /\ [][Next]_vars /\ Fairness

-----------------------------------------------------------------------------
(***************************************************************************)
(* The disconnect hooks run once for every connection that was given an    *)
(* id, however it ends: end of stream, cancellation, a panic in a hook or  *)
(* handler, or the drain's abort (DisconnectGuard); they run with the      *)
(* token already cancelled; and when a graceful drain returns they have    *)
(* run for every connection its loop accepted, those it aborted included   *)
(* (serve_listener_with_graceful_drain).                                   *)
(***************************************************************************)
DisconnectOnce ==
    \A c \in Conns :
        /\ task[c] = "done" /\ peer_id[c] # None => hooks[c] = 1
        /\ hooks[c] = 1 => token[c] /\ task[c] \in {"join", "done"}
        /\ hooks[c] <= 1
        /\ srv = "returned" /\ scenario.graceful /\ InLoop(c) => task[c] \in {"none", "done"}

(***************************************************************************)
(* A registered peer has a live connection task and an id of its own, and  *)
(* no peer outlives its connection in the registry (with_peer_registry).   *)
(***************************************************************************)
RegistryIsLive ==
    /\ \A p \in peers : \E c \in Conns :
          peer_id[c] = p /\ task[c] \notin {"none", "handshake", "upgraded", "join", "done"}
    /\ \A c, d \in Conns : c # d /\ peer_id[c] # None => peer_id[c] # peer_id[d]

(* The requests that messages answer; a push answers none. *)
Answers(msgs) == {m.id : m \in msgs} \ {0}

Stages == {"replies", "held", "outbound", "wmsg", "wire"}

(* What is answered by the messages of c in each stage on the way to the   *)
(* peer, the last being the peer itself.                                   *)
AnswersAt(c) ==
    [stage \in Stages |->
        CASE stage = "replies"  -> Answers(replies[c])
          [] stage = "held"     -> Answers({held[c]} \ {None})
          [] stage = "outbound" -> Answers(Range(outbound[c]))
          [] stage = "wmsg"     -> Answers({wmsg[c]} \ {None})
          [] stage = "wire"     -> Answers(Range(wire[c]))]

(* Two messages of a queue answer two requests. *)
NoneTwice(msgs) ==
    \A i, j \in 1 .. Len(msgs) : msgs[i].id = msgs[j].id /\ msgs[i].id # 0 => i = j

(***************************************************************************)
(* No request is answered twice, no notify is answered, and no answer      *)
(* leaves before its handler is done, whichever of the reader, a blocking  *)
(* thread and the size guard of frame_outbound makes the response          *)
(* (reader_task, spawn_off_reader).                                        *)
(***************************************************************************)
OneAnswer ==
    \A c \in Conns :
        /\ \A s \in Stages : AnswersAt(c)[s] \subseteq expects[c] \ running[c]
        /\ \A s, t \in Stages : s # t => AnswersAt(c)[s] \cap AnswersAt(c)[t] = {}
        /\ NoneTwice(outbound[c]) /\ NoneTwice(wire[c])
        /\ \A m, n \in replies[c] : m.id = n.id => m = n

(***************************************************************************)
(* A permit is held by each handler and each thread still sending its      *)
(* response, and by nothing else (the semaphore of spawn_off_reader).      *)
(***************************************************************************)
PermitsConserved ==
    \A c \in Conns : offreader_limit > 0 =>
        permits[c] + Cardinality(running[c]) + Cardinality(replies[c]) = offreader_limit

(* The answers queued for the peer, the one being sent included. *)
Queued(c) == AnswersAt(c)["outbound"] \cup AnswersAt(c)["wmsg"]

(***************************************************************************)
(* What was queued before the connection winds down is flushed: an answer  *)
(* in the channel when the writer has not been told to stop yet reaches a  *)
(* peer that reads in time, whatever ends the reader, unless the peer goes *)
(* away or the writer is aborted (writer_task, AbortOnDrop).  Messages     *)
(* queued later may be discarded: "Sends that arrive after we break are    *)
(* discarded when outbound_rx drops."                                      *)
(***************************************************************************)
Flushed(c) ==
    \A n \in Requests :
        n \in Queued(c) /\ ~shutdown[c] /\ c \notin scenario.stalled
            ~> n \in AnswersAt(c)["wire"] \/ gone[c] \/ aborted[c]

(***************************************************************************)
(* The graceful drain returns, even with a peer that never reads.          *)
(***************************************************************************)
DrainReturns == srv = "draining" ~> srv = "returned"

(***************************************************************************)
(* Time and again every request read so far is answered, or its connection *)
(* is ending: a saturated off-reader pool or a full outbound queue never   *)
(* stops the reader for good (spawn_off_reader, reader_task).  And once a  *)
(* connection is over every permit comes back: no thread stays blocked in  *)
(* blocking_send to a writer that is gone.                                 *)
(***************************************************************************)
Answered ==
    []<>(\A c \in Conns :
           /\ \/ expects[c] \subseteq AnswersAt(c)["wire"]
              \/ c \in scenario.stalled \/ gone[c] \/ task[c] \in {"leaving", "join", "done"}
           /\ task[c] = "done" => permits[c] = offreader_limit)

(***************************************************************************)
(* "A slow or unresponsive peer cannot pin the connection task open past   *)
(* this deadline" (the comment on SHUTDOWN_DRAIN_TIMEOUT).                 *)
(***************************************************************************)
NeverPinned == \A c \in Conns : task[c] = "join" ~> task[c] = "done"
=============================================================================
