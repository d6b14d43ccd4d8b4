------------------------ MODULE WebSocketServerTypes -------------------------
(***************************************************************************)
(* Proofs about WebSocketServer, for any number of connections, requests,  *)
(* keys and permits and every scenario: the steps, grouped by what they    *)
(* do, the types, and what the methods of the registry and the operators   *)
(* on messages and queues do.  WebSocketServerLives and                    *)
(* WebSocketServerTheorems build on it.                                    *)
(***************************************************************************)
EXTENDS WebSocketServer, TLAPS

\* The constants' facts the steps below use.
LEMMA PeerFacts == MaxPeer \in Nat /\ None \notin PeerIds
BY PeerAssumption DEF PeerIds

-----------------------------------------------------------------------------
(***************************************************************************)
(* The steps of the server, those with the same effect together.           *)
(***************************************************************************)
LoopStep == Shutdown \/ CancelShutdownToken \/ DrainDeadline \/ DrainEnds
Arrives(c) == Accept(c) \/ adopt_upgraded(c) \/ accept_repe_websocket(c)
LeavesReader(c) == (Hooking(c) \/ Reading(c)) /\ \E how \in Endings : Leave(c, how)
AbortJoin(c) ==
    /\ srv = "aborting" /\ InLoop(c)
    /\ task[c] \in {"handshake", "join"}
    /\ GoTo(c, "done")
    /\ AbortOnDrop(c, task[c] = "join")
    /\ UNCHANGED <<registryVars, scenario, srv, parent, ending, peer_id, token, nread, expects,
                   held, outbound, writer, wmsg, shutdown, wire, offVars, gone, hooks, pushVars>>
Takes(c) == Recv(c) \/ TryRecv(c)
Stops(c) == ~is_closed(c) /\ \E state \in {"drain", "closing"} : WriterStops(c, state)

\* Every step is one of these.
LEMMA NextCases ==
  ASSUME Next
  PROVE  \/ LoopStep \/ broadcast_each
         \/ \E c \in Conns :
              \/ Arrives(c) \/ handle_connection_with_config(c) \/ RegistryHook(c)
              \/ on_peer_connect(c) \/ on_peer_connect_with_handshake(c)
              \/ LeavesReader(c) \/ AbortJoin(c) \/ DisconnectGuard(c) \/ WriterJoined(c)
              \/ \E notify \in BOOLEAN : ReadInline(c, notify) \/ spawn_off_reader(c, notify)
              \/ ReaderSends(c)
              \/ \E n \in Requests : HandlerEnds(c, n)
              \/ \E m \in replies[c] : HandlerReplies(c, m)
              \/ HandlerPushes(c) \/ HandlerAliases(c) \/ BroadcastTo(c)
              \/ Takes(c) \/ Stops(c) \/ Sent(c) \/ WriterExits(c) \/ PeerGone(c)
<1>1. ASSUME NEW c \in Conns,
             StreamEnds(c) \/ TaskPanics(c) \/ ReaderCancelled(c)
      PROVE  LeavesReader(c)
  BY <1>1 DEF StreamEnds, TaskPanics, ReaderCancelled, LeavesReader, Reading, Endings
<1>2. ASSUME NEW c \in Conns, AbortStraggler(c)
      PROVE  LeavesReader(c) \/ AbortJoin(c)
  BY <1>2 DEF AbortStraggler, LeavesReader, AbortJoin, Endings
<1>3. ASSUME NEW c \in Conns,
             RecvYields(c) \/ DrainedQueue(c) \/ SendTimesOut(c) \/ SendFails(c)
      PROVE  Stops(c)
  BY <1>3 DEF RecvYields, DrainedQueue, SendTimesOut, SendFails, Stops, is_closed
<1> QED
  BY <1>1, <1>2, <1>3
     DEF Next, ServerStep, Environment, ConnectionStep, ThreadStep, WriterStep, LoopStep, Arrives, Takes

-----------------------------------------------------------------------------
(***************************************************************************)
(* Types.  What the reader and the writer are about to send is there.      *)
(***************************************************************************)
Handoffs ==
    \A c \in Conns :
        /\ task[c] = "send" => held[c] \in Msg
        /\ writer[c] \in {"sending", "drain_send"} => wmsg[c] \in Msg

\* The constants' facts the steps below use.
LEMMA BoundFacts ==
  MaxRequests \in Nat /\ None \notin Msg /\ outbound_capacity \in Nat /\ offreader_limit \in Nat
BY ServerAssumption

\* A scenario's bounds are numbers.
LEMMA ScenarioFacts ==
  ASSUME ServerTypeOK
  PROVE  /\ scenario.requests \in 0 .. MaxRequests /\ scenario.pushes \in Nat
         /\ scenario.graceful \in BOOLEAN /\ MaxRequests \in Nat
BY ServerAssumption DEF ServerTypeOK, Scenario

\* What the messages are.
LEMMA MessageFacts ==
  /\ \A n \in Requests : \A code \in {"ok", "big", "InternalError", "ResourceExhausted"} :
        Response(n, code) \in Msg /\ Response(n, code).id = n
  /\ \A code \in {"ok", "big", "hello"} : Notify(code) \in Msg /\ Notify(code).id = 0
  /\ \A m \in Msg : frame_outbound(m) # None =>
        frame_outbound(m) \in Msg /\ frame_outbound(m).id = m.id
  /\ \A m \in Msg : m.id \in 0 .. MaxRequests
BY ServerAssumption DEF Requests, Msg, Response, Notify, frame_outbound

\* A message put in the channel leaves it within its capacity.
LEMMA SendTypes ==
  ASSUME ServerTypeOK, NEW c \in Conns, NEW m \in Msg, send_notify(c, m)
  PROVE  /\ outbound' \in [Conns -> Seq(Msg)]
         /\ \A d \in Conns : Len(outbound'[d]) <= outbound_capacity
<1>1. /\ outbound \in [Conns -> Seq(Msg)]
      /\ \A d \in Conns : Len(outbound[d]) <= outbound_capacity
  BY DEF ServerTypeOK
<1>2. Append(outbound[c], m) \in Seq(Msg) /\ Len(Append(outbound[c], m)) = Len(outbound[c]) + 1
  BY <1>1
<1>3. HasRoom(c) => Len(outbound[c]) + 1 <= outbound_capacity
  BY <1>1, BoundFacts DEF HasRoom
<1> QED BY <1>1, <1>2, <1>3 DEF send_notify

\* The reader counts within its bound.
LEMMA ReadTypes ==
  ASSUME ServerTypeOK, NEW c \in Conns, NEW notify \in BOOLEAN, Read(c, notify)
  PROVE  /\ nread' \in [Conns -> 0 .. MaxRequests] /\ nread'[c] = nread[c] + 1
         /\ nread'[c] \in Requests
         /\ expects' \in [Conns -> SUBSET Requests]
<1>1. nread \in [Conns -> 0 .. MaxRequests] /\ expects \in [Conns -> SUBSET Requests]
  BY DEF ServerTypeOK
<1>2. nread[c] + 1 \in 0 .. MaxRequests
  BY <1>1, ScenarioFacts DEF Read
<1>3. nread' \in [Conns -> 0 .. MaxRequests] /\ nread'[c] = nread[c] + 1
  BY <1>1, <1>2 DEF Read
<1>4. nread'[c] \in Requests
  BY <1>1, <1>2, <1>3, ScenarioFacts DEF Requests
<1>5. expects' \in [Conns -> SUBSET Requests]
  BY <1>1, <1>4 DEF Read
<1> QED BY <1>3, <1>4, <1>5

\* What the reader goes on to send answers the request it read.
LEMMA AnswerTypes ==
  ASSUME ServerTypeOK, Handoffs, NEW c \in Conns, NEW notify \in BOOLEAN, nread'[c] \in Requests,
         NEW code \in {"ok", "big", "ResourceExhausted"}, Answer(c, notify, code)
  PROVE  /\ task' \in [Conns -> TaskStates] /\ held' \in [Conns -> Msg \cup {None}]
         /\ \A d \in Conns : task'[d] = "send" => held'[d] \in Msg
<1>1. task \in [Conns -> TaskStates] /\ held \in [Conns -> Msg \cup {None}]
  BY DEF ServerTypeOK
<1>2. \A d \in Conns : task[d] = "send" => held[d] \in Msg
  BY DEF Handoffs
<1>3. Response(nread'[c], code) \in Msg
  BY MessageFacts
<1>4. "send" \in TaskStates
  BY DEF TaskStates
<1> QED BY <1>1, <1>2, <1>3, <1>4 DEF Answer, GoTo

\* A permit that was free is taken; one that is given back is one more.
LEMMA PermitTypes ==
  ASSUME ServerTypeOK, NEW c \in Conns
  PROVE  /\ try_acquire(c) =>
              IF offreader_limit = 0 THEN permits[c] \in Nat ELSE permits[c] - 1 \in Nat
         /\ ReleasePermit(c) => permits' \in [Conns -> Nat]
<1>1. permits \in [Conns -> Nat]
  BY DEF ServerTypeOK
<1>2. permits[c] + 1 \in Nat /\ (permits[c] > 0 => permits[c] - 1 \in Nat)
  BY <1>1
<1> QED BY <1>1, <1>2, BoundFacts DEF try_acquire, ReleasePermit

\* A handler ends in a response, or gives its permit back.
LEMMA HandlerTypes ==
  ASSUME ServerTypeOK, NEW c \in Conns, NEW n \in Requests, HandlerEnds(c, n)
  PROVE  /\ permits' \in [Conns -> Nat] /\ running' \in [Conns -> SUBSET Requests]
         /\ replies' \in [Conns -> SUBSET Msg]
<1>1. /\ permits \in [Conns -> Nat] /\ running \in [Conns -> SUBSET Requests]
      /\ replies \in [Conns -> SUBSET Msg]
  BY DEF ServerTypeOK
<1>2. permits' \in [Conns -> Nat]
  BY <1>1, PermitTypes DEF HandlerEnds
<1>3. running' \in [Conns -> SUBSET Requests]
  BY <1>1 DEF HandlerEnds
<1>4. \A code \in {"ok", "big", "InternalError"} : Response(n, code) \in Msg
  BY MessageFacts
<1>5. replies' \in [Conns -> SUBSET Msg]
  BY <1>1, <1>4 DEF HandlerEnds
<1> QED BY <1>2, <1>3, <1>5

\* What the writer takes from the channel it sends, unless there is nothing to.
LEMMA TakeTypes ==
  ASSUME ServerTypeOK, NEW c \in Conns, NEW sending \in {"sending", "drain_send"}, Handoffs,
         writer[c] \in {"recv", "drain"}, TakeFrom(c, sending)
  PROVE  /\ Head(outbound[c]) \in Msg
         /\ outbound' \in [Conns -> Seq(Msg)]
         /\ \A d \in Conns : Len(outbound'[d]) <= outbound_capacity
         /\ wmsg' \in [Conns -> Msg \cup {None}] /\ writer' \in [Conns -> WriterStates]
         /\ \A d \in Conns : writer'[d] \in {"sending", "drain_send"} => wmsg'[d] \in Msg
<1>1. /\ outbound \in [Conns -> Seq(Msg)] /\ outbound[c] # <<>>
      /\ \A d \in Conns : Len(outbound[d]) <= outbound_capacity
      /\ wmsg \in [Conns -> Msg \cup {None}] /\ writer \in [Conns -> WriterStates]
      /\ \A d \in Conns : writer[d] \in {"sending", "drain_send"} => wmsg[d] \in Msg
  BY DEF ServerTypeOK, Handoffs, TakeFrom
<1>2. /\ Head(outbound[c]) \in Msg /\ Tail(outbound[c]) \in Seq(Msg)
      /\ Len(Tail(outbound[c])) <= outbound_capacity
  BY <1>1, BoundFacts
<1>3. /\ outbound' \in [Conns -> Seq(Msg)]
      /\ \A d \in Conns : Len(outbound'[d]) <= outbound_capacity
  BY <1>1, <1>2 DEF TakeFrom
<1>4. PICK framed \in Msg \cup {None} :
         /\ wmsg' = [wmsg EXCEPT ![c] = framed]
         /\ IF framed = None THEN UNCHANGED writer ELSE WriterMoves(c, sending)
  BY <1>2, MessageFacts, Zenon DEF TakeFrom
<1>5. sending \in WriterStates
  BY DEF WriterStates
<1>6. /\ wmsg' \in [Conns -> Msg \cup {None}] /\ writer' \in [Conns -> WriterStates]
      /\ \A d \in Conns : writer'[d] \in {"sending", "drain_send"} => wmsg'[d] \in Msg
  BY <1>1, <1>4, <1>5, BoundFacts, Zenon DEF WriterMoves
<1> QED BY <1>2, <1>3, <1>6

(* The types by the variables that change together. *)
LoopTypes ==
    /\ scenario \in Scenarios /\ srv \in {"accepting", "draining", "aborting", "returned"}
    /\ parent \in BOOLEAN
PushTypes == pushes \in 0 .. scenario.pushes /\ cast \subseteq Conns
TaskTypes ==
    /\ task \in [Conns -> TaskStates] /\ ending \in [Conns -> Endings]
    /\ peer_id \in [Conns -> PeerIds \cup {None}] /\ token \in [Conns -> BOOLEAN]
    /\ held \in [Conns -> Msg \cup {None}]
    /\ \A c \in Conns : task[c] = "send" => held[c] \in Msg
ReadCounts == nread \in [Conns -> 0 .. MaxRequests] /\ expects \in [Conns -> SUBSET Requests]
QueueTypes ==
    /\ outbound \in [Conns -> Seq(Msg)]
    /\ \A c \in Conns : Len(outbound[c]) <= outbound_capacity
WriterTypes ==
    /\ writer \in [Conns -> WriterStates] /\ wmsg \in [Conns -> Msg \cup {None}]
    /\ shutdown \in [Conns -> BOOLEAN] /\ aborted \in [Conns -> BOOLEAN]
    /\ wire \in [Conns -> Seq(Msg)]
    /\ \A c \in Conns : writer[c] \in {"sending", "drain_send"} => wmsg[c] \in Msg
OffTypes ==
    /\ permits \in [Conns -> Nat] /\ running \in [Conns -> SUBSET Requests]
    /\ replies \in [Conns -> SUBSET Msg]
EndTypes == gone \in [Conns -> BOOLEAN] /\ hooks \in [Conns -> Nat]

AllTypes ==
    /\ LoopTypes /\ PushTypes /\ TaskTypes /\ ReadCounts
    /\ QueueTypes /\ WriterTypes /\ OffTypes /\ EndTypes

LEMMA TypesAre == AllTypes <=> ServerTypeOK /\ Handoffs
BY Zenon DEF AllTypes, LoopTypes, PushTypes, TaskTypes, ReadCounts, QueueTypes, WriterTypes, OffTypes,
             EndTypes, ServerTypeOK, Handoffs

\* A group of which nothing changes keeps its types.
LEMMA TypesUnchanged ==
  ASSUME AllTypes
  PROVE  /\ UNCHANGED scenario /\ UNCHANGED srv /\ UNCHANGED parent => LoopTypes'
         /\ UNCHANGED scenario /\ UNCHANGED pushVars => PushTypes'
         /\ UNCHANGED connVars => TaskTypes' /\ ReadCounts'
         /\ UNCHANGED nread /\ UNCHANGED expects => ReadCounts'
         /\ UNCHANGED outbound => QueueTypes'
         /\ UNCHANGED writerVars => WriterTypes'
         /\ UNCHANGED offVars => OffTypes'
         /\ UNCHANGED gone /\ UNCHANGED hooks => EndTypes'
<1>1. UNCHANGED scenario /\ UNCHANGED srv /\ UNCHANGED parent => LoopTypes'
  BY DEF AllTypes, LoopTypes
<1>2. UNCHANGED scenario /\ UNCHANGED pushVars => PushTypes'
  BY DEF AllTypes, PushTypes, pushVars
<1>3. UNCHANGED nread /\ UNCHANGED expects => ReadCounts'
  BY DEF AllTypes, ReadCounts
<1>4. UNCHANGED connVars => TaskTypes' /\ ReadCounts'
  BY <1>3 DEF AllTypes, TaskTypes, connVars
<1>5. UNCHANGED outbound => QueueTypes'
  BY DEF AllTypes, QueueTypes
<1>6. UNCHANGED writerVars => WriterTypes'
  BY DEF AllTypes, WriterTypes, writerVars
<1>7. UNCHANGED offVars => OffTypes'
  BY DEF AllTypes, OffTypes, offVars
<1>8. UNCHANGED gone /\ UNCHANGED hooks => EndTypes'
  BY DEF AllTypes, EndTypes
<1> QED BY <1>1, <1>2, <1>3, <1>4, <1>5, <1>6, <1>7, <1>8, Zenon

\* The steps of a connection's task.
LEMMA TaskTypesStep ==
  ASSUME RegistryTypeOK, AllTypes, NEW c \in Conns,
         \/ Arrives(c) \/ handle_connection_with_config(c) \/ RegistryHook(c) \/ on_peer_connect(c)
         \/ on_peer_connect_with_handshake(c) \/ LeavesReader(c) \/ AbortJoin(c)
         \/ DisconnectGuard(c) \/ WriterJoined(c)
  PROVE  AllTypes'
<1>1. TaskTypes /\ WriterTypes /\ EndTypes
  BY DEF AllTypes
<1>2. ASSUME NEW state \in TaskStates \ {"send"}, GoTo(c, state),
             UNCHANGED ending, UNCHANGED peer_id, UNCHANGED token, UNCHANGED held
      PROVE  TaskTypes'
  BY <1>1, <1>2 DEF TaskTypes, GoTo
<1>3. CASE Arrives(c) \/ RegistryHook(c) \/ on_peer_connect_with_handshake(c) \/ WriterJoined(c)
  <2>1. /\ UNCHANGED <<scenario, srv, parent, ending, peer_id, token, nread, expects, held, outbound>>
        /\ UNCHANGED writerVars /\ UNCHANGED offVars /\ UNCHANGED <<gone, hooks>> /\ UNCHANGED pushVars
        /\ \E state \in TaskStates \ {"send"} : GoTo(c, state)
    BY <1>3, Zenon DEF Arrives, Accept, adopt_upgraded, accept_repe_websocket, RegistryHook,
                on_peer_connect_with_handshake, WriterJoined, TaskStates
  <2> QED BY <1>2, <2>1, TypesUnchanged, Zenon DEF AllTypes
<1>4. CASE handle_connection_with_config(c)
  <2>1. next_id \in PeerIds
    BY <1>4, PeerFacts DEF handle_connection_with_config, RegistryTypeOK, PeerIds
  <2>2. TaskTypes'
    BY <1>1, <1>4, <2>1 DEF handle_connection_with_config, GoTo, TaskTypes, TaskStates
  <2>3. WriterTypes'
    BY <1>1, <1>4 DEF handle_connection_with_config, WriterTypes, WriterStates
  <2> QED BY <1>4, <2>2, <2>3, TypesUnchanged, Zenon DEF handle_connection_with_config, AllTypes
<1>5. CASE on_peer_connect(c)
  <2>1. QueueTypes'
    BY <1>5, SendTypes, MessageFacts, TypesAre, Zenon DEF on_peer_connect, QueueTypes
  <2>2. \E state \in TaskStates \ {"send"} : GoTo(c, state)
    BY <1>5, Zenon DEF on_peer_connect, TaskStates
  <2>3. TaskTypes'
    BY <1>2, <1>5, <2>2, Zenon DEF on_peer_connect
  <2> QED BY <1>5, <2>1, <2>3, TypesUnchanged, Zenon DEF on_peer_connect, AllTypes
<1>6. CASE LeavesReader(c)
  <2>1. TaskTypes'
    BY <1>1, <1>6 DEF LeavesReader, Leave, GoTo, TaskTypes, TaskStates
  <2> QED BY <1>6, <2>1, TypesUnchanged, Zenon DEF LeavesReader, Leave, AllTypes
<1>7. CASE AbortJoin(c)
  <2>1. TaskTypes'
    BY <1>2, <1>7 DEF AbortJoin, TaskStates
  <2>2. WriterTypes'
    BY <1>1, <1>7 DEF AbortJoin, AbortOnDrop, WriterTypes
  <2> QED BY <1>7, <2>1, <2>2, TypesUnchanged, Zenon DEF AbortJoin, AllTypes
<1>8. CASE DisconnectGuard(c)
  <2>1. TaskTypes'
    BY <1>2, <1>8, Zenon DEF DisconnectGuard, TaskStates
  <2>2. WriterTypes'
    BY <1>1, <1>8, Zenon DEF DisconnectGuard, AbortOnDrop, WriterTypes
  <2>3. EndTypes'
    <3>1. gone' = gone /\ hooks' = [hooks EXCEPT ![c] = @ + 1]
      BY <1>8, Zenon DEF DisconnectGuard
    <3>2. gone \in [Conns -> BOOLEAN] /\ hooks \in [Conns -> Nat]
      BY <1>1, Zenon DEF EndTypes
    <3>3. hooks' \in [Conns -> Nat]
      BY <3>1, <3>2
    <3> QED BY <3>1, <3>2, <3>3, Zenon DEF EndTypes
  <2> QED BY <1>8, <2>1, <2>2, <2>3, TypesUnchanged, Zenon DEF DisconnectGuard, AllTypes
<1> QED BY <1>3, <1>4, <1>5, <1>6, <1>7, <1>8

\* The steps of its reader and of the handlers.
LEMMA ReadTypesStep ==
  ASSUME AllTypes, NEW c \in Conns,
         \/ \E notify \in BOOLEAN : ReadInline(c, notify) \/ spawn_off_reader(c, notify)
         \/ ReaderSends(c)
         \/ \E n \in Requests : HandlerEnds(c, n)
         \/ \E m \in replies[c] : HandlerReplies(c, m)
         \/ HandlerPushes(c) \/ HandlerAliases(c) \/ BroadcastTo(c)
  PROVE  AllTypes'
<1>1. ServerTypeOK /\ Handoffs /\ TaskTypes /\ OffTypes /\ PushTypes
  BY TypesAre, Zenon DEF AllTypes
<1>2. ASSUME NEW m \in Msg, send_notify(c, m)
      PROVE  QueueTypes'
  BY <1>1, <1>2, SendTypes, Zenon DEF QueueTypes
<1>3. ASSUME NEW notify \in BOOLEAN, Read(c, notify)
      PROVE  ReadCounts' /\ nread'[c] \in Requests
  BY <1>1, <1>3, ReadTypes, Zenon DEF ReadCounts
<1>4. ASSUME NEW notify \in BOOLEAN, NEW code \in {"ok", "big", "ResourceExhausted"},
             Answer(c, notify, code), nread'[c] \in Requests, UNCHANGED <<ending, peer_id, token>>
      PROVE  TaskTypes'
  BY <1>1, <1>4, AnswerTypes, Zenon DEF TaskTypes
<1>5. ASSUME NEW notify \in BOOLEAN, ReadInline(c, notify)
      PROVE  AllTypes'
  <2>1. ReadCounts' /\ TaskTypes'
    BY <1>3, <1>4, <1>5 DEF ReadInline
  <2> QED BY <1>5, <2>1, TypesUnchanged, Zenon DEF ReadInline, AllTypes
<1>6. ASSUME NEW notify \in BOOLEAN, spawn_off_reader(c, notify)
      PROVE  AllTypes'
  <2>1. ReadCounts' /\ nread'[c] \in Requests
    BY <1>3, <1>6, Zenon DEF spawn_off_reader
  <2>2. OffTypes'
    <3>1. try_acquire(c) =>
            IF offreader_limit = 0 THEN permits[c] \in Nat ELSE permits[c] - 1 \in Nat
      BY <1>1, PermitTypes, Zenon
    <3>2. /\ permits \in [Conns -> Nat] /\ running \in [Conns -> SUBSET Requests]
          /\ replies \in [Conns -> SUBSET Msg] /\ replies' = replies
      BY <1>1, <1>6, Zenon DEF spawn_off_reader, OffTypes
    <3>3. CASE try_acquire(c)
      <4>1. /\ permits' = IF offreader_limit = 0 THEN permits ELSE [permits EXCEPT ![c] = @ - 1]
            /\ running' = [running EXCEPT ![c] = @ \cup {nread'[c]}]
        BY <1>6, <3>3, Zenon DEF spawn_off_reader
      <4>2. permits' \in [Conns -> Nat]
        BY <3>1, <3>2, <3>3, <4>1
      <4>3. running' \in [Conns -> SUBSET Requests]
        BY <2>1, <3>2, <4>1
      <4> QED BY <3>2, <4>2, <4>3, Zenon DEF OffTypes
    <3>4. CASE ~try_acquire(c)
      BY <1>6, <3>2, <3>4, Zenon DEF spawn_off_reader, OffTypes
    <3> QED BY <3>3, <3>4, Zenon
  <2>3. TaskTypes'
    <3>1. CASE try_acquire(c)
      BY <1>1, <1>6, <3>1, Zenon DEF spawn_off_reader, TaskTypes
    <3>2. CASE ~try_acquire(c)
      BY <1>4, <1>6, <2>1, <3>2, Zenon DEF spawn_off_reader
    <3> QED BY <3>1, <3>2, Zenon
  <2> QED BY <1>6, <2>1, <2>2, <2>3, TypesUnchanged, Zenon DEF spawn_off_reader, AllTypes
<1>7. CASE ReaderSends(c)
  <2>1. send_notify(c, held[c]) /\ held[c] \in Msg
    BY <1>1, <1>7, Zenon DEF ReaderSends, send_notify, TaskTypes
  <2>2. QueueTypes'
    BY <1>2, <2>1, Zenon
  <2>3. TaskTypes'
    BY <1>1, <1>7, Zenon DEF ReaderSends, GoTo, TaskTypes, TaskStates
  <2> QED BY <1>7, <2>2, <2>3, TypesUnchanged, Zenon DEF ReaderSends, AllTypes
<1>8. ASSUME NEW n \in Requests, HandlerEnds(c, n)
      PROVE  AllTypes'
  <2>1. OffTypes'
    BY <1>1, <1>8, HandlerTypes DEF OffTypes
  <2> QED BY <1>8, <2>1, TypesUnchanged, Zenon DEF HandlerEnds, AllTypes
<1>9. ASSUME NEW m \in replies[c], HandlerReplies(c, m)
      PROVE  AllTypes'
  <2>1. QueueTypes'
    BY <1>1, <1>2, <1>9 DEF HandlerReplies, OffTypes
  <2>2. OffTypes'
    <3>1. /\ replies' = [replies EXCEPT ![c] = @ \ {m}] /\ running' = running
          /\ permits' = IF offreader_limit = 0 THEN permits ELSE [permits EXCEPT ![c] = @ + 1]
      BY <1>9, Zenon DEF HandlerReplies, ReleasePermit
    <3>2. /\ permits \in [Conns -> Nat] /\ running \in [Conns -> SUBSET Requests]
          /\ replies \in [Conns -> SUBSET Msg]
      BY <1>1, Zenon DEF OffTypes
    <3>3. permits' \in [Conns -> Nat]
      BY <3>1, <3>2
    <3>4. replies' \in [Conns -> SUBSET Msg]
      BY <3>1, <3>2
    <3> QED BY <3>1, <3>2, <3>3, <3>4, Zenon DEF OffTypes
  <2> QED BY <1>9, <2>1, <2>2, TypesUnchanged, Zenon DEF HandlerReplies, AllTypes
<1>10. CASE HandlerPushes(c)
  <2>1. QueueTypes'
    BY <1>2, <1>10, MessageFacts, Zenon DEF HandlerPushes
  <2>2. PushTypes'
    <3>1. /\ pushes < scenario.pushes /\ pushes' = pushes + 1
          /\ scenario' = scenario /\ cast' = cast
      BY <1>10, Zenon DEF HandlerPushes
    <3>2. pushes \in 0 .. scenario.pushes /\ cast \subseteq Conns
      BY <1>1, Zenon DEF PushTypes
    <3>3. scenario.pushes \in Nat
      BY <1>1, ScenarioFacts, Zenon
    <3>4. pushes + 1 \in 0 .. scenario.pushes
      BY <3>1, <3>2, <3>3
    <3> QED BY <3>1, <3>2, <3>4, Zenon DEF PushTypes
  <2> QED BY <1>10, <2>1, <2>2, TypesUnchanged, Zenon DEF HandlerPushes, AllTypes
<1>11. CASE HandlerAliases(c)
  BY <1>11, TypesUnchanged, Zenon DEF HandlerAliases, AllTypes
<1>12. CASE BroadcastTo(c)
  <2>1. QueueTypes'
    BY <1>2, <1>12, MessageFacts, Zenon DEF BroadcastTo
  <2>2. PushTypes'
    BY <1>1, <1>12, Zenon DEF BroadcastTo, PushTypes
  <2> QED BY <1>12, <2>1, <2>2, TypesUnchanged, Zenon DEF BroadcastTo, AllTypes
<1> QED BY <1>5, <1>6, <1>7, <1>8, <1>9, <1>10, <1>11, <1>12

\* The steps of its writer and its peer.
LEMMA WriterTypesStep ==
  ASSUME AllTypes, NEW c \in Conns,
         Takes(c) \/ Stops(c) \/ Sent(c) \/ WriterExits(c) \/ PeerGone(c)
  PROVE  AllTypes'
<1>1. ServerTypeOK /\ Handoffs /\ WriterTypes /\ QueueTypes /\ EndTypes
  BY TypesAre DEF AllTypes
<1>2. CASE Takes(c)
  <2>1. PICK sending \in {"sending", "drain_send"} :
           writer[c] \in {"recv", "drain"} /\ TakeFrom(c, sending)
    BY <1>2 DEF Takes, Recv, TryRecv
  <2>2. QueueTypes' /\ WriterTypes'
    BY <1>1, <2>1, TakeTypes, Zenon DEF QueueTypes, WriterTypes, TakeFrom
  <2> QED BY <2>1, <2>2, TypesUnchanged, Zenon DEF TakeFrom, AllTypes
<1>3. CASE Stops(c)
  <2>1. WriterTypes'
    BY <1>1, <1>3, ZenonT(30) DEF Stops, WriterStops, WriterMoves, WriterTypes, WriterStates
  <2> QED BY <1>3, <2>1, TypesUnchanged, Zenon DEF Stops, WriterStops, AllTypes
<1>4. CASE Sent(c)
  <2>1. WriterTypes'
    BY <1>1, <1>4 DEF Sent, WriterMoves, WriterTypes, WriterStates
  <2> QED BY <1>4, <2>1, TypesUnchanged, Zenon DEF Sent, AllTypes
<1>5. CASE WriterExits(c)
  <2>1. WriterTypes'
    BY <1>1, <1>5 DEF WriterExits, WriterMoves, WriterTypes, WriterStates
  <2>2. QueueTypes'
    <3>1. <<>> \in Seq(Msg) /\ Len(<<>>) <= outbound_capacity
      BY BoundFacts
    <3> QED BY <1>1, <1>5, <3>1, Zenon DEF WriterExits, QueueTypes
  <2> QED BY <1>5, <2>1, <2>2, TypesUnchanged, Zenon DEF WriterExits, AllTypes
<1>6. CASE PeerGone(c)
  <2>1. EndTypes'
    BY <1>1, <1>6 DEF PeerGone, EndTypes
  <2> QED BY <1>6, <2>1, TypesUnchanged, Zenon DEF PeerGone, AllTypes
<1> QED BY <1>2, <1>3, <1>4, <1>5, <1>6

\* Every step keeps the types, with what a task or a writer is about to send.
LEMMA TypesStep ==
  ASSUME RegistryTypeOK, ServerTypeOK, Handoffs, Next
  PROVE  ServerTypeOK' /\ Handoffs'
<1>1. AllTypes
  BY TypesAre
<1>2. ASSUME LoopStep
      PROVE  AllTypes'
  <2>1. LoopTypes'
    <3>1. /\ UNCHANGED scenario /\ parent' \in BOOLEAN
          /\ srv' \in {"accepting", "draining", "aborting", "returned"}
      BY <1>1, <1>2, ScenarioFacts, Zenon
         DEF LoopStep, Shutdown, CancelShutdownToken, DrainDeadline, DrainEnds, AllTypes, LoopTypes
    <3> QED BY <1>1, <3>1 DEF AllTypes, LoopTypes
  <2> QED
    BY <1>1, <1>2, <2>1, TypesUnchanged, Zenon
       DEF LoopStep, Shutdown, CancelShutdownToken, DrainDeadline, DrainEnds, AllTypes
<1>3. ASSUME broadcast_each
      PROVE  AllTypes'
  <2>1. PushTypes'
    BY <1>1, <1>3, ScenarioFacts DEF broadcast_each, AllTypes, PushTypes
  <2> QED BY <1>1, <1>3, <2>1, TypesUnchanged, Zenon DEF broadcast_each, AllTypes
<1>4. AllTypes'
  BY <1>1, <1>2, <1>3, NextCases, TaskTypesStep, ReadTypesStep, WriterTypesStep, Zenon
<1>5. AllTypes' <=> ServerTypeOK' /\ Handoffs'
  BY TypesAre, PTL
<1> QED BY <1>4, <1>5

-----------------------------------------------------------------------------
(***************************************************************************)
(* The methods of the registry: each keeps the two alias tables inverse of *)
(* each other.                                                             *)
(***************************************************************************)
\* What retain leaves of a list of keys: no k, all the others, none twice if
\* none was there twice.
LEMMA RetainFacts ==
  ASSUME NEW s \in Seq(Keys), NEW k \in Keys, NEW t \in retain(s, k)
  PROVE  /\ t \in Seq(Keys)
         /\ k \notin Range(t)
         /\ \A j \in Keys : j # k => (j \in Range(t) <=> j \in Range(s))
         /\ IsInjective(s) => IsInjective(t)
<1>1. t \in Seq(Keys)
  <2>1. PICK n \in 0 .. Len(s) : t \in [1 .. n -> Keys]
    BY Zenon DEF retain
  <2> QED BY <2>1
<1>2. PICK h \in [1 .. Len(t) -> 1 .. Len(s)] :
         /\ \A i, j \in 1 .. Len(t) : i < j => h[i] < h[j]
         /\ \A i \in 1 .. Len(t) : t[i] = s[h[i]]
         /\ \A j \in 1 .. Len(s) : s[j] # k <=> \E i \in 1 .. Len(t) : h[i] = j
  BY ZenonT(30) DEF retain
<1>3. k \notin Range(t)
  BY <1>1, <1>2 DEF Range
<1>4. ASSUME NEW j \in Keys, j # k
      PROVE  j \in Range(t) <=> j \in Range(s)
  <2>1. ASSUME j \in Range(t) PROVE j \in Range(s)
    <3>1. PICK i \in 1 .. Len(t) : t[i] = j
      BY <2>1 DEF Range
    <3>2. h[i] \in 1 .. Len(s) /\ s[h[i]] = j
      BY <1>2, <3>1
    <3> QED BY <3>2 DEF Range
  <2>2. ASSUME j \in Range(s) PROVE j \in Range(t)
    <3>1. PICK l \in 1 .. Len(s) : s[l] = j
      BY <2>2 DEF Range
    <3>2. PICK i \in 1 .. Len(t) : h[i] = l
      BY <1>2, <1>4, <3>1
    <3> QED BY <1>2, <3>1, <3>2 DEF Range
  <2> QED BY <2>1, <2>2
<1>5. ASSUME IsInjective(s)
      PROVE  IsInjective(t)
  <2> SUFFICES ASSUME NEW a \in DOMAIN t, NEW b \in DOMAIN t, t[a] = t[b], a # b
               PROVE  FALSE
    BY DEF IsInjective
  <2>1. a \in 1 .. Len(t) /\ b \in 1 .. Len(t)
    BY <1>1
  <2>2. s[h[a]] = s[h[b]] /\ h[a] \in 1 .. Len(s) /\ h[b] \in 1 .. Len(s)
    BY <1>2, <2>1
  <2>3. h[a] = h[b]
    BY <1>5, <2>2 DEF IsInjective
  <2>4. a < b \/ b < a
    BY <2>1
  <2> QED BY <1>2, <2>1, <2>2, <2>3, <2>4
<1> QED BY <1>1, <1>3, <1>4, <1>5

\* push adds the key, and no duplicate if the list did not have it.
LEMMA PushFacts ==
  ASSUME NEW s \in Seq(Keys), NEW k \in Keys
  PROVE  /\ Append(s, k) \in Seq(Keys)
         /\ \A j \in Keys : j \in Range(Append(s, k)) <=> j \in Range(s) \/ j = k
         /\ IsInjective(s) /\ k \notin Range(s) => IsInjective(Append(s, k))
<1>1. Append(s, k) \in Seq(Keys) /\ Len(Append(s, k)) = Len(s) + 1
  OBVIOUS
<1>2. /\ \A i \in 1 .. Len(s) : Append(s, k)[i] = s[i]
      /\ Append(s, k)[Len(s) + 1] = k
  OBVIOUS
<1>3. ASSUME NEW j \in Keys
      PROVE  j \in Range(Append(s, k)) <=> j \in Range(s) \/ j = k
  BY <1>1, <1>2 DEF Range
<1>4. ASSUME IsInjective(s), k \notin Range(s)
      PROVE  IsInjective(Append(s, k))
  BY <1>1, <1>2, <1>4 DEF Range, IsInjective
<1> QED BY <1>1, <1>3, <1>4

\* Steps that leave the registry alone.
LEMMA RegistryUnchanged ==
  ASSUME RegistryTypeOK, AliasesInverse, UNCHANGED registryVars
  PROVE  RegistryTypeOK' /\ AliasesInverse'
<1> UNCHANGED next_id /\ UNCHANGED peers /\ UNCHANGED aliases /\ UNCHANGED alias_index
  BY DEF registryVars
<1> QED BY DEF RegistryTypeOK, AliasesInverse, get_by, PeerIds

\* alias keeps the two tables inverse of each other, whoever had the key.
LEMMA AliasKeeps ==
  ASSUME RegistryTypeOK, AliasesInverse, NEW p, NEW k \in Keys, alias(p, k)
  PROVE  RegistryTypeOK' /\ AliasesInverse'
<1>1. CASE p \notin peers
  BY <1>1, RegistryUnchanged DEF alias
<1>2. CASE p \in peers
  <2>1. AliasUnchecked(p, k) /\ p \in PeerIds
    BY <1>2 DEF alias, RegistryTypeOK
  <2>2. CASE aliases[k] = p
    <3>1. UNCHANGED <<next_id, peers, aliases, alias_index>>
      BY <2>1, <2>2, Zenon DEF AliasUnchecked, RegistryTypeOK
    <3> QED BY <3>1, RegistryUnchanged DEF registryVars
  <2>3. CASE aliases[k] # p
    <3> DEFINE q == aliases[k]
    <3>1. PICK index \in detach(k) : alias_index' = [index EXCEPT ![p] = Append(@, k)]
      BY <2>1, <2>3, Zenon DEF AliasUnchecked
    <3>2. PICK keys : /\ index = [r \in PeerIds |-> IF r = q THEN keys ELSE alias_index[r]]
                      /\ keys \in IF q = None THEN {<<>>} ELSE retain(alias_index[q], k)
      BY <3>1 DEF detach
    <3>3. q \in PeerIds \cup {None} /\ (q # None => alias_index[q] \in Seq(Keys))
      BY Zenon DEF RegistryTypeOK
    <3>4. /\ \A r \in PeerIds : index[r] \in Seq(Keys) /\ IsInjective(index[r])
          /\ \A r \in PeerIds : k \notin Range(index[r])
          /\ \A r \in PeerIds, j \in Keys : j # k =>
                (j \in Range(index[r]) <=> j \in Range(alias_index[r]))
      <4>1. ASSUME NEW r \in PeerIds, r # q
            PROVE  /\ index[r] = alias_index[r] /\ index[r] \in Seq(Keys)
                   /\ IsInjective(index[r]) /\ k \notin Range(index[r])
        <5>1. index[r] = alias_index[r]
          BY <3>2, <4>1, Zenon
        <5>2. k \notin Range(alias_index[r])
          BY <4>1, Zenon DEF AliasesInverse
        <5> QED BY <5>1, <5>2, Zenon DEF AliasesInverse, RegistryTypeOK
      <4>2. ASSUME NEW r \in PeerIds, r = q
            PROVE  /\ index[r] \in Seq(Keys)
                   /\ IsInjective(index[r]) /\ k \notin Range(index[r])
                   /\ \A j \in Keys : j # k => (j \in Range(index[r]) <=> j \in Range(alias_index[r]))
        <5>1. q # None
          BY <4>2, PeerFacts, Zenon
        <5>2. index[r] = keys /\ keys \in retain(alias_index[q], k)
          BY <3>2, <4>2, <5>1, Zenon
        <5>3. IsInjective(alias_index[q])
          BY <4>2, Zenon DEF AliasesInverse
        <5> QED BY <3>3, <4>2, <5>1, <5>2, <5>3, RetainFacts, Zenon
      <4> QED BY <4>1, <4>2, Zenon
    <3>5. /\ alias_index'[p] = Append(index[p], k)
          /\ \A r \in PeerIds \ {p} : alias_index'[r] = index[r]
          /\ alias_index' \in [PeerIds -> Seq(Keys)]
      BY <2>1, <3>1, <3>2, <3>4
    <3>6. /\ \A j \in Keys : j \in Range(alias_index'[p]) <=> j \in Range(index[p]) \/ j = k
          /\ IsInjective(alias_index'[p])
      <4>1. index[p] \in Seq(Keys) /\ IsInjective(index[p]) /\ k \notin Range(index[p])
        BY <2>1, <3>4
      <4> QED BY <3>5, <4>1, PushFacts
    <3>7. /\ aliases' = [aliases EXCEPT ![k] = p]
          /\ UNCHANGED <<next_id, peers>>
      BY <2>1 DEF AliasUnchecked
    <3>8. RegistryTypeOK'
      BY <2>1, <3>5, <3>7 DEF RegistryTypeOK
    <3>9. ASSUME NEW j \in Keys, NEW r \in PeerIds
          PROVE  aliases'[j] = r <=> j \in Range(alias_index'[r])
      <4>1. aliases[j] = r <=> j \in Range(alias_index[r])
        BY DEF AliasesInverse
      <4>2. aliases'[j] = IF j = k THEN p ELSE aliases[j]
        BY <3>7, Zenon DEF RegistryTypeOK
      <4>3. CASE r = p
        BY <3>4, <3>6, <4>1, <4>2, <4>3, Zenon
      <4>4. CASE r # p
        BY <3>4, <3>5, <4>1, <4>2, <4>4
      <4> QED BY <4>3, <4>4
    <3>10. ASSUME NEW r \in PeerIds
           PROVE  IsInjective(alias_index'[r])
      BY <3>4, <3>5, <3>6, Zenon
    <3>11. ASSUME NEW j \in Keys, aliases'[j] # None
           PROVE  aliases'[j] \in peers'
      BY <1>2, <3>7, <3>11, ZenonT(30) DEF AliasesInverse, RegistryTypeOK, get_by
    <3> QED BY <3>8, <3>9, <3>10, <3>11 DEF AliasesInverse, get_by, PeerIds
  <2> QED BY <2>2, <2>3
<1> QED BY <1>1, <1>2

\* remove takes the peer's own keys with it and nobody else's.
LEMMA RemoveKeeps ==
  ASSUME RegistryTypeOK, AliasesInverse, NEW p \in PeerIds, remove(p), UNCHANGED next_id
  PROVE  RegistryTypeOK' /\ AliasesInverse' /\ peers' = peers \ {p}
<1>1. /\ peers' = peers \ {p}
      /\ \A k \in Keys : aliases'[k] = IF aliases[k] = p THEN None ELSE aliases[k]
      /\ alias_index' = [alias_index EXCEPT ![p] = <<>>]
  BY DEF remove, AliasesInverse
<1>2. aliases' \in [Keys -> PeerIds \cup {None}]
  BY DEF remove, RegistryTypeOK
<1>3. RegistryTypeOK'
  BY <1>1, <1>2 DEF RegistryTypeOK
<1>4. ASSUME NEW k \in Keys, NEW r \in PeerIds
      PROVE  aliases'[k] = r <=> k \in Range(alias_index'[r])
  BY <1>1, PeerFacts DEF AliasesInverse, Range, RegistryTypeOK
<1>5. ASSUME NEW r \in PeerIds
      PROVE  IsInjective(alias_index'[r])
  BY <1>1 DEF AliasesInverse, IsInjective, RegistryTypeOK
<1>6. ASSUME NEW k \in Keys, aliases'[k] # None
      PROVE  aliases'[k] \in peers'
  BY <1>1, <1>6 DEF AliasesInverse, get_by
<1> QED BY <1>1, <1>3, <1>4, <1>5, <1>6, Zenon DEF AliasesInverse, get_by, PeerIds

\* insert leaves every alias valid.
LEMMA InsertKeeps ==
  ASSUME RegistryTypeOK, AliasesInverse, NEW p \in PeerIds, insert(p),
         UNCHANGED <<next_id, aliases, alias_index>>
  PROVE  RegistryTypeOK' /\ AliasesInverse' /\ peers' = peers \cup {p}
BY DEF insert, RegistryTypeOK, AliasesInverse, get_by, PeerIds

-----------------------------------------------------------------------------
(***************************************************************************)
(* Messages and queues.                                                    *)
(***************************************************************************)
\* What the operators on messages and queues answer.
LEMMA AnswersFacts ==
  /\ Answers({}) = {}
  /\ \A m : Answers({m}) = {m.id} \ {0}
  /\ \A S, m : Answers(S \cup {m}) = Answers(S) \cup ({m.id} \ {0})
BY DEF Answers

LEMMA RangeFacts ==
  ASSUME NEW q \in Seq(Msg)
  PROVE  /\ Range(<<>>) = {}
         /\ \A m \in Msg : Range(Append(q, m)) = Range(q) \cup {m}
<1>1. Range(<<>>) = {}
  BY DEF Range
<1>2. ASSUME NEW m \in Msg PROVE Range(Append(q, m)) = Range(q) \cup {m}
  <2>1. /\ DOMAIN Append(q, m) = 1 .. Len(q) + 1 /\ DOMAIN q = 1 .. Len(q) /\ Len(q) \in Nat
        /\ \A i \in 1 .. Len(q) : Append(q, m)[i] = q[i]
        /\ Append(q, m)[Len(q) + 1] = m
    OBVIOUS
  <2>2. ASSUME NEW x \in Range(Append(q, m)) PROVE x \in Range(q) \cup {m}
    <3>1. PICK i \in 1 .. Len(q) + 1 : x = Append(q, m)[i]
      BY <2>1 DEF Range
    <3> QED BY <2>1, <3>1 DEF Range
  <2>3. ASSUME NEW x \in Range(q) PROVE x \in Range(Append(q, m))
    <3>1. PICK i \in 1 .. Len(q) : x = q[i]
      BY <2>1, <2>3 DEF Range
    <3>2. i \in DOMAIN Append(q, m) /\ x = Append(q, m)[i]
      BY <2>1, <3>1
    <3> QED BY <3>2 DEF Range
  <2>4. m \in Range(Append(q, m))
    <3>1. Len(q) + 1 \in DOMAIN Append(q, m)
      BY <2>1
    <3> QED BY <2>1, <3>1 DEF Range
  <2> QED BY <2>2, <2>3, <2>4
<1> QED BY <1>1, <1>2

\* A queue that gets the answer to a request it had none for.
LEMMA AppendAnswers ==
  ASSUME NEW q \in Seq(Msg), NoneTwice(q), NEW m \in Msg, m.id \notin Answers(Range(q))
  PROVE  /\ NoneTwice(Append(q, m))
         /\ Answers(Range(Append(q, m))) = Answers(Range(q)) \cup ({m.id} \ {0})
<1>1. /\ Len(Append(q, m)) = Len(q) + 1 /\ DOMAIN q = 1 .. Len(q) /\ Len(q) \in Nat
      /\ \A i \in 1 .. Len(q) : Append(q, m)[i] = q[i]
      /\ Append(q, m)[Len(q) + 1] = m
  OBVIOUS
<1>2. \A i \in 1 .. Len(q) : q[i].id = m.id => m.id = 0
  <2> SUFFICES ASSUME NEW i \in 1 .. Len(q), q[i].id = m.id, m.id # 0 PROVE FALSE
    OBVIOUS
  <2>1. q[i] \in Range(q)
    BY <1>1, Zenon DEF Range
  <2> QED BY <2>1 DEF Answers
<1>3. NoneTwice(Append(q, m))
  <2> SUFFICES ASSUME NEW i \in 1 .. Len(q) + 1, NEW j \in 1 .. Len(q) + 1,
                      Append(q, m)[i].id = Append(q, m)[j].id, Append(q, m)[i].id # 0
               PROVE  i = j
    BY <1>1, Zenon DEF NoneTwice
  <2>1. CASE i \in 1 .. Len(q) /\ j \in 1 .. Len(q)
    BY <1>1, <2>1, Zenon DEF NoneTwice
  <2>2. CASE i = Len(q) + 1 /\ j \in 1 .. Len(q)
    BY <1>1, <1>2, <2>2, Zenon
  <2>3. CASE i \in 1 .. Len(q) /\ j = Len(q) + 1
    BY <1>1, <1>2, <2>3
  <2>4. CASE i = Len(q) + 1 /\ j = Len(q) + 1
    BY <2>4
  <2> QED BY <1>1, <2>1, <2>2, <2>3, <2>4
<1> QED BY <1>3, RangeFacts, AnswersFacts

\* A queue that loses its head no longer has that answer.
LEMMA TailAnswers ==
  ASSUME NEW q \in Seq(Msg), NoneTwice(q), q # <<>>
  PROVE  /\ NoneTwice(Tail(q))
         /\ Answers(Range(Tail(q))) \subseteq Answers(Range(q)) \ {Head(q).id}
         /\ {Head(q).id} \ {0} \subseteq Answers(Range(q))
<1>1. /\ Len(q) \in Nat \ {0} /\ DOMAIN q = 1 .. Len(q) /\ Len(Tail(q)) = Len(q) - 1
      /\ DOMAIN Tail(q) = 1 .. Len(q) - 1 /\ Head(q) = q[1]
      /\ \A i \in 1 .. Len(q) - 1 : Tail(q)[i] = q[i + 1]
  OBVIOUS
<1>2. NoneTwice(Tail(q))
  <2> SUFFICES ASSUME NEW i \in 1 .. Len(q) - 1, NEW j \in 1 .. Len(q) - 1,
                      Tail(q)[i].id = Tail(q)[j].id, Tail(q)[i].id # 0
               PROVE  i = j
    BY <1>1 DEF NoneTwice
  <2>1. /\ i + 1 \in 1 .. Len(q) /\ j + 1 \in 1 .. Len(q)
        /\ Tail(q)[i] = q[i + 1] /\ Tail(q)[j] = q[j + 1]
    BY <1>1
  <2>2. i + 1 = j + 1
    BY <2>1 DEF NoneTwice
  <2> QED BY <2>2
<1>3. ASSUME NEW x \in Answers(Range(Tail(q)))
      PROVE  x \in Answers(Range(q)) /\ x # Head(q).id
  <2>1. PICK i \in 1 .. Len(q) - 1 : x = Tail(q)[i].id /\ x # 0
    BY <1>1, <1>3 DEF Answers, Range
  <2>2. i + 1 \in 1 .. Len(q) /\ x = q[i + 1].id /\ 1 \in 1 .. Len(q) /\ i + 1 # 1
    BY <1>1, <2>1
  <2>3. q[i + 1] \in Range(q)
    BY <1>1, <2>2 DEF Range
  <2> QED BY <1>1, <2>1, <2>2, <2>3 DEF Answers, NoneTwice
<1>4. {Head(q).id} \ {0} \subseteq Answers(Range(q))
  <2>1. q[1] \in Range(q)
    BY <1>1 DEF Range
  <2> QED BY <1>1, <2>1 DEF Answers
<1> QED BY <1>2, <1>3, <1>4
=============================================================================
