------------------------ MODULE WebSocketServerLives ------------------------
(***************************************************************************)
(* A connection is in the registry from its connect hook to its disconnect *)
(* guard, and every request it reads is answered at most once: what each   *)
(* step does to a connection's life and to the messages on their way to    *)
(* the peer.                                                               *)
(***************************************************************************)
EXTENDS WebSocketServerTypes

(***************************************************************************)
(* A connection's life.  What its task's place says of its id, its place   *)
(* in the registry, its hooks and its token.                               *)
(***************************************************************************)
Unminted == {"none", "handshake", "upgraded"}
Registered == {"hello", "handshake_hooks", "read", "send", "leaving"}
Over == {"join", "done"}

LifeOf(c) ==
    /\ task[c] \in Unminted => peer_id[c] = None
    /\ task[c] \notin Unminted \cup {"done"} => peer_id[c] # None
    /\ peer_id[c] # None => peer_id[c] < next_id
    /\ peer_id[c] \in peers => task[c] \in Registered
    /\ hooks[c] = IF peer_id[c] # None /\ task[c] \in Over THEN 1 ELSE 0
    /\ hooks[c] = 1 \/ task[c] = "leaving" => token[c] = TRUE
    /\ srv = "returned" /\ scenario.graceful = TRUE /\ InLoop(c) => task[c] \in {"none", "done"}

Lives == \A c \in Conns : LifeOf(c)

Owned == \A p \in peers : \E c \in Conns : peer_id[c] = p
OwnIds == \A c, d \in Conns : c # d /\ peer_id[c] # None => peer_id[c] # peer_id[d]

\* A step that leaves alone what LifeOf speaks of.
LEMMA LivesUnchanged ==
  ASSUME Lives, Owned, OwnIds,
         UNCHANGED <<next_id, peers>>, UNCHANGED <<scenario, srv, task, peer_id, token, hooks>>
  PROVE  Lives' /\ Owned' /\ OwnIds'
BY DEF Lives, LifeOf, Owned, OwnIds, InLoop

\* What a step of one connection may do: it moves on in that connection's
\* life, mints no id another has, and registers no peer but its own.
LifeStep(c) ==
    /\ UNCHANGED <<scenario, srv>>
    /\ \A d \in Conns \ {c} : /\ task'[d] = task[d] /\ peer_id'[d] = peer_id[d]
                              /\ token'[d] = token[d] /\ hooks'[d] = hooks[d]
    /\ next_id' \in {next_id, next_id + 1}
    /\ peers' \subseteq peers \cup {peer_id'[c]}
    /\ None \notin peers'
    /\ peer_id[c] # None => peer_id'[c] = peer_id[c]
    /\ peer_id'[c] # None => \A d \in Conns \ {c} : peer_id[d] # peer_id'[c]
    /\ LifeOf(c)'

LEMMA LivesStepOf ==
  ASSUME RegistryTypeOK, ServerTypeOK, Lives, Owned, OwnIds, NEW c \in Conns, LifeStep(c)
  PROVE  Lives' /\ Owned' /\ OwnIds'
<1>1. ASSUME NEW d \in Conns \ {c}
      PROVE  LifeOf(d)'
  <2>1. /\ task'[d] = task[d] /\ peer_id'[d] = peer_id[d]
        /\ token'[d] = token[d] /\ hooks'[d] = hooks[d]
    BY DEF LifeStep
  <2>2. peer_id[d] \in peers' => peer_id[d] \in peers
    BY DEF LifeStep
  <2>3. peer_id[d] # None /\ peer_id[d] < next_id => peer_id[d] < next_id'
    <3>1. peer_id[d] \in PeerIds \cup {None} /\ next_id \in Nat /\ next_id' \in {next_id, next_id + 1}
      BY PeerFacts DEF ServerTypeOK, RegistryTypeOK, LifeStep
    <3> QED BY <3>1, PeerFacts DEF PeerIds
  <2>4. LifeOf(d)
    BY DEF Lives
  <2>5. (InLoop(d)' <=> InLoop(d)) /\ UNCHANGED <<scenario, srv>>
    BY DEF InLoop, LifeStep
  <2> QED BY <2>1, <2>2, <2>3, <2>4, <2>5 DEF LifeOf
<1>2. Lives'
  BY <1>1 DEF Lives, LifeStep
<1>3. Owned'
  BY DEF Owned, LifeStep
<1>4. OwnIds'
  BY DEF OwnIds, LifeStep
<1> QED BY <1>2, <1>3, <1>4

\* A step that only moves the task on, and cancels its token perhaps.
MovesTo(c, state) ==
    /\ GoTo(c, state)
    /\ UNCHANGED <<next_id, peers>> /\ UNCHANGED <<scenario, srv, peer_id, hooks>>
    /\ \/ UNCHANGED token /\ state # "leaving"
       \/ token' = [token EXCEPT ![c] = TRUE]
    /\ \/ task[c] \in Unminted /\ state \in Unminted \cup {"done"}
       \/ task[c] \in Registered /\ state \in Registered
       \/ task[c] = "connect" /\ state = "leaving"
       \/ task[c] = "join" /\ state = "done"
    /\ srv = "returned" /\ scenario.graceful = TRUE /\ InLoop(c) => state \in {"none", "done"}

LEMMA LivesMove ==
  ASSUME RegistryTypeOK, ServerTypeOK, Lives, Owned, OwnIds, NEW c \in Conns,
         NEW state, MovesTo(c, state)
  PROVE  Lives' /\ Owned' /\ OwnIds'
<1>1. /\ task \in [Conns -> TaskStates] /\ token \in [Conns -> BOOLEAN]
      /\ next_id \in Nat /\ None \notin peers
  BY PeerFacts DEF ServerTypeOK, RegistryTypeOK
<1>2. LifeOf(c)
  BY DEF Lives
<1>3. LifeOf(c)'
  BY <1>1, <1>2 DEF MovesTo, LifeOf, GoTo, Unminted, Registered, Over, InLoop
<1>4. LifeStep(c)
  BY <1>1, <1>3 DEF MovesTo, LifeStep, GoTo, OwnIds
<1> QED BY <1>4, LivesStepOf

\* Every step keeps the registry, and every connection, as they should be.
RegistryInv == RegistryTypeOK /\ AliasesInverse
LivesInv == Lives /\ Owned /\ OwnIds

\* An alias is no peer and no id.
LEMMA AliasFrame ==
  ASSUME NEW p, NEW k, alias(p, k)
  PROVE  UNCHANGED <<next_id, peers>>
BY DEF alias, AliasUnchecked, registryVars

\* The steps that change the registry.
LEMMA RegistrySteps ==
  ASSUME RegistryInv, ServerTypeOK, LivesInv, NEW c \in Conns,
         \/ handle_connection_with_config(c) \/ RegistryHook(c)
         \/ on_peer_connect_with_handshake(c) \/ HandlerAliases(c) \/ DisconnectGuard(c)
  PROVE  RegistryInv' /\ LivesInv'
<1>1. /\ RegistryTypeOK /\ AliasesInverse /\ Lives /\ Owned /\ OwnIds
      /\ task \in [Conns -> TaskStates] /\ token \in [Conns -> BOOLEAN]
      /\ peer_id \in [Conns -> PeerIds \cup {None}] /\ hooks \in [Conns -> Nat]
      /\ next_id \in Nat /\ peers \subseteq PeerIds /\ None \notin peers
      /\ LifeOf(c)
  BY PeerFacts DEF RegistryInv, LivesInv, ServerTypeOK, RegistryTypeOK, Lives
<1>2. CASE handle_connection_with_config(c)
  <2>1. /\ next_id < MaxPeer /\ next_id' = next_id + 1 /\ UNCHANGED <<peers, aliases, alias_index>>
        /\ task[c] = "upgraded" /\ UNCHANGED <<scenario, srv, token, hooks>>
        /\ task' = [task EXCEPT ![c] = "connect"] /\ peer_id' = [peer_id EXCEPT ![c] = next_id]
    BY <1>2, Zenon DEF handle_connection_with_config, next_peer_id, GoTo
  <2>2. RegistryTypeOK'
    BY <1>1, <2>1, PeerFacts DEF RegistryTypeOK
  <2>3. AliasesInverse'
    BY <1>1, <2>1 DEF AliasesInverse, get_by
  <2>4. \A d \in Conns : peer_id[d] # next_id
    <3> SUFFICES ASSUME NEW d \in Conns, peer_id[d] = next_id PROVE FALSE
      OBVIOUS
    <3>1. peer_id[d] # None /\ peer_id[d] < next_id
      BY <1>1, PeerAssumption DEF Lives, LifeOf
    <3> QED BY <1>1, <3>1
  <2>5. next_id \notin peers
    BY <1>1, <2>4, Zenon DEF Owned
  <2>6. LifeOf(c)'
    BY <1>1, <2>1, <2>5, PeerAssumption DEF LifeOf, InLoop, Unminted, Registered, Over
  <2>7. /\ \A d \in Conns \ {c} : /\ task'[d] = task[d] /\ peer_id'[d] = peer_id[d]
                                  /\ token'[d] = token[d] /\ hooks'[d] = hooks[d]
        /\ peer_id'[c] = next_id /\ peer_id[c] = None
    BY <1>1, <2>1 DEF LifeOf, Unminted
  <2>8. LifeStep(c)
    BY <1>1, <2>1, <2>4, <2>6, <2>7 DEF LifeStep
  <2> QED BY <1>1, <2>2, <2>3, <2>8, LivesStepOf DEF RegistryInv, LivesInv
<1>3. CASE RegistryHook(c)
  <2>1. /\ UNCHANGED <<next_id, aliases, alias_index, scenario, srv, peer_id, token, hooks>>
        /\ task[c] = "connect" /\ task' = [task EXCEPT ![c] = "hello"] /\ insert(peer_id[c])
        /\ peer_id[c] \in PeerIds
    BY <1>1, <1>3 DEF RegistryHook, GoTo, LifeOf, Unminted
  <2>2. RegistryTypeOK' /\ AliasesInverse' /\ peers' = peers \cup {peer_id[c]}
    BY <1>1, <2>1, InsertKeeps, Zenon
  <2>3. LifeOf(c)'
    BY <1>1, <2>1 DEF LifeOf, InLoop, Unminted, Registered, Over
  <2>4. \A d \in Conns \ {c} : /\ task'[d] = task[d] /\ peer_id'[d] = peer_id[d]
                               /\ token'[d] = token[d] /\ hooks'[d] = hooks[d]
    BY <1>1, <2>1
  <2>5. \A d \in Conns \ {c} : peer_id[d] # peer_id[c]
    BY <1>1, <2>1, PeerFacts DEF OwnIds
  <2>6. None \notin peers'
    BY <1>1, <2>1, <2>2, PeerFacts, Zenon
  <2>7. LifeStep(c)
    BY <2>1, <2>2, <2>3, <2>4, <2>5, <2>6 DEF LifeStep
  <2> QED BY <1>1, <2>2, <2>7, LivesStepOf, Zenon DEF RegistryInv, LivesInv
<1>4. CASE on_peer_connect_with_handshake(c)
  <2>1. PICK k \in Keys : alias(peer_id[c], k)
    BY <1>4, Zenon DEF on_peer_connect_with_handshake
  <2>2. RegistryTypeOK' /\ AliasesInverse'
    BY <1>1, <2>1, AliasKeeps, Zenon
  <2>3. /\ UNCHANGED <<next_id, peers>> /\ UNCHANGED <<scenario, srv, peer_id, token, hooks>>
        /\ GoTo(c, "read") /\ task[c] = "handshake_hooks"
    BY <1>4, <2>1, AliasFrame, Zenon DEF on_peer_connect_with_handshake
  <2>4. ~(srv = "returned" /\ scenario.graceful = TRUE /\ InLoop(c)) /\ task[c] \in Registered
    BY <1>1, <2>3, Zenon DEF LifeOf, Registered
  <2>5. MovesTo(c, "read")
    BY <2>3, <2>4 DEF MovesTo, Registered
  <2>6. Lives' /\ Owned' /\ OwnIds'
    BY <1>1, <2>5, LivesMove, ZenonT(30)
  <2> QED BY <2>2, <2>6 DEF RegistryInv, LivesInv
<1>5. CASE HandlerAliases(c)
  <2>1. PICK k \in Keys : alias(peer_id[c], k)
    BY <1>5, ZenonT(30) DEF HandlerAliases
  <2>2. RegistryTypeOK' /\ AliasesInverse'
    BY <1>1, <2>1, AliasKeeps
  <2>3. UNCHANGED <<next_id, peers>> /\ UNCHANGED <<scenario, srv, task, peer_id, token, hooks>>
    BY <1>5, <2>1, AliasFrame, Zenon DEF HandlerAliases, connVars
  <2>4. Lives' /\ Owned' /\ OwnIds'
    BY <1>1, <2>3, LivesUnchanged
  <2> QED BY <2>2, <2>4 DEF RegistryInv, LivesInv
<1>6. CASE DisconnectGuard(c)
  <2>1. /\ UNCHANGED next_id /\ UNCHANGED <<scenario, srv, peer_id, token>>
        /\ task[c] = "leaving" /\ remove(peer_id[c])
        /\ task' = [task EXCEPT ![c] = "join"] \/ task' = [task EXCEPT ![c] = "done"]
        /\ hooks' = [hooks EXCEPT ![c] = @ + 1]
    <3>1. task' = [task EXCEPT ![c] = IF ending[c] = "exit" THEN "join" ELSE "done"]
      BY <1>6, Zenon DEF DisconnectGuard, GoTo
    <3>2. task' = [task EXCEPT ![c] = "join"] \/ task' = [task EXCEPT ![c] = "done"]
      <4>1. CASE ending[c] = "exit"
        BY <3>1, <4>1, Zenon
      <4>2. CASE ending[c] # "exit"
        BY <3>1, <4>2, Zenon
      <4> QED BY <4>1, <4>2
    <3>3. remove(peer_id[c])
      BY <1>6, Zenon DEF DisconnectGuard
    <3>4. /\ UNCHANGED next_id /\ UNCHANGED <<scenario, srv, peer_id, token>>
          /\ task[c] = "leaving" /\ hooks' = [hooks EXCEPT ![c] = @ + 1]
      BY <1>6, Zenon DEF DisconnectGuard
    <3> QED BY <3>2, <3>3, <3>4
  <2> peer_id[c] \in PeerIds
    BY <1>1, <2>1, Zenon DEF LifeOf, Unminted
  <2>2. RegistryTypeOK' /\ AliasesInverse' /\ peers' = peers \ {peer_id[c]}
    BY <1>1, <2>1, RemoveKeeps, Zenon
  <2>3. LifeOf(c)'
    BY <1>1, <2>1, <2>2, PeerFacts DEF LifeOf, InLoop, Unminted, Registered, Over
  <2>4. LifeStep(c)
    BY <1>1, <2>1, <2>2, <2>3 DEF LifeStep, OwnIds
  <2> QED BY <1>1, <2>2, <2>4, LivesStepOf DEF RegistryInv, LivesInv
<1> QED BY <1>2, <1>3, <1>4, <1>5, <1>6, Zenon

\* The steps that move a task on.
LEMMA TaskMoves ==
  ASSUME Lives, NEW c \in Conns,
         \/ Arrives(c) \/ on_peer_connect(c) \/ LeavesReader(c) \/ AbortJoin(c) \/ WriterJoined(c)
         \/ ReaderSends(c)
  PROVE  UNCHANGED registryVars /\ \E state \in TaskStates : MovesTo(c, state)
<1> DEFINE Frame == UNCHANGED registryVars /\ UNCHANGED <<scenario, srv, peer_id, hooks>>
<1>1. ASSUME Frame PROVE UNCHANGED <<next_id, peers>> /\ UNCHANGED <<scenario, srv, peer_id, hooks>>
  BY <1>1 DEF registryVars
<1>2. LifeOf(c)
  BY DEF Lives
<1>3. CASE Accept(c)
  <2>1. Frame /\ UNCHANGED token /\ GoTo(c, "handshake")
    BY <1>3, Zenon DEF Accept
  <2>2. MovesTo(c, "handshake")
    BY <1>1, <1>3, <2>1, ZenonT(30) DEF MovesTo, Accept, Unminted
  <2> QED BY <2>1, <2>2, Zenon DEF TaskStates
<1>4. CASE adopt_upgraded(c)
  <2>1. Frame /\ UNCHANGED token /\ GoTo(c, "upgraded")
    BY <1>4, Zenon DEF adopt_upgraded
  <2>2. MovesTo(c, "upgraded")
    BY <1>1, <1>4, <2>1, Zenon DEF MovesTo, adopt_upgraded, Unminted, InLoop
  <2> QED BY <2>1, <2>2 DEF TaskStates
<1>5. CASE accept_repe_websocket(c)
  <2>1. /\ Frame /\ UNCHANGED token /\ task[c] = "handshake"
        /\ \E ok \in BOOLEAN : GoTo(c, IF ok THEN "upgraded" ELSE "done")
    BY <1>5 DEF accept_repe_websocket
  <2>2. GoTo(c, "upgraded") \/ GoTo(c, "done")
    BY <2>1, Zenon DEF GoTo
  <2>3. \A state \in {"upgraded", "done"} : GoTo(c, state) => MovesTo(c, state)
    BY <1>1, <1>2, <2>1, Zenon DEF MovesTo, LifeOf, Unminted
  <2> QED BY <2>1, <2>2, <2>3 DEF TaskStates
<1>6. CASE on_peer_connect(c)
  <2>1. /\ Frame /\ UNCHANGED token /\ task[c] = "hello"
        /\ GoTo(c, IF c \in scenario.captured THEN "handshake_hooks" ELSE "read")
    BY <1>6, Zenon DEF on_peer_connect
  <2>2. GoTo(c, "handshake_hooks") \/ GoTo(c, "read")
    BY <2>1, Zenon DEF GoTo
  <2>3. \A state \in {"handshake_hooks", "read"} : GoTo(c, state) => MovesTo(c, state)
    BY <1>1, <1>2, <2>1, Zenon DEF MovesTo, LifeOf, Registered
  <2> QED BY <2>1, <2>2, <2>3 DEF TaskStates
<1>7. CASE LeavesReader(c)
  <2>1. /\ Frame /\ token' = [token EXCEPT ![c] = TRUE] /\ GoTo(c, "leaving")
        /\ task[c] \in {"connect", "hello", "handshake_hooks", "read", "send"}
    BY <1>7 DEF LeavesReader, Leave, Hooking, Reading
  <2>2. MovesTo(c, "leaving")
    BY <1>1, <1>2, <2>1, Zenon DEF MovesTo, LifeOf, Registered
  <2> QED BY <2>1, <2>2, Zenon DEF TaskStates
<1>8. CASE AbortJoin(c)
  <2>1. Frame /\ UNCHANGED token /\ GoTo(c, "done") /\ task[c] \in {"handshake", "join"}
    BY <1>8 DEF AbortJoin
  <2>2. MovesTo(c, "done")
    BY <1>1, <2>1 DEF MovesTo, Unminted
  <2> QED BY <2>1, <2>2, Zenon DEF TaskStates
<1>9. CASE WriterJoined(c)
  <2>1. Frame /\ UNCHANGED token /\ GoTo(c, "done") /\ task[c] = "join"
    BY <1>9, ZenonT(30) DEF WriterJoined
  <2>2. MovesTo(c, "done")
    BY <1>1, <2>1 DEF MovesTo
  <2> QED BY <2>1, <2>2, Zenon DEF TaskStates
<1>10. CASE ReaderSends(c)
  <2>1. Frame /\ UNCHANGED token /\ GoTo(c, "read") /\ task[c] = "send"
    BY <1>10 DEF ReaderSends
  <2>2. MovesTo(c, "read")
    BY <1>1, <1>2, <2>1, Zenon DEF MovesTo, LifeOf, Registered
  <2> QED BY <2>1, <2>2, Zenon DEF TaskStates
<1> QED BY <1>3, <1>4, <1>5, <1>6, <1>7, <1>8, <1>9, <1>10, Zenon DEF Arrives

\* The reader stays where it is, or goes to send.
LEMMA ReadMoves ==
  ASSUME Lives, NEW c \in Conns, NEW notify \in BOOLEAN,
         ReadInline(c, notify) \/ spawn_off_reader(c, notify)
  PROVE  /\ UNCHANGED registryVars
         /\ \/ UNCHANGED <<scenario, srv, task, peer_id, token, hooks>>
            \/ MovesTo(c, "send")
<1>1. /\ UNCHANGED registryVars /\ UNCHANGED <<scenario, srv, peer_id, token, hooks>>
      /\ task[c] = "read"
  BY DEF ReadInline, spawn_off_reader, Read
<1>2. UNCHANGED task \/ GoTo(c, "send")
  BY DEF ReadInline, spawn_off_reader, Answer
<1>3. LifeOf(c)
  BY Zenon DEF Lives
<1>4. ASSUME GoTo(c, "send") PROVE MovesTo(c, "send")
  BY <1>1, <1>3, <1>4 DEF MovesTo, LifeOf, Registered, registryVars
<1> QED BY <1>1, <1>2, <1>4, Zenon

\* The steps of threads, writers and peers leave lives and registry alone.
LEMMA LivesFrame ==
  ASSUME NEW c \in Conns,
         \/ \E n \in Requests : HandlerEnds(c, n)
         \/ \E m \in replies[c] : HandlerReplies(c, m)
         \/ HandlerPushes(c) \/ BroadcastTo(c)
         \/ Takes(c) \/ Stops(c) \/ Sent(c) \/ WriterExits(c) \/ PeerGone(c)
  PROVE  UNCHANGED registryVars /\ UNCHANGED <<scenario, srv, task, peer_id, token, hooks>>
<1> USE DEF connVars
<1>1. CASE \E n \in Requests : HandlerEnds(c, n)
  BY <1>1, Zenon DEF HandlerEnds
<1>2. CASE \E m \in replies[c] : HandlerReplies(c, m)
  BY <1>2, Zenon DEF HandlerReplies
<1>3. CASE HandlerPushes(c) \/ BroadcastTo(c)
  BY <1>3, Zenon DEF HandlerPushes, BroadcastTo
<1>4. CASE Takes(c)
  BY <1>4, Zenon DEF Takes, Recv, TryRecv, TakeFrom
<1>5. CASE Stops(c)
  BY <1>5, Zenon DEF Stops, WriterStops
<1>6. CASE Sent(c) \/ WriterExits(c) \/ PeerGone(c)
  BY <1>6, Zenon DEF Sent, WriterExits, PeerGone
<1> QED BY <1>1, <1>2, <1>3, <1>4, <1>5, <1>6, Zenon

\* The accept loop returns from a graceful drain when its tasks are over.
LEMMA LoopLives ==
  ASSUME LivesInv, LoopStep
  PROVE  LivesInv' /\ UNCHANGED registryVars
<1>1. /\ UNCHANGED registryVars /\ UNCHANGED <<next_id, peers>>
      /\ UNCHANGED <<scenario, task, peer_id, token, hooks>>
  BY Zenon DEF LoopStep, Shutdown, CancelShutdownToken, DrainDeadline, DrainEnds, connVars, registryVars
<1>2. \/ srv' # "returned" \/ srv' = srv \/ scenario.graceful # TRUE
      \/ \A c \in Conns : InLoop(c) => task[c] \in {"none", "done"}
  <2>1. CASE Shutdown
    <3>1. srv' = IF scenario.graceful THEN "draining" ELSE "returned"
      BY <2>1 DEF Shutdown
    <3> QED BY <3>1, Zenon
  <2>2. CASE CancelShutdownToken \/ DrainDeadline
    BY <2>2, Zenon DEF CancelShutdownToken, DrainDeadline
  <2>3. CASE DrainEnds
    BY <2>3, Zenon DEF DrainEnds, AllJoined
  <2> QED BY <2>1, <2>2, <2>3, Zenon DEF LoopStep
<1>3. Lives'
  <2> SUFFICES ASSUME NEW c \in Conns PROVE LifeOf(c)'
    BY DEF Lives
  <2>1. LifeOf(c)
    BY DEF LivesInv, Lives
  <2>2. InLoop(c)' <=> InLoop(c)
    BY <1>1, Zenon DEF InLoop
  <2> QED BY <1>1, <1>2, <2>1, <2>2, Zenon DEF LifeOf
<1>4. Owned' /\ OwnIds'
  BY <1>1 DEF LivesInv, Owned, OwnIds
<1> QED BY <1>1, <1>3, <1>4 DEF LivesInv

LEMMA LivesStep ==
  ASSUME RegistryInv, ServerTypeOK, LivesInv, Next
  PROVE  RegistryInv' /\ LivesInv'
<1>1. ASSUME UNCHANGED registryVars
      PROVE  RegistryInv' /\ UNCHANGED <<next_id, peers>>
  BY <1>1, RegistryUnchanged DEF RegistryInv, registryVars
<1>2. ASSUME UNCHANGED registryVars, UNCHANGED <<scenario, srv, task, peer_id, token, hooks>>
      PROVE  RegistryInv' /\ LivesInv'
  BY <1>1, <1>2, LivesUnchanged DEF LivesInv
<1>3. ASSUME NEW c \in Conns, UNCHANGED registryVars, NEW state \in TaskStates, MovesTo(c, state)
      PROVE  RegistryInv' /\ LivesInv'
  BY <1>1, <1>3, LivesMove DEF LivesInv, RegistryInv
<1>4. CASE LoopStep
  BY <1>1, <1>4, LoopLives
<1>5. ASSUME NEW c \in Conns, NEW notify \in BOOLEAN,
             ReadInline(c, notify) \/ spawn_off_reader(c, notify)
      PROVE  RegistryInv' /\ LivesInv'
  <2>1. "send" \in TaskStates /\ Lives
    BY DEF TaskStates, LivesInv
  <2> QED BY <1>2, <1>3, <1>5, <2>1, ReadMoves
<1>6. ASSUME NEW c \in Conns,
             \/ Arrives(c) \/ on_peer_connect(c) \/ LeavesReader(c) \/ AbortJoin(c)
             \/ WriterJoined(c) \/ ReaderSends(c)
      PROVE  RegistryInv' /\ LivesInv'
  BY <1>3, <1>6, TaskMoves, Zenon DEF LivesInv
<1>7. CASE broadcast_each
  BY <1>2, <1>7 DEF broadcast_each, connVars
<1>8. ASSUME NEW c \in Conns,
             \/ \E n \in Requests : HandlerEnds(c, n)
             \/ \E m \in replies[c] : HandlerReplies(c, m)
             \/ HandlerPushes(c) \/ BroadcastTo(c)
             \/ Takes(c) \/ Stops(c) \/ Sent(c) \/ WriterExits(c) \/ PeerGone(c)
      PROVE  RegistryInv' /\ LivesInv'
  BY <1>2, <1>8, LivesFrame, Zenon
<1>9. ASSUME NEW c \in Conns,
             \/ handle_connection_with_config(c) \/ RegistryHook(c)
             \/ on_peer_connect_with_handshake(c) \/ HandlerAliases(c) \/ DisconnectGuard(c)
      PROVE  RegistryInv' /\ LivesInv'
  BY <1>9, RegistrySteps
<1> QED BY <1>4, <1>5, <1>6, <1>7, <1>8, <1>9, NextCases, Zenon

-----------------------------------------------------------------------------
(***************************************************************************)
(* Answers.  A request's answer is in one stage on its way to the peer: a  *)
(* step gives a stage at most one answer, and that is a new one or one     *)
(* that leaves another stage.                                              *)
(***************************************************************************)

\* What was read on a connection: the ids n asks for, the ones e expects an
\* answer for, and those of handlers u that run.
BooksIn(n, e, u) == e \subseteq 1 .. n /\ u \subseteq 1 .. n

\* The next request, n, is a new one, expected and run or not.
NextIn(n, e, u) ==
    /\ n \notin e /\ n \notin u
    /\ \A f \in {e, e \cup {n}}, v \in {u, u \cup {n}} : BooksIn(n, f, v)

LEMMA BooksNext ==
  ASSUME NEW k \in Nat, NEW e, NEW u, BooksIn(k, e, u)
  PROVE  NextIn(k + 1, e, u)
<1>1. 1 .. (k + 1) = (1 .. k) \cup {k + 1} /\ k + 1 \notin 1 .. k
  OBVIOUS
<1> QED BY <1>1, Zenon DEF BooksIn, NextIn

\* What is on its way to the peer, stage by stage: the replies r, the response
\* h that the reader holds, the channel o, the writer's message w and the wire
\* x answer requests of E, one each.
OneAnswerIn(r, h, o, w, x, E) ==
    LET R == Answers(r)
        H == Answers({h} \ {None})
        O == Answers(Range(o))
        W == Answers({w} \ {None})
        X == Answers(Range(x))
    IN  /\ R \cup H \cup O \cup W \cup X \subseteq E
        /\ R \cap H = {} /\ (R \cup H) \cap O = {} /\ (R \cup H \cup O) \cap W = {}
        /\ (R \cup H \cup O \cup W) \cap X = {}
        /\ NoneTwice(o) /\ NoneTwice(x)
        /\ \A m, n \in r : m.id = n.id => m = n

AnswersInv ==
    \A c \in Conns :
        /\ BooksIn(nread[c], expects[c], running[c])
        /\ OneAnswerIn(replies[c], held[c], outbound[c], wmsg[c], wire[c], expects[c] \ running[c])

LEMMA OneAnswerIs ==
  ASSUME NEW c \in Conns
  PROVE  OneAnswerIn(replies[c], held[c], outbound[c], wmsg[c], wire[c], expects[c] \ running[c]) <=>
         /\ \A s \in Stages : AnswersAt(c)[s] \subseteq expects[c] \ running[c]
         /\ \A s, t \in Stages : s # t => AnswersAt(c)[s] \cap AnswersAt(c)[t] = {}
         /\ NoneTwice(outbound[c]) /\ NoneTwice(wire[c])
         /\ \A m, n \in replies[c] : m.id = n.id => m = n
<1>1. /\ AnswersAt(c)["replies"] = Answers(replies[c])
      /\ AnswersAt(c)["held"] = Answers({held[c]} \ {None})
      /\ AnswersAt(c)["outbound"] = Answers(Range(outbound[c]))
      /\ AnswersAt(c)["wmsg"] = Answers({wmsg[c]} \ {None})
      /\ AnswersAt(c)["wire"] = Answers(Range(wire[c]))
  BY DEF AnswersAt, Stages
<1> DEFINE R == Answers(replies[c])
           H == Answers({held[c]} \ {None})
           O == Answers(Range(outbound[c]))
           W == Answers({wmsg[c]} \ {None})
           X == Answers(Range(wire[c]))
           E == expects[c] \ running[c]
<1>2. (\A s \in Stages : AnswersAt(c)[s] \subseteq E) <=> R \cup H \cup O \cup W \cup X \subseteq E
  <2>1. (\A s \in Stages : AnswersAt(c)[s] \subseteq E) <=>
           /\ AnswersAt(c)["replies"] \subseteq E /\ AnswersAt(c)["held"] \subseteq E
           /\ AnswersAt(c)["outbound"] \subseteq E /\ AnswersAt(c)["wmsg"] \subseteq E
           /\ AnswersAt(c)["wire"] \subseteq E
    BY Zenon DEF Stages
  <2> HIDE DEF R, H, O, W, X, E
  <2> QED BY <1>1, <2>1, Zenon DEF R, H, O, W, X
<1>3. (\A s, t \in Stages : s # t => AnswersAt(c)[s] \cap AnswersAt(c)[t] = {}) <=>
        /\ R \cap H = {} /\ (R \cup H) \cap O = {} /\ (R \cup H \cup O) \cap W = {}
        /\ (R \cup H \cup O \cup W) \cap X = {}
  <2>1. /\ R = AnswersAt(c)["replies"] /\ H = AnswersAt(c)["held"] /\ O = AnswersAt(c)["outbound"]
        /\ W = AnswersAt(c)["wmsg"] /\ X = AnswersAt(c)["wire"]
    BY <1>1, Zenon
  <2> HIDE DEF R, H, O, W, X
  <2>2. ASSUME \A s, t \in Stages : s # t => AnswersAt(c)[s] \cap AnswersAt(c)[t] = {}
        PROVE  /\ R \cap H = {} /\ R \cap O = {} /\ H \cap O = {} /\ R \cap W = {} /\ H \cap W = {}
               /\ O \cap W = {} /\ R \cap X = {} /\ H \cap X = {} /\ O \cap X = {} /\ W \cap X = {}
    BY <2>1, <2>2, Zenon DEF Stages
  <2>3. ASSUME /\ R \cap H = {} /\ (R \cup H) \cap O = {} /\ (R \cup H \cup O) \cap W = {}
               /\ (R \cup H \cup O \cup W) \cap X = {}
        PROVE  \A s, t \in Stages : s # t => AnswersAt(c)[s] \cap AnswersAt(c)[t] = {}
    <3>1. /\ R \cap H = {} /\ R \cap O = {} /\ H \cap O = {} /\ R \cap W = {} /\ H \cap W = {}
          /\ O \cap W = {} /\ R \cap X = {} /\ H \cap X = {} /\ O \cap X = {} /\ W \cap X = {}
      BY <2>3
    <3>2. /\ H \cap R = {} /\ O \cap R = {} /\ O \cap H = {} /\ W \cap R = {} /\ W \cap H = {}
          /\ W \cap O = {} /\ X \cap R = {} /\ X \cap H = {} /\ X \cap O = {} /\ X \cap W = {}
      BY <3>1
    <3> QED BY <2>1, <3>1, <3>2 DEF Stages
  <2> QED BY <2>2, <2>3, Zenon
<1> QED BY <1>2, <1>3, Zenon DEF OneAnswerIn

LEMMA AnswersAre == AnswersInv => OneAnswer
BY OneAnswerIs, Zenon DEF AnswersInv, OneAnswer

\* A step of one connection.
Untouched(c) ==
    /\ nread'[c] = nread[c] /\ expects'[c] = expects[c] /\ running'[c] = running[c]
    /\ replies'[c] = replies[c] /\ held'[c] = held[c] /\ outbound'[c] = outbound[c]
    /\ wmsg'[c] = wmsg[c] /\ wire'[c] = wire[c]

LEMMA AnswersStepOf ==
  ASSUME AnswersInv, NEW c \in Conns, \A d \in Conns \ {c} : Untouched(d),
         BooksIn(nread'[c], expects'[c], running'[c]),
         OneAnswerIn(replies'[c], held'[c], outbound'[c], wmsg'[c], wire'[c],
                     expects'[c] \ running'[c])
  PROVE  AnswersInv'
<1>1. ASSUME NEW d \in Conns \ {c}
      PROVE  /\ BooksIn(nread'[d], expects'[d], running'[d])
             /\ OneAnswerIn(replies'[d], held'[d], outbound'[d], wmsg'[d], wire'[d],
                            expects'[d] \ running'[d])
  BY Zenon DEF AnswersInv, Untouched
<1> QED BY <1>1, Zenon DEF AnswersInv

(***************************************************************************)
(* What the steps do to the stages of one connection.                      *)
(***************************************************************************)
\* A message, and none, as a stage.
LEMMA StageFacts ==
  /\ \A m \in Msg : Answers({m} \ {None}) = {m.id} \ {0}
  /\ Answers({None} \ {None}) = {}
  /\ Answers(Range(<<>>)) = {} /\ NoneTwice(<<>>)
<1>1. \A m \in Msg : Answers({m} \ {None}) = {m.id} \ {0}
  BY BoundFacts DEF Answers
<1>2. Answers({None} \ {None}) = {}
  BY DEF Answers
<1>3. Answers(Range(<<>>)) = {} /\ NoneTwice(<<>>)
  BY DEF Answers, Range, NoneTwice
<1> QED BY <1>1, <1>2, <1>3, Zenon

LEMMA StageWidens ==
  ASSUME NEW r, NEW h, NEW o, NEW w, NEW x, NEW E, NEW F,
         OneAnswerIn(r, h, o, w, x, E), E \subseteq F
  PROVE  OneAnswerIn(r, h, o, w, x, F)
BY Zenon DEF OneAnswerIn

\* g, p and v are what is left of h, o and w when messages are lost.
Lost(h, o, w, g, p, v) == g \in {h, None} /\ p \in {o, <<>>} /\ v \in {w, None}

\* Messages are lost.
LEMMA StageDrops ==
  ASSUME NEW r, NEW h, NEW o, NEW w, NEW x, NEW E, OneAnswerIn(r, h, o, w, x, E),
         NEW g, NEW p, NEW v, Lost(h, o, w, g, p, v)
  PROVE  OneAnswerIn(r, g, p, v, x, E)
<1>0. g \in {h, None} /\ p \in {o, <<>>} /\ v \in {w, None}
  BY Zenon DEF Lost
<1>1. /\ Answers({g} \ {None}) \subseteq Answers({h} \ {None})
      /\ Answers({v} \ {None}) \subseteq Answers({w} \ {None})
  BY <1>0, Zenon DEF Answers
<1>2. NoneTwice(p) /\ Answers(Range(p)) \subseteq Answers(Range(o))
  BY <1>0, StageFacts, Zenon DEF OneAnswerIn
<1> QED BY <1>1, <1>2, Zenon DEF OneAnswerIn

\* The reader holds the response to a new request.
LEMMA StageHolds ==
  ASSUME NEW r, NEW h, NEW o, NEW w, NEW x, NEW E, OneAnswerIn(r, h, o, w, x, E),
         NEW m \in Msg, m.id \notin E
  PROVE  OneAnswerIn(r, m, o, w, x, E \cup {m.id})
<1>1. Answers({m} \ {None}) \subseteq {m.id}
  BY StageFacts
<1> QED BY <1>1, Zenon DEF OneAnswerIn

\* A handler leaves the response to its request.
LEMMA StageReplies ==
  ASSUME NEW r, NEW h, NEW o, NEW w, NEW x, NEW E, OneAnswerIn(r, h, o, w, x, E),
         NEW m \in Msg, m.id \notin E, m.id # 0
  PROVE  OneAnswerIn(r \cup {m}, h, o, w, x, E \cup {m.id})
<1>1. Answers(r \cup {m}) = Answers(r) \cup {m.id}
  BY AnswersFacts
<1>2. \A n \in r : n.id # m.id
  BY DEF OneAnswerIn, Answers
<1> QED BY <1>1, <1>2, Zenon DEF OneAnswerIn

\* The channel gets a push.
LEMMA StagePush ==
  ASSUME NEW r, NEW h, NEW o \in Seq(Msg), NEW w, NEW x, NEW E, OneAnswerIn(r, h, o, w, x, E),
         NEW m \in Msg, m.id = 0
  PROVE  OneAnswerIn(r, h, Append(o, m), w, x, E)
<1>1. NoneTwice(o) /\ m.id \notin Answers(Range(o))
  BY DEF OneAnswerIn, Answers
<1>2. NoneTwice(Append(o, m)) /\ Answers(Range(Append(o, m))) = Answers(Range(o))
  <2>1. /\ NoneTwice(Append(o, m))
        /\ Answers(Range(Append(o, m))) = Answers(Range(o)) \cup ({m.id} \ {0})
    BY <1>1, AppendAnswers, Zenon
  <2>2. {m.id} \ {0} = {}
    OBVIOUS
  <2> QED BY <2>1, <2>2
<1> QED BY <1>2, Zenon DEF OneAnswerIn

\* The channel gets the reader's response.
LEMMA StageSend ==
  ASSUME NEW r, NEW h \in Msg, NEW o \in Seq(Msg), NEW w, NEW x, NEW E,
         OneAnswerIn(r, h, o, w, x, E)
  PROVE  OneAnswerIn(r, None, Append(o, h), w, x, E)
<1>1. Answers({h} \ {None}) = {h.id} \ {0} /\ Answers({None} \ {None}) = {}
  BY StageFacts, Zenon
<1>2. NoneTwice(o) /\ h.id \notin Answers(Range(o))
  <2>1. h.id # 0 => h.id \notin Answers(Range(o))
    BY <1>1, Zenon DEF OneAnswerIn
  <2> QED BY <2>1 DEF OneAnswerIn, Answers
<1>3. /\ NoneTwice(Append(o, h))
      /\ Answers(Range(Append(o, h))) = Answers(Range(o)) \cup ({h.id} \ {0})
  BY <1>2, AppendAnswers
<1> QED BY <1>1, <1>3, Zenon DEF OneAnswerIn

\* A handler's reply m leaves r for the channel, or is dropped.
Delivers(r, o, m, q, p) == m \in Msg /\ m \in r /\ q = r \ {m} /\ p \in {o, Append(o, m)}

LEMMA StageReply ==
  ASSUME NEW r, NEW h, NEW o \in Seq(Msg), NEW w, NEW x, NEW E, OneAnswerIn(r, h, o, w, x, E),
         NEW m, NEW q, NEW p, Delivers(r, o, m, q, p)
  PROVE  OneAnswerIn(q, h, p, w, x, E)
<1>0. m \in r /\ m \in Msg /\ q = r \ {m} /\ p \in {o, Append(o, m)}
  BY Zenon DEF Delivers
<1>1. Answers(r \ {m}) \subseteq Answers(r) \ {m.id}
  BY <1>0, Zenon DEF OneAnswerIn, Answers
<1>2. {m.id} \ {0} \subseteq Answers(r)
  BY <1>0, Zenon DEF Answers
<1>3. NoneTwice(o) /\ m.id \notin Answers(Range(o))
  <2>1. m.id # 0 => m.id \notin Answers(Range(o))
    BY <1>0, <1>2 DEF OneAnswerIn
  <2> QED BY <1>0, <2>1, Zenon DEF OneAnswerIn, Answers
<1>4. /\ NoneTwice(Append(o, m))
      /\ Answers(Range(Append(o, m))) = Answers(Range(o)) \cup ({m.id} \ {0})
  BY <1>0, <1>3, AppendAnswers
<1>5. NoneTwice(p) /\ Answers(Range(p)) \subseteq Answers(Range(o)) \cup ({m.id} \ {0})
  BY <1>0, <1>3, <1>4, Zenon
<1> QED BY <1>0, <1>1, <1>2, <1>5, Zenon DEF OneAnswerIn

\* v is what the writer sends for the first message of o, if it sends anything.
Framed(o, v) ==
    o \in Seq(Msg) /\ o # <<>> /\ v \in Msg \cup {None} /\ (v # None => v.id = Head(o).id)

\* The writer takes the head of the channel.
LEMMA StageTake ==
  ASSUME NEW r, NEW h, NEW o, NEW w, NEW x, NEW E,
         OneAnswerIn(r, h, o, w, x, E), NEW v, Framed(o, v)
  PROVE  OneAnswerIn(r, h, Tail(o), v, x, E)
<1>1. NoneTwice(o)
  BY Zenon DEF OneAnswerIn
<1>2. /\ NoneTwice(Tail(o))
      /\ Answers(Range(Tail(o))) \subseteq Answers(Range(o)) \ {Head(o).id}
      /\ {Head(o).id} \ {0} \subseteq Answers(Range(o))
  BY <1>1, TailAnswers DEF Framed
<1>3. Answers({v} \ {None}) \subseteq {Head(o).id} \ {0}
  BY StageFacts, Zenon DEF Framed
<1> QED BY <1>2, <1>3, Zenon DEF OneAnswerIn

\* The writer's message reaches the peer, or looks as if it had.
LEMMA StageSent ==
  ASSUME NEW r, NEW h, NEW o, NEW w \in Msg, NEW x \in Seq(Msg), NEW E,
         OneAnswerIn(r, h, o, w, x, E), NEW y \in {x, Append(x, w)}
  PROVE  OneAnswerIn(r, h, o, None, y, E)
<1>1. Answers({w} \ {None}) = {w.id} \ {0} /\ Answers({None} \ {None}) = {}
  BY StageFacts, Zenon
<1>2. NoneTwice(x) /\ w.id \notin Answers(Range(x))
  <2>1. w.id # 0 => w.id \notin Answers(Range(x))
    BY <1>1, Zenon DEF OneAnswerIn
  <2> QED BY <2>1, Zenon DEF OneAnswerIn, Answers
<1>3. /\ NoneTwice(Append(x, w))
      /\ Answers(Range(Append(x, w))) = Answers(Range(x)) \cup ({w.id} \ {0})
  BY <1>2, AppendAnswers
<1>4. NoneTwice(y) /\ Answers(Range(y)) \subseteq Answers(Range(x)) \cup ({w.id} \ {0})
  BY <1>2, <1>3, Zenon
<1> QED BY <1>1, <1>4, Zenon DEF OneAnswerIn

(***************************************************************************)
(* Every step keeps the answers.                                           *)
(***************************************************************************)
\* What AnswersStepOf needs to hear of c, and what it knows of c.
AnswersOf(c) ==
    /\ BooksIn(nread[c], expects[c], running[c])
    /\ OneAnswerIn(replies[c], held[c], outbound[c], wmsg[c], wire[c], expects[c] \ running[c])

StageTypes ==
    /\ nread \in [Conns -> 0 .. MaxRequests] /\ expects \in [Conns -> SUBSET Requests]
    /\ running \in [Conns -> SUBSET Requests] /\ replies \in [Conns -> SUBSET Msg]
    /\ held \in [Conns -> Msg \cup {None}] /\ outbound \in [Conns -> Seq(Msg)]
    /\ wmsg \in [Conns -> Msg \cup {None}] /\ wire \in [Conns -> Seq(Msg)]

\* A push answers nothing.
LEMMA PushAnswers ==
  ASSUME StageTypes, AnswersInv, NEW c \in Conns, NEW m \in Msg, m.id = 0, send_notify(c, m),
         UNCHANGED <<nread, expects, running, replies, held, wmsg, wire>>
  PROVE  AnswersInv'
<1>1. outbound \in [Conns -> Seq(Msg)] /\ outbound[c] \in Seq(Msg)
  BY Zenon DEF StageTypes
<1>2. AnswersOf(c)
  BY Zenon DEF AnswersInv, AnswersOf
<1>3. \A d \in Conns \ {c} : Untouched(d)
  BY <1>1 DEF Untouched, send_notify
<1>4. outbound'[c] = outbound[c] \/ outbound'[c] = Append(outbound[c], m)
  BY <1>1 DEF send_notify
<1>5. OneAnswerIn(replies[c], held[c], outbound'[c], wmsg[c], wire[c], expects[c] \ running[c])
  BY <1>1, <1>2, <1>4, StagePush, Zenon DEF AnswersOf
<1> QED BY <1>2, <1>3, <1>5, AnswersStepOf, Zenon DEF AnswersOf

\* Steps that lose messages.
LEMMA DropAnswers ==
  ASSUME StageTypes, AnswersInv, NEW c \in Conns,
         UNCHANGED <<nread, expects, running, replies, wire>>,
         UNCHANGED held \/ held' = [held EXCEPT ![c] = None],
         UNCHANGED wmsg \/ wmsg' = [wmsg EXCEPT ![c] = None],
         UNCHANGED outbound \/ outbound' = [outbound EXCEPT ![c] = <<>>]
  PROVE  AnswersInv'
<1>1. AnswersOf(c)
  BY Zenon DEF AnswersInv, AnswersOf
<1>2. \A d \in Conns \ {c} : Untouched(d)
  BY DEF Untouched, StageTypes
<1>3. /\ held'[c] \in {held[c], None} /\ wmsg'[c] \in {wmsg[c], None}
      /\ outbound'[c] \in {outbound[c], <<>>}
  BY Zenon DEF StageTypes
<1>4. OneAnswerIn(replies[c], held'[c], outbound'[c], wmsg'[c], wire[c], expects[c] \ running[c])
  <2>1. OneAnswerIn(replies[c], held[c], outbound[c], wmsg[c], wire[c], expects[c] \ running[c])
    BY <1>1, Zenon DEF AnswersOf
  <2>2. Lost(held[c], outbound[c], wmsg[c], held'[c], outbound'[c], wmsg'[c])
    BY <1>3, Zenon DEF Lost
  <2> QED BY <2>1, <2>2, StageDrops, Zenon
<1> QED BY <1>1, <1>2, <1>4, AnswersStepOf, Zenon DEF AnswersOf

\* The reader: the request is new, so is what it has to send.
LEMMA ReadAnswers ==
  ASSUME ServerTypeOK, StageTypes, AnswersInv, NEW c \in Conns, NEW notify \in BOOLEAN,
         Read(c, notify), UNCHANGED <<replies, outbound, wmsg, wire>>,
         \/ UNCHANGED <<held, running>>
         \/ UNCHANGED held /\ running' = [running EXCEPT ![c] = @ \cup {nread'[c]}]
         \/ /\ UNCHANGED running /\ ~notify
            /\ \E m \in Msg : m.id = nread'[c] /\ held' = [held EXCEPT ![c] = m]
  PROVE  AnswersInv'
<1> DEFINE n == nread'[c]
           E == expects[c] \ running[c]
           F == expects'[c] \ running'[c]
<1>1. AnswersOf(c)
  BY Zenon DEF AnswersInv, AnswersOf
<1>2. \A d \in Conns \ {c} : Untouched(d)
  BY DEF Untouched, Read, StageTypes
<1>3. n = nread[c] + 1 /\ nread[c] \in Nat
  BY ReadTypes DEF StageTypes
<1>4. NextIn(n, expects[c], running[c])
  <2>1. BooksIn(nread[c], expects[c], running[c])
    BY <1>1, Zenon DEF AnswersOf
  <2> HIDE DEF n
  <2> QED BY <1>3, <2>1, BooksNext, Zenon
<1>5. expects'[c] = IF notify THEN expects[c] ELSE expects[c] \cup {n}
  BY DEF Read, StageTypes
<1>6. running'[c] = running[c] \/ running'[c] = running[c] \cup {n}
  BY Zenon DEF StageTypes
<1>7. BooksIn(nread'[c], expects'[c], running'[c])
  <2>1. expects'[c] \in {expects[c], expects[c] \cup {n}}
    BY <1>5, Zenon
  <2>2. running'[c] \in {running[c], running[c] \cup {n}}
    BY <1>6, Zenon
  <2> QED BY <1>4, <2>1, <2>2, Zenon DEF NextIn
<1>8. OneAnswerIn(replies[c], held[c], outbound[c], wmsg[c], wire[c], E)
  BY <1>1, Zenon DEF AnswersOf
<1>9. E \subseteq F /\ n \notin E
  BY <1>4, <1>5, <1>6, Zenon DEF NextIn
<1>10. OneAnswerIn(replies[c], held'[c], outbound[c], wmsg[c], wire[c], F)
  <2>1. CASE held'[c] = held[c]
    <3> HIDE DEF E, F
    <3> QED BY <1>8, <1>9, <2>1, StageWidens, Zenon
  <2>2. CASE held'[c] # held[c]
    <3>1. PICK m \in Msg : m.id = n /\ held'[c] = m /\ running'[c] = running[c] /\ ~notify
      BY <2>2, Zenon DEF StageTypes
    <3>2. F = E \cup {m.id}
      BY <1>4, <1>5, <3>1, Zenon DEF NextIn
    <3>3. m.id \notin E
      BY <1>9, <3>1
    <3> HIDE DEF E, F
    <3> QED BY <1>8, <3>1, <3>2, <3>3, StageHolds, Zenon
  <2> QED BY <2>1, <2>2, Zenon
<1> QED BY <1>2, <1>7, <1>10, AnswersStepOf, Zenon

LEMMA ReaderSendsAnswers ==
  ASSUME StageTypes, Handoffs, AnswersInv, NEW c \in Conns, ReaderSends(c)
  PROVE  AnswersInv'
<1>1. /\ outbound' = [outbound EXCEPT ![c] = Append(@, held[c])]
      /\ held' = [held EXCEPT ![c] = None] /\ task[c] = "send"
      /\ UNCHANGED <<nread, expects, running, replies, wmsg, wire>>
  BY Zenon DEF ReaderSends, writerVars, offVars
<1>2. AnswersOf(c)
  BY Zenon DEF AnswersInv, AnswersOf
<1>3. \A d \in Conns \ {c} : Untouched(d)
  BY <1>1, Zenon DEF Untouched, StageTypes
<1>4. /\ held[c] \in Msg /\ outbound[c] \in Seq(Msg)
      /\ outbound'[c] = Append(outbound[c], held[c]) /\ held'[c] = None
  BY <1>1, Zenon DEF Handoffs, StageTypes
<1>5. OneAnswerIn(replies[c], held[c], outbound[c], wmsg[c], wire[c], expects[c] \ running[c])
  BY <1>2, Zenon DEF AnswersOf
<1>6. OneAnswerIn(replies[c], held'[c], outbound'[c], wmsg[c], wire[c], expects[c] \ running[c])
  BY <1>4, <1>5, StageSend, ZenonT(30)
<1> QED BY <1>1, <1>2, <1>3, <1>6, AnswersStepOf, Zenon DEF AnswersOf

LEMMA HandlerEndsAnswers ==
  ASSUME StageTypes, AnswersInv, NEW c \in Conns, NEW n \in Requests, HandlerEnds(c, n)
  PROVE  AnswersInv'
<1> DEFINE E == expects[c] \ running[c]
           F == expects'[c] \ running'[c]
<1>1. /\ n \in running[c] /\ running' = [running EXCEPT ![c] = @ \ {n}]
      /\ UNCHANGED <<nread, expects, held, outbound, wmsg, wire>>
  BY Zenon DEF HandlerEnds, connVars, writerVars
<1>2. AnswersOf(c)
  BY Zenon DEF AnswersInv, AnswersOf
<1>3. \A d \in Conns \ {c} : Untouched(d)
  BY <1>1 DEF Untouched, StageTypes, HandlerEnds
<1>4. running'[c] = running[c] \ {n} /\ expects'[c] = expects[c]
  BY <1>1, Zenon DEF StageTypes
<1>5. BooksIn(nread'[c], expects'[c], running'[c])
  BY <1>1, <1>2, <1>4, Zenon DEF AnswersOf, BooksIn
<1>6. OneAnswerIn(replies[c], held[c], outbound[c], wmsg[c], wire[c], E)
  BY <1>2, Zenon DEF AnswersOf
<1>7. OneAnswerIn(replies'[c], held[c], outbound[c], wmsg[c], wire[c], F)
  <2>1. CASE n \in expects[c]
    <3>1. PICK code \in {"ok", "big", "InternalError"} :
             replies' = [replies EXCEPT ![c] = @ \cup {Response(n, code)}]
      BY <2>1, ZenonT(30) DEF HandlerEnds
    <3>2. Response(n, code) \in Msg /\ Response(n, code).id = n /\ n # 0
      BY MessageFacts DEF Requests
    <3>3. replies'[c] = replies[c] \cup {Response(n, code)}
      BY <3>1, Zenon DEF StageTypes
    <3>4. n \notin E /\ F = E \cup {n}
      BY <1>1, <1>4, <2>1, Zenon
    <3> HIDE DEF E, F
    <3>5. OneAnswerIn(replies[c] \cup {Response(n, code)}, held[c], outbound[c], wmsg[c], wire[c],
                      E \cup {Response(n, code).id})
      BY <1>6, <3>2, <3>4, StageReplies, Zenon
    <3> QED BY <3>2, <3>3, <3>4, <3>5, ZenonT(30)
  <2>2. CASE n \notin expects[c]
    <3>1. replies'[c] = replies[c] /\ E \subseteq F
      BY <1>4, <2>2 DEF HandlerEnds
    <3> HIDE DEF E, F
    <3> QED BY <1>6, <3>1, StageWidens, Zenon
  <2> QED BY <2>1, <2>2, Zenon
<1> QED BY <1>1, <1>3, <1>5, <1>7, AnswersStepOf, Zenon

LEMMA HandlerRepliesAnswers ==
  ASSUME StageTypes, AnswersInv, NEW c \in Conns, NEW m \in replies[c], HandlerReplies(c, m)
  PROVE  AnswersInv'
<1>1. /\ replies' = [replies EXCEPT ![c] = @ \ {m}] /\ send_notify(c, m)
      /\ UNCHANGED <<nread, expects, running, held, wmsg, wire>>
  BY Zenon DEF HandlerReplies, connVars, writerVars
<1>2. AnswersOf(c)
  BY Zenon DEF AnswersInv, AnswersOf
<1>3. \A d \in Conns \ {c} : Untouched(d)
  BY <1>1, Zenon DEF Untouched, StageTypes, send_notify
<1>4. /\ Delivers(replies[c], outbound[c], m, replies'[c], outbound'[c])
      /\ outbound[c] \in Seq(Msg)
  BY <1>1, Zenon DEF StageTypes, send_notify, Delivers
<1>5. OneAnswerIn(replies[c], held[c], outbound[c], wmsg[c], wire[c], expects[c] \ running[c])
  BY <1>2, ZenonT(30) DEF AnswersOf
<1>6. OneAnswerIn(replies'[c], held[c], outbound'[c], wmsg[c], wire[c], expects[c] \ running[c])
  BY <1>4, <1>5, StageReply, Zenon
<1> QED BY <1>1, <1>2, <1>3, <1>6, AnswersStepOf, Zenon DEF AnswersOf

LEMMA TakesAnswers ==
  ASSUME StageTypes, AnswersInv, NEW c \in Conns, Takes(c)
  PROVE  AnswersInv'
<1> DEFINE framed == frame_outbound(Head(outbound[c]))
<1>1. /\ outbound[c] # <<>> /\ outbound' = [outbound EXCEPT ![c] = Tail(@)]
      /\ wmsg' = [wmsg EXCEPT ![c] = framed]
      /\ UNCHANGED <<nread, expects, running, replies, held, wire>>
  BY Zenon DEF Takes, Recv, TryRecv, TakeFrom, connVars, offVars
<1>2. AnswersOf(c)
  BY Zenon DEF AnswersInv, AnswersOf
<1>3. \A d \in Conns \ {c} : Untouched(d)
  BY <1>1 DEF Untouched, StageTypes
<1>4. /\ outbound[c] \in Seq(Msg) /\ outbound'[c] = Tail(outbound[c]) /\ wmsg'[c] = framed
      /\ Head(outbound[c]) \in Msg /\ outbound[c] # <<>>
  BY <1>1 DEF StageTypes
<1>5. Framed(outbound[c], framed)
  <2>1. framed \in Msg \cup {None} /\ (framed # None => framed.id = Head(outbound[c]).id)
    BY <1>4, MessageFacts, Zenon
  <2> QED BY <1>4, <2>1, Zenon DEF Framed
<1>6. OneAnswerIn(replies[c], held[c], outbound[c], wmsg[c], wire[c], expects[c] \ running[c])
  BY <1>2, Zenon DEF AnswersOf
<1>7. OneAnswerIn(replies[c], held[c], outbound'[c], wmsg'[c], wire[c], expects[c] \ running[c])
  <2> HIDE DEF framed
  <2> QED BY <1>4, <1>5, <1>6, StageTake, Zenon
<1> QED BY <1>1, <1>2, <1>3, <1>7, AnswersStepOf, Zenon DEF AnswersOf

LEMMA SentAnswers ==
  ASSUME StageTypes, Handoffs, AnswersInv, NEW c \in Conns, Sent(c)
  PROVE  AnswersInv'
<1>1. /\ writer[c] \in {"sending", "drain_send"} /\ wmsg' = [wmsg EXCEPT ![c] = None]
      /\ wire' = IF gone[c] THEN wire ELSE [wire EXCEPT ![c] = Append(@, wmsg[c])]
      /\ UNCHANGED <<nread, expects, running, replies, held, outbound>>
  BY DEF Sent, connVars, offVars
<1>2. AnswersOf(c)
  BY Zenon DEF AnswersInv, AnswersOf
<1>3. \A d \in Conns \ {c} : Untouched(d)
  BY <1>1, Zenon DEF Untouched, StageTypes
<1>4. /\ wmsg[c] \in Msg /\ wire[c] \in Seq(Msg) /\ wmsg'[c] = None
      /\ wire'[c] \in {wire[c], Append(wire[c], wmsg[c])}
  BY <1>1, Zenon DEF StageTypes, Handoffs
<1>5. OneAnswerIn(replies[c], held[c], outbound[c], wmsg[c], wire[c], expects[c] \ running[c])
  BY <1>2, Zenon DEF AnswersOf
<1>6. OneAnswerIn(replies[c], held[c], outbound[c], wmsg'[c], wire'[c], expects[c] \ running[c])
  BY <1>4, <1>5, StageSent, Zenon
<1> QED BY <1>1, <1>2, <1>3, <1>6, AnswersStepOf, Zenon DEF AnswersOf

\* The steps that move no message.
LEMMA AnswersFrame ==
  ASSUME \/ LoopStep \/ broadcast_each
         \/ \E c \in Conns :
              \/ Arrives(c) \/ handle_connection_with_config(c) \/ RegistryHook(c)
              \/ on_peer_connect_with_handshake(c) \/ AbortJoin(c) \/ DisconnectGuard(c)
              \/ WriterJoined(c) \/ HandlerAliases(c) \/ PeerGone(c)
  PROVE  UNCHANGED <<nread, expects, running, replies, held, outbound, wmsg, wire>>
<1> USE DEF connVars, writerVars, offVars
<1>1. CASE LoopStep
  BY <1>1, Zenon DEF LoopStep, Shutdown, CancelShutdownToken, DrainDeadline, DrainEnds
<1>2. CASE broadcast_each
  BY <1>2, Zenon DEF broadcast_each
<1>3. ASSUME NEW c \in Conns, Arrives(c) \/ WriterJoined(c)
      PROVE  UNCHANGED <<nread, expects, running, replies, held, outbound, wmsg, wire>>
  BY <1>3, Zenon DEF Arrives, Accept, adopt_upgraded, accept_repe_websocket, WriterJoined
<1>4. ASSUME NEW c \in Conns, handle_connection_with_config(c) \/ RegistryHook(c)
      PROVE  UNCHANGED <<nread, expects, running, replies, held, outbound, wmsg, wire>>
  BY <1>4, Zenon DEF handle_connection_with_config, RegistryHook
<1>5. ASSUME NEW c \in Conns, on_peer_connect_with_handshake(c) \/ HandlerAliases(c) \/ PeerGone(c)
      PROVE  UNCHANGED <<nread, expects, running, replies, held, outbound, wmsg, wire>>
  BY <1>5, Zenon DEF on_peer_connect_with_handshake, HandlerAliases, PeerGone
<1>6. ASSUME NEW c \in Conns, AbortJoin(c) \/ DisconnectGuard(c)
      PROVE  UNCHANGED <<nread, expects, running, replies, held, outbound, wmsg, wire>>
  BY <1>6, Zenon DEF AbortJoin, DisconnectGuard
<1> QED BY <1>1, <1>2, <1>3, <1>4, <1>5, <1>6, Zenon

LEMMA AnswersStep ==
  ASSUME ServerTypeOK, Handoffs, AnswersInv, Next
  PROVE  AnswersInv'
<1>1. StageTypes
  BY Zenon DEF ServerTypeOK, StageTypes
<1>2. ASSUME UNCHANGED <<nread, expects, running, replies, held, outbound, wmsg, wire>>
      PROVE  AnswersInv'
  BY <1>2, Zenon DEF AnswersInv
<1>3. ASSUME NEW c \in Conns, on_peer_connect(c) \/ HandlerPushes(c) \/ BroadcastTo(c)
      PROVE  AnswersInv'
  <2>1. UNCHANGED <<nread, expects, running, replies, held, wmsg, wire>>
    BY <1>3, Zenon DEF on_peer_connect, HandlerPushes, BroadcastTo, connVars, writerVars, offVars
  <2>2. PICK code \in {"ok", "big", "hello"} : send_notify(c, Notify(code))
    BY <1>3, Zenon DEF on_peer_connect, HandlerPushes, BroadcastTo
  <2> QED BY <1>1, <2>1, <2>2, MessageFacts, PushAnswers, Zenon
<1>4. ASSUME NEW c \in Conns, LeavesReader(c) \/ Stops(c) \/ WriterExits(c)
      PROVE  AnswersInv'
  <2>1. /\ UNCHANGED <<nread, expects, running, replies, wire>>
        /\ UNCHANGED held \/ held' = [held EXCEPT ![c] = None]
        /\ UNCHANGED wmsg \/ wmsg' = [wmsg EXCEPT ![c] = None]
        /\ UNCHANGED outbound \/ outbound' = [outbound EXCEPT ![c] = <<>>]
    BY <1>4, Zenon DEF LeavesReader, Leave, Stops, WriterStops, WriterExits, connVars, writerVars, offVars
  <2> QED BY <1>1, <2>1, DropAnswers, Zenon
<1>5. ASSUME NEW c \in Conns, NEW notify \in BOOLEAN,
             ReadInline(c, notify) \/ spawn_off_reader(c, notify)
      PROVE  AnswersInv'
  <2>1. Read(c, notify) /\ UNCHANGED <<replies, outbound, wmsg, wire>> /\ nread'[c] \in Requests
    BY <1>5, ReadTypes, Zenon DEF ReadInline, spawn_off_reader, writerVars, offVars
  <2>2. ASSUME NEW code \in {"ok", "big", "ResourceExhausted"}, Answer(c, notify, code)
        PROVE  \/ UNCHANGED held
               \/ ~notify /\ \E m \in Msg : m.id = nread'[c] /\ held' = [held EXCEPT ![c] = m]
    <3>1. Response(nread'[c], code) \in Msg /\ Response(nread'[c], code).id = nread'[c]
      BY <2>1, MessageFacts, Zenon
    <3> QED BY <2>2, <3>1, Zenon DEF Answer
  <2>3. \/ UNCHANGED <<held, running>>
        \/ UNCHANGED held /\ running' = [running EXCEPT ![c] = @ \cup {nread'[c]}]
        \/ /\ UNCHANGED running /\ ~notify
           /\ \E m \in Msg : m.id = nread'[c] /\ held' = [held EXCEPT ![c] = m]
    <3>1. CASE ReadInline(c, notify)
      BY <2>2, <3>1, Zenon DEF ReadInline, offVars
    <3>2. CASE spawn_off_reader(c, notify)
      BY <2>2, <3>2, Zenon DEF spawn_off_reader
    <3> QED BY <1>5, <3>1, <3>2, Zenon
  <2> QED BY <1>1, <2>1, <2>3, ReadAnswers, Zenon
<1>6. ASSUME NEW c \in Conns, ReaderSends(c) \/ Takes(c) \/ Sent(c)
      PROVE  AnswersInv'
  BY <1>1, <1>6, ReaderSendsAnswers, TakesAnswers, SentAnswers, Zenon
<1>7. ASSUME NEW c \in Conns, \/ \E n \in Requests : HandlerEnds(c, n)
                              \/ \E m \in replies[c] : HandlerReplies(c, m)
      PROVE  AnswersInv'
  BY <1>1, <1>7, HandlerEndsAnswers, HandlerRepliesAnswers, Zenon
<1>8. ASSUME \/ LoopStep \/ broadcast_each
             \/ \E c \in Conns :
                  \/ Arrives(c) \/ handle_connection_with_config(c) \/ RegistryHook(c)
                  \/ on_peer_connect_with_handshake(c) \/ AbortJoin(c) \/ DisconnectGuard(c)
                  \/ WriterJoined(c) \/ HandlerAliases(c) \/ PeerGone(c)
      PROVE  AnswersInv'
  BY <1>2, <1>8, AnswersFrame
<1> QED BY <1>3, <1>4, <1>5, <1>6, <1>7, <1>8, NextCases, Zenon
=============================================================================
