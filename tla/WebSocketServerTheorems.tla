----------------------- MODULE WebSocketServerTheorems -----------------------
(***************************************************************************)
(* The permits of the off-reader pool are conserved, and the theorems      *)
(* about the WebSocket server.                                             *)
(***************************************************************************)
EXTENDS WebSocketServerLives, FiniteSetTheorems

(* The permits of the off-reader semaphore.                                *)

\* p free permits, with handlers u running and replies r still to be sent.
PermitsIn(p, u, r) ==
    /\ IsFiniteSet(u) /\ IsFiniteSet(r)
    /\ IF offreader_limit = 0 THEN p = 0
       ELSE p + Cardinality(u) + Cardinality(r) = offreader_limit

PermitsInv == \A c \in Conns : PermitsIn(permits[c], running[c], replies[c])

\* Without a limit the count is not kept.
LEMMA PermitsAre ==
  ASSUME ServerTypeOK, PermitsInv
  PROVE  PermitsConserved /\ \A c \in Conns : permits[c] <= offreader_limit
<1>1. offreader_limit \in Nat /\ permits \in [Conns -> Nat]
  BY BoundFacts DEF ServerTypeOK
<1>2. ASSUME NEW c \in Conns
      PROVE  /\ offreader_limit > 0 =>
                  permits[c] + Cardinality(running[c]) + Cardinality(replies[c]) = offreader_limit
             /\ permits[c] <= offreader_limit
  <2>1. Cardinality(running[c]) \in Nat /\ Cardinality(replies[c]) \in Nat
    BY FS_CardinalityType DEF PermitsInv, PermitsIn
  <2> QED BY <1>1, <2>1 DEF PermitsInv, PermitsIn
<1> QED BY <1>2 DEF PermitsConserved

\* A handler n starts with one permit.
LEMMA PermitTaken ==
  ASSUME NEW p \in Nat, NEW u, NEW r, PermitsIn(p, u, r), NEW n, n \notin u,
         NEW q, q = IF offreader_limit = 0 THEN p ELSE p - 1
  PROVE  PermitsIn(q, u \cup {n}, r)
<1>1. /\ IsFiniteSet(u \cup {n}) /\ Cardinality(u \cup {n}) = Cardinality(u) + 1
      /\ Cardinality(u) \in Nat /\ Cardinality(r) \in Nat
  BY FS_AddElement, FS_CardinalityType, ZenonT(30) DEF PermitsIn
<1> QED BY <1>1, BoundFacts DEF PermitsIn

\* It ends in a response m that holds the permit, or gives it back.
LEMMA PermitPassed ==
  ASSUME NEW p \in Nat, NEW u, NEW r, PermitsIn(p, u, r), NEW n \in u, NEW m, m \notin r
  PROVE  PermitsIn(p, u \ {n}, r \cup {m})
<1>1. /\ IsFiniteSet(u \ {n}) /\ Cardinality(u \ {n}) = Cardinality(u) - 1
      /\ IsFiniteSet(r \cup {m}) /\ Cardinality(r \cup {m}) = Cardinality(r) + 1
      /\ Cardinality(u) \in Nat /\ Cardinality(r) \in Nat
  BY FS_AddElement, FS_RemoveElement, FS_CardinalityType DEF PermitsIn
<1> QED BY <1>1, BoundFacts DEF PermitsIn

LEMMA PermitBack ==
  ASSUME NEW p \in Nat, NEW u, NEW r, PermitsIn(p, u, r),
         NEW q, q = IF offreader_limit = 0 THEN p ELSE p + 1
  PROVE  /\ \A n \in u : PermitsIn(q, u \ {n}, r)
         /\ \A m \in r : PermitsIn(q, u, r \ {m})
<1>1. Cardinality(u) \in Nat /\ Cardinality(r) \in Nat
  BY FS_CardinalityType DEF PermitsIn
<1>2. ASSUME NEW n \in u PROVE PermitsIn(q, u \ {n}, r)
  <2>1. IsFiniteSet(u \ {n}) /\ Cardinality(u \ {n}) = Cardinality(u) - 1
    BY FS_RemoveElement, ZenonT(30) DEF PermitsIn
  <2> QED BY <1>1, <2>1, BoundFacts DEF PermitsIn
<1>3. ASSUME NEW m \in r PROVE PermitsIn(q, u, r \ {m})
  <2>1. IsFiniteSet(r \ {m}) /\ Cardinality(r \ {m}) = Cardinality(r) - 1
    BY FS_RemoveElement DEF PermitsIn
  <2> QED BY <1>1, <2>1, BoundFacts DEF PermitsIn
<1> QED BY <1>2, <1>3, Zenon

\* A step that moves no permit but those of c.
LEMMA PermitsStepOf ==
  ASSUME ServerTypeOK, PermitsInv, NEW c \in Conns, PermitsIn(permits'[c], running'[c], replies'[c]),
         \A d \in Conns \ {c} : /\ permits'[d] = permits[d] /\ running'[d] = running[d]
                                /\ replies'[d] = replies[d]
  PROVE  PermitsInv'
BY DEF PermitsInv

LEMMA SpawnPermits ==
  ASSUME ServerTypeOK, AnswersInv, PermitsInv, NEW c \in Conns, NEW notify \in BOOLEAN,
         spawn_off_reader(c, notify)
  PROVE  PermitsInv'
<1>1. CASE try_acquire(c)
  <2>1. /\ permits' = IF offreader_limit = 0 THEN permits ELSE [permits EXCEPT ![c] = @ - 1]
        /\ running' = [running EXCEPT ![c] = @ \cup {nread'[c]}] /\ UNCHANGED replies
    BY <1>1 DEF spawn_off_reader
  <2>2. permits \in [Conns -> Nat] /\ running \in [Conns -> SUBSET Requests]
    BY Zenon DEF ServerTypeOK
  <2>3. permits'[c] = IF offreader_limit = 0 THEN permits[c] ELSE permits[c] - 1
    BY <2>1, <2>2, ZenonT(30)
  <2>4. running'[c] = running[c] \cup {nread'[c]} /\ replies'[c] = replies[c]
    BY <2>1, <2>2, ZenonT(30)
  <2>5. nread'[c] \notin running[c]
    <3>1. nread'[c] = nread[c] + 1 /\ nread[c] \in Nat
      BY ReadTypes DEF spawn_off_reader, ServerTypeOK
    <3>2. running[c] \subseteq 1 .. nread[c]
      BY Zenon DEF AnswersInv, BooksIn
    <3> QED BY <3>1, <3>2
  <2>6. PermitsIn(permits[c], running[c], replies[c]) /\ permits[c] \in Nat
    BY <2>2 DEF PermitsInv
  <2>7. PermitsIn(permits'[c], running[c] \cup {nread'[c]}, replies[c])
    BY <2>3, <2>5, <2>6, PermitTaken, Zenon
  <2>8. \A d \in Conns \ {c} : /\ permits'[d] = permits[d] /\ running'[d] = running[d]
                               /\ replies'[d] = replies[d]
    BY <2>1, <2>2, Zenon
  <2> QED BY <2>4, <2>7, <2>8, PermitsStepOf, Zenon
<1>2. CASE ~try_acquire(c)
  BY <1>2 DEF spawn_off_reader, PermitsInv
<1> QED BY <1>1, <1>2, Zenon

LEMMA HandlerPermits ==
  ASSUME ServerTypeOK, AnswersInv, PermitsInv, NEW c \in Conns, NEW n \in Requests, HandlerEnds(c, n)
  PROVE  PermitsInv'
<1>1. /\ permits \in [Conns -> Nat] /\ running \in [Conns -> SUBSET Requests]
      /\ replies \in [Conns -> SUBSET Msg]
  BY Zenon DEF ServerTypeOK
<1>2. n \in running[c] /\ running' = [running EXCEPT ![c] = @ \ {n}]
  BY DEF HandlerEnds
<1>3. PermitsIn(permits[c], running[c], replies[c]) /\ permits[c] \in Nat
  BY <1>1 DEF PermitsInv
<1>4. running'[c] = running[c] \ {n}
  BY <1>1, <1>2, ZenonT(30)
<1>5. CASE n \in expects[c]
  <2>1. PICK code \in {"ok", "big", "InternalError"} :
           replies' = [replies EXCEPT ![c] = @ \cup {Response(n, code)}]
    BY <1>5, Zenon DEF HandlerEnds
  <2>2. UNCHANGED permits
    BY <1>5 DEF HandlerEnds
  <2>3. replies'[c] = replies[c] \cup {Response(n, code)} /\ permits'[c] = permits[c]
    BY <1>1, <2>1, <2>2, Zenon
  <2>4. Response(n, code) \notin replies[c]
    <3>1. Response(n, code).id = n /\ n # 0
      BY MessageFacts DEF Requests
    <3>2. Answers(replies[c]) \subseteq expects[c] \ running[c]
      BY Zenon DEF AnswersInv, OneAnswerIn
    <3> QED BY <1>2, <3>1, <3>2, Zenon DEF Answers
  <2>5. PermitsIn(permits[c], running[c] \ {n}, replies[c] \cup {Response(n, code)})
    BY <1>2, <1>3, <2>4, PermitPassed, Zenon
  <2>6. \A d \in Conns \ {c} : /\ permits'[d] = permits[d] /\ running'[d] = running[d]
                               /\ replies'[d] = replies[d]
    BY <1>1, <1>2, <2>1, <2>2, Zenon
  <2> QED BY <1>4, <2>3, <2>5, <2>6, PermitsStepOf, Zenon
<1>6. CASE n \notin expects[c]
  <2>1. ReleasePermit(c) /\ UNCHANGED replies
    BY <1>6 DEF HandlerEnds
  <2>2. permits'[c] = IF offreader_limit = 0 THEN permits[c] ELSE permits[c] + 1
    BY <1>1, <2>1 DEF ReleasePermit
  <2>3. PermitsIn(permits'[c], running[c] \ {n}, replies[c])
    BY <1>2, <1>3, <2>2, PermitBack, Zenon
  <2>4. \A d \in Conns \ {c} : /\ permits'[d] = permits[d] /\ running'[d] = running[d]
                               /\ replies'[d] = replies[d]
    BY <1>1, <1>2, <2>1, Zenon DEF ReleasePermit
  <2> QED BY <1>4, <2>1, <2>3, <2>4, PermitsStepOf, Zenon
<1> QED BY <1>5, <1>6, Zenon

LEMMA ReplyPermits ==
  ASSUME ServerTypeOK, PermitsInv, NEW c \in Conns, NEW m \in replies[c], HandlerReplies(c, m)
  PROVE  PermitsInv'
<1>1. permits \in [Conns -> Nat] /\ replies \in [Conns -> SUBSET Msg]
  BY Zenon DEF ServerTypeOK
<1>2. /\ replies' = [replies EXCEPT ![c] = @ \ {m}] /\ ReleasePermit(c) /\ UNCHANGED running
  BY DEF HandlerReplies
<1>3. PermitsIn(permits[c], running[c], replies[c]) /\ permits[c] \in Nat
  BY <1>1 DEF PermitsInv
<1>4. /\ replies'[c] = replies[c] \ {m} /\ running'[c] = running[c]
      /\ permits'[c] = IF offreader_limit = 0 THEN permits[c] ELSE permits[c] + 1
  BY <1>1, <1>2, ZenonT(30) DEF ReleasePermit
<1>5. PermitsIn(permits'[c], running[c], replies[c] \ {m})
  BY <1>3, <1>4, PermitBack, Zenon
<1>6. \A d \in Conns \ {c} : /\ permits'[d] = permits[d] /\ running'[d] = running[d]
                             /\ replies'[d] = replies[d]
  BY <1>1, <1>2 DEF ReleasePermit
<1> QED BY <1>4, <1>5, <1>6, PermitsStepOf, Zenon

LEMMA PermitsStep ==
  ASSUME ServerTypeOK, AnswersInv, PermitsInv, Next
  PROVE  PermitsInv'
<1> USE DEF connVars, writerVars, offVars
<1>1. ASSUME UNCHANGED <<permits, running, replies>>
      PROVE  PermitsInv'
  BY <1>1 DEF PermitsInv
<1>2. ASSUME \/ LoopStep \/ broadcast_each
             \/ \E c \in Conns : Arrives(c) \/ WriterJoined(c)
      PROVE  PermitsInv'
  <2>1. CASE LoopStep
    BY <1>1, <2>1, Zenon DEF LoopStep, Shutdown, CancelShutdownToken, DrainDeadline, DrainEnds
  <2>2. CASE broadcast_each
    BY <1>1, <2>2, Zenon DEF broadcast_each
  <2>3. ASSUME NEW c \in Conns, Arrives(c) \/ WriterJoined(c)
        PROVE  PermitsInv'
    BY <1>1, <2>3, Zenon DEF Arrives, Accept, adopt_upgraded, accept_repe_websocket, WriterJoined
  <2> QED BY <1>2, <2>1, <2>2, <2>3, Zenon
<1>3. ASSUME NEW c \in Conns,
             \/ handle_connection_with_config(c) \/ RegistryHook(c)
             \/ on_peer_connect(c) \/ on_peer_connect_with_handshake(c)
      PROVE  PermitsInv'
  BY <1>1, <1>3, Zenon DEF handle_connection_with_config, RegistryHook, on_peer_connect,
                           on_peer_connect_with_handshake
<1>4. ASSUME NEW c \in Conns, LeavesReader(c) \/ AbortJoin(c) \/ DisconnectGuard(c) \/ ReaderSends(c)
      PROVE  PermitsInv'
  BY <1>1, <1>4, Zenon DEF LeavesReader, Leave, AbortJoin, DisconnectGuard, ReaderSends
<1>5. ASSUME NEW c \in Conns, NEW notify \in BOOLEAN,
             ReadInline(c, notify) \/ spawn_off_reader(c, notify)
      PROVE  PermitsInv'
  <2>1. CASE ReadInline(c, notify)
    BY <1>1, <2>1, Zenon DEF ReadInline
  <2> QED BY <1>5, <2>1, SpawnPermits, Zenon
<1>6. ASSUME NEW c \in Conns, \/ \E n \in Requests : HandlerEnds(c, n)
                              \/ \E m \in replies[c] : HandlerReplies(c, m)
      PROVE  PermitsInv'
  BY <1>6, HandlerPermits, ReplyPermits, Zenon
<1>7. ASSUME NEW c \in Conns, HandlerPushes(c) \/ HandlerAliases(c) \/ BroadcastTo(c) \/ PeerGone(c)
      PROVE  PermitsInv'
  BY <1>1, <1>7, Zenon DEF HandlerPushes, HandlerAliases, BroadcastTo, PeerGone
<1>8. ASSUME NEW c \in Conns, Takes(c) \/ Stops(c) \/ Sent(c) \/ WriterExits(c)
      PROVE  PermitsInv'
  BY <1>1, <1>8, Zenon DEF Takes, Recv, TryRecv, TakeFrom, Stops, WriterStops, Sent, WriterExits
<1> QED BY <1>2, <1>3, <1>4, <1>5, <1>6, <1>7, <1>8, NextCases, Zenon

-----------------------------------------------------------------------------
(***************************************************************************)
(* The inductive invariant.  OneAnswer needs the order in which requests   *)
(* are numbered (BooksIn), PermitsConserved needs OneAnswer (the response  *)
(* of a handler that ends is a new one), and DisconnectOnce and            *)
(* RegistryIsLive need how far each connection is with its id (LifeOf).    *)
(***************************************************************************)
ServerInv ==
    /\ RegistryInv /\ ServerTypeOK /\ Handoffs
    /\ LivesInv /\ AnswersInv /\ PermitsInv

LEMMA RegistryStarts ==
  ASSUME RegistryInit
  PROVE  RegistryInv
<1> USE DEF RegistryInit
<1>1. RegistryTypeOK
  BY PeerFacts DEF RegistryTypeOK, PeerIds
<1>2. \A k \in Keys : \A p \in PeerIds : aliases[k] # p /\ k \notin Range(alias_index[p])
  BY PeerFacts DEF PeerIds, Range
<1>3. \A p \in PeerIds : IsInjective(alias_index[p])
  BY DEF IsInjective
<1> QED BY <1>1, <1>2, <1>3, Zenon DEF RegistryInv, AliasesInverse

LEMMA TypesStart ==
  ASSUME Init
  PROVE  ServerTypeOK /\ Handoffs
<1>1. scenario \in Scenarios /\ scenario.pushes \in Nat
  BY ServerAssumption DEF Init, Scenario
<1>2. outbound_capacity \in Nat /\ offreader_limit \in Nat /\ MaxRequests \in Nat
  BY BoundFacts
<1>3. 0 \in 0 .. MaxRequests /\ 0 \in 0 .. scenario.pushes
  BY <1>1, <1>2
<1>4. \A c \in Conns : Len(outbound[c]) <= outbound_capacity
  BY <1>2 DEF Init
<1>5. outbound \in [Conns -> Seq(Msg)] /\ wire \in [Conns -> Seq(Msg)]
  BY DEF Init
<1>6. /\ srv \in {"accepting", "draining", "aborting", "returned"} /\ parent \in BOOLEAN
      /\ task \in [Conns -> TaskStates] /\ ending \in [Conns -> Endings]
      /\ writer \in [Conns -> WriterStates]
  BY Zenon DEF Init, TaskStates, Endings, WriterStates
<1>7. /\ peer_id \in [Conns -> PeerIds \cup {None}] /\ held \in [Conns -> Msg \cup {None}]
      /\ wmsg \in [Conns -> Msg \cup {None}]
      /\ expects \in [Conns -> SUBSET Requests] /\ running \in [Conns -> SUBSET Requests]
      /\ replies \in [Conns -> SUBSET Msg] /\ cast \subseteq Conns
  BY Zenon DEF Init
<1>8. /\ token \in [Conns -> BOOLEAN] /\ shutdown \in [Conns -> BOOLEAN]
      /\ aborted \in [Conns -> BOOLEAN] /\ gone \in [Conns -> BOOLEAN]
  BY DEF Init
<1>9. /\ nread \in [Conns -> 0 .. MaxRequests] /\ permits \in [Conns -> Nat]
      /\ hooks \in [Conns -> Nat] /\ pushes \in 0 .. scenario.pushes
  BY <1>2, <1>3, ZenonT(30) DEF Init
<1>10. Handoffs
  BY DEF Init, Handoffs
<1> QED BY <1>1, <1>4, <1>5, <1>6, <1>7, <1>8, <1>9, <1>10, Zenon DEF ServerTypeOK

LEMMA ServerStarts ==
  ASSUME Init
  PROVE  ServerInv
<1>1. RegistryInv /\ ServerTypeOK /\ Handoffs
  BY RegistryStarts, TypesStart, Zenon DEF Init
<1>2. LivesInv
  <2>1. ASSUME NEW c \in Conns PROVE LifeOf(c)
    BY PeerFacts DEF Init, RegistryInit, LifeOf, Unminted, Registered, Over, PeerIds
  <2>2. Owned /\ OwnIds
    BY DEF Init, RegistryInit, Owned, OwnIds
  <2> QED BY <2>1, <2>2, ZenonT(30) DEF LivesInv, Lives
<1>3. AnswersInv
  <2>1. ASSUME NEW c \in Conns
        PROVE  /\ nread[c] = 0 /\ expects[c] = {} /\ running[c] = {} /\ replies[c] = {}
               /\ held[c] = None /\ outbound[c] = <<>> /\ wmsg[c] = None /\ wire[c] = <<>>
    BY DEF Init
  <2>2. BooksIn(0, {}, {})
    BY DEF BooksIn
  <2>3. OneAnswerIn({}, None, <<>>, None, <<>>, {} \ {})
    BY StageFacts, AnswersFacts, Zenon DEF OneAnswerIn
  <2> QED BY <2>1, <2>2, <2>3, Zenon DEF AnswersInv
<1>4. PermitsInv
  <2>1. ASSUME NEW c \in Conns
        PROVE  permits[c] = offreader_limit /\ running[c] = {} /\ replies[c] = {}
    BY DEF Init
  <2>2. PermitsIn(offreader_limit, {}, {})
    BY BoundFacts, FS_EmptySet DEF PermitsIn
  <2> QED BY <2>1, <2>2, ZenonT(30) DEF PermitsInv
<1> QED BY <1>1, <1>2, <1>3, <1>4, ZenonT(30) DEF ServerInv

LEMMA ServerStutters ==
  ASSUME ServerInv, UNCHANGED vars
  PROVE  ServerInv'
<1>1. /\ UNCHANGED registryVars /\ UNCHANGED <<scenario, srv, parent>> /\ UNCHANGED connVars
      /\ UNCHANGED outbound /\ UNCHANGED writerVars /\ UNCHANGED offVars
      /\ UNCHANGED <<gone, hooks>> /\ UNCHANGED pushVars
  BY DEF vars
<1>2. RegistryInv'
  BY <1>1, RegistryUnchanged, Zenon DEF ServerInv, RegistryInv
<1>3. ServerTypeOK' /\ Handoffs'
  BY <1>1, ZenonT(30) DEF ServerInv, ServerTypeOK, Handoffs, connVars, writerVars, offVars, pushVars
<1>4. LivesInv'
  <2>1. UNCHANGED <<next_id, peers, task, peer_id, token, hooks, srv, scenario>>
    BY <1>1 DEF registryVars, connVars
  <2> QED BY <2>1, Zenon DEF ServerInv, LivesInv, Lives, Owned, OwnIds, LifeOf, InLoop
<1>5. AnswersInv' /\ PermitsInv'
  BY <1>1, Zenon DEF ServerInv, AnswersInv, PermitsInv, connVars, writerVars, offVars
<1> QED BY <1>2, <1>3, <1>4, <1>5, ZenonT(30) DEF ServerInv

LEMMA ServerSteps ==
  ASSUME ServerInv, [Next]_vars
  PROVE  ServerInv'
<1>1. CASE Next
  <2>1. RegistryInv' /\ LivesInv'
    BY <1>1, LivesStep DEF ServerInv
  <2>2. ServerTypeOK' /\ Handoffs'
    BY <1>1, TypesStep DEF ServerInv, RegistryInv
  <2>3. AnswersInv' /\ PermitsInv'
    BY <1>1, AnswersStep, PermitsStep DEF ServerInv
  <2> QED BY <2>1, <2>2, <2>3 DEF ServerInv
<1> QED BY <1>1, ServerStutters

(***************************************************************************)
(* The invariant holds in every reachable state of every server, whatever  *)
(* its connections, keys, scenarios and limits.                            *)
(***************************************************************************)
THEOREM ServerInvariant == Spec => []ServerInv
<1>1. Init => ServerInv
  BY ServerStarts
<1>2. ServerInv /\ [Next]_vars => ServerInv'
  BY ServerSteps
<1> QED BY <1>1, <1>2, PTL DEF Spec

(***************************************************************************)
(* No queue holds more than its capacity and no semaphore more permits     *)
(* than it started with, and every variable keeps its type.                *)
(***************************************************************************)
THEOREM ServerTypes == Spec => []TypeOK
<1>1. ServerInv => TypeOK
  BY PermitsAre DEF ServerInv, RegistryInv, TypeOK
<1> QED BY <1>1, ServerInvariant, PTL

(***************************************************************************)
(* The registry's two tables stay inverse of each other and address        *)
(* connected peers only, through every interleaving of connect hooks,      *)
(* handlers that rename their caller and disconnect guards (alias,         *)
(* remove).                                                                *)
(***************************************************************************)
THEOREM ServerAliases == Spec => []AliasesInverse
<1>1. ServerInv => AliasesInverse
  BY DEF ServerInv, RegistryInv
<1> QED BY <1>1, ServerInvariant, PTL

(***************************************************************************)
(* Every registered peer has a live connection task and an id of its own   *)
(* (with_peer_registry, DisconnectGuard).                                  *)
(***************************************************************************)
THEOREM ServerRegistry == Spec => []RegistryIsLive
<1>1. ServerInv => RegistryIsLive
  <2> SUFFICES ASSUME ServerInv PROVE RegistryIsLive
    OBVIOUS
  <2>1. ASSUME NEW p \in peers
        PROVE  \E c \in Conns :
                  peer_id[c] = p /\ task[c] \notin {"none", "handshake", "upgraded", "join", "done"}
    <3>1. PICK c \in Conns : peer_id[c] = p
      BY DEF ServerInv, LivesInv, Owned
    <3>2. task[c] \in Registered
      BY <3>1 DEF ServerInv, LivesInv, Lives, LifeOf
    <3> QED BY <3>1, <3>2 DEF Registered
  <2> QED BY <2>1 DEF RegistryIsLive, ServerInv, LivesInv, OwnIds
<1> QED BY <1>1, ServerInvariant, PTL

(***************************************************************************)
(* The disconnect hooks run once for every connection that got an id,      *)
(* however it ends, with the token cancelled, and before a graceful drain  *)
(* returns (DisconnectGuard, serve_listener_with_graceful_drain).          *)
(***************************************************************************)
THEOREM ServerDisconnects == Spec => []DisconnectOnce
<1>1. ServerInv => DisconnectOnce
  <2> SUFFICES ASSUME ServerInv, NEW c \in Conns
               PROVE  /\ task[c] = "done" /\ peer_id[c] # None => hooks[c] = 1
                      /\ hooks[c] = 1 => token[c] /\ task[c] \in {"join", "done"}
                      /\ hooks[c] <= 1
                      /\ srv = "returned" /\ scenario.graceful /\ InLoop(c) =>
                            task[c] \in {"none", "done"}
    BY DEF DisconnectOnce
  <2>1. LifeOf(c)
    BY DEF ServerInv, LivesInv, Lives
  <2>2. hooks[c] \in {0, 1} /\ (hooks[c] = 1 => peer_id[c] # None /\ task[c] \in {"join", "done"})
    BY <2>1 DEF LifeOf, Over
  <2>3. hooks[c] <= 1
    BY <2>2
  <2>4. task[c] = "done" /\ peer_id[c] # None => hooks[c] = 1
    BY <2>1 DEF LifeOf, Over
  <2>5. hooks[c] = 1 => token[c] = TRUE
    BY <2>1 DEF LifeOf
  <2>6. scenario.graceful \in BOOLEAN
    BY ScenarioFacts DEF ServerInv
  <2>7. srv = "returned" /\ scenario.graceful /\ InLoop(c) => task[c] \in {"none", "done"}
    BY <2>1, <2>6, Zenon DEF LifeOf
  <2> QED BY <2>2, <2>3, <2>4, <2>5, <2>7, Zenon
<1> QED BY <1>1, ServerInvariant, PTL

(***************************************************************************)
(* No request is answered twice, no notify is answered, and no answer      *)
(* leaves before its handler is done, with any number of requests on the   *)
(* reader and on blocking threads (reader_task, spawn_off_reader,          *)
(* frame_outbound).                                                        *)
(***************************************************************************)
THEOREM ServerAnswers == Spec => []OneAnswer
<1>1. ServerInv => OneAnswer
  BY AnswersAre DEF ServerInv
<1> QED BY <1>1, ServerInvariant, PTL

(***************************************************************************)
(* The free permits and the handlers and replies that hold one add up to   *)
(* the limit, for every limit (spawn_off_reader's semaphore).              *)
(***************************************************************************)
THEOREM ServerPermits == Spec => []PermitsConserved
<1>1. ServerInv => PermitsConserved
  BY PermitsAre DEF ServerInv
<1> QED BY <1>1, ServerInvariant, PTL

=============================================================================
