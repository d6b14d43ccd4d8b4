-------------------------------- MODULE Fleet --------------------------------
(***************************************************************************)
(* The TCP fleets (src/fleet.rs and its async twin src/async_fleet.rs):    *)
(* named nodes behind a read-write lock, each with a cached client behind  *)
(* a lock of its own, and the operations that call one node or fan out to  *)
(* a snapshot of them.  An operation runs one worker (a thread or a task)  *)
(* for each node it targets.  The two fleets differ only in what they hold *)
(* while they wait for a client lock: see Writing and Reading.             *)
(*                                                                         *)
(* An instance is a NodeState: a node removed and added again under its    *)
(* old name is another instance.  Clients stand for the TCP clients; an id *)
(* is used again once nothing refers to the client that had it.  A         *)
(* connection is "up", "cut" (its peer is gone, the response loop has not  *)
(* noticed) or "down" (fail_all_pending has shut the socket down).         *)
(***************************************************************************)
EXTENDS Naturals, FiniteSets, Sequences, SequencesExt

CONSTANTS
    Ops,
    Instances,
    Clients,
    None,
    Scenarios

VARIABLES
    scenario,   \* the configuration of the behaviour; never changes
    nodes,      \* Fleet::nodes: the registered instances
    slot,       \* NodeState::client
    owner,      \* the operation that holds the lock of NodeState::client
    conn,       \* the connection of each client
    peer,       \* the instance a client is connected to
    retired,    \* the clients that have left their slot
    up,         \* the instances whose server is listening
    crashes,
    pc,         \* "idle", "running" or "done"
    answer,     \* what the operation itself returned
    todo,       \* the instances a sequential loop has still to visit
    work,       \* the worker of an operation for an instance
    held,       \* the client that worker has cloned
    tries       \* the outcomes of its attempts

nodeVars == <<nodes, slot, owner, retired>>
netVars == <<conn, peer, up, crashes>>
opVars == <<pc, answer, todo>>
workVars == <<work, held, tries>>
vars == <<scenario, nodeVars, netVars, opVars, workVars>>

Op(o) == scenario.op[o]
Kind(o) == scenario.op[o].kind
Sync == scenario.fleet = "sync"

----------------------------------------------------------------------------
(* Configurations.  A host or a name is a string, "" the empty one.        *)

DefaultTimeout == 30

\* NodeConfig::new with the with_* calls that were made: the name defaults to
\* the host.  The fields are public, so a fleet validates them again.
NodeConfig(c) ==
    [name |-> IF c.name = None THEN c.host ELSE c.name, host |-> c.host, port |-> c.port,
     tags |-> c.tags, timeout |-> IF c.timeout = None THEN DefaultTimeout ELSE c.timeout]

Config(i) == NodeConfig(scenario.config[i])

validate_node_config(c) ==
    CASE c.host = "" -> "EmptyHost"
      [] c.port = 0 -> "InvalidPort"
      [] c.timeout = 0 -> "InvalidTimeout"
      [] c.name = "" -> "EmptyNodeName"
      [] OTHER -> "Ok"

validate_fleet_options(options) ==
    CASE options.default_timeout = 0 -> "InvalidTimeout"
      [] options.max_attempts < 1 -> "InvalidRetryAttempts"
      [] OTHER -> "Ok"

\* Duplicates among the configurations before position k.
Repeats(configs, k) == \E j \in 1 .. k - 1 : Config(configs[j]).name = Config(configs[k]).name

\* The first error that Fleet::with_options meets, options before nodes.
with_options(configs, options) ==
    LET bad == {k \in DOMAIN configs : \/ validate_node_config(Config(configs[k])) # "Ok"
                                       \/ Repeats(configs, k)}
        first == CHOOSE k \in bad : \A j \in bad : k <= j
    IN CASE validate_fleet_options(options) # "Ok" -> validate_fleet_options(options)
         [] bad = {} -> "Ok"
         [] validate_node_config(Config(configs[first])) # "Ok" ->
                validate_node_config(Config(configs[first]))
         [] OTHER -> "DuplicateNodeName"

MaxAttempts == scenario.options.max_attempts

Init ==
    /\ scenario \in Scenarios
    /\ LET result == with_options(scenario.initial, scenario.options)
           fleet == result = "Ok"
       IN /\ nodes = IF fleet THEN ToSet(scenario.initial) ELSE {}
          /\ pc = [o \in Ops |-> IF fleet /\ o \in DOMAIN scenario.op THEN "idle" ELSE "done"]
          /\ answer = [o \in Ops |-> IF fleet THEN None ELSE result]
    /\ slot = [i \in Instances |-> None]
    /\ owner = [i \in Instances |-> None]
    /\ conn = [c \in Clients |-> "down"] /\ peer = [c \in Clients |-> None] /\ retired = {}
    /\ up = scenario.up /\ crashes = 0
    /\ todo = [o \in Ops |-> <<>>]
    /\ work = [o \in Ops |-> [i \in Instances |-> "none"]]
    /\ held = [o \in Ops |-> [i \in Instances |-> None]]
    /\ tries = [o \in Ops |-> [i \in Instances |-> <<>>]]

----------------------------------------------------------------------------
(* The lock of the node map.  The sync fleet keeps it while it waits for a *)
(* client lock in remove_node (for writing) and in the connection queries  *)
(* (for reading); the async fleet has released it by then.                 *)

Queries == {"connected_nodes", "is_connected_all", "is_connected"}
Calls == {"call_json", "call_message", "broadcast_json"}

Waiting(o) == pc[o] = "running" /\ todo[o] # <<>>
Writing(o) == Sync /\ Kind(o) = "remove_node" /\ Waiting(o)
Reading(o) == Sync /\ Kind(o) \in Queries /\ Waiting(o)

Started == {o \in Ops : pc[o] = "running"}
read_nodes == \A o \in Started : ~Writing(o)
write_nodes == \A o \in Started : ~Writing(o) /\ ~Reading(o)

lock_node_client(i) == owner[i] = None

Named(name) == {i \in nodes : Config(i).name = name}
snapshot_node_states == nodes
snapshot_target_nodes(tags) == {i \in nodes : tags \subseteq Config(i).tags}
node_state(name) == Named(name)

----------------------------------------------------------------------------
(* Operations.  A scenario may make one wait for another (after), and may  *)
(* keep the servers up from the start of one (stable).                     *)

Start(o) ==
    /\ pc[o] = "idle"
    /\ Op(o).after # None => pc[Op(o).after] = "done"
    /\ o = scenario.stable => up = Instances
    /\ UNCHANGED <<scenario, slot, owner, retired, netVars, held, tries>>

Return(o, result) ==
    /\ pc' = [pc EXCEPT ![o] = "done"]
    /\ answer' = [answer EXCEPT ![o] = result]
    /\ UNCHANGED <<nodes, todo, work>>

\* The retry loop is entered: for attempt in 0..max_attempts.
Attempt(o, i) == Len(tries[o][i]) < MaxAttempts

Spawn(o, targets) ==
    /\ pc' = [pc EXCEPT ![o] = "running"]
    /\ work' = [work EXCEPT ![o] = [i \in Instances |->
                    CASE i \notin targets -> "none"
                      [] Kind(o) \in Calls /\ ~Attempt(o, i) -> "done"
                      [] OTHER -> "ensure"]]
    /\ UNCHANGED <<nodes, answer, todo>>

Visits(o, targets) ==
    /\ \E s \in SetToSeqs(targets) : todo' = [todo EXCEPT ![o] = s]
    /\ pc' = [pc EXCEPT ![o] = "running"]
    /\ UNCHANGED <<answer, work>>

CallNode(o) ==
    /\ Kind(o) \in {"call_json", "call_message"} /\ Start(o) /\ read_nodes
    /\ IF node_state(Op(o).name) = {} THEN Return(o, "NodeNotFound")
       ELSE Spawn(o, node_state(Op(o).name))

broadcast_json(o) ==
    /\ Kind(o) = "broadcast_json" /\ Start(o) /\ read_nodes
    /\ Spawn(o, snapshot_target_nodes(Op(o).tags))

health_check(o) ==
    /\ Kind(o) = "health_check" /\ Start(o) /\ read_nodes
    /\ Spawn(o, snapshot_node_states)

connect_all(o) ==
    /\ Kind(o) = "connect_all" /\ Start(o) /\ read_nodes
    /\ Spawn(o, snapshot_node_states)

reconnect_disconnected(o) ==
    /\ Kind(o) = "reconnect_disconnected" /\ Start(o) /\ read_nodes
    /\ Visits(o, snapshot_node_states) /\ UNCHANGED nodes

disconnect_all(o) ==
    /\ Kind(o) = "disconnect_all" /\ Start(o) /\ read_nodes
    /\ Visits(o, snapshot_node_states) /\ UNCHANGED nodes

Query(o) ==
    /\ Kind(o) \in {"connected_nodes", "is_connected_all"} /\ Start(o) /\ read_nodes
    /\ Visits(o, snapshot_node_states) /\ UNCHANGED nodes

is_connected(o) ==
    /\ Kind(o) = "is_connected" /\ Start(o) /\ read_nodes
    /\ IF node_state(Op(o).name) = {} THEN Return(o, "NodeNotFound")
       ELSE Visits(o, node_state(Op(o).name)) /\ UNCHANGED nodes

contains_key(name) == Named(name) # {}

add_node(o) ==
    LET i == Op(o).instance
        valid == validate_node_config(Config(i))
    IN /\ Kind(o) = "add_node" /\ Start(o) /\ write_nodes
       /\ pc' = [pc EXCEPT ![o] = "done"]
       /\ answer' = [answer EXCEPT ![o] = CASE valid # "Ok" -> valid
                                            [] contains_key(Config(i).name) -> "DuplicateNodeName"
                                            [] OTHER -> "Ok"]
       /\ nodes' = IF answer'[o] = "Ok" THEN nodes \cup {i} ELSE nodes
       /\ UNCHANGED <<todo, work>>

remove_node(o) ==
    /\ Kind(o) = "remove_node" /\ Start(o) /\ write_nodes
    /\ IF contains_key(Op(o).name)
       THEN Visits(o, Named(Op(o).name)) /\ nodes' = nodes \ Named(Op(o).name)
       ELSE Return(o, "false")

----------------------------------------------------------------------------
(* The sequential loops.                                                   *)

\* *client = None: the fleet's clone is dropped.  The connection itself goes
\* only with the last clone.
Forget(i) ==
    /\ retired' = IF slot[i] = None THEN retired ELSE retired \cup {slot[i]}
    /\ slot' = [slot EXCEPT ![i] = None]
    /\ UNCHANGED conn

Visit(o) ==
    LET i == Head(todo[o]) IN
    /\ Waiting(o) /\ lock_node_client(i)
    /\ todo' = [todo EXCEPT ![o] = IF Kind(o) = "is_connected_all" /\ slot[i] = None
                                   THEN <<>> ELSE Tail(@)]
    /\ IF Kind(o) \in {"disconnect_all", "remove_node"} THEN Forget(i)
       ELSE UNCHANGED <<slot, retired, conn>>
    /\ work' = IF Kind(o) = "reconnect_disconnected" /\ slot[i] = None
               THEN [work EXCEPT ![o][i] = "ensure"] ELSE work
    /\ UNCHANGED <<scenario, nodes, owner, peer, up, crashes, pc, answer, held, tries>>

\* Every worker is joined.
Finish(o) ==
    /\ pc[o] = "running" /\ todo[o] = <<>>
    /\ \A i \in Instances : work[o][i] \in {"none", "done"}
    /\ pc' = [pc EXCEPT ![o] = "done"]
    /\ answer' = [answer EXCEPT ![o] = "Ok"]
    /\ UNCHANGED <<scenario, nodeVars, netVars, todo, workVars>>

----------------------------------------------------------------------------
(* The workers.                                                            *)

\* Outcomes of an attempt: "ok"; a response that is an error or that does not
\* decode; and the transport failures.
Transport == {"timeout", "refused", "eof", "broken_pipe"}

is_retryable_error(e) == e \in {"timeout", "refused", "eof"}

MustInvalidate_Retryable(o, e) == is_retryable_error(e)

\* health_check forgets the client whatever the error was.
MustInvalidate(o, e) ==
    CASE Kind(o) = "health_check" -> TRUE
      [] Kind(o) \in Calls -> is_retryable_error(e)
      [] OTHER -> FALSE

Attempted(o, i, e) ==
    /\ tries' = [tries EXCEPT ![o][i] = Append(@, e)]
    /\ held' = [held EXCEPT ![o][i] = None]
    /\ work' = [work EXCEPT ![o][i] =
                    IF e # "ok" /\ MustInvalidate(o, e) THEN "invalidate" ELSE "done"]

WorkerOnly == UNCHANGED <<scenario, nodeVars, netVars, opVars>>

\* What a worker does with the client that ensure_connected returned.
HasClient(o, i, c) ==
    IF Kind(o) \in {"connect_all", "reconnect_disconnected"}
    THEN Attempted(o, i, "ok")
    ELSE /\ held' = [held EXCEPT ![o][i] = c]
         /\ work' = [work EXCEPT ![o][i] = "call"]
         /\ UNCHANGED tries

EnsureCached(o, i) ==
    /\ work[o][i] = "ensure" /\ lock_node_client(i) /\ slot[i] # None
    /\ HasClient(o, i, slot[i])
    /\ WorkerOnly

Connect_Unlocked(o, i) ==
    /\ work[o][i] = "ensure" /\ lock_node_client(i) /\ slot[i] = None
    /\ work' = [work EXCEPT ![o][i] = "connecting"]
    /\ UNCHANGED <<scenario, nodeVars, netVars, opVars, held, tries>>

\* Client::connect runs under the lock.
Connect(o, i) ==
    /\ work[o][i] = "ensure" /\ lock_node_client(i) /\ slot[i] = None
    /\ owner' = [owner EXCEPT ![i] = o]
    /\ work' = [work EXCEPT ![o][i] = "connecting"]
    /\ UNCHANGED <<scenario, nodes, slot, retired, netVars, opVars, held, tries>>

InUse(c) ==
    \/ \E i \in Instances : slot[i] = c
    \/ \E o \in Ops, i \in Instances : held[o][i] = c

Connected(o, i) ==
    /\ work[o][i] = "connecting" /\ i \in up
    /\ LET c == CHOOSE k \in Clients : ~InUse(k) IN
       /\ slot' = [slot EXCEPT ![i] = c]
       /\ conn' = [conn EXCEPT ![c] = "up"]
       /\ peer' = [peer EXCEPT ![c] = i]
       /\ retired' = retired \ {c}
       /\ HasClient(o, i, c)
    /\ owner' = [owner EXCEPT ![i] = None]
    /\ UNCHANGED <<scenario, nodes, up, crashes, opVars>>

ConnectFails_KeepsLock(o, i) ==
    /\ work[o][i] = "connecting" /\ i \notin up
    /\ Attempted(o, i, "refused")
    /\ WorkerOnly

ConnectFails(o, i) ==
    /\ work[o][i] = "connecting" /\ i \notin up
    /\ owner' = [owner EXCEPT ![i] = None]
    /\ Attempted(o, i, "refused")
    /\ UNCHANGED <<scenario, nodes, slot, retired, netVars, opVars>>

\* No call is stuck in a write with the client's writer mutex in its hands.
WriterFree(c) ==
    \A o \in Ops, i \in Instances : work[o][i] = "stuck" => held[o][i] # c

\* ensure_connected sets no write timeout: a write to a server that does not
\* read blocks, after the lock of NodeState::client has been released.
Stall(o, i) ==
    /\ work[o][i] = "call" /\ WriterFree(held[o][i])
    /\ i \in scenario.deaf /\ conn[held[o][i]] = "up"
    /\ work' = [work EXCEPT ![o][i] = "stuck"]
    /\ UNCHANGED <<held, tries>>
    /\ WorkerOnly

\* A write on a socket that was shut down fails with BrokenPipe; on one whose
\* peer has just gone it may still succeed.
Send(o, i) ==
    /\ work[o][i] = "stuck" \/ (work[o][i] = "call" /\ WriterFree(held[o][i]))
    /\ \/ /\ conn[held[o][i]] # "down"
          /\ work' = [work EXCEPT ![o][i] = "wait"]
          /\ UNCHANGED <<held, tries>>
       \/ /\ conn[held[o][i]] # "up"
          /\ Attempted(o, i, "broken_pipe")
    /\ WorkerOnly

\* call_message and health_check take the response undecoded.
Decoded(o, r) == IF r = "undecodable" /\ Kind(o) \notin {"call_json", "broadcast_json"}
                 THEN "ok" ELSE r

Answer(o, i) ==
    /\ work[o][i] = "wait" /\ conn[held[o][i]] = "up"
    /\ \E r \in scenario.responses : Attempted(o, i, Decoded(o, r))
    /\ WorkerOnly

\* node.config.timeout, or DEFAULT_HEALTH_TIMEOUT.
TimesOut(o, i) ==
    /\ work[o][i] = "wait"
    /\ scenario.slow \/ conn[held[o][i]] # "up"
    /\ Attempted(o, i, "timeout")
    /\ WorkerOnly

ConnectionLost(o, i) ==
    /\ work[o][i] = "wait" /\ conn[held[o][i]] = "down"
    /\ Attempted(o, i, "eof")
    /\ WorkerOnly

\* invalidate_client, then the delay and the next attempt if there is one.
Invalidate(o, i) ==
    /\ work[o][i] = "invalidate" /\ lock_node_client(i)
    /\ Forget(i)
    /\ work' = [work EXCEPT ![o][i] = IF Kind(o) \in Calls /\ Attempt(o, i)
                                      THEN "ensure" ELSE "done"]
    /\ UNCHANGED <<scenario, nodes, owner, peer, up, crashes, opVars, held, tries>>

----------------------------------------------------------------------------
(* The servers and the response loops of the clients.                      *)

\* fail_all_pending takes the writer's mutex before it shuts the socket down.
LoopFails(c) ==
    /\ conn[c] = "cut" /\ InUse(c) /\ WriterFree(c)
    /\ conn' = [conn EXCEPT ![c] = "down"]
    /\ UNCHANGED <<scenario, nodeVars, peer, up, crashes, opVars, workVars>>

Crash(i) ==
    /\ i \in up \cap scenario.fragile /\ crashes < scenario.max_crashes
    /\ scenario.stable # None => pc[scenario.stable] = "idle"
    /\ up' = up \ {i} /\ crashes' = crashes + 1
    /\ conn' = [c \in Clients |-> IF peer[c] = i /\ conn[c] = "up" THEN "cut" ELSE conn[c]]
    /\ UNCHANGED <<scenario, nodeVars, peer, opVars, workVars>>

Restart(i) ==
    /\ i \notin up
    /\ up' = up \cup {i}
    /\ UNCHANGED <<scenario, nodeVars, conn, peer, crashes, opVars, workVars>>

----------------------------------------------------------------------------
StartOp(o) ==
    \/ CallNode(o) \/ broadcast_json(o) \/ health_check(o) \/ connect_all(o)
    \/ reconnect_disconnected(o) \/ disconnect_all(o) \/ Query(o) \/ is_connected(o)
    \/ add_node(o) \/ remove_node(o)

Work(o, i) ==
    \/ EnsureCached(o, i) \/ Connect(o, i) \/ Connected(o, i) \/ ConnectFails(o, i)
    \/ Stall(o, i) \/ Send(o, i) \/ Answer(o, i) \/ TimesOut(o, i) \/ ConnectionLost(o, i) \/ Invalidate(o, i)

Environment ==
    \/ \E c \in Clients : LoopFails(c)
    \/ \E i \in Instances : Crash(i) \/ Restart(i)

Next ==
    \/ \E o \in DOMAIN scenario.op : StartOp(o) \/ Visit(o) \/ Finish(o)
    \/ \E o \in DOMAIN scenario.op, i \in Instances : Work(o, i)
    \/ Environment

\* The write is stuck and its peer alive: it ends only if the peer reads.
Blocked(o, i) == work[o][i] = "stuck" /\ conn[held[o][i]] = "up"

\* Threads and tasks are scheduled, a connect returns, the wait for an answer
\* has a timeout.  Nothing is assumed of the servers, not even that they read,
\* or of how soon a loop notices.
Progress(o) ==
    Visit(o) \/ Finish(o) \/ \E i \in Instances : ~Blocked(o, i) /\ Work(o, i)
Fairness == \A o \in Ops : WF_vars(o \in DOMAIN scenario.op /\ Progress(o))

Spec == Init /\ [][Next]_vars /\ Fairness

----------------------------------------------------------------------------
\* Types of the TCP fleets' state.
TypeOK ==
    /\ scenario \in Scenarios
    /\ nodes \subseteq Instances /\ up \subseteq Instances /\ retired \subseteq Clients
    /\ slot \in [Instances -> Clients \cup {None}]
    /\ owner \in [Instances -> Ops \cup {None}]
    /\ conn \in [Clients -> {"up", "cut", "down"}] /\ peer \in [Clients -> Instances \cup {None}]
    /\ pc \in [Ops -> {"idle", "running", "done"}]
    /\ \A o \in Ops : todo[o] \in Seq(Instances) /\ IsInjective(todo[o])
    /\ work \in [Ops -> [Instances -> {"none", "ensure", "connecting", "call", "stuck",
                                        "wait", "invalidate", "done"}]]
    /\ held \in [Ops -> [Instances -> Clients \cup {None}]]
    /\ \A o \in Ops, i \in Instances :
          /\ held[o][i] # None <=> work[o][i] \in {"call", "stuck", "wait"}
          /\ Len(tries[o][i]) <= MaxAttempts

Over(o, i) == Kind(o) \in Calls /\ work[o][i] = "done"
Active == DOMAIN scenario.op

(***************************************************************************)
(* A node has one client at a time: a worker uses the cached client or one *)
(* that was taken out of the cache since.  Two workers that find the cache *)
(* empty together do not open two connections, because ensure_connected    *)
(* connects under the lock.                                                *)
(***************************************************************************)
OneClientPerNode ==
    \A o \in Active, i \in Instances :
        held[o][i] # None => held[o][i] = slot[i] \/ held[o][i] \in retired

(***************************************************************************)
(* A call is attempted again only after a retryable transport failure,     *)
(* never after a response of the server, and max_attempts times at most.   *)
(***************************************************************************)
RetryDiscipline ==
    \A o \in Active, i \in Instances :
        /\ Kind(o) \in Calls => Len(tries[o][i]) <= scenario.options.max_attempts
        /\ \A k \in 1 .. Len(tries[o][i]) - 1 : tries[o][i][k] \in {"timeout", "refused", "eof"}

(***************************************************************************)
(* A finished call has a value or an error: RemoteResult never has         *)
(* neither, because a fleet with no attempts cannot be built.              *)
(***************************************************************************)
ResultPresent == \A o \in Active, i \in Instances : Over(o, i) => tries[o][i] # <<>>

Healthy == scenario.responses = {"ok"} /\ ~scenario.slow /\ scenario.up = Instances

(***************************************************************************)
(* While the servers stay up and answer, every call succeeds, although     *)
(* other operations remove its node, disconnect it or invalidate its       *)
(* client meanwhile: an in-flight broadcast is isolated from them.         *)
(***************************************************************************)
FaultlessSucceeds ==
    (Healthy /\ scenario.max_crashes = 0) =>
        \A o \in Active, i \in Instances : Over(o, i) => Last(tries[o][i]) = "ok"

(***************************************************************************)
(* A call made after a health check that ran with the servers up succeeds, *)
(* although the servers crashed before: the check drops the dead client,   *)
(* and no worker that still held it puts it back.                          *)
(***************************************************************************)
HealthCheckHeals ==
    (Healthy /\ scenario.stable # None) =>
        \A o \in Active, i \in Instances :
            (Over(o, i) /\ Op(o).after = scenario.stable) => Last(tries[o][i]) = "ok"

\* A call of the operation writes, or waits to write, on a client whose peer
\* is alive and does not read.
WriteHangs(o) ==
    \E i \in Instances, p \in Ops :
        work[o][i] \in {"call", "stuck"} /\ Blocked(p, i) /\ held[p][i] = held[o][i]

(***************************************************************************)
(* Every operation that was started returns, or has a call that hangs in a *)
(* write the peer does not take, which no timeout covers.  Such a call     *)
(* holds up the calls on its own client and nothing else: no lock of the   *)
(* fleet is left held, and no two operations wait for each other's locks.  *)
(***************************************************************************)
OpsEnd == \A o \in Ops : pc[o] = "running" ~> (pc[o] = "done" \/ WriteHangs(o))

(***************************************************************************)
(* "Retry behavior is applied to TCP fleet calls (...) for transport/I/O   *)
(* failures only" (docs/fleet.md): a call that ends in a transport failure *)
(* has used all its attempts.                                              *)
(***************************************************************************)
RetriesTransport ==
    \A o \in Active, i \in Instances :
        (Over(o, i) /\ Last(tries[o][i]) \in Transport) =>
            Len(tries[o][i]) = scenario.options.max_attempts

=============================================================================
