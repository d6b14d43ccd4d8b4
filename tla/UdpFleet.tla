------------------------------ MODULE UdpFleet -------------------------------
(***************************************************************************)
(* The UDP fleet (src/uniudp_fleet.rs) and the client each of its nodes    *)
(* owns (src/udp_client.rs).  An instance is a UniUdpNodeState: it has one *)
(* socket for life, and whoever closes it closes it for all.  Framing,     *)
(* redundancy and FEC belong to the uniudp crate; a send either puts the   *)
(* message on the wire or fails.                                           *)
(***************************************************************************)
EXTENDS Naturals, FiniteSets, Sequences, SequencesExt

CONSTANTS
    Ops,
    Instances,
    None,
    Scenarios

VARIABLES
    scenario,   \* the configuration of the behaviour; never changes
    nodes,      \* UniUdpFleet::nodes
    open,       \* the instances whose UniUdpClientInner::socket is Some
    next_id,    \* next_repe_id
    wire,       \* the messages each instance has sent
    pc,         \* "idle", "running" or "done"
    answer,     \* what the operation itself returned
    todo,       \* the instances its loop has still to visit
    sending,    \* the id it is sending, while it holds the socket's lock
    results     \* message_id of the SendResult of each target

vars == <<scenario, nodes, open, next_id, wire, pc, answer, todo, sending, results>>

Op(o) == scenario.op[o]
Kind(o) == scenario.op[o].kind

----------------------------------------------------------------------------
(* Configurations.                                                         *)

U16 == 65535

Given(value, default) == IF value = None THEN default ELSE value

\* UniUdpNodeConfig::new with the with_* calls that were made.
UniUdpNodeConfig(c) ==
    [name |-> Given(c.name, c.host), host |-> c.host, port |-> c.port, tags |-> c.tags,
     redundancy |-> Given(c.redundancy, 1), chunk_size |-> Given(c.chunk_size, 1024),
     fec_group_size |-> Given(c.fec_group_size, 4), parity_shards |-> Given(c.parity_shards, 2)]

Config(i) == UniUdpNodeConfig(scenario.config[i])

validate_node_config(c) ==
    CASE c.host = "" -> "EmptyHost"
      [] c.name = "" -> "EmptyNodeName"
      [] c.port = 0 -> "InvalidPort"
      [] c.redundancy < 1 -> "InvalidRedundancy"
      [] c.chunk_size < 1 -> "InvalidChunkSize"
      [] c.fec_group_size < 1 -> "InvalidFecGroupSize"
      [] c.parity_shards \notin 1 .. 16 -> "InvalidParityShards"
      [] OTHER -> "Ok"

\* UniUdpClient::connect converts to the widths that uniudp takes.
connect(c) ==
    IF /\ c.redundancy <= U16 /\ c.chunk_size <= U16
       /\ c.fec_group_size <= 64 /\ c.parity_shards \in 1 .. 16
    THEN "Ok" ELSE "InvalidInput"

\* A node is initialised before its name is looked up.
NewNode(c, taken) ==
    CASE validate_node_config(c) # "Ok" -> validate_node_config(c)
      [] connect(c) # "Ok" -> "NodeInitialization"
      [] taken -> "DuplicateNodeName"
      [] OTHER -> "Ok"

\* UniUdpFleet::new checks the name first, and fails at the first bad node.
new(configs) ==
    LET Bad(k) == \/ NewNode(Config(configs[k]), FALSE) # "Ok"
                  \/ \E j \in 1 .. k - 1 : Config(configs[j]).name = Config(configs[k]).name
    IN IF \E k \in DOMAIN configs : Bad(k) THEN "error" ELSE "Ok"

send_options(i) ==
    [redundancy |-> Config(i).redundancy, chunk_size |-> Config(i).chunk_size,
     fec |-> IF Config(i).fec_group_size > 1
             THEN <<Config(i).fec_group_size, Config(i).parity_shards>> ELSE <<>>]

Init ==
    /\ scenario \in Scenarios
    /\ LET fleet == new(scenario.initial) = "Ok" IN
       /\ nodes = IF fleet THEN ToSet(scenario.initial) ELSE {}
       /\ pc = [o \in Ops |-> IF fleet /\ o \in DOMAIN scenario.op THEN "idle" ELSE "done"]
       /\ answer = [o \in Ops |-> IF fleet THEN None ELSE "error"]
    /\ open = nodes
    /\ next_id = [i \in Instances |-> 1]
    /\ wire = [i \in Instances |-> <<>>]
    /\ todo = [o \in Ops |-> <<>>]
    /\ sending = [o \in Ops |-> None]
    /\ results = [o \in Ops |-> [i \in Instances |-> None]]

----------------------------------------------------------------------------
(* remove_node closes the socket while it holds the map for writing, and   *)
(* close while it holds it for reading.                                    *)

Waiting(o) == pc[o] = "running" /\ todo[o] # <<>>
Writing(o) == Kind(o) = "remove_node" /\ Waiting(o)
Reading(o) == Kind(o) = "close" /\ Waiting(o)
Started == {o \in Ops : pc[o] = "running"}
read_nodes == \A o \in Started : ~Writing(o)
write_nodes == \A o \in Started : ~Writing(o) /\ ~Reading(o)

\* The socket's lock is held from the look at the socket to the end of the
\* send.
lock_socket(i) == \A p \in Started : ~(sending[p] # None /\ Head(todo[p]) = i)

Named(name) == {i \in nodes : Config(i).name = name}
snapshot_target_nodes(tags) == {i \in nodes : tags \subseteq Config(i).tags}

Start(o) ==
    /\ pc[o] = "idle"
    /\ UNCHANGED <<scenario, wire, next_id, sending, results>>

Return(o, result) ==
    /\ pc' = [pc EXCEPT ![o] = "done"]
    /\ answer' = [answer EXCEPT ![o] = result]
    /\ UNCHANGED todo

Visits(o, targets) ==
    /\ pc' = [pc EXCEPT ![o] = "running"]
    /\ \E s \in SetToSeqs(targets) : todo' = [todo EXCEPT ![o] = s]
    /\ UNCHANGED answer

send_with_selection(o) ==
    /\ Kind(o) \in {"send_notify", "send_request", "notify_all"} /\ Start(o) /\ read_nodes
    /\ Visits(o, snapshot_target_nodes(IF Kind(o) = "notify_all" THEN {} ELSE Op(o).tags))
    /\ UNCHANGED <<nodes, open>>

send_notify_to(o) ==
    /\ Kind(o) = "send_notify_to" /\ Start(o) /\ read_nodes
    /\ IF Named(Op(o).name) = {} THEN Return(o, "NodeNotFound") ELSE Visits(o, Named(Op(o).name))
    /\ UNCHANGED <<nodes, open>>

add_node(o) ==
    LET i == Op(o).instance
        result == NewNode(Config(i), Named(Config(i).name) # {})
    IN /\ Kind(o) = "add_node" /\ Start(o) /\ write_nodes
       /\ Return(o, result)
       /\ nodes' = IF result = "Ok" THEN nodes \cup {i} ELSE nodes
       /\ open' = IF result = "Ok" THEN open \cup {i} ELSE open

remove_node(o) ==
    /\ Kind(o) = "remove_node" /\ Start(o) /\ write_nodes
    /\ IF Named(Op(o).name) = {} THEN Return(o, "false") ELSE Visits(o, Named(Op(o).name))
    /\ nodes' = nodes \ Named(Op(o).name)
    /\ UNCHANGED open

close(o) ==
    /\ Kind(o) = "close" /\ Start(o) /\ read_nodes
    /\ Visits(o, nodes)
    /\ UNCHANGED <<nodes, open>>

----------------------------------------------------------------------------
(* The loops over the targets.                                             *)

Sends(o) == Kind(o) \in {"send_notify", "send_request", "notify_all", "send_notify_to"}
Target(o) == Head(todo[o])

\* UniUdpClient::close.
CloseSocket(o) ==
    /\ Waiting(o) /\ ~Sends(o) /\ lock_socket(Target(o))
    /\ open' = open \ {Target(o)}
    /\ todo' = [todo EXCEPT ![o] = Tail(@)]
    /\ UNCHANGED <<scenario, nodes, next_id, wire, pc, answer, sending, results>>

\* send_to_node with the result of the send: message_id is 0 for an error.
Sent(o, id) ==
    /\ results' = [results EXCEPT ![o][Target(o)] = id]
    /\ todo' = [todo EXCEPT ![o] = Tail(@)]
    /\ sending' = [sending EXCEPT ![o] = None]

RefuseClosed(o) ==
    /\ Waiting(o) /\ Sends(o) /\ sending[o] = None /\ lock_socket(Target(o))
    /\ Target(o) \notin open
    /\ Sent(o, 0)
    /\ UNCHANGED <<scenario, nodes, open, next_id, wire, pc, answer>>

TakeId_BeforeLock(o) ==
    /\ Waiting(o) /\ Sends(o) /\ sending[o] = None /\ Target(o) \in open
    /\ sending' = [sending EXCEPT ![o] = next_id[Target(o)]]
    /\ next_id' = [next_id EXCEPT ![Target(o)] = @ + 1]
    /\ UNCHANGED <<scenario, nodes, open, wire, pc, answer, todo, results>>

\* next_repe_message_id, under the lock.
TakeId(o) ==
    /\ Waiting(o) /\ Sends(o) /\ sending[o] = None /\ lock_socket(Target(o))
    /\ Target(o) \in open
    /\ sending' = [sending EXCEPT ![o] = next_id[Target(o)]]
    /\ next_id' = [next_id EXCEPT ![Target(o)] = @ + 1]
    /\ UNCHANGED <<scenario, nodes, open, wire, pc, answer, todo, results>>

\* A body format that names no encoding for a value goes out as JSON text
\* under the code that was asked for.
build_message_for_udp(o, id) ==
    [id |-> id, notify |-> Kind(o) # "send_request", format |-> Op(o).format,
     body |-> CASE ~Op(o).params -> "empty"
                [] Op(o).format = "beve" -> "beve"
                [] OTHER -> "json"]

Transmit(o) ==
    /\ sending[o] # None
    /\ wire' = [wire EXCEPT ![Target(o)] = Append(@, build_message_for_udp(o, sending[o]))]
    /\ Sent(o, sending[o])
    /\ UNCHANGED <<scenario, nodes, open, next_id, pc, answer>>

\* The id is spent although the send failed.
SendFails(o) ==
    /\ sending[o] # None /\ scenario.sends_fail
    /\ Sent(o, 0)
    /\ UNCHANGED <<scenario, nodes, open, next_id, wire, pc, answer>>

Finish(o) ==
    /\ pc[o] = "running" /\ todo[o] = <<>>
    /\ Return(o, "Ok")
    /\ UNCHANGED <<scenario, nodes, open, next_id, wire, sending, results>>

----------------------------------------------------------------------------
StartOp(o) ==
    \/ send_with_selection(o) \/ send_notify_to(o) \/ add_node(o) \/ remove_node(o) \/ close(o)

Progress(o) ==
    \/ CloseSocket(o) \/ RefuseClosed(o) \/ TakeId(o) \/ Transmit(o) \/ SendFails(o) \/ Finish(o)

Next == \E o \in DOMAIN scenario.op : StartOp(o) \/ Progress(o)

Fairness == \A o \in Ops : WF_vars(o \in DOMAIN scenario.op /\ Progress(o))

Spec == Init /\ [][Next]_vars /\ Fairness

----------------------------------------------------------------------------
\* Types of the UDP fleet's state.
TypeOK ==
    /\ scenario \in Scenarios
    /\ nodes \subseteq Instances /\ open \subseteq Instances
    /\ next_id \in [Instances -> Nat \ {0}]
    /\ pc \in [Ops -> {"idle", "running", "done"}]
    /\ \A o \in Ops : todo[o] \in Seq(Instances) /\ (sending[o] # None => todo[o] # <<>>)
    /\ results \in [Ops -> [Instances -> Nat \cup {None}]]

(***************************************************************************)
(* The messages of a node leave its socket with increasing ids, although   *)
(* several threads send through it: the id is taken under the lock that is *)
(* held to the end of the send.  The receiver can tell an old message from *)
(* a new one.                                                              *)
(***************************************************************************)
IdsInOrder ==
    \A i \in Instances : \A j, k \in DOMAIN wire[i] : j < k => wire[i][j].id < wire[i][k].id

(***************************************************************************)
(* A SendResult without an error names a message that is on the wire of    *)
(* its node with this id.                                                  *)
(***************************************************************************)
SendReported ==
    \A o \in Ops, i \in Instances :
        results[o][i] \notin {None, 0} =>
            \E k \in DOMAIN wire[i] : wire[i][k].id = results[o][i]

(***************************************************************************)
(* Every operation that was started returns.                               *)
(***************************************************************************)
OpsEnd == \A o \in Ops : pc[o] = "running" ~> pc[o] = "done"
=============================================================================
