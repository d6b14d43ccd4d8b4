------------------------------- MODULE MCFleets ------------------------------
(***************************************************************************)
(* The TCP fleets and the UDP fleet, side by side: a scenario belongs to   *)
(* one of them, and the variables of the other are None.                   *)
(***************************************************************************)
EXTENDS Naturals, FiniteSets, Sequences, SequencesExt

CONSTANTS Ops, Instances, Clients, None, o1, o2, o3, na, nb, nc

VARIABLES scenario, nodes, pc, answer, todo,
          slot, owner, conn, peer, retired, up, crashes, work, held, tries,
          open, next_id, wire, sending, results

tcpVars == <<slot, owner, conn, peer, retired, up, crashes, work, held, tries>>
udpVars == <<open, next_id, wire, sending, results>>
vars == <<scenario, nodes, pc, answer, todo, tcpVars, udpVars>>

----------------------------------------------------------------------------
(* Scenarios of the TCP fleets.  The nodes na and nb are registered at the *)
(* start; nc has the name of na and is there to be added.                  *)

TcpConfig ==
    [i \in Instances |->
        CASE i = na -> [name |-> "a", host |-> "h", port |-> 1, tags |-> {"x"}, timeout |-> None]
          [] i = nb -> [name |-> None, host |-> "b", port |-> 2, tags |-> {"x", "y"}, timeout |-> 30]
          [] i = nc -> [name |-> "a", host |-> "h", port |-> 3, tags |-> {}, timeout |-> 30]]

MCOp(kind) == [kind |-> kind, name |-> "a", tags |-> {}, instance |-> nc, after |-> None]
Tagged(kind, tags) == [MCOp(kind) EXCEPT !.tags = tags]
AfterOp(kind, o) == [MCOp(kind) EXCEPT !.after = o]

TcpBase(fleet) ==
    [client |-> "tcp", fleet |-> fleet, config |-> TcpConfig, initial |-> <<na>>,
     options |-> [default_timeout |-> 30, max_attempts |-> 2],
     op |-> <<>>, up |-> Instances, fragile |-> {na}, max_crashes |-> 0, stable |-> None,
     responses |-> {"ok"}, slow |-> FALSE, deaf |-> {}]

Flavours == {"sync", "async"}
Map1(x) == [o \in {o1} |-> x]
Map2(x, y) == [o \in {o1, o2} |-> IF o = o1 THEN x ELSE y]
Map3(x, y, z) == [o \in {o1, o2, o3} |-> CASE o = o1 -> x [] o = o2 -> y [] o = o3 -> z]

\* Calls race each other, a crash and a restart, and every kind of answer.
Racing(f) ==
    {[TcpBase(f) EXCEPT !.op = Map2(MCOp(x), MCOp(y)), !.max_crashes = 1, !.slow = s,
                        !.responses = {"ok", "server_error", "undecodable"},
                        !.options.max_attempts = n] :
        x \in {"call_json"}, y \in {"call_message", "health_check", "reconnect_disconnected"},
        s \in BOOLEAN, n \in {1, 2}}

\* No fault: a fan-out against the operations that take its nodes away.
Fanout(f) ==
    {[TcpBase(f) EXCEPT !.initial = <<na, nb>>, !.op = Map3(MCOp("broadcast_json"), MCOp(x), MCOp(y))] :
        x \in {"remove_node", "disconnect_all"},
        y \in {"add_node", "is_connected_all", "is_connected", "connected_nodes"}}
    \cup {[TcpBase(f) EXCEPT !.initial = <<na, nb>>,
                             !.op = Map2(Tagged("broadcast_json", {"y"}), MCOp("connect_all"))]}

\* A crash before a health check, and a call after it.
Healing(f) ==
    {[TcpBase(f) EXCEPT !.op = Map3(MCOp("call_json"), MCOp("health_check"), AfterOp("call_json", o2)),
                        !.max_crashes = 1, !.stable = o2, !.options.max_attempts = n] : n \in {1, 2}}

\* The server may stop reading: two calls share its client, and a third
\* operation needs the locks.
Deaf(f) ==
    {[TcpBase(f) EXCEPT !.op = Map3(MCOp("call_json"), MCOp("call_message"), MCOp(x)),
                        !.deaf = {na}, !.slow = TRUE] :
        x \in {"disconnect_all", "remove_node", "connected_nodes", "reconnect_disconnected"}}
    \cup {[TcpBase(f) EXCEPT !.op = Map2(MCOp("call_json"), MCOp(x)),
                             !.deaf = {na}, !.slow = TRUE, !.max_crashes = 1] :
            x \in {"call_message", "health_check"}}

\* The server is down at first, or the fleet cannot be built.
Down(f) ==
    {[TcpBase(f) EXCEPT !.initial = <<na, nb>>, !.up = {nb},
                        !.op = Map2(MCOp("connect_all"), MCOp("remove_node"))],
     [TcpBase(f) EXCEPT !.up = {}, !.op = Map2(MCOp("call_json"), MCOp("is_connected"))],
     [TcpBase(f) EXCEPT !.initial = <<nb>>, !.op = Map2(MCOp("is_connected"), MCOp("call_json"))],
     [TcpBase(f) EXCEPT !.initial = <<na, nc>>, !.op = Map1(MCOp("call_json"))],
     [TcpBase(f) EXCEPT !.options.max_attempts = 0, !.op = Map1(MCOp("call_json"))],
     [TcpBase(f) EXCEPT !.options.default_timeout = 0, !.op = Map1(MCOp("call_json"))]}
    \cup {[TcpBase(f) EXCEPT !.config[nc] = bad, !.op = Map1(MCOp("add_node"))] :
            bad \in {[TcpConfig[nc] EXCEPT !.host = ""], [TcpConfig[nc] EXCEPT !.port = 0],
                     [TcpConfig[nc] EXCEPT !.timeout = 0], [TcpConfig[nc] EXCEPT !.name = ""]}}

TcpScenarios == UNION {Racing(f) \cup Fanout(f) \cup Healing(f) \cup Deaf(f) \cup Down(f) : f \in Flavours}

----------------------------------------------------------------------------
(* Scenarios of the UDP fleet.                                             *)

UdpOp(kind) ==
    [kind |-> kind, name |-> "a", tags |-> {}, instance |-> nc, params |-> TRUE, format |-> "json"]

UdpNode(name, tags) ==
    [name |-> name, host |-> "h", port |-> 1, tags |-> tags,
     redundancy |-> None, chunk_size |-> None, fec_group_size |-> None, parity_shards |-> None]

UdpBase ==
    [client |-> "udp", initial |-> <<na, nb>>, op |-> <<>>, sends_fail |-> FALSE,
     config |-> [i \in Instances |-> CASE i = na -> UdpNode("a", {"x"})
                                       [] i = nb -> UdpNode("b", {"x", "y"})
                                       [] i = nc -> UdpNode("a", {})]]

Limits ==
    {[UdpNode("a", {}) EXCEPT !.redundancy = n] : n \in {0, 65535, 65536}}
    \cup {[UdpNode("a", {}) EXCEPT !.chunk_size = n] : n \in {0, 65535, 65536}}
    \cup {[UdpNode("a", {}) EXCEPT !.fec_group_size = n] : n \in {0, 1, 64, 65, 256}}
    \cup {[UdpNode("a", {}) EXCEPT !.parity_shards = n] : n \in {0, 1, 16, 17}}
    \cup {[UdpNode("a", {}) EXCEPT !.host = ""], [UdpNode("", {}) EXCEPT !.port = 0],
          [UdpNode("a", {}) EXCEPT !.port = 0]}

UdpScenarios ==
    {[UdpBase EXCEPT !.op = Map3(UdpOp(x), UdpOp("send_request"), UdpOp(y)), !.sends_fail = f] :
        x \in {"send_notify", "notify_all", "send_notify_to"},
        y \in {"close", "remove_node", "add_node"}, f \in BOOLEAN}
    \cup {[UdpBase EXCEPT !.initial = <<nb>>,
                          !.op = Map3(UdpOp("add_node"), UdpOp("send_notify_to"), UdpOp("remove_node"))],
          [UdpBase EXCEPT !.initial = <<na, nc>>, !.op = Map1(UdpOp("close"))]}
    \cup {[UdpBase EXCEPT !.initial = <<>>, !.config[nc] = bad,
                          !.op = Map2(UdpOp("add_node"), [UdpOp("notify_all") EXCEPT !.params = p])] :
            bad \in Limits, p \in BOOLEAN}

----------------------------------------------------------------------------
Tcp == INSTANCE Fleet WITH Scenarios <- TcpScenarios
Udp == INSTANCE UdpFleet WITH Scenarios <- UdpScenarios

IsTcp == scenario.client = "tcp"
IsUdp == scenario.client = "udp"

Init ==
    \/ Tcp!Init /\ open = None /\ next_id = None /\ wire = None /\ sending = None /\ results = None
    \/ /\ Udp!Init
       /\ slot = None /\ owner = None /\ conn = None /\ peer = None /\ retired = None /\ up = None
       /\ crashes = None /\ work = None /\ held = None /\ tries = None

Next ==
    \/ IsTcp /\ Tcp!Next /\ UNCHANGED udpVars
    \/ IsUdp /\ Udp!Next /\ UNCHANGED tcpVars

Fairness ==
    \A o \in Ops : WF_vars(
        /\ o \in DOMAIN scenario.op
        /\ \/ IsTcp /\ Tcp!Progress(o) /\ UNCHANGED udpVars
           \/ IsUdp /\ Udp!Progress(o) /\ UNCHANGED tcpVars)

Spec == Init /\ [][Next]_vars /\ Fairness

----------------------------------------------------------------------------
\* TCP fleets: however workers race, ensure_connected leaves one connection
\* per node, in the node's slot.
OneClientPerNode == IsTcp => Tcp!OneClientPerNode

\* TCP fleets: a call is retried after transport failures only and within its
\* attempts, ends with a value or an error, succeeds when nothing failed, the
\* removal of its node included, and succeeds after a health check that
\* cleared the dead client of a restarted server.
CallsSound ==
    IsTcp => /\ Tcp!RetryDiscipline
             /\ Tcp!ResultPresent
             /\ Tcp!FaultlessSucceeds
             /\ Tcp!HealthCheckHeals

\* UDP fleet: the ids of a node's messages leave in the order in which they
\* were taken, each once, and an id that was reported was sent.
IdsInOrder == IsUdp => Udp!IdsInOrder /\ Udp!SendReported

\* Every started operation of either fleet returns, whatever other operations
\* hold and whether servers crash, refuse or are slow.  A TCP call may hang in
\* one place, a write that a live server does not read, since the fleets set no
\* write timeout; it then holds up the calls on the same client and no other
\* operation.
OpsEnd == \A o \in Ops :
    pc[o] = "running" ~> (pc[o] = "done" \/ (IsTcp /\ Tcp!WriteHangs(o)))

\* docs/fleet.md on retries (see Fleet).
RetriesTransport == IsTcp => Tcp!RetriesTransport
=============================================================================
