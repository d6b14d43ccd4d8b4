----------------------------- MODULE MCRequests -----------------------------
(***************************************************************************)
(* The request path side by side: pure cases of JsonPointer and Message,   *)
(* the Router, the served structs, the TCP servers, the REST gateway and   *)
(* plugins, one per behaviour (scenario.part).                             *)
(***************************************************************************)
EXTENDS Naturals, Sequences, SequencesExt, TLC

CONSTANTS None, HEADER_SIZE, U64_MAX, USIZE_MAX, ALIGN, STACK_SEGS,
    ROUTER_MAX,   \* U64_MAX and USIZE_MAX of the routers, no frame of which overflows
    c1,           \* a TCP connection; they share nothing but the router
    BUFFER, SOCKET,
    h1, h2,       \* HTTP connections
    p1, p2        \* threads of a host with plugins

VARIABLES scenario, router, todo, value, lock, handling, listening, conn, located, counter, gate, http,
    lib, buffer, thread

routing == <<router, todo>>
serving == <<value, lock, handling>>
tcp == <<listening, conn>>
rest == <<located, counter, gate, http>>
plugin == <<lib, buffer, thread>>

Msg == INSTANCE Message

Byte(k, v) == Msg!Byte(k, v)
-----------------------------------------------------------------------------
(***************************************************************************)
(* Pointers and mounts: every string of up to four of five characters.     *)
(***************************************************************************)
JP == INSTANCE JsonPointer
Chars == {"/", "~", "0", "1", "a"}
PointerCases == [part : {"pointer"}, mount : BoundedSeq(Chars, 2), path : BoundedSeq(Chars, 4)]

\* Messages and headers.
BuildCases == [part : {"build"}, first : {"query", "body"},
               body : {"json", "beve", "typed", "aligned", "none"},
               query : {<<>>, <<Byte("q", 1)>>, <<Byte("q", 1), Byte("q", 2)>>},
               value : {<<>>, <<1>>, <<1, 2>>}]
Headers == {[Msg!Header_new EXCEPT !.length = l, !.query_length = q, !.body_length = b] :
               l \in 0..U64_MAX, q \in 0..U64_MAX, b \in 0..U64_MAX}
HeaderCases == [part : {"header"}, header : Headers, n : {0, 1, 2, 5, 9}]
-----------------------------------------------------------------------------
(***************************************************************************)
(* Routers.                                                                *)
(***************************************************************************)
f(name, reply) == [kind |-> "erased", name |-> name, reply |-> reply]
Route(op, path, name, reply) == [op |-> op, path |-> path, f |-> f(name, reply)]
Fallback(name, blocking) == [op |-> "fallback", f |-> f(name, [ok |-> <<>>]), blocking |-> blocking]
Fallthrough(enabled) == [op |-> "fallthrough", enabled |-> enabled]
Around(name, stops) == [op |-> "middleware", middleware |-> [name |-> name, stops |-> stops]]

Query(path) == [i \in DOMAIN path |-> Byte("q", path[i])]
Request(path, format, body) ==
    Msg!build([Msg!MessageBuilder EXCEPT !.id = 3, !.query = Query(path), !.body = body,
                  !.body_format = format, !.query_format = "JsonPointer"])
Notify(req) == [req EXCEPT !.header.notify = 1]

A == <<"/", "a">>
B == <<"/", "b">>
AB == <<"/", "a", "/", "b">>
ABC == <<"/", "a", "/", "b", "/", "c">>

Bodies == {<<"Json", Msg!json_to_vec(<<1, 2>>)>>, <<"Beve", Msg!beve_bytes(<<1, 2>>, 0)>>,
           <<"Beve", Msg!beve_bytes(<<1, 2>>, 1)>>, <<"Beve", Msg!json_to_vec(<<1>>)>>,
           <<"RawBinary", <<>> >>, <<"unknown", Msg!json_to_vec(<<1>>)>>}
Requests(paths) ==
    LET base == {Request(p, b[1], b[2]) : p \in paths, b \in Bodies} IN base \cup {Notify(r) : r \in base}
Misfits ==
    LET req == Request(A, "RawBinary", <<>>) IN
    {[req EXCEPT !.header.version = 2], [req EXCEPT !.header.query_format = "RawBinary"],
     [req EXCEPT !.query[2] = Byte("q", "\\xff")], [req EXCEPT !.header.query_format = "unknown"]}

Members == (<<>> :> "whole") @@ (<< <<"b">> >> :> "b")
Functions(name) == (B :> [name |-> name, reply |-> [ok |-> "Json"]])
Failing == (B :> [name |-> "deny", reply |-> [err |-> "ParseError"]]) @@ (A :> [name |-> "gone", reply |-> [err |-> "MethodNotFound"]])

RouterCase(steps, requests) ==
    [part |-> "router", steps |-> steps, requests |-> requests,
     own_query |-> Query(<<"x">>)]

Leaves == {"typed", "typed_slice", "typed_slice_ref", "typed_ctx", "typed_blocking",
           "typed_ctx_blocking", "handler"}

RouterScenarios ==
    \* each kind of leaf, answering or failing, behind middleware
    {RouterCase({Route(op, A, "f", reply), Around("m1", FALSE), Around("m2", stops)},
                Requests({A, B}) \cup Misfits) :
        op \in Leaves, reply \in {[ok |-> "Beve"], [ok |-> "Json"], [err |-> "InvalidQuery"]}, stops \in BOOLEAN}
    \cup {RouterCase({Route("erased_handler", A, "f", reply), Route("typed", A, "g", [ok |-> "Utf8"]),
                      Around("m1", FALSE)}, Requests({A})) :
        reply \in {[ok |-> <<>>], [ok |-> Query(<<"x">>)], [err |-> "Json"]}}
    \* mounts with a fallback, the switch and middleware, in any order
    \cup {RouterCase({[op |-> "registry", path |-> A, functions |-> fs],
                      [op |-> "struct", path |-> r, members |-> Members],
                      Fallback("fb", blocking), Fallthrough(TRUE), Around("m1", FALSE)},
                     Requests({A, AB, ABC, B})) :
        fs \in {Functions("fn"), Failing}, r \in {<<>>, A}, blocking \in BOOLEAN}
    \* things registered again, and switched off again
    \cup {RouterCase({[op |-> "registry", path |-> AB, functions |-> Functions("fn")],
                      [op |-> "struct", path |-> A, members |-> Members],
                      Fallback("f1", FALSE), Fallback("f2", TRUE), Fallthrough(TRUE), Fallthrough(FALSE)},
                     Requests({A, AB, ABC}))}

Rt == INSTANCE Router WITH
        Scenarios <- RouterScenarios, U64_MAX <- ROUTER_MAX, USIZE_MAX <- ROUTER_MAX
-----------------------------------------------------------------------------
Cases == INSTANCE StructCases

St == INSTANCE ServedStruct WITH Scenarios <- Cases!StructScenarios
-----------------------------------------------------------------------------
(***************************************************************************)
(* TCP servers: a client that mixes what it sends.                         *)
(***************************************************************************)
TcpScenarios ==
    {[part |-> "tcp", flavour |-> flavour, sends |-> (c1 :> sends), accept_fails |-> TRUE,
      read_timeout |-> timeouts, write_timeout |-> timeouts, stalled |-> stalled] :
        flavour \in {"blocking", "async"}, timeouts \in BOOLEAN, stalled \in {{}, {c1}},
        sends \in {<<"large call", "notify", "call", "large call">>, <<"call", "call", "call">>,
                  <<"call", "malformed">>, <<"large call", "panic">>}}

Tcp == INSTANCE TcpServer WITH Conns <- {c1}, Scenarios <- TcpScenarios
-----------------------------------------------------------------------------
(***************************************************************************)
(* REST: paths of up to four atoms, and gateways with one slot or two.     *)
(***************************************************************************)
Atoms == {"slash", "x", "tilde", "tilde 1", "%2F", "%7E", "%E2", "%2"}
UrlCases == [part : {"url"}, atoms : {<<>>} \cup {<<"slash">> \o s : s \in BoundedSeq(Atoms, 3)}]

Http(method, target) ==
    [method |-> method, target |-> target, content_type |-> None, accept |-> <<>>,
     if_none_match |-> "none", tag |-> None, body |-> None]
C == <<"/", "a", "/", "c">>
P == <<"/", "a", "/", "p">>
Get(target) == Http("GET", target)
Put(body) == [Http("PUT", C) EXCEPT !.body = body]
Accepting(request, accept) == [request EXCEPT !.accept = accept]
Cached(request) == [request EXCEPT !.if_none_match = "cached"]
beve(q) == [media |-> "beve", q |-> q]
json(q) == [media |-> "json", q |-> q]

RestCase(slots, limited, read_only, stalled, requests1, requests2) ==
    [part |-> "rest", mount |-> A, max_connections |-> slots, request_timeout |-> limited,
     read_only |-> read_only, accept_beve_bodies |-> read_only, application_error_status |-> 500,
     stalled |-> stalled, http2 |-> {}, faults |-> 1, requests |-> (h1 :> requests1) @@ (h2 :> requests2)]
RestScenarios ==
    \* a client that revalidates beside one that calls
    {RestCase(2, TRUE, FALSE, {}, <<Get(C), Accepting(Cached(Get(C)), accept)>>, <<Put("one"), Put("zero")>>) :
        accept \in {<<>>, <<json(500), beve(1000)>>, <<beve(0)>>}}
    \* two clients for one slot
    \cup {RestCase(1, limited, read_only, stalled, <<Put("one"), Http("POST", C)>>,
                    <<[Get(C) EXCEPT !.if_none_match = "any"]>>) :
            limited \in BOOLEAN, read_only \in BOOLEAN, stalled \in {{}, {h1}}}
    \* an HTTP/2 client in the only slot
    \cup {[RestCase(1, TRUE, FALSE, {}, <<request, Get(C)>>, <<Get(C)>>) EXCEPT !.http2 = {h1}] :
            request \in {Put("one"), Get(P)}}
    \* everything that is refused, and a panic
    \cup {RestCase(1, TRUE, read_only, {}, <<request>>, <<Put("too large")>>) :
            read_only \in BOOLEAN,
            request \in {Http("OPTIONS", <<"*">>), Http("OPTIONS", C), Http("HEAD", C), Get(<<"*">>),
                        Http("DELETE", C), Get(<<"/", "a", "c">>), Get(<<"/", "a", "/", "%">>),
                        Get(<<"/", "a", "/", "b">>), Get(<<"/", "a", "/", "c", "/", "?", "x">>), Get(A),
                        Get(P), Put("bad"), [Put("one") EXCEPT !.content_type = "beve"],
                        [Put("one") EXCEPT !.content_type = "text"]}}

Rest == INSTANCE RestGateway WITH HttpConns <- {h1, h2}, Scenarios <- RestScenarios
-----------------------------------------------------------------------------
(***************************************************************************)
(* Plugins: two threads that load one library and call it.                 *)
(***************************************************************************)
PluginCase(abi, init, build, foreign, work1, work2) ==
    [part |-> "plugin", abi |-> abi, init |-> init, build |-> build, foreign |-> foreign,
     work |-> (p1 :> work1) @@ (p2 :> work2)]
PluginScenarios ==
    \* races for the constructor and with shutdown
    {PluginCase("good", init, build, FALSE, <<"load", "call", "reenter">>,
                <<"load", "notify", "shutdown", "load", "call">>) :
        init \in BOOLEAN, build \in {"ok", "either", "panics"}}
    \* everything a handler or a request may be
    \cup {PluginCase("good", TRUE, "ok", FALSE, <<"load", "panic", "notify panic", "call">>,
                      <<"load", "malformed", "aliasing", "outside", "reenter">>)}
    \cup {PluginCase(abi, FALSE, "ok", TRUE, <<"load", "call", "notify">>, <<"load", "call">>) :
            abi \in {"good", "bad", "missing"}}

Pl == INSTANCE Plugin WITH Threads <- {p1, p2}, Scenarios <- PluginScenarios
-----------------------------------------------------------------------------
IsRouter == scenario.part = "router"
IsStruct == scenario.part \in {"serve", "args", "declare"}
IsTcp == scenario.part = "tcp"
IsRest == scenario.part = "rest"
IsPlugin == scenario.part = "plugin"

NoRouter == router = None /\ todo = {}
NoStruct == value = None /\ lock = None /\ handling = None
NoTcp == listening = None /\ conn = None
NoRest == located = None /\ counter = None /\ gate = None /\ http = None
NoPlugin == lib = None /\ buffer = None /\ thread = None

Init ==
    \/ Rt!Init /\ NoStruct /\ NoTcp /\ NoRest /\ NoPlugin
    \/ St!Init /\ NoRouter /\ NoTcp /\ NoRest /\ NoPlugin
    \/ Tcp!Init /\ NoRouter /\ NoStruct /\ NoRest /\ NoPlugin
    \/ Rest!Init /\ NoRouter /\ NoStruct /\ NoTcp /\ NoPlugin
    \/ Pl!Init /\ NoRouter /\ NoStruct /\ NoTcp /\ NoRest
    \/ /\ scenario \in PointerCases \cup BuildCases \cup HeaderCases \cup UrlCases
       /\ NoRouter /\ NoStruct /\ NoTcp /\ NoRest /\ NoPlugin

Next ==
    \/ IsRouter /\ Rt!Next /\ UNCHANGED <<serving, tcp, rest, plugin>>
    \/ IsStruct /\ St!Next /\ UNCHANGED <<routing, tcp, rest, plugin>>
    \/ IsTcp /\ Tcp!Next /\ UNCHANGED <<routing, serving, rest, plugin>>
    \/ IsRest /\ Rest!Next /\ UNCHANGED <<routing, serving, tcp, plugin>>
    \/ IsPlugin /\ Pl!Next /\ UNCHANGED <<routing, serving, tcp, rest>>

vars == <<scenario, routing, serving, tcp, rest, plugin>>

\* The fairness of TcpServer, RestGateway and Plugin, where their scenarios run.
Fairness ==
    /\ \A c \in {c1} :
          /\ WF_vars(IsTcp /\ Tcp!Connection(c) /\ UNCHANGED <<routing, serving, rest, plugin>>)
          /\ WF_vars(IsTcp /\ c \notin scenario.stalled /\ Tcp!ClientReads(c)
                      /\ UNCHANGED <<routing, serving, rest, plugin>>)
    /\ WF_vars(IsRest /\ Rest!Loop /\ UNCHANGED <<routing, serving, tcp, plugin>>)
    /\ \A c \in {h1, h2} : WF_vars(IsRest /\ Rest!Task(c) /\ UNCHANGED <<routing, serving, tcp, plugin>>)
    /\ \A t \in {p1, p2} : WF_vars(IsPlugin /\ Pl!Steps(t) /\ UNCHANGED <<scenario, routing, serving, tcp, rest>>)

Spec == Init /\ [][Next]_vars /\ Fairness
-----------------------------------------------------------------------------
(***************************************************************************)
(* The properties of the components.                                       *)
(***************************************************************************)
\* Every part that reads a path means the same member by it: the two scans
\* accept the same pointers and joining their tokens gives the pointer back; a
\* registered path is found by any spelling of its tokens and by no other path;
\* the router, the mount it picks, with_segments, the REST gateway and a plugin
\* under the same root agree on what lies below it; and the pointer of a URL
\* names the keys one reads in the URL.  Two spellings are outside the claim
\* because the code disagrees on them: a plugin rooted at "/" claims less than
\* a mount there takes, and the URL path "//" has the root as its pointer and
\* not an empty key.
AddressesAgree ==
    /\ scenario.part = "pointer" =>
          /\ JP!RoundTrips(scenario.path)
          /\ JP!FoundByTokens(scenario.mount, scenario.path)
          /\ JP!MountTakesItsPaths(scenario.mount, scenario.path)
          /\ JP!SegmentsAreTokens(scenario.path)
          /\ Rest!SameAddress(scenario.mount, scenario.path)
          /\ Pl!RootClaims(scenario.mount, scenario.path)
    /\ scenario.part = "url" => Rest!PathNamesItsKey(scenario.atoms)

\* A message that is built and written reads back as itself over every writer
\* and reader, with an aligned body on its boundary within the frame; and no
\* header, whatever its lengths, makes a reader overflow or slice outside the
\* bytes it has.
FramesSound ==
    /\ scenario.part = "build" => Msg!FrameReadsBack(scenario) /\ Msg!AlignedInFrame(scenario)
    /\ scenario.part = "header" => Msg!ParseIsSafe(scenario.header, scenario.n)

\* Router: what answers a request, and which middlewares run around it,
\* depends on what is registered in the end and not on the order in which
\* distinct things were; the owned and the borrowed dispatch answer alike; a
\* handler that may block stays off the reader however it is wrapped; and
\* contexts carry the peer.
RoutingSound ==
    IsRouter => /\ Rt!AnswersAsConfigured
                /\ Rt!TransportsAgree
                /\ Rt!BlockingStaysOff
                /\ Rt!PeerReaches

\* Struct: dispatch under the shared and under the exclusive borrow answer
\* alike, in every form the wire has for the arguments; nothing of a derived
\* type runs twice for one request, a declined shared attempt included; a body is one well-formed
\* document; guards are held by the attempts being dispatched; and a listing
\* names every endpoint once.
StructsSound ==
    IsStruct => /\ St!AnswersAlike
                /\ St!ArgsAlike
                /\ St!RunsOnce
                /\ St!BodyWellFormed
                /\ St!GuardsFollowAttempts
                /\ St!ListingComplete

\* Every caller gets its own answers: what a TCP client reads are the
\* responses to its calls in their order, and nothing follows a torn frame;
\* what the host of a plugin copies is the answer to its own request or an
\* error, and once the router is built, which happens once, it serves every
\* call until shutdown, after which nothing is dispatched.
OwnAnswers ==
    /\ IsTcp => Tcp!FramesInOrder
    /\ IsPlugin => Pl!OwnAnswer /\ Pl!ServedOnceBuilt /\ Pl!BuiltOnce

\* REST: no path through serve loses or doubles a permit, and OPTIONS offers
\* exactly the verbs that are not refused.
GatewaySound == IsRest => Rest!PermitsConserved /\ Rest!AllowIsTrue

\* What requests leave behind: a step changes no member of a struct that its
\* request does not name, what a handler that panicked left behind a lock that
\* poisons (the std ones) is served to nobody, and a gateway says 304 only to a
\* client that keeps what it would be given.
EffectsContained ==
    [][/\ IsStruct => St!WriteStaysPut /\ St!PanicIsQuarantined
       /\ IsRest => Rest!Revalidation]_<<scenario, serving, rest>>

\* Requests come to an end: a TCP response being written arrives whole, or its
\* connection ends, if the client reads or a write timeout is set; with a
\* request timeout a REST client in the backlog is served although others stop
\* in the middle of a request, if all connections are HTTP/1 (nothing ends an
\* HTTP/2 connection that idles) and every client reads its responses; and a
\* plugin call returns, inner calls and races for the constructor included.
RequestsEnd ==
    /\ \A c \in {c1} :
          (IsTcp /\ conn[c].pc = "write" /\ Tcp!Bounded(c)) ~> (IsTcp /\ Tcp!Settled(c))
    /\ \A c \in {h1, h2} : (IsRest /\ Rest!Waits(c)) ~> (IsRest /\ http[c].pc # "backlog")
    /\ \A t \in {p1, p2} :
          (IsPlugin /\ thread[t].stack # <<>>) ~> (IsPlugin /\ thread[t].stack = <<>>)
=============================================================================
