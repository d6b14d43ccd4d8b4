------------------------------- MODULE Plugin -------------------------------
(***************************************************************************)
(* A plugin and its host, both sides of the C interface: PluginRuntime     *)
(* (src/plugin.rs), whose router is built once and whose responses live in *)
(* a buffer per thread, and Plugin (src/plugin/host.rs), which loads the   *)
(* library, copies what a call returns and stands behind a Router.         *)
(***************************************************************************)
EXTENDS JsonPointer

CONSTANTS Threads,    \* the host's threads
          Scenarios   \* what the library is like, and what the threads do with it

VARIABLES scenario,
          lib,        \* the library's statics
          buffer,     \* the response buffers
          thread      \* each thread's calls across the interface, innermost first

vars == <<scenario, lib, buffer, thread>>
-----------------------------------------------------------------------------
(***************************************************************************)
(* Which queries are a plugin's.                                           *)
(***************************************************************************)
claims(root, query) ==
    \E rest \in {strip_prefix(query, root)} :
        rest # None /\ (rest = <<>> \/ starts_with(rest, "/"))

\* from_abi's two tests of a root_path.
RootAccepted(root) ==
    /\ root = <<>> \/ starts_with(root, "/")
    /\ ~(Len(root) > 1 /\ root[Len(root)] = "/")
-----------------------------------------------------------------------------
Init ==
    /\ scenario \in Scenarios
    /\ lib = [resident |-> FALSE, router |-> FALSE, build_failed |-> FALSE, shutdown |-> FALSE,
              builder |-> None, runs |-> 0]
    /\ buffer = [t \in Threads |-> [borrowed |-> FALSE, frame |-> None]]
    /\ thread = [t \in Threads |-> [next |-> 1, stack |-> <<>>, last |-> None]]

\* RESPONSE is a thread_local.
RESPONSE(t) == t

At(t, pc) == thread[t].stack # <<>> /\ thread[t].stack[1].pc = pc
Call(t) == thread[t].stack[1]
Goto(t, pc) == thread' = [thread EXCEPT ![t].stack[1].pc = pc]
Returned(t, ret) == thread' = [thread EXCEPT ![t].stack[1].pc = "returned", ![t].stack[1].ret = ret]

Notifies(kind) == kind \in {"notify", "notify panic"}
Panics(kind) == kind \in {"panic", "notify panic"}
Refused(kind) == kind \in {"oversized", "null", "aliasing"}

\* A frame with the request's id, and one of create_error_message, whose id is
\* always 0 and is written None here.
Own(t, of) == [id |-> <<t, thread[t].next, Len(thread[t].stack)>>, of |-> of]
ErrorFrame == [id |-> None, of |-> "error"]

\* with_response_buffer waits for nobody: a buffer that is borrowed by an outer
\* call on this thread leaves the static frame.
with_response_buffer(t, Fill) ==
    /\ IF buffer[RESPONSE(t)].borrowed THEN Returned(t, "static") /\ UNCHANGED buffer ELSE Fill
    /\ UNCHANGED lib

error_response(t) ==
    with_response_buffer(t,
        buffer' = [buffer EXCEPT ![RESPONSE(t)].frame = ErrorFrame] /\ Returned(t, "buffer"))
-----------------------------------------------------------------------------
(***************************************************************************)
(* The host's threads: load, call and shut down, in the scenario's order.  *)
(***************************************************************************)
Op(t) == scenario.work[t][thread[t].next]
Idle(t) == thread[t].stack = <<>> /\ thread[t].next <= Len(scenario.work[t])

\* What a call finds when it begins.
Began == [built |-> lib.router, shutdown |-> lib.shutdown, failed |-> lib.build_failed /\ ~lib.router]

Entered(t, kind, pc, origin) ==
    thread' = [thread EXCEPT ![t].stack =
        <<[kind |-> kind, pc |-> pc, ret |-> None, origin |-> origin, mapped |-> FALSE, began |-> Began]>>]

\* The outermost call is over, with `last` for its result.
Left(t, last, next) ==
    thread' = [thread EXCEPT ![t].stack = Tail(@), ![t].last = last, ![t].next = next]

\* HandlerErased::handle, which answers for what the plugin does not claim.
Disclaim(t) ==
    /\ Idle(t) /\ Op(t) = "outside"
    /\ thread' = [thread EXCEPT ![t].next = @ + 1]
    /\ UNCHANGED <<lib, buffer>>

BeginCall(t) ==
    /\ Idle(t) /\ Op(t) \notin {"load", "shutdown", "outside"}
    /\ Entered(t, Op(t), "start", None)
    /\ UNCHANGED <<lib, buffer>>

\* Plugin::shutdown and PluginRuntime::shutdown: the router stays.
Shutdown(t) ==
    /\ Idle(t) /\ Op(t) = "shutdown"
    /\ lib' = [lib EXCEPT !.shutdown = TRUE]
    /\ thread' = [thread EXCEPT ![t].next = @ + 1]
    /\ UNCHANGED buffer

probe_origin(t) ==
    /\ Idle(t) /\ Op(t) = "load"
    /\ Entered(t, "load", "open", IF lib.resident THEN "AlreadyResident" ELSE "Mapped")
    /\ UNCHANGED <<lib, buffer>>

\* A host without a Plugin has nothing further to call.
LoadFails(t) ==
    /\ Left(t, None, Len(scenario.work[t]) + 1)
    /\ UNCHANGED buffer

Loaded(t) ==
    /\ Left(t, [kind |-> "load", origin |-> Call(t).origin, mapped |-> Call(t).mapped], thread[t].next + 1)
    /\ UNCHANGED buffer

open(t) ==
    /\ At(t, "open")
    /\ IF scenario.abi = "missing" THEN LoadFails(t) /\ UNCHANGED lib
       ELSE /\ lib' = [lib EXCEPT !.resident = TRUE]
            /\ thread' = [thread EXCEPT ![t].stack[1].mapped = ~lib.resident, ![t].stack[1].pc = "abi"]
            /\ UNCHANGED buffer

\* The symbols, the version and the metadata; then init, if it is exported.
from_abi(t) ==
    /\ At(t, "abi")
    /\ IF scenario.abi = "bad" THEN LoadFails(t)
       ELSE IF ~scenario.init THEN Loaded(t)
       ELSE Goto(t, "init") /\ UNCHANGED buffer
    /\ UNCHANGED lib

init(t) ==
    /\ At(t, "init")
    /\ IF lib.shutdown THEN LoadFails(t) ELSE Goto(t, "get") /\ UNCHANGED buffer
    /\ UNCHANGED lib
-----------------------------------------------------------------------------
(***************************************************************************)
(* get_or_build, for init and for a call.  The router's OnceLock lets one  *)
(* thread run the constructor while the others wait, and is open again     *)
(* after a constructor that panicked.                                      *)
(***************************************************************************)
SomeRouter(t) ==
    IF Call(t).kind = "load" THEN Loaded(t) ELSE Goto(t, "dispatch") /\ UNCHANGED buffer

\* error_response of a call: no handler of this thread holds the buffer here
\* unless the call is an inner one, and then the router exists.
NoRouter(t) ==
    IF Call(t).kind = "load" THEN LoadFails(t)
    ELSE /\ buffer' = [buffer EXCEPT ![RESPONSE(t)].frame = ErrorFrame]
         /\ Returned(t, "buffer")

RouterGet(t) ==
    /\ At(t, "get")
    /\ IF lib.router THEN SomeRouter(t) ELSE Goto(t, "latch") /\ UNCHANGED buffer
    /\ UNCHANGED lib

BuildFailed(t) ==
    /\ At(t, "latch")
    /\ IF lib.build_failed THEN NoRouter(t) ELSE Goto(t, "enter") /\ UNCHANGED buffer
    /\ UNCHANGED lib

get_or_init(t) ==
    /\ At(t, "enter") /\ lib.builder = None
    /\ IF lib.router THEN SomeRouter(t) /\ UNCHANGED lib
       ELSE /\ lib' = [lib EXCEPT !.builder = t, !.runs = @ + 1]
            /\ Goto(t, "build") /\ UNCHANGED buffer

BuildReturns(t) ==
    /\ At(t, "build") /\ scenario.build \in {"ok", "either"}
    /\ lib' = [lib EXCEPT !.builder = None, !.router = TRUE]
    /\ SomeRouter(t)

BuildPanics(t) ==
    /\ At(t, "build") /\ scenario.build \in {"panics", "either"}
    /\ lib' = [lib EXCEPT !.builder = None]
    /\ Goto(t, "recheck") /\ UNCHANGED buffer

Recheck(t) ==
    /\ At(t, "recheck")
    /\ IF lib.router THEN SomeRouter(t) /\ UNCHANGED lib
       ELSE lib' = [lib EXCEPT !.build_failed = TRUE] /\ NoRouter(t)

get_or_build(t) ==
    \/ RouterGet(t) \/ BuildFailed(t) \/ get_or_init(t)
    \/ BuildReturns(t) \/ BuildPanics(t) \/ Recheck(t)
-----------------------------------------------------------------------------
(***************************************************************************)
(* PluginRuntime::call.                                                    *)
(***************************************************************************)
call_unguarded(t) ==
    /\ At(t, "start") /\ ~scenario.foreign
    /\ IF lib.shutdown \/ Refused(Call(t).kind) THEN error_response(t)
       ELSE Goto(t, "get") /\ UNCHANGED <<lib, buffer>>

\* with_response_buffer borrows the buffer for as long as the handler runs.
Dispatch(t) ==
    /\ At(t, "dispatch")
    /\ with_response_buffer(t,
           buffer' = [buffer EXCEPT ![RESPONSE(t)].borrowed = TRUE] /\ Goto(t, "handler"))

\* A handler that calls the plugin again before it answers.
Reenter(t) ==
    /\ At(t, "handler") /\ Call(t).kind = "reenter"
    /\ thread' = [thread EXCEPT ![t].stack =
           <<[Call(t) EXCEPT !.kind = "call", !.pc = "start", !.began = Began],
             [Call(t) EXCEPT !.pc = "reentered"]>>]
    /\ UNCHANGED <<lib, buffer>>

\* Router::call_into: a response, nothing, or an error frame for what is no request.
CallInto(t) ==
    /\ \/ At(t, "handler") /\ Call(t).kind \in {"call", "notify", "malformed"}
       \/ At(t, "reentered")
    /\ LET frame == IF Notifies(Call(t).kind) THEN None
                    ELSE IF Call(t).kind = "malformed" THEN ErrorFrame ELSE Own(t, "answer") IN
       /\ buffer' = [buffer EXCEPT ![RESPONSE(t)] = [borrowed |-> FALSE, frame |-> frame]]
       /\ Returned(t, IF frame = None THEN "empty" ELSE "buffer")
    /\ UNCHANGED lib

\* The handler's panic gives the borrow back; requested_notify reads the header again.
Caught(t) ==
    /\ At(t, "handler") /\ Panics(Call(t).kind)
    /\ IF Notifies(Call(t).kind)
       THEN buffer' = [buffer EXCEPT ![RESPONSE(t)].borrowed = FALSE] /\ Returned(t, "empty")
       ELSE /\ buffer' = [buffer EXCEPT ![RESPONSE(t)] = [borrowed |-> FALSE, frame |-> ErrorFrame]]
            /\ Returned(t, "buffer")
    /\ UNCHANGED lib

\* A plugin that is not built on PluginRuntime returns anything.
ForeignCall(t) ==
    /\ At(t, "start") /\ scenario.foreign
    /\ \E ret \in {"empty", "null", "too large", "garbage", "static"} : Returned(t, ret)
    /\ UNCHANGED <<lib, buffer>>

\* Plugin::call_into copies; forward makes a Message of it.
forward(t, ret) ==
    CASE ret = "buffer" -> buffer[RESPONSE(t)].frame
      [] ret = "static" -> ErrorFrame
      [] ret = "empty" -> IF Notifies(Call(t).kind) THEN None ELSE Own(t, "error")
      [] OTHER -> Own(t, "error")

call_into(t) ==
    /\ At(t, "returned")
    /\ LET outer == Len(thread[t].stack) = 1 IN
       Left(t, [kind |-> Call(t).kind, outer |-> outer, began |-> Call(t).began,
                own |-> Own(t, "answer"), answer |-> forward(t, Call(t).ret)],
            IF outer THEN thread[t].next + 1 ELSE thread[t].next)
    /\ UNCHANGED <<lib, buffer>>

Steps(t) ==
    \/ Disclaim(t) \/ BeginCall(t) \/ Shutdown(t)
    \/ probe_origin(t) \/ open(t) \/ from_abi(t) \/ init(t)
    \/ get_or_build(t)
    \/ call_unguarded(t) \/ Dispatch(t) \/ Reenter(t) \/ CallInto(t) \/ Caught(t)
    \/ ForeignCall(t) \/ call_into(t)

Next == UNCHANGED scenario /\ \E t \in Threads : Steps(t)
-----------------------------------------------------------------------------
\* The last call or load that each thread finished.
Done(t) == thread[t].last # None
Calls == {thread[t].last : t \in {u \in Threads : Done(u) /\ thread[u].last.kind # "load"}}

\* What a host copies after repe_plugin_call is the answer to its own request
\* or an error, although other threads and inner calls use buffers too; there
\* is nothing to copy only after a notify.
OwnAnswer ==
    \A call \in Calls :
        IF call.answer = None THEN Notifies(call.kind)
        ELSE call.answer = call.own \/ call.answer.of = "error"

\* After repe_plugin_shutdown nothing reaches the router.  A call that begins
\* when the router is built is served by it and a notify then gets no answer,
\* even one whose handler panics: no constructor's panic, however late,
\* disables a plugin that was built.
ServedOnceBuilt ==
    ~scenario.foreign => \A call \in Calls :
        /\ call.began.shutdown =>
               call.answer # None /\ call.answer.of = "error"
        /\ call.began.built /\ ~lib.shutdown /\ call.outer =>
               call.answer = CASE call.kind \in {"call", "reenter"} -> call.own
                               [] Notifies(call.kind) -> None
                               [] OTHER -> ErrorFrame

\* The constructor runs once however many threads arrive together, and not
\* again for a caller that arrives when it has panicked.
BuiltOnce ==
    /\ scenario.build = "ok" => lib.runs <= 1
    /\ \A t \in Threads : At(t, "build") => ~lib.router /\ ~Call(t).began.failed

\* A plugin is handed the queries that a mount under the same root takes.  The
\* accepted root "/" is the exception: a mount takes everything there, the
\* plugin only "/" and what begins with "//".
RootClaims(root, query) ==
    RootAccepted(root) /\ root # <<"/">> /\ (query = <<>> \/ starts_with(query, "/")) =>
        (claims(root, query) <=> matches(normalize_mount(root), query))
=============================================================================
